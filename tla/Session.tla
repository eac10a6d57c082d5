-------------------------------- MODULE Session --------------------------------
(***************************************************************************)
(* Who is using the app, as MUser.swift keeps it: the account Firebase     *)
(* signs in (user, of FirestoreClient), the user record stored on the      *)
(* phone, and the user document on the server, named by the account.  The  *)
(* three are changed by separate steps, with the welcome, profile, finish  *)
(* registration and edit profile screens in front.                         *)
(*                                                                         *)
(* A record has an id, the onBoard flag and a name; the name stands for    *)
(* all that the two forms save.  The purchase history is in Checkout.      *)
(***************************************************************************)
EXTENDS FirestoreClient, FiniteSets

CONSTANTS
    Names,
    Blank,     \* no name: a new account
    MaxTries,  \* bound: presses of "login" and "sign up"
    MaxSaves   \* bound: presses of "done" and "save"

VARIABLES
    record,      \* record[d]: kCURRENTUSER of UserDefaults, or None
    registered,  \* the accounts that exist
    verified,    \* those whose address was verified
    signing,     \* signing[d]: sign-ins and sign-ups under way
    reading,     \* reading[d]: reads of a user document under way
    profile,     \* profile[d]: what the profile screen offered when it appeared
    tries, saves

local == <<record, signing, reading, profile>>
world == <<registered, verified>>
vars == <<clientVars, local, world, tries, saves>>

ASSUME SessionAssumption ==
    /\ Keys = Users
    /\ Fields = {"id", "onBoard", "name"}
    /\ Blank \in Names
    /\ NoDoc \notin [id : Users, onBoard : BOOLEAN, name : Names]
    /\ None \notin [id : Users, onBoard : BOOLEAN, name : Names]
    /\ None \notin [dictionary : [id : Users, onBoard : BOOLEAN, name : Names]]

currentUser(d) == IF user[d] = NoUser THEN None ELSE record[d]

NewUser(u) == [id |-> u, onBoard |-> FALSE, name |-> Blank]

With(doc, values) == [f \in DOMAIN doc |-> IF f \in DOMAIN values THEN values[f] ELSE doc[f]]

\* Nothing appeared yet: there is no button to edit or to finish.
NotShown == [edit |-> FALSE, finish |-> FALSE]

Init ==
    /\ server = [k \in Keys |-> NoDoc]
    /\ user = [d \in Devices |-> NoUser]
    /\ ClientInit
    /\ record = [d \in Devices |-> None]
    /\ registered \in SUBSET Users
    /\ verified = registered
    /\ signing = [d \in Devices |-> {}]
    /\ reading = [d \in Devices |-> << >>]
    /\ profile = [d \in Devices |-> NotShown]
    /\ tries = 0
    /\ saves = 0

--------------------------------------------------------------------------------
(* The profile screen (ProfileTableViewController).                        *)

viewDidAppear(d) ==
    /\ profile' = [profile EXCEPT ![d] =
            [edit |-> currentUser(d) # None,
             finish |-> IF currentUser(d) = None THEN FALSE ELSE ~ currentUser(d).onBoard]]
    /\ UNCHANGED <<clientVars, record, signing, reading, world, tries, saves>>

\* The welcome screen can be had from a stale "Login" button, and from the item
\* screen.
WelcomeOffered(d) == ~ profile[d].edit \/ currentUser(d) = None

--------------------------------------------------------------------------------
(* Signing in and up (WelcomeViewController, MUser).                       *)

loginOrSignupTapped(d, u, new) ==
    /\ WelcomeOffered(d)
    /\ tries < MaxTries
    /\ tries' = tries + 1
    /\ signing' = [signing EXCEPT ![d] = @ \cup {[user |-> u, new |-> new]}]
    /\ UNCHANGED <<clientVars, record, reading, profile, world, saves>>

\* Firebase signs u in; the Firestore client follows.
SignIn(d, u) ==
    \/ u # user[d] /\ CredentialChange(d, u)
    \/ u = user[d] /\ UNCHANGED clientVars

loginUserWith(d, u) ==
    /\ u \in registered
    /\ SignIn(d, u)
    /\ reading' = IF u \in verified THEN [reading EXCEPT ![d] = Append(@, u)] ELSE reading
    /\ UNCHANGED world

\* createUser signs the new account in; its record is not read.
registerUserWith(d, u) ==
    /\ u \notin registered
    /\ registered' = registered \cup {u}
    /\ SignIn(d, u)
    /\ UNCHANGED <<reading, verified>>

\* Firebase Auth answers, or an error comes instead.
AuthAnswers(d) ==
    /\ \E s \in signing[d] :
        /\ signing' = [signing EXCEPT ![d] = @ \ {s}]
        /\ \/ online[d] /\ ~ s.new /\ loginUserWith(d, s.user)
           \/ online[d] /\ s.new /\ registerUserWith(d, s.user)
           \/ UNCHANGED <<clientVars, reading, world>>
    /\ UNCHANGED <<record, profile, tries, saves>>

\* The link in the mail is followed.
VerifyEmail(u) ==
    /\ u \in registered \ verified
    /\ verified' = verified \cup {u}
    /\ UNCHANGED <<clientVars, local, registered, tries, saves>>

\* The button is on the edit screen.  A read that is under way goes on.
logOutCurrentUser(d) ==
    /\ profile[d].edit
    /\ \/ user[d] # NoUser /\ CredentialChange(d, NoUser)
       \/ user[d] = NoUser /\ UNCHANGED clientVars
    /\ record' = [record EXCEPT ![d] = None]
    /\ UNCHANGED <<signing, reading, profile, world, tries, saves>>

--------------------------------------------------------------------------------
(* The record.                                                             *)

\* A missing document is an answer when the server says so; when only the cache
\* does, it is an error, and the completion block returns.
downloadUserFromFirestore(d) ==
    /\ \E n \in DOMAIN reading[d] :
        LET u == reading[d][n]
            Arrived(doc) == main' = [main EXCEPT ![d] =
                                Append(@, [kind |-> "user", id |-> u, doc |-> doc])]
            cached == LocalView(d, cache[d])[u]
        IN
        /\ reading' = [reading EXCEPT ![d] =
                        [m \in 1 .. Len(@) - 1 |-> IF m < n THEN @[m] ELSE @[m + 1]]]
        /\ \/ /\ online[d]
              /\ Fetch(d, {u})
              /\ Arrived(LocalView(d, cache'[d])[u])
           \/ /\ ~ online[d] /\ cached # NoDoc
              /\ Arrived(cached)
              /\ UNCHANGED <<cache, queue>>
           \/ UNCHANGED <<cache, queue, main>>
    /\ UNCHANGED <<server, online, user, record, signing, profile, world, tries, saves>>

Block(d) == Head(main[d])

saveUserLocally(d, dictionary) == record' = [record EXCEPT ![d] = dictionary]

\* Variant: the new document is not saved.
newUserLocalOnly(d) ==
    /\ Block(d).kind = "user" /\ Block(d).doc = NoDoc
    /\ saveUserLocally(d, NewUser(Block(d).id))
    /\ UNCHANGED queue

\* Variant: whether there is a document is not looked at.
newUserAlways(d) ==
    /\ Block(d).kind = "user"
    /\ saveUserLocally(d, NewUser(Block(d).id))
    /\ WriteMutations(d, SetData(Block(d).id, NewUser(Block(d).id), None))

\* "there is no user, save new in firestore"
newUserArrived(d) ==
    /\ Block(d).kind = "user" /\ Block(d).doc = NoDoc
    /\ saveUserLocally(d, NewUser(Block(d).id))
    /\ WriteMutations(d, SetData(Block(d).id, NewUser(Block(d).id), None))

\* Variant: the record is left as it was.
userArrivedNotSaved(d) ==
    /\ Block(d).kind = "user" /\ Block(d).doc # NoDoc
    /\ UNCHANGED <<record, queue>>

userArrived(d) ==
    /\ Block(d).kind = "user" /\ Block(d).doc # NoDoc
    /\ saveUserLocally(d, Block(d).doc)
    /\ UNCHANGED queue

\* The server took the update: the record as it was then, with the new values.
userWritten(d) ==
    /\ Block(d).kind = "written"
    /\ IF Block(d).ok THEN saveUserLocally(d, Block(d).tag.dictionary) ELSE UNCHANGED record
    /\ UNCHANGED queue

MainQueue(d) ==
    /\ main[d] # << >>
    /\ main' = [main EXCEPT ![d] = Tail(@)]
    /\ newUserArrived(d) \/ userArrived(d) \/ userWritten(d)
    /\ UNCHANGED <<server, cache, online, user, signing, reading, profile, world, tries, saves>>

\* Variant: the whole record is sent.
updateWithWholeRecord(d, values) ==
    WriteMutations(d, UpdateData(user[d], With(record[d], values),
                                 [dictionary |-> With(record[d], values)]))

\* Variant: the values replace the record instead of joining it.
updateKeepingValues(d, values) ==
    WriteMutations(d, UpdateData(user[d], values, [dictionary |-> values]))

\* The values go to the document of the signed-in account; the record may be
\* another's.
updateCurrentUserInFirestore(d, values) ==
    WriteMutations(d, UpdateData(user[d], values, [dictionary |-> With(record[d], values)]))

--------------------------------------------------------------------------------
(* The process ends, on the user's account or at a forced unwrap.          *)

Terminate(d) ==
    /\ RestartClient(d)
    /\ signing' = [signing EXCEPT ![d] = {}]
    /\ reading' = [reading EXCEPT ![d] = << >>]
    /\ profile' = [profile EXCEPT ![d] = NotShown]
    /\ UNCHANGED <<record, world, tries>>

\* Without a record nothing happens, without an account currentId() traps.
Save(d, values) ==
    /\ saves < MaxSaves
    /\ saves' = saves + 1
    /\ \/ /\ record[d] # None /\ user[d] # NoUser
          /\ updateCurrentUserInFirestore(d, values)
          /\ UNCHANGED <<server, cache, online, user, main, local, world, tries>>
       \/ /\ record[d] # None /\ user[d] = NoUser
          /\ Terminate(d)
       \/ /\ record[d] = None
          /\ UNCHANGED <<clientVars, local, world, tries>>

finishiOnboarding(d, n) ==
    profile[d].finish /\ Save(d, [onBoard |-> TRUE, name |-> n])

saveBarButtonPressed(d, n) ==
    profile[d].edit /\ Save(d, [name |-> n])

--------------------------------------------------------------------------------

appVars == <<local, world, tries, saves>>

ServerDecides(d) ==
    /\ \E i \in DOMAIN pending(d) : CommitWrite(d, i) \/ RefuseWrite(d, i)
    /\ UNCHANGED appVars

ClientLearns(d) == Acknowledge(d) /\ UNCHANGED appVars

NetworkLost(d) == GoOffline(d) /\ UNCHANGED appVars

NetworkBack(d) == GoOnline(d) /\ UNCHANGED appVars

UserActs(d) ==
    \/ \E u \in Users, new \in BOOLEAN : loginOrSignupTapped(d, u, new)
    \/ logOutCurrentUser(d)
    \/ \E n \in Names \ {Blank} : finishiOnboarding(d, n) \/ saveBarButtonPressed(d, n)

AppRuns(d) ==
    \/ AuthAnswers(d)
    \/ downloadUserFromFirestore(d)
    \/ MainQueue(d)

Network(d) == ServerDecides(d) \/ ClientLearns(d) \/ NetworkLost(d) \/ NetworkBack(d)

Next ==
    \/ \E d \in Devices :
        \/ UserActs(d)
        \/ viewDidAppear(d)
        \/ AppRuns(d)
        \/ Network(d)
        \/ Terminate(d) /\ UNCHANGED saves
    \/ \E u \in Users : VerifyEmail(u)

Spec == Init /\ [][Next]_vars

--------------------------------------------------------------------------------
(* Properties                                                              *)

Records == [id : Users, onBoard : BOOLEAN, name : Names]

\* The values the state is made of.
TypeOK ==
    /\ server \in [Keys -> Records \cup {NoDoc}]
    /\ cache \in [Devices -> [Keys -> Records \cup {NoDoc}]]
    /\ user \in [Devices -> Accounts]
    /\ record \in [Devices -> Records \cup {None}]
    /\ registered \subseteq Users /\ verified \subseteq registered
    /\ \A d \in Devices :
        /\ signing[d] \subseteq [user : Users, new : BOOLEAN]
        /\ reading[d] \in Seq(Users)
        /\ profile[d] \in [edit : BOOLEAN, finish : BOOLEAN]

\* A user document carries the id it is stored under, also after an update made
\* with another account's record on the phone: updateCurrentUserInFirestore sends
\* the values only, never the record they are joined to.
DocumentIsOwn == \A u \in Users : server[u] # NoDoc => server[u].id = u

\* A finished registration is undone on the server only by a document saved for a
\* new account (downloadUserFromFirestore), never by a save from one of the forms,
\* with whatever record it is made.
OnBoardLostOnlyToBlank ==
    [][\A u \in Users :
        (server[u] # NoDoc /\ server[u].onBoard /\ ~ server'[u].onBoard)
        => \E d \in Devices : \E i \in DOMAIN pending(d) :
            NextAtServer(d, i) /\ pending(d)[i].op = "set" /\ pending(d)[i].key = u]_vars

\* "Return current user" (MUser.swift:80): the record is the signed-in account's.
CurrentUserIsSignedIn ==
    \A d \in Devices : currentUser(d) # None => currentUser(d).id = user[d]

\* "there is no user, save new in firestore" (MUser.swift:174): the document of a new
\* account is saved where there is none, or where one as new would be saved again.
BlankOnlyForNew ==
    [][\A d \in Devices : \A i \in DOMAIN pending(d) :
        LET w == pending(d)[i] IN
        CommitWrite(d, i) /\ w.op = "set" => server[w.key] \in {NoDoc, NewUser(w.key)}]_vars

================================================================================
