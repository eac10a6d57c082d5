------------------------------ MODULE SessionProofs -----------------------------
(***************************************************************************)
(* Theorems about Session, for any phones, accounts, names and bounds; the *)
(* last part is about users who wait (PatientSession).                     *)
(***************************************************************************)
EXTENDS PatientSession, FirestoreClientProofs

--------------------------------------------------------------------------------
(* What is in the documents, the writes and the blocks.                    *)

\* Under an account's name is a document with that account's id, or none.
Documents == [k \in Keys |-> {r \in Records : r.id = k} \cup {NoDoc}]

Tags == {None} \cup [dictionary : Records]
Fates == {"pending", "committed", "known", "refused"}

\* What the forms send never names the id, and never takes onBoard back.
Values == [onBoard : {TRUE}, name : Names] \cup [name : Names]

Sets == [op : {"set"}, key : Users, fields : Records, tag : Tags, fate : Fates]
Updates == [op : {"update"}, key : Users, fields : Values, tag : Tags, fate : Fates]
Writes == {w \in Sets : w.fields.id = w.key} \cup Updates

Blocks ==
    [kind : {"user"}, id : Users, doc : Records \cup {NoDoc}]
        \cup [kind : {"written"}, tag : [dictionary : Records], ok : BOOLEAN]

ScreensTyped ==
    /\ record \in [Devices -> Records \cup {None}]
    /\ registered \subseteq Users /\ verified \subseteq registered
    /\ signing \in [Devices -> SUBSET [user : Users, new : BOOLEAN]]
    /\ reading \in [Devices -> Seq(Users)]
    /\ profile \in [Devices -> [edit : BOOLEAN, finish : BOOLEAN]]

ClientTyped == ClientHolds(Documents, Writes, Blocks)

SessionInv == ClientTyped /\ ScreensTyped

\* Joining a form's values to a record makes a record of the same account.
LEMMA Joined ==
    ASSUME NEW r \in Records, NEW values \in Values
    PROVE  /\ With(r, values) \in Records
           /\ With(r, values).id = r.id
           /\ r.onBoard => With(r, values).onBoard
<1>1. CASE values \in [onBoard : {TRUE}, name : Names]
  <2>1. With(r, values) = [id |-> r.id, onBoard |-> values.onBoard, name |-> values.name]
    BY <1>1 DEF With, Records
  <2>2. values.onBoard = TRUE /\ values.name \in Names /\ r.id \in Users
    BY <1>1 DEF Records
  <2>3. With(r, values) = [id |-> r.id, onBoard |-> TRUE, name |-> values.name]
    BY <2>1, <2>2
  <2> QED
    BY <2>2, <2>3 DEF Records
<1>2. CASE values \in [name : Names]
  <2>1. With(r, values) = [id |-> r.id, onBoard |-> r.onBoard, name |-> values.name]
    BY <1>2 DEF With, Records
  <2> QED
    BY <1>2, <2>1 DEF Records
<1> QED
  BY <1>1, <1>2 DEF Values

\* The server joins in the same way.
LEMMA AppliedJoins ==
    ASSUME NEW w \in Updates, NEW doc
    PROVE  Applied(w, doc) = IF doc = NoDoc THEN NoDoc ELSE With(doc, w.fields)
BY DEF Applied, With, Updates

LEMMA WritesClosed == Closed(Documents, Writes, Blocks)
<1> SUFFICES ASSUME NEW w \in Writes
             PROVE  /\ w.key \in Keys
                    /\ \A fate \in Fates : [w EXCEPT !.fate = fate] \in Writes
                    /\ [w EXCEPT !.tag = None] \in Writes
                    /\ \A doc \in Documents[w.key] : Applied(w, doc) \in Documents[w.key]
                    /\ w.tag # None => Written(w) \in Blocks
  BY DEF Closed, Fates
<1>1. w.key \in Keys /\ w.key \in Users
  BY SessionAssumption DEF Writes, Sets, Updates
<1>2. CASE w \in Sets /\ w.fields.id = w.key
  <2>1. \A fate \in Fates : [w EXCEPT !.fate = fate] \in Sets
                            /\ [w EXCEPT !.fate = fate].fields.id = [w EXCEPT !.fate = fate].key
    BY <1>2 DEF Sets
  <2>2. /\ [w EXCEPT !.tag = None] \in Sets
        /\ [w EXCEPT !.tag = None].fields.id = [w EXCEPT !.tag = None].key
    BY <1>2 DEF Sets, Tags
  <2>3. \A doc : Applied(w, doc) = w.fields /\ w.fields \in Documents[w.key]
    BY <1>1, <1>2 DEF Applied, Sets, Documents
  <2>4. w.tag # None => Written(w) \in Blocks
    BY <1>2 DEF Written, Blocks, Sets, Tags, Accepted
  <2> QED
    BY <1>1, <2>1, <2>2, <2>3, <2>4 DEF Writes
<1>3. CASE w \in Updates
  <2>1. \A fate \in Fates : [w EXCEPT !.fate = fate] \in Updates
    BY <1>3 DEF Updates
  <2>2. [w EXCEPT !.tag = None] \in Updates
    BY <1>3 DEF Updates, Tags
  <2>3. ASSUME NEW doc \in Documents[w.key]
        PROVE  Applied(w, doc) \in Documents[w.key]
    <3>1. w.fields \in Values
      BY <1>3 DEF Updates
    <3>2. doc = NoDoc \/ (doc \in Records /\ doc.id = w.key)
      BY <1>1 DEF Documents
    <3>3. Applied(w, doc) = NoDoc
             \/ (Applied(w, doc) \in Records /\ Applied(w, doc).id = w.key)
      BY <1>3, <3>1, <3>2, Joined, AppliedJoins
    <3> QED
      BY <1>1, <3>3 DEF Documents
  <2>4. w.tag # None => Written(w) \in Blocks
    BY <1>3 DEF Written, Blocks, Updates, Tags, Accepted
  <2> QED
    BY <1>1, <2>1, <2>2, <2>3, <2>4 DEF Writes
<1> QED
  BY <1>2, <1>3 DEF Writes

--------------------------------------------------------------------------------
(* Reads.                                                                  *)

\* What a write gives a field.
LEMMA TouchesGives ==
    ASSUME NEW w \in Writes, NEW k, NEW f, Touches(w, k, f)
    PROVE  /\ w.key = k
           /\ f = "id" => w.fields.id = k
           /\ f = "onBoard" => w.fields.onBoard \in BOOLEAN
           /\ f = "name" => w.fields.name \in Names
BY DEF Touches, Writes, Sets, Updates, Values, Records

LEMMA SetTouches ==
    ASSUME NEW w \in Writes, w.op = "set", NEW f \in Fields
    PROVE  Touches(w, w.key, f)
BY SessionAssumption DEF Touches, Writes, Sets, Updates, Records

\* Pending writes laid over a good document make a good document.
LEMMA LocalDocGood ==
    ASSUME NEW k \in Keys, NEW base \in Documents[k], NEW ws \in Seq(Writes)
    PROVE  LocalDoc(base, ws, k) \in Documents[k]
<1> DEFINE doc == LocalDoc(base, ws, k)
<1>1. CASE doc = NoDoc
  BY <1>1 DEF Documents
<1>2. CASE doc # NoDoc
  <2>1. \A i \in DOMAIN ws : ws[i] \in Writes
    OBVIOUS
  <2>2. "id" \in Fields /\ "onBoard" \in Fields /\ "name" \in Fields /\ k \in Users
    BY SessionAssumption
  <2>3. base = NoDoc => \E i \in DOMAIN ws : \A f \in Fields : Touches(ws[i], k, f)
    <3>1. base = NoDoc => \E i \in DOMAIN ws : ws[i].key = k /\ ws[i].op = "set"
      BY <1>2, LocalDocShape
    <3> QED
      BY <2>1, <3>1, SetTouches
  <2>4. base # NoDoc => base \in Records /\ base.id = k
    BY DEF Documents
  <2>5. \A f \in Fields :
           \/ doc[f] = base[f] /\ \A i \in DOMAIN ws : ~ Touches(ws[i], k, f)
           \/ \E i \in DOMAIN ws : Touches(ws[i], k, f) /\ doc[f] = ws[i].fields[f]
    BY <1>2, LocalDocField
  <2>6. \A f \in Fields :
           \/ doc[f] = base[f] /\ base \in Records /\ base.id = k
           \/ \E i \in DOMAIN ws : Touches(ws[i], k, f) /\ doc[f] = ws[i].fields[f]
    BY <2>3, <2>4, <2>5
  <2>7. doc = [g \in Fields |-> doc[g]]
    BY <1>2, LocalDocShape
  <2> HIDE DEF doc
  <2>8. doc["id"] = k
    BY <2>1, <2>2, <2>6, TouchesGives
  <2>9. doc["onBoard"] \in BOOLEAN
    BY <2>1, <2>2, <2>6, TouchesGives DEF Records
  <2>10. doc["name"] \in Names
    BY <2>1, <2>2, <2>6, TouchesGives DEF Records
  <2>11. doc = [id |-> doc["id"], onBoard |-> doc["onBoard"], name |-> doc["name"]]
    BY <2>7, SessionAssumption
  <2>12. doc \in Records /\ doc.id = k
    BY <2>2, <2>8, <2>9, <2>10, <2>11 DEF Records
  <2> QED
    BY <2>12 DEF Documents, doc
<1> QED
  BY <1>1, <1>2

LEMMA ViewGood ==
    ASSUME NEW d \in Devices, pending(d) \in Seq(Writes), NEW base \in Views(Documents),
           NEW u \in Users
    PROVE  LocalView(d, base)[u] \in Records \cup {NoDoc}
<1>1. u \in Keys /\ base[u] \in Documents[u]
  BY SessionAssumption DEF Views
<1>2. LocalDoc(base[u], pending(d), u) \in Documents[u]
  BY <1>1, LocalDocGood
<1>3. LocalView(d, base)[u] = LocalDoc(base[u], pending(d), u)
  BY <1>1 DEF LocalView
<1> QED
  BY <1>1, <1>2, <1>3 DEF Documents

--------------------------------------------------------------------------------
(* The steps.                                                              *)

USE DEF ClientTyped

LEMMA InitHolds == Init => SessionInv
<1> SUFFICES ASSUME Init PROVE SessionInv
  OBVIOUS
<1>1. server \in Views(Documents)
  BY DEF Init, Views, Documents
<1>2. ClientTyped
  BY <1>1 DEF Init, ClientInit, ClientHolds, Accounts
<1>3. ScreensTyped
  BY DEF Init, ScreensTyped, NotShown
<1> QED
  BY <1>2, <1>3 DEF SessionInv

\* Signing in changes the client or not.
LEMMA SignInHolds ==
    ASSUME ClientTyped, NEW d \in Devices, NEW u \in Users, SignIn(d, u)
    PROVE  ClientTyped'
<1>1. CASE CredentialChange(d, u)
  BY <1>1, WritesClosed, CredentialHolds DEF Accounts
<1>2. CASE UNCHANGED clientVars
  BY <1>2 DEF clientVars, ClientHolds
<1> QED
  BY <1>1, <1>2 DEF SignIn

LEMMA AuthHolds ==
    ASSUME SessionInv, NEW d \in Devices, AuthAnswers(d)
    PROVE  SessionInv'
<1>1. ClientTyped /\ ScreensTyped
  BY DEF SessionInv
<1>2. PICK s \in signing[d] :
        /\ signing' = [signing EXCEPT ![d] = @ \ {s}]
        /\ \/ loginUserWith(d, s.user)
           \/ registerUserWith(d, s.user)
           \/ UNCHANGED <<clientVars, reading, world>>
  BY DEF AuthAnswers
<1>3. s.user \in Users
  BY <1>1 DEF ScreensTyped
<1>4. UNCHANGED <<record, profile>>
  BY DEF AuthAnswers
<1>5. signing' \in [Devices -> SUBSET [user : Users, new : BOOLEAN]]
  BY <1>1, <1>2 DEF ScreensTyped
<1>6. CASE loginUserWith(d, s.user)
  <2>1. ClientTyped'
    BY <1>1, <1>3, <1>6, SignInHolds DEF loginUserWith
  <2>2. reading' \in [Devices -> Seq(Users)]
    BY <1>1, <1>3, <1>6 DEF loginUserWith, ScreensTyped
  <2> QED
    BY <1>1, <1>4, <1>5, <1>6, <2>1, <2>2 DEF SessionInv, ScreensTyped, loginUserWith, world
<1>7. CASE registerUserWith(d, s.user)
  <2>1. ClientTyped'
    BY <1>1, <1>3, <1>7, SignInHolds DEF registerUserWith
  <2> QED
    BY <1>1, <1>3, <1>4, <1>5, <1>7, <2>1 DEF SessionInv, ScreensTyped, registerUserWith
<1>8. CASE UNCHANGED <<clientVars, reading, world>>
  <2>1. ClientTyped'
    BY <1>1, <1>8 DEF clientVars, ClientHolds
  <2> QED
    BY <1>1, <1>4, <1>5, <1>8, <2>1 DEF SessionInv, ScreensTyped, world
<1> QED
  BY <1>2, <1>6, <1>7, <1>8

\* One read of many is answered.
LEMMA ReadLeaves ==
    ASSUME NEW q \in Seq(Users), NEW n \in DOMAIN q
    PROVE  [m \in 1 .. Len(q) - 1 |-> IF m < n THEN q[m] ELSE q[m + 1]] \in Seq(Users)
<1>1. Len(q) \in Nat /\ Len(q) >= 1 /\ Len(q) - 1 \in Nat /\ n \in 1 .. Len(q)
  OBVIOUS
<1>2. \A m \in 1 .. Len(q) - 1 : m \in DOMAIN q /\ m + 1 \in DOMAIN q
  BY <1>1
<1>3. \A m \in 1 .. Len(q) - 1 : (IF m < n THEN q[m] ELSE q[m + 1]) \in Users
  BY <1>2
<1> QED
  BY <1>1, <1>3

LEMMA DownloadHolds ==
    ASSUME SessionInv, NEW d \in Devices, downloadUserFromFirestore(d)
    PROVE  SessionInv'
<1>1. ClientTyped /\ ScreensTyped /\ d \in Devices
  BY DEF SessionInv
<1> DEFINE Arrived(u, doc) ==
             main' = [main EXCEPT ![d] = Append(@, [kind |-> "user", id |-> u, doc |-> doc])]
<1>2. PICK n \in DOMAIN reading[d] :
        /\ reading' = [reading EXCEPT ![d] =
                        [m \in 1 .. Len(@) - 1 |-> IF m < n THEN @[m] ELSE @[m + 1]]]
        /\ \/ /\ Fetch(d, {reading[d][n]})
              /\ Arrived(reading[d][n], LocalView(d, cache'[d])[reading[d][n]])
           \/ /\ Arrived(reading[d][n], LocalView(d, cache[d])[reading[d][n]])
              /\ UNCHANGED <<cache, queue>>
           \/ UNCHANGED <<cache, queue, main>>
  BY DEF downloadUserFromFirestore
<1> DEFINE u == reading[d][n]
<1>3. UNCHANGED <<server, online, user, record, signing, profile, registered, verified>>
  BY DEF downloadUserFromFirestore, world
<1>4. reading[d] \in Seq(Users) /\ u \in Users
  BY <1>1 DEF ScreensTyped
<1>5. reading' \in [Devices -> Seq(Users)]
  <2> DEFINE rest == [m \in 1 .. Len(reading[d]) - 1 |->
                        IF m < n THEN reading[d][m] ELSE reading[d][m + 1]]
  <2>1. rest \in Seq(Users)
    BY <1>4, ReadLeaves
  <2>2. reading' = [reading EXCEPT ![d] = rest]
    BY <1>2
  <2> HIDE DEF rest
  <2> QED
    BY <1>1, <2>1, <2>2 DEF ScreensTyped
<1>6. pending(d) \in Seq(Writes) /\ cache[d] \in Views(Documents)
  BY <1>1 DEF pending, ClientHolds
<1> HIDE DEF u
<1>7. ASSUME NEW doc \in Records \cup {NoDoc}, Arrived(u, doc)
      PROVE  main' \in [Devices -> Seq(Blocks)]
  <2>1. [kind |-> "user", id |-> u, doc |-> doc] \in Blocks
    BY <1>4, <1>7 DEF Blocks
  <2>2. Append(main[d], [kind |-> "user", id |-> u, doc |-> doc]) \in Seq(Blocks)
    BY <1>1, <2>1 DEF ClientHolds
  <2> QED
    BY <1>1, <1>7, <2>2 DEF ClientHolds
<1>8. /\ cache' \in [Devices -> Views(Documents)]
      /\ queue' \in [Devices -> [Accounts -> Seq(Writes)]]
      /\ main' \in [Devices -> Seq(Blocks)]
  <2>1. CASE Fetch(d, {u}) /\ Arrived(u, LocalView(d, cache'[d])[u])
    <3>1. /\ cache' \in [Devices -> Views(Documents)]
          /\ queue' \in [Devices -> [Accounts -> Seq(Writes)]]
          /\ cache'[d] \in Views(Documents)
      BY <1>1, <2>1, WritesClosed, FetchHolds
    <3>2. LocalView(d, cache'[d])[u] \in Records \cup {NoDoc}
      BY <1>4, <1>6, <3>1, ViewGood
    <3> QED
      BY <1>7, <2>1, <3>1, <3>2
  <2>2. CASE Arrived(u, LocalView(d, cache[d])[u]) /\ UNCHANGED <<cache, queue>>
    <3>1. LocalView(d, cache[d])[u] \in Records \cup {NoDoc}
      BY <1>4, <1>6, ViewGood
    <3> QED
      BY <1>1, <1>7, <2>2, <3>1 DEF ClientHolds
  <2>3. CASE UNCHANGED <<cache, queue, main>>
    BY <1>1, <2>3 DEF ClientHolds
  <2> QED
    BY <1>2, <2>1, <2>2, <2>3 DEF u
<1>9. ClientTyped'
  BY <1>1, <1>3, <1>8 DEF ClientHolds
<1> QED
  BY <1>1, <1>3, <1>5, <1>9 DEF SessionInv, ScreensTyped

\* A write handed over while nothing else of the client changes but the main queue.
LEMMA HandedOver ==
    ASSUME ClientTyped, NEW d \in Devices, NEW w \in Writes, WriteMutations(d, w),
           UNCHANGED <<server, cache, online, user>>, main' \in [Devices -> Seq(Blocks)]
    PROVE  ClientTyped'
BY WriteHolds

LEMMA MainQueueHolds ==
    ASSUME SessionInv, NEW d \in Devices, MainQueue(d)
    PROVE  SessionInv'
<1>1. ClientTyped /\ ScreensTyped
  BY DEF SessionInv
<1>2. /\ main[d] \in Seq(Blocks) /\ main[d] # << >>
      /\ main' = [main EXCEPT ![d] = Tail(main[d])]
      /\ UNCHANGED <<server, cache, online, user, signing, reading, profile, registered, verified>>
  BY <1>1 DEF MainQueue, ClientHolds, world
<1>3. Block(d) \in Blocks /\ Tail(main[d]) \in Seq(Blocks)
  BY <1>2 DEF Block
<1>4. main' \in [Devices -> Seq(Blocks)]
  BY <1>1, <1>2, <1>3 DEF ClientHolds
<1>5. ASSUME NEW r \in Records \cup {None}, saveUserLocally(d, r) \/ UNCHANGED record,
             ClientTyped'
      PROVE  SessionInv'
  <2>1. record' \in [Devices -> Records \cup {None}]
    BY <1>1, <1>5 DEF saveUserLocally, ScreensTyped
  <2> QED
    BY <1>1, <1>2, <1>5, <2>1 DEF SessionInv, ScreensTyped
<1>6. ASSUME UNCHANGED queue PROVE ClientTyped'
  BY <1>1, <1>2, <1>4, <1>6 DEF ClientHolds
<1>7. CASE newUserArrived(d)
  <2> DEFINE u == Block(d).id
  <2>1. u \in Users
    BY <1>3, <1>7 DEF newUserArrived, Blocks
  <2>2. NewUser(u) \in Records /\ NewUser(u).id = u
    <3>1. Blank \in Names
      BY SessionAssumption
    <3> QED
      BY <2>1, <3>1 DEF NewUser, Records
  <2>3. SetData(u, NewUser(u), None) \in Writes
    BY <2>1, <2>2 DEF SetData, Writes, Sets, Tags, Fates
  <2>4. WriteMutations(d, SetData(u, NewUser(u), None)) /\ saveUserLocally(d, NewUser(u))
    BY <1>7 DEF newUserArrived
  <2>5. ClientTyped'
    BY <1>1, <1>2, <1>4, <2>3, <2>4, HandedOver
  <2> QED
    BY <1>5, <2>2, <2>4, <2>5
<1>8. CASE userArrived(d)
  <2>1. Block(d).doc \in Records
    BY <1>3, <1>8 DEF userArrived, Blocks
  <2> QED
    BY <1>5, <1>6, <1>8, <2>1 DEF userArrived
<1>9. CASE userWritten(d)
  <2>1. Block(d).tag.dictionary \in Records
    BY <1>3, <1>9 DEF userWritten, Blocks
  <2> QED
    BY <1>5, <1>6, <1>9, <2>1 DEF userWritten
<1> QED
  BY <1>7, <1>8, <1>9 DEF MainQueue

LEMMA TerminateHolds ==
    ASSUME SessionInv, NEW d \in Devices, Terminate(d)
    PROVE  SessionInv'
<1>1. ClientTyped /\ ScreensTyped
  BY DEF SessionInv
<1>2. RestartFrom(d, queue[d]) /\ queue[d] \in [Accounts -> Seq(Writes)]
  BY <1>1 DEF Terminate, RestartClient, ClientHolds
<1>3. ClientTyped'
  BY <1>1, <1>2, WritesClosed, RestartHolds
<1>4. ScreensTyped'
  BY <1>1 DEF Terminate, ScreensTyped, NotShown, world
<1> QED
  BY <1>3, <1>4 DEF SessionInv

LEMMA SaveHolds ==
    ASSUME SessionInv, NEW d \in Devices, NEW values \in Values, Save(d, values)
    PROVE  SessionInv'
<1>1. ClientTyped /\ ScreensTyped
  BY DEF SessionInv
<1>2. CASE /\ record[d] # None /\ user[d] # NoUser
           /\ updateCurrentUserInFirestore(d, values)
           /\ UNCHANGED <<server, cache, online, user, main, local, world, tries>>
  <2> DEFINE joined == With(record[d], values)
             w == UpdateData(user[d], values, [dictionary |-> joined])
  <2>1. record[d] \in Records /\ user[d] \in Users
    BY <1>1, <1>2 DEF ScreensTyped, ClientHolds, Accounts
  <2>2. joined \in Records
    BY <2>1, Joined
  <2> HIDE DEF joined
  <2>3. w \in Writes
    BY <2>1, <2>2 DEF UpdateData, Writes, Updates, Tags, Fates
  <2>4. WriteMutations(d, w)
    BY <1>2 DEF updateCurrentUserInFirestore, joined
  <2>5. main' \in [Devices -> Seq(Blocks)]
    BY <1>1, <1>2 DEF ClientHolds
  <2> HIDE DEF w
  <2>6. ClientTyped'
    BY <1>1, <1>2, <2>3, <2>4, <2>5, HandedOver
  <2> QED
    BY <1>1, <1>2, <2>6 DEF SessionInv, ScreensTyped, local, world
<1>3. CASE Terminate(d)
  BY <1>3, TerminateHolds
<1>4. CASE UNCHANGED <<clientVars, local, world, tries>>
  BY <1>1, <1>4 DEF SessionInv, ScreensTyped, ClientHolds, clientVars, local, world
<1> QED
  BY <1>2, <1>3, <1>4 DEF Save

\* The client alone runs, and the screens stay.
LEMMA NetworkStepHolds ==
    ASSUME SessionInv, NEW d \in Devices, Network(d)
    PROVE  SessionInv'
<1>1. ClientTyped /\ ScreensTyped
  BY DEF SessionInv
<1>2. ASSUME ClientTyped', UNCHANGED appVars PROVE SessionInv'
  BY <1>1, <1>2 DEF SessionInv, ScreensTyped, appVars, local, world
<1>3. CASE ServerDecides(d)
  <2>1. PICK i \in DOMAIN pending(d) : CommitWrite(d, i) \/ RefuseWrite(d, i)
    BY <1>3 DEF ServerDecides
  <2>2. ClientTyped'
    BY <1>1, <2>1, WritesClosed, CommitHolds, RefuseHolds
  <2> QED
    BY <1>2, <1>3, <2>2 DEF ServerDecides
<1>4. CASE ClientLearns(d)
  BY <1>1, <1>2, <1>4, WritesClosed, AcknowledgeHolds DEF ClientLearns
<1>5. CASE NetworkLost(d) \/ NetworkBack(d)
  BY <1>1, <1>2, <1>5, WritesClosed, NetworkHolds DEF NetworkLost, NetworkBack
<1> QED
  BY <1>3, <1>4, <1>5 DEF Network

LEMMA LogOutHolds ==
    ASSUME SessionInv, NEW d \in Devices, logOutCurrentUser(d)
    PROVE  SessionInv'
<1>1. ClientTyped /\ ScreensTyped
  BY DEF SessionInv
<1>2. ClientTyped'
  <2>1. CASE CredentialChange(d, NoUser)
    BY <1>1, <2>1, WritesClosed, CredentialHolds DEF Accounts
  <2>2. CASE UNCHANGED clientVars
    BY <1>1, <2>2 DEF clientVars, ClientHolds
  <2> QED
    BY <2>1, <2>2 DEF logOutCurrentUser
<1>3. ScreensTyped'
  BY <1>1 DEF logOutCurrentUser, ScreensTyped, world
<1> QED
  BY <1>2, <1>3 DEF SessionInv

\* Steps of the user and of the profile screen that leave the client alone.
LEMMA ScreenStepHolds ==
    ASSUME SessionInv, NEW d \in Devices,
           \/ viewDidAppear(d)
           \/ \E u \in Users, new \in BOOLEAN : loginOrSignupTapped(d, u, new)
           \/ \E u \in Users : VerifyEmail(u)
           \/ UNCHANGED vars
    PROVE  SessionInv'
<1>1. ClientTyped /\ ScreensTyped
  BY DEF SessionInv
<1>2. UNCHANGED clientVars
  BY DEF viewDidAppear, loginOrSignupTapped, VerifyEmail, vars
<1>3. ClientTyped'
  BY <1>1, <1>2 DEF clientVars, ClientHolds
<1>4. CASE viewDidAppear(d)
  <2>1. currentUser(d) \in Records \cup {None}
    BY <1>1 DEF currentUser, ScreensTyped
  <2>2. [edit |-> currentUser(d) # None,
         finish |-> IF currentUser(d) = None THEN FALSE ELSE ~ currentUser(d).onBoard]
            \in [edit : BOOLEAN, finish : BOOLEAN]
    OBVIOUS
  <2>3. profile' \in [Devices -> [edit : BOOLEAN, finish : BOOLEAN]]
    BY <1>1, <1>4, <2>2 DEF viewDidAppear, ScreensTyped
  <2> QED
    BY <1>1, <1>3, <1>4, <2>3 DEF viewDidAppear, SessionInv, ScreensTyped, world
<1>5. CASE \E u \in Users, new \in BOOLEAN : loginOrSignupTapped(d, u, new)
  <2>1. PICK u \in Users, new \in BOOLEAN : loginOrSignupTapped(d, u, new)
    BY <1>5
  <2>2. [user |-> u, new |-> new] \in [user : Users, new : BOOLEAN]
    OBVIOUS
  <2>3. signing' \in [Devices -> SUBSET [user : Users, new : BOOLEAN]]
    BY <1>1, <2>1, <2>2 DEF loginOrSignupTapped, ScreensTyped
  <2> QED
    BY <1>1, <1>3, <2>1, <2>3 DEF loginOrSignupTapped, SessionInv, ScreensTyped, world
<1>6. CASE \E u \in Users : VerifyEmail(u)
  BY <1>1, <1>3, <1>6 DEF VerifyEmail, SessionInv, ScreensTyped, local
<1>7. CASE UNCHANGED vars
  BY <1>1, <1>3, <1>7 DEF vars, SessionInv, ScreensTyped, local, world
<1> QED
  BY <1>4, <1>5, <1>6, <1>7

LEMMA StepHolds == SessionInv /\ [Next]_vars => SessionInv'
<1> SUFFICES ASSUME SessionInv, [Next]_vars PROVE SessionInv'
  OBVIOUS
<1>1. ASSUME NEW d \in Devices, UserActs(d) PROVE SessionInv'
  <2>1. ASSUME NEW n \in Names, finishiOnboarding(d, n) \/ saveBarButtonPressed(d, n)
        PROVE  SessionInv'
    <3>1. [onBoard |-> TRUE, name |-> n] \in Values /\ [name |-> n] \in Values
      BY DEF Values
    <3> QED
      BY <2>1, <3>1, SaveHolds DEF finishiOnboarding, saveBarButtonPressed
  <2> QED
    BY <1>1, <2>1, LogOutHolds, ScreenStepHolds DEF UserActs
<1>2. ASSUME NEW d \in Devices, viewDidAppear(d) PROVE SessionInv'
  BY <1>2, ScreenStepHolds
<1>3. ASSUME NEW d \in Devices, AppRuns(d) PROVE SessionInv'
  BY <1>3, AuthHolds, DownloadHolds, MainQueueHolds DEF AppRuns
<1>4. ASSUME NEW d \in Devices, Network(d) PROVE SessionInv'
  BY <1>4, NetworkStepHolds
<1>5. ASSUME NEW d \in Devices, Terminate(d) PROVE SessionInv'
  BY <1>5, TerminateHolds
<1>6. ASSUME UNCHANGED clientVars, UNCHANGED local,
             registered' = registered, verified' \subseteq registered
      PROVE  SessionInv'
  BY <1>6 DEF SessionInv, ScreensTyped, ClientHolds, clientVars, local
<1>7. ASSUME NEW u \in Users, VerifyEmail(u) PROVE SessionInv'
  BY <1>6, <1>7 DEF VerifyEmail, SessionInv, ScreensTyped
<1>8. CASE UNCHANGED vars
  BY <1>6, <1>8 DEF vars, world, SessionInv, ScreensTyped
<1> QED
  BY <1>1, <1>2, <1>3, <1>4, <1>5, <1>7, <1>8 DEF Next

--------------------------------------------------------------------------------
(* The theorems.                                                           *)

LEMMA SessionInvariant == Spec => []SessionInv
BY InitHolds, StepHolds, PTL DEF Spec

\* The account, the record on the phone and the user documents keep to their types.
THEOREM SessionTypeCorrect == Spec => []TypeOK
<1>1. SessionInv => TypeOK
  <2> SUFFICES ASSUME SessionInv PROVE TypeOK
    OBVIOUS
  <2>1. ClientTyped /\ ScreensTyped
    BY DEF SessionInv
  <2>2. Views(Documents) \subseteq [Keys -> Records \cup {NoDoc}]
    BY DEF Views, Documents
  <2> QED
    BY <2>1, <2>2 DEF TypeOK, ClientHolds, ScreensTyped
<1> QED
  BY <1>1, SessionInvariant, PTL

\* A user document carries the id it is stored under, whatever the record on the phone
\* was when a form was saved (updateCurrentUserInFirestore).
THEOREM DocumentsAreOwn == Spec => []DocumentIsOwn
<1>1. SessionInv => DocumentIsOwn
  BY SessionAssumption DEF SessionInv, ClientHolds, Views, Documents, DocumentIsOwn
<1> QED
  BY <1>1, SessionInvariant, PTL

\* Only the server's decision changes a document.
LEMMA OnlyCommits ==
    ASSUME Next
    PROVE  \/ UNCHANGED server
           \/ \E d \in Devices : \E i \in DOMAIN pending(d) : CommitWrite(d, i)
<1>1. ASSUME NEW d \in Devices, UserActs(d) PROVE UNCHANGED server
  <2>1. ASSUME Terminate(d) PROVE UNCHANGED server
    BY <2>1 DEF Terminate, RestartClient, RestartFrom
  <2>2. ASSUME NEW values, Save(d, values) PROVE UNCHANGED server
    BY <2>1, <2>2 DEF Save, clientVars
  <2>3. ASSUME logOutCurrentUser(d) PROVE UNCHANGED server
    BY <2>3 DEF logOutCurrentUser, CredentialChange, clientVars
  <2> QED
    BY <1>1, <2>2, <2>3
    DEF UserActs, loginOrSignupTapped, finishiOnboarding, saveBarButtonPressed, clientVars
<1>2. ASSUME NEW d \in Devices, AppRuns(d) PROVE UNCHANGED server
  <2>1. ASSUME AuthAnswers(d) PROVE UNCHANGED server
    BY <2>1 DEF AuthAnswers, loginUserWith, registerUserWith, SignIn, CredentialChange, clientVars
  <2> QED
    BY <1>2, <2>1 DEF AppRuns, downloadUserFromFirestore, MainQueue
<1>3. ASSUME NEW d \in Devices, Network(d)
      PROVE  UNCHANGED server \/ \E i \in DOMAIN pending(d) : CommitWrite(d, i)
  BY <1>3 DEF Network, ServerDecides, RefuseWrite, ClientLearns, Acknowledge, NetworkLost,
              NetworkBack, GoOffline, GoOnline
<1>4. ASSUME NEW d \in Devices, Terminate(d) \/ viewDidAppear(d) PROVE UNCHANGED server
  BY <1>4 DEF Terminate, RestartClient, RestartFrom, viewDidAppear, clientVars
<1>5. ASSUME NEW u \in Users, VerifyEmail(u) PROVE UNCHANGED server
  BY <1>5 DEF VerifyEmail, clientVars
<1> QED
  BY <1>1, <1>2, <1>3, <1>4, <1>5 DEF Next

\* A finished registration is undone only by a document saved for a new account: no
\* write of a form takes onBoard back, in whatever order and however often it is sent.
THEOREM OnBoardKept == Spec => OnBoardLostOnlyToBlank
<1> DEFINE Lost(u) == server[u] # NoDoc /\ server[u].onBoard /\ ~ server'[u].onBoard
           Blanked(u) == \E d \in Devices : \E i \in DOMAIN pending(d) :
                NextAtServer(d, i) /\ pending(d)[i].op = "set" /\ pending(d)[i].key = u
<1>1. SessionInv /\ [Next]_vars => [\A u \in Users : Lost(u) => Blanked(u)]_vars
  <2> SUFFICES ASSUME SessionInv, Next, NEW u \in Users, Lost(u)
               PROVE  Blanked(u)
    OBVIOUS
  <2>1. PICK d \in Devices : \E i \in DOMAIN pending(d) : CommitWrite(d, i)
    BY OnlyCommits DEF Views
  <2>0. PICK i \in DOMAIN pending(d) : CommitWrite(d, i)
    BY <2>1
  <2> DEFINE w == pending(d)[i]
  <2>2. w \in Writes /\ server \in Views(Documents) /\ u \in Keys /\ w.key \in Keys
    <3>1. pending(d) \in Seq(Writes) /\ server \in Views(Documents)
      BY DEF SessionInv, ClientTyped, ClientHolds, pending
    <3>2. w \in Writes
      BY <2>0, <3>1 DEF CommitWrite
    <3> QED
      BY <3>1, <3>2, SessionAssumption, WritesClosed DEF Closed
  <2>3. server' = [server EXCEPT ![w.key] = Applied(w, server[w.key])]
        /\ NextAtServer(d, i)
    BY <2>0 DEF CommitWrite
  <2>4. w.key = u
    BY <2>2, <2>3 DEF Views
  <2>5. server[u] \in Records
    BY <2>2 DEF Views, Documents
  <2> HIDE DEF w
  <2>6. server'[u] = Applied(w, server[u])
    BY <2>2, <2>3, <2>4 DEF Views
  <2>7. w \notin Updates
    <3>1. SUFFICES ASSUME w \in Updates PROVE FALSE
      OBVIOUS
    <3>2. w.fields \in Values
      BY <3>1 DEF Updates
    <3>3. server'[u] = With(server[u], w.fields)
      BY <2>6, <3>1, AppliedJoins
    <3> QED
      BY <2>5, <3>2, <3>3, Joined
  <2>8. w.op = "set"
    BY <2>2, <2>7 DEF Writes, Sets
  <2> QED
    BY <2>3, <2>4, <2>8 DEF w
<1>2. Spec => [][\A u \in Users : Lost(u) => Blanked(u)]_vars
  BY <1>1, SessionInvariant, PTL DEF Spec
<1> QED
  BY <1>2 DEF OnBoardLostOnlyToBlank

--------------------------------------------------------------------------------
(* Users who wait (PatientSession): one phone at a time is busy, with one  *)
(* thing.                                                                  *)

\* The writes that phone d keeps are the one of the account that is signed in.
OnlyWrite(d, w) ==
    queue[d] = [u \in Accounts |-> IF u = user[d] THEN <<w>> ELSE << >>]

NoWrites(d) == queue[d] = [u \in Accounts |-> << >>]

Idle(d) == signing[d] = {} /\ reading[d] = << >> /\ main[d] = << >>

\* The record is what the server has.
RecordRight(d) ==
    record[d] # None => record[d] = server[record[d].id] /\ record[d].id = user[d]

\* Nobody else is signed in with this account.
Alone(d) == \A e \in Devices \ {d} : user[e] # user[d]

Rests(d) == Idle(d) /\ NoWrites(d) /\ RecordRight(d)

SigningIn(d) ==
    /\ reading[d] = << >> /\ main[d] = << >> /\ NoWrites(d)
    /\ \E s \in [user : Users, new : BOOLEAN] : signing[d] = {s}
    /\ record[d] = None

Reads(d) ==
    /\ signing[d] = {} /\ main[d] = << >> /\ NoWrites(d)
    /\ user[d] \in Users
    /\ reading[d] = <<user[d]>>
    /\ record[d] = None

HasAnswer(d) ==
    /\ signing[d] = {} /\ reading[d] = << >> /\ NoWrites(d)
    /\ user[d] \in Users
    /\ main[d] = <<[kind |-> "user", id |-> user[d], doc |-> server[user[d]]]>>
    /\ record[d] = None

\* The document of a new account is on its way, or a form's values are.
Creates(d) ==
    /\ Idle(d)
    /\ record[d] = NewUser(user[d]) /\ user[d] \in Users
    /\ server[user[d]] \in {NoDoc, NewUser(user[d])}
    /\ \E fate \in {"pending", "committed", "known"} :
        /\ OnlyWrite(d, [SetData(user[d], NewUser(user[d]), None) EXCEPT !.fate = fate])
        /\ fate \in Accepted => server[user[d]] = NewUser(user[d])

Saves(d) ==
    /\ Idle(d) /\ Alone(d)
    /\ user[d] \in Users /\ record[d] \in Records /\ record[d].id = user[d]
    /\ \E fate \in {"pending", "committed", "known"}, values \in Values :
        LET joined == With(record[d], values) IN
        /\ OnlyWrite(d, [UpdateData(user[d], values, [dictionary |-> joined])
                            EXCEPT !.fate = fate])
        /\ server[user[d]] \in {record[d], joined}
        /\ fate \in Accepted => server[user[d]] = joined

IsTold(d) ==
    /\ signing[d] = {} /\ reading[d] = << >> /\ NoWrites(d) /\ Alone(d)
    /\ user[d] \in Users /\ server[user[d]] \in Records
    /\ main[d] = <<[kind |-> "written", tag |-> [dictionary |-> server[user[d]]], ok |-> TRUE]>>

Busy(d) == SigningIn(d) \/ Reads(d) \/ HasAnswer(d) \/ Creates(d) \/ Saves(d) \/ IsTold(d)

PatientInv ==
    \/ \A d \in Devices : Rests(d)
    \/ \E d \in Devices : Busy(d) /\ \A e \in Devices \ {d} : Rests(e)

--------------------------------------------------------------------------------
(* What the phones keep to themselves, and the one write.                  *)

LEMMA RestsIsSettled ==
    ASSUME SessionInv, NEW d \in Devices
    PROVE  Settled(d) <=> Idle(d) /\ NoWrites(d)
<1>1. queue[d] \in [Accounts -> Seq(Writes)]
  BY DEF SessionInv, ClientTyped, ClientHolds
<1>2. (\A u \in Accounts : queue[d][u] = << >>) <=> NoWrites(d)
  BY <1>1 DEF NoWrites
<1> QED
  BY <1>2 DEF Settled, Idle

\* What phone d keeps to itself.
Own(d) == <<signing[d], reading[d], main[d], queue[d], record[d], user[d]>>

\* A resting phone that is not touched rests, if its account's document is, or was none.
LEMMA RestsStill ==
    ASSUME SessionInv, NEW e \in Devices, Rests(e), UNCHANGED Own(e),
           \A u \in Users : server[u] \in Records => u # user[e] \/ server'[u] = server[u]
    PROVE  Rests(e)'
<1>1. record[e] \in Records \cup {None}
  BY DEF SessionInv, ScreensTyped
<1>2. Idle(e)' /\ NoWrites(e)'
  BY DEF Rests, Idle, NoWrites, Own
<1>3. ASSUME record[e] # None
      PROVE  record'[e] = server'[record'[e].id] /\ record'[e].id = user'[e]
  <2>1. /\ record[e] \in Records /\ record[e].id \in Users
        /\ record[e] = server[record[e].id] /\ record[e].id = user[e]
    BY <1>1, <1>3 DEF Rests, RecordRight, Records
  <2> QED
    BY <2>1 DEF Own
<1> QED
  BY <1>2, <1>3 DEF Rests, RecordRight, Own

\* A step of a phone, which may have been the busy one.
LEMMA OneSteps ==
    ASSUME SessionInv, NEW d \in Devices, \A e \in Devices \ {d} : Rests(e) /\ UNCHANGED Own(e),
           \A e \in Devices \ {d} : \A u \in Users :
              server[u] \in Records => u # user[e] \/ server'[u] = server[u],
           Rests(d)' \/ Busy(d)'
    PROVE  PatientInv'
<1>1. \A e \in Devices \ {d} : Rests(e)'
  BY RestsStill
<1> QED
  BY <1>1 DEF PatientInv

LEMMA NewUserTyped ==
    ASSUME NEW u \in Users
    PROVE  NewUser(u) \in Records /\ NewUser(u) # NoDoc /\ NewUser(u) # None /\ NewUser(u).id = u
<1>1. Blank \in Names
  BY SessionAssumption
<1>2. NewUser(u) \in Records /\ NewUser(u).id = u
  BY <1>1 DEF NewUser, Records
<1> QED
  BY <1>2, SessionAssumption DEF Records

LEMMA RecordsAreThere == NoDoc \notin Records /\ None \notin Records
BY SessionAssumption DEF Records

\* Whatever a form sends, sending it again changes nothing.
LEMMA JoinedTwice ==
    ASSUME NEW r \in Records, NEW values \in Values
    PROVE  With(With(r, values), values) = With(r, values)
<1>1. CASE values \in [onBoard : {TRUE}, name : Names]
  <2>1. \A s \in Records :
           With(s, values) = [id |-> s.id, onBoard |-> values.onBoard, name |-> values.name]
    BY <1>1 DEF With, Records
  <2>2. With(r, values) \in Records /\ With(r, values).id = r.id
    BY Joined
  <2> QED
    BY <2>1, <2>2
<1>2. CASE values \in [name : Names]
  <2>1. \A s \in Records :
           With(s, values) = [id |-> s.id, onBoard |-> s.onBoard, name |-> values.name]
    BY <1>2 DEF With, Records
  <2>2. With(r, values) \in Records /\ With(r, values).id = r.id
    BY Joined
  <2>3. With(r, values).onBoard = r.onBoard
    BY <2>1
  <2> QED
    BY <2>1, <2>2, <2>3
<1> QED
  BY <1>1, <1>2 DEF Values

\* An empty queue and a queue with one write, whatever the network does.
LEMMA QueueBroken ==
    ASSUME SessionInv, NEW d \in Devices, StreamBreaks(d)
    PROVE  /\ \A e \in Devices \ {d} : queue'[e] = queue[e]
           /\ NoWrites(d) => queue'[d] = queue[d]
           /\ \A w : OnlyWrite(d, w) =>
                queue'[d] = queue[d]
                \/ queue'[d] = [u \in Accounts |->
                        IF u = user[d] THEN <<[w EXCEPT !.fate = "pending"]>> ELSE << >>]
<1>1. queue \in [Devices -> [Accounts -> Seq(Writes)]] /\ user[d] \in Accounts
  BY DEF SessionInv, ClientTyped, ClientHolds
<1>2. Unsent(<< >>) = << >> /\ \A w : Unsent(<<w>>) = <<[w EXCEPT !.fate = "pending"]>>
  BY DEF Unsent
<1>3. CASE UNCHANGED queue
  BY <1>3
<1>4. CASE queue' = [queue EXCEPT ![d][user[d]] = Unsent(queue[d][user[d]])]
  <2>1. \A e \in Devices \ {d} : queue'[e] = queue[e]
    BY <1>1, <1>4
  <2>2. queue'[d] = [queue[d] EXCEPT ![user[d]] = Unsent(queue[d][user[d]])]
    BY <1>1, <1>4
  <2>3. ASSUME NoWrites(d) PROVE queue'[d] = queue[d]
    BY <1>1, <1>2, <2>2, <2>3 DEF NoWrites
  <2>4. ASSUME NEW w, OnlyWrite(d, w)
        PROVE  queue'[d] = [u \in Accounts |->
                    IF u = user[d] THEN <<[w EXCEPT !.fate = "pending"]>> ELSE << >>]
    BY <1>1, <1>2, <2>2, <2>4 DEF OnlyWrite
  <2> QED
    BY <2>1, <2>3, <2>4
<1> QED
  BY <1>3, <1>4 DEF StreamBreaks

--------------------------------------------------------------------------------
(* The answers, the server and the network.                                *)

\* Everybody else rests, and keeps to themselves while d does something.
Undisturbed(d) ==
    \A e \in Devices \ {d} : Rests(e) /\ UNCHANGED Own(e)

LEMMA SettledRests ==
    ASSUME SessionInv, PatientInv, AllSettled
    PROVE  \A d \in Devices : Rests(d)
<1>1. ASSUME NEW d \in Devices, Busy(d) PROVE FALSE
  <2>1. Idle(d) /\ NoWrites(d)
    BY RestsIsSettled DEF AllSettled
  <2>2. queue[d] \in [Accounts -> Seq(Writes)] /\ user[d] \in Accounts
    BY DEF SessionInv, ClientTyped, ClientHolds
  <2>3. queue[d][user[d]] = << >>
    BY <2>1, <2>2 DEF NoWrites
  <2>4. \A w : ~ OnlyWrite(d, w)
    BY <2>2, <2>3 DEF OnlyWrite
  <2>5. ~ Creates(d) /\ ~ Saves(d)
    BY <2>4 DEF Creates, Saves
  <2>6. ~ SigningIn(d) /\ ~ Reads(d) /\ ~ HasAnswer(d) /\ ~ IsTold(d)
    BY <2>1 DEF SigningIn, Reads, HasAnswer, IsTold, Idle
  <2> QED
    BY <1>1, <2>5, <2>6 DEF Busy
<1> QED
  BY <1>1 DEF PatientInv

\* Nothing that the invariant speaks of has changed.
LEMMA NothingHappened ==
    ASSUME SessionInv, PatientInv, \A d \in Devices : UNCHANGED Own(d), UNCHANGED server
    PROVE  PatientInv'
<1>1. ASSUME NEW d \in Devices PROVE (Rests(d) => Rests(d)') /\ (Busy(d) => Busy(d)')
  <2>1. UNCHANGED <<signing[d], reading[d], main[d], queue[d], record[d], user[d]>>
    BY DEF Own
  <2>2. Alone(d) => Alone(d)'
    BY DEF Alone, Own
  <2>3. Rests(d) => Rests(d)'
    BY RestsStill
  <2>4. (NoWrites(d) => NoWrites(d)') /\ (Idle(d) => Idle(d)')
    BY <2>1 DEF NoWrites, Idle
  <2>5. /\ SigningIn(d) => SigningIn(d)'
        /\ Reads(d) => Reads(d)'
        /\ HasAnswer(d) => HasAnswer(d)'
        /\ IsTold(d) => IsTold(d)'
    BY <2>1, <2>2, <2>4 DEF SigningIn, Reads, HasAnswer, IsTold
  <2>6. \A w, w2 : w2 = w /\ OnlyWrite(d, w) => OnlyWrite(d, w2)'
    BY <2>1 DEF OnlyWrite
  <2>7. Creates(d) => Creates(d)'
    BY <2>1, <2>4, <2>6 DEF Creates
  <2>8. Saves(d) => Saves(d)'
    BY <2>1, <2>2, <2>4, <2>6 DEF Saves
  <2> QED
    BY <2>3, <2>5, <2>7, <2>8 DEF Busy
<1> QED
  BY <1>1 DEF PatientInv

LEMMA AuthSteps ==
    ASSUME SessionInv, NEW d \in Devices, Rests(d) \/ Busy(d),
           \A e \in Devices \ {d} : Rests(e), AuthAnswers(d)
    PROVE  PatientInv'
<1>1. PICK s \in signing[d] :
        /\ signing' = [signing EXCEPT ![d] = @ \ {s}]
        /\ \/ loginUserWith(d, s.user)
           \/ registerUserWith(d, s.user)
           \/ UNCHANGED <<clientVars, reading, world>>
  BY DEF AuthAnswers
<1>2. /\ reading[d] = << >> /\ main[d] = << >> /\ NoWrites(d) /\ record[d] = None
      /\ signing[d] = {s} /\ s.user \in Users
  BY <1>1 DEF Rests, Busy, SigningIn, Reads, HasAnswer, Creates, Saves, IsTold, Idle
<1>3. /\ signing \in [Devices -> SUBSET [user : Users, new : BOOLEAN]]
      /\ reading \in [Devices -> Seq(Users)] /\ user \in [Devices -> Accounts]
      /\ queue \in [Devices -> [Accounts -> Seq(Writes)]]
  BY DEF SessionInv, ScreensTyped, ClientTyped, ClientHolds
<1>4. /\ signing'[d] = {} /\ \A e \in Devices \ {d} : signing'[e] = signing[e]
      /\ UNCHANGED record
  BY <1>1, <1>2, <1>3 DEF AuthAnswers
<1>5. ASSUME SignIn(d, s.user)
      PROVE  /\ UNCHANGED <<server, main>> /\ user'[d] = s.user /\ queue'[d] = queue[d]
             /\ \A e \in Devices \ {d} : user'[e] = user[e] /\ queue'[e] = queue[e]
  <2>1. CASE CredentialChange(d, s.user)
    BY <1>2, <1>3, <2>1, QueueBroken DEF CredentialChange
  <2>2. CASE s.user = user[d] /\ UNCHANGED clientVars
    BY <2>2 DEF clientVars
  <2> QED
    BY <1>5, <2>1, <2>2 DEF SignIn
<1>6. ASSUME UNCHANGED <<server, main>>, queue'[d] = queue[d],
             \A e \in Devices \ {d} : /\ user'[e] = user[e] /\ queue'[e] = queue[e]
                                      /\ reading'[e] = reading[e],
             reading'[d] = << >> \/ (user'[d] \in Users /\ reading'[d] = <<user'[d]>>)
      PROVE  PatientInv'
  <2>1. Rests(d)' \/ Reads(d)'
    BY <1>2, <1>4, <1>6 DEF Rests, Reads, Idle, NoWrites, RecordRight
  <2>2. \A e \in Devices \ {d} : UNCHANGED Own(e)
    BY <1>4, <1>6 DEF Own
  <2> QED
    BY <1>6, <2>1, <2>2, OneSteps DEF Busy
<1>7. CASE loginUserWith(d, s.user)
  <2>1. reading' \in {reading, [reading EXCEPT ![d] = Append(reading[d], s.user)]}
        /\ SignIn(d, s.user)
    BY <1>7 DEF loginUserWith
  <2>2. Append(<< >>, s.user) = <<s.user>>
    OBVIOUS
  <2> QED
    BY <1>2, <1>3, <1>5, <1>6, <2>1, <2>2
<1>8. CASE registerUserWith(d, s.user)
  BY <1>2, <1>5, <1>6, <1>8 DEF registerUserWith
<1>9. CASE UNCHANGED <<clientVars, reading, world>>
  BY <1>2, <1>6, <1>9 DEF clientVars
<1> QED
  BY <1>1, <1>7, <1>8, <1>9

\* Without pending writes the local view is what is under them.
LEMMA NothingPending ==
    ASSUME NEW k \in Keys, NEW base \in Documents[k]
    PROVE  LocalDoc(base, << >>, k) = base
<1>1. ~ \E i \in DOMAIN << >> : TRUE
  OBVIOUS
<1>2. base # NoDoc => base = [f \in Fields |-> base[f]]
  BY SessionAssumption DEF Documents, Records
<1> QED
  BY <1>1, <1>2 DEF LocalDoc, Exists

LEMMA DownloadSteps ==
    ASSUME SessionInv, NEW d \in Devices, Rests(d) \/ Busy(d),
           \A e \in Devices \ {d} : Rests(e), downloadUserFromFirestore(d), NothingFails(d)
    PROVE  PatientInv'
<1>1. /\ signing[d] = {} /\ main[d] = << >> /\ NoWrites(d) /\ record[d] = None
      /\ user[d] \in Users /\ reading[d] = <<user[d]>>
  BY DEF Rests, Busy, SigningIn, Reads, HasAnswer, Creates, Saves, IsTold, Idle,
         downloadUserFromFirestore
<1> DEFINE u == user[d]
           Arrived(doc) == main' = [main EXCEPT ![d] =
                              Append(main[d], [kind |-> "user", id |-> u, doc |-> doc])]
<1>2. /\ reading \in [Devices -> Seq(Users)] /\ main \in [Devices -> Seq(Blocks)]
      /\ queue \in [Devices -> [Accounts -> Seq(Writes)]] /\ server \in Views(Documents)
      /\ cache \in [Devices -> Views(Documents)] /\ u \in Keys /\ u \in Accounts
  BY <1>1, SessionAssumption DEF SessionInv, ScreensTyped, ClientTyped, ClientHolds, Accounts
<1>3. /\ reading' = [reading EXCEPT ![d] = << >>]
      /\ \/ Fetch(d, {u}) /\ Arrived(LocalView(d, cache'[d])[u])
         \/ ~ online[d] \/ UNCHANGED main
      /\ UNCHANGED <<server, user, record, signing>>
  <2>1. PICK n \in DOMAIN reading[d] :
          /\ reading' = [reading EXCEPT ![d] =
                [m \in 1 .. Len(reading[d]) - 1 |->
                    IF m < n THEN reading[d][m] ELSE reading[d][m + 1]]]
          /\ \/ Fetch(d, {reading[d][n]}) /\ main' = [main EXCEPT ![d] =
                    Append(main[d], [kind |-> "user", id |-> reading[d][n],
                                     doc |-> LocalView(d, cache'[d])[reading[d][n]]])]
             \/ ~ online[d] \/ UNCHANGED main
    BY DEF downloadUserFromFirestore
  <2>2. reading[d][n] = u /\ Len(reading[d]) = 1
    BY <1>1
  <2>3. [m \in 1 .. Len(reading[d]) - 1 |->
            IF m < n THEN reading[d][m] ELSE reading[d][m + 1]] = << >>
    BY <2>2
  <2> QED
    BY <2>1, <2>2, <2>3 DEF downloadUserFromFirestore
<1>4. Fetch(d, {u}) /\ Arrived(LocalView(d, cache'[d])[u])
  <2>1. Len(reading'[d]) < Len(reading[d])
    BY <1>1, <1>2, <1>3
  <2> QED
    BY <1>3, <2>1 DEF NothingFails
<1>5. queue' = [queue EXCEPT ![d] = queue[d]] /\ cache'[d][u] = server[u]
  <2>1. [v \in Accounts |->
            [i \in DOMAIN queue[d][v] |->
               IF queue[d][v][i].fate = "committed" /\ queue[d][v][i].key \in {u}
               THEN [queue[d][v][i] EXCEPT !.fate = "known"]
               ELSE queue[d][v][i]]] = queue[d]
    BY <1>1 DEF NoWrites
  <2> QED
    BY <1>2, <1>4, <2>1 DEF Fetch, Views
<1>6. LocalView(d, cache'[d])[u] = server[u]
  <2>1. pending(d) = << >>
    BY <1>1, <1>2 DEF pending, NoWrites
  <2>2. server[u] \in Documents[u]
    BY <1>2 DEF Views
  <2> QED
    BY <1>2, <1>5, <2>1, <2>2, NothingPending DEF LocalView
<1>7. HasAnswer(d)'
  BY <1>1, <1>2, <1>3, <1>4, <1>5, <1>6 DEF HasAnswer, NoWrites
<1>8. \A e \in Devices \ {d} : UNCHANGED Own(e)
  BY <1>2, <1>3, <1>4, <1>5 DEF Own
<1> QED
  BY <1>3, <1>7, <1>8, OneSteps DEF Busy

LEMMA MainSteps ==
    ASSUME SessionInv, NEW d \in Devices, Rests(d) \/ Busy(d),
           \A e \in Devices \ {d} : Rests(e), MainQueue(d)
    PROVE  PatientInv'
<1> DEFINE u == user[d]
<1>1. /\ main \in [Devices -> Seq(Blocks)] /\ record \in [Devices -> Records \cup {None}]
      /\ queue \in [Devices -> [Accounts -> Seq(Writes)]] /\ server \in Views(Documents)
      /\ user \in [Devices -> Accounts]
  BY DEF SessionInv, ScreensTyped, ClientTyped, ClientHolds
<1>2. /\ main[d] # << >> /\ main' = [main EXCEPT ![d] = Tail(main[d])]
      /\ UNCHANGED <<server, user, signing, reading>>
  BY DEF MainQueue
<1>3. HasAnswer(d) \/ IsTold(d)
  BY <1>2 DEF Rests, Busy, SigningIn, Reads, HasAnswer, Creates, Saves, IsTold, Idle
<1>4. u \in Users /\ u \in Keys /\ u \in Accounts /\ NoWrites(d)
      /\ signing[d] = {} /\ reading[d] = << >> /\ main'[d] = << >>
  <2>1. \A b : Tail(<<b>>) = << >>
    OBVIOUS
  <2>2. main'[d] = Tail(main[d])
    BY <1>1, <1>2
  <2>3. Tail(main[d]) = << >>
    BY <1>3, <2>1 DEF HasAnswer, IsTold
  <2> QED
    BY <1>3, <2>2, <2>3, SessionAssumption DEF HasAnswer, IsTold, Accounts
<1>5. server[u] \in Documents[u] /\ server[u] \in {r \in Records : r.id = u} \cup {NoDoc}
  BY <1>1, <1>4 DEF Views, Documents
<1>6. ASSUME UNCHANGED queue, record' = [record EXCEPT ![d] = server[u]], server[u] \in Records
      PROVE  PatientInv'
  <2>1. Rests(d)'
    BY <1>1, <1>2, <1>4, <1>5, <1>6, RecordsAreThere DEF Rests, Idle, NoWrites, RecordRight
  <2>2. \A e \in Devices \ {d} : UNCHANGED Own(e)
    BY <1>1, <1>2, <1>6 DEF Own
  <2> QED
    BY <1>2, <2>1, <2>2, OneSteps
<1>7. CASE IsTold(d)
  <2>1. Block(d) = [kind |-> "written", tag |-> [dictionary |-> server[u]], ok |-> TRUE]
    BY <1>7 DEF IsTold, Block
  <2>2. userWritten(d)
    BY <2>1 DEF MainQueue, newUserArrived, userArrived
  <2> QED
    BY <1>6, <1>7, <2>1, <2>2 DEF userWritten, saveUserLocally, IsTold
<1>8. CASE HasAnswer(d)
  <2>1. Block(d) = [kind |-> "user", id |-> u, doc |-> server[u]]
    BY <1>8 DEF HasAnswer, Block
  <2>2. newUserArrived(d) \/ userArrived(d)
    BY <2>1 DEF MainQueue, userWritten
  <2>3. CASE server[u] # NoDoc
    BY <1>5, <1>6, <2>1, <2>2, <2>3 DEF userArrived, newUserArrived, saveUserLocally
  <2>4. CASE server[u] = NoDoc
    <3> DEFINE w == SetData(u, NewUser(u), None)
    <3>1. record' = [record EXCEPT ![d] = NewUser(u)] /\ WriteMutations(d, w)
      BY <2>1, <2>2, <2>4 DEF userArrived, newUserArrived, saveUserLocally
    <3>2. w = [w EXCEPT !.fate = "pending"] /\ "pending" \notin Accepted
      BY DEF SetData, Accepted
    <3> HIDE DEF w
    <3>3. queue' = [queue EXCEPT ![d][u] = Append(queue[d][u], w)]
      BY <3>1 DEF WriteMutations
    <3>4. Append(<< >>, w) = <<w>> /\ queue[d][u] = << >>
      BY <1>4 DEF NoWrites
    <3>5. OnlyWrite(d, w)'
      <4>1. queue'[d] = [queue[d] EXCEPT ![u] = <<w>>]
        BY <1>1, <3>3, <3>4
      <4>2. queue'[d] = [v \in Accounts |-> IF v = u THEN <<w>> ELSE << >>]
        BY <1>4, <4>1 DEF NoWrites
      <4>3. w' = w
        BY <1>2 DEF w
      <4> QED
        BY <1>2, <4>2, <4>3 DEF OnlyWrite
    <3>6. Creates(d)'
      BY <1>1, <1>2, <1>4, <2>4, <3>1, <3>2, <3>5 DEF Creates, Idle, w
    <3>7. \A e \in Devices \ {d} : UNCHANGED Own(e)
      BY <1>1, <1>2, <3>1, <3>3 DEF Own
    <3> QED
      BY <1>2, <3>6, <3>7, OneSteps DEF Busy
  <2> QED
    BY <2>3, <2>4
<1> QED
  BY <1>3, <1>7, <1>8

\* The one write of a phone, and its answer.
LEMMA TheOneWrite ==
    ASSUME SessionInv, NEW d \in Devices, Creates(d) \/ Saves(d)
    PROVE  /\ user[d] \in Users /\ user[d] \in Keys /\ user[d] \in Accounts /\ Idle(d)
           /\ \E w \in Writes : OnlyWrite(d, w) /\ pending(d) = <<w>> /\ w.key = user[d]
<1>1. user[d] \in Users /\ user[d] \in Keys /\ user[d] \in Accounts /\ Idle(d)
  BY SessionAssumption DEF Creates, Saves, Accounts
<1>2. queue[d] \in [Accounts -> Seq(Writes)]
  BY DEF SessionInv, ClientTyped, ClientHolds
<1> DEFINE first(f) == [SetData(user[d], NewUser(user[d]), None) EXCEPT !.fate = f]
           sent(values, f) == [UpdateData(user[d], values,
                                  [dictionary |-> With(record[d], values)]) EXCEPT !.fate = f]
<1>3. PICK w : OnlyWrite(d, w) /\ w.key = user[d]
  <2>1. \A f : first(f).key = user[d] /\ \A values : sent(values, f).key = user[d]
    BY DEF SetData, UpdateData
  <2>2. \/ \E f : OnlyWrite(d, first(f))
        \/ \E f, values : OnlyWrite(d, sent(values, f))
    BY DEF Creates, Saves
  <2> HIDE DEF first, sent
  <2> QED
    BY <2>1, <2>2
<1> HIDE DEF first, sent
<1>4. pending(d) = <<w>>
  BY <1>1, <1>2, <1>3 DEF OnlyWrite, pending
<1>5. w \in Writes
  <2>1. pending(d) \in Seq(Writes)
    BY <1>1, <1>2 DEF pending
  <2>2. 1 \in DOMAIN <<w>> /\ <<w>>[1] = w
    OBVIOUS
  <2> QED
    BY <1>4, <2>1, <2>2
<1> QED
  BY <1>1, <1>3, <1>4, <1>5

LEMMA DecideSteps ==
    ASSUME SessionInv, NEW d \in Devices, Rests(d) \/ Busy(d),
           \A e \in Devices \ {d} : Rests(e), ServerDecides(d), NothingFails(d)
    PROVE  PatientInv'
<1> DEFINE u == user[d]
<1>1. /\ queue \in [Devices -> [Accounts -> Seq(Writes)]] /\ server \in Views(Documents)
      /\ user \in [Devices -> Accounts]
  BY DEF SessionInv, ClientTyped, ClientHolds
<1>2. pending(d) # << >>
  BY DEF ServerDecides
<1>3. Creates(d) \/ Saves(d)
  BY <1>1, <1>2
  DEF Rests, Busy, SigningIn, Reads, HasAnswer, IsTold, Idle, NoWrites, pending
<1>4. u \in Users /\ u \in Keys /\ u \in Accounts /\ Idle(d)
      /\ \E w \in Writes : OnlyWrite(d, w) /\ pending(d) = <<w>> /\ w.key = u
  BY <1>3, TheOneWrite
<1>5. PICK w \in Writes : OnlyWrite(d, w) /\ pending(d) = <<w>> /\ w.key = u
  BY <1>4
<1>6. UNCHANGED <<user, main, record, signing, reading>>
  BY DEF ServerDecides, CommitWrite, RefuseWrite, appVars, local
<1> DEFINE w2 == [w EXCEPT !.fate = "committed"]
<1>7. /\ server' = [server EXCEPT ![u] = Applied(w, server[u])]
      /\ queue' = [queue EXCEPT ![d][u] = <<w2>>]
  <2>1. PICK i \in DOMAIN pending(d) : CommitWrite(d, i) \/ RefuseWrite(d, i)
    BY DEF ServerDecides
  <2>2. i = 1 /\ pending(d)[i] = w /\ queue[d][u] = <<w>>
    BY <1>5, <2>1 DEF pending
  <2>3. ASSUME NEW fate
        PROVE  [queue EXCEPT ![d][u][i].fate = fate] =
                  [queue EXCEPT ![d][u] = <<[w EXCEPT !.fate = fate]>>]
    <3>1. [<<w>> EXCEPT ![1].fate = fate] = <<[w EXCEPT !.fate = fate]>>
      OBVIOUS
    <3>2. [queue EXCEPT ![d][u][i].fate = fate] =
            [queue EXCEPT ![d][u] = [<<w>> EXCEPT ![1].fate = fate]]
      BY <1>1, <1>4, <2>2
    <3> QED
      BY <3>1, <3>2
  <2>4. ~ RefuseWrite(d, i)
    <3>1. SUFFICES ASSUME RefuseWrite(d, i) PROVE FALSE
      OBVIOUS
    <3>2. queue' = [queue EXCEPT ![d][u] = <<[w EXCEPT !.fate = "refused"]>>]
      BY <2>3, <3>1 DEF RefuseWrite, Decide
    <3>3. queue'[d][u] = <<[w EXCEPT !.fate = "refused"]>>
      BY <1>1, <1>4, <3>2
    <3>4. [w EXCEPT !.fate = "refused"].fate = "refused"
      BY DEF Writes, Sets, Updates
    <3>5. /\ 1 \in DOMAIN queue'[d][user'[d]]
          /\ queue'[d][user'[d]][1] = [w EXCEPT !.fate = "refused"]
      BY <1>6, <3>3
    <3> QED
      BY <3>4, <3>5 DEF NothingFails
  <2> QED
    BY <1>5, <2>1, <2>2, <2>3, <2>4 DEF CommitWrite, Decide
<1>8. queue'[d] = [v \in Accounts |-> IF v = u THEN <<w2>> ELSE << >>]
      /\ server'[u] = Applied(w, server[u])
  BY <1>1, <1>4, <1>5, <1>7 DEF OnlyWrite, Views
<1>9. \A e \in Devices \ {d} : UNCHANGED Own(e)
  BY <1>1, <1>6, <1>7 DEF Own
<1>10. \A v \in Users : v # u => server'[v] = server[v]
  BY <1>7
<1>11. OnlyWrite(d, w2)'
  BY <1>6, <1>8 DEF OnlyWrite
<1>12. CASE Creates(d)
  <2>1. PICK fate \in {"pending", "committed", "known"} :
          OnlyWrite(d, [SetData(u, NewUser(u), None) EXCEPT !.fate = fate])
    BY <1>12 DEF Creates
  <2>2. w = [SetData(u, NewUser(u), None) EXCEPT !.fate = fate]
    BY <1>4, <1>5, <2>1 DEF OnlyWrite
  <2>3. /\ w2 = [SetData(u, NewUser(u), None) EXCEPT !.fate = "committed"]
        /\ Applied(w, server[u]) = NewUser(u)
    BY <2>2 DEF SetData, Applied
  <2>4. server[u] \in {NoDoc, NewUser(u)} /\ server'[u] = NewUser(u)
    BY <1>8, <1>12, <2>3 DEF Creates
  <2> HIDE DEF w2
  <2>5. Idle(d)'
    BY <1>4, <1>6 DEF Idle
  <2>6. Creates(d)'
    BY <1>6, <1>11, <1>12, <2>3, <2>4, <2>5 DEF Creates
  <2>7. \A v \in Users : server[v] \in Records => server'[v] = server[v]
    BY <1>10, <2>4, RecordsAreThere
  <2> QED
    BY <1>9, <2>6, <2>7, OneSteps DEF Busy
<1>13. CASE Saves(d)
  <2>1. PICK fate \in {"pending", "committed", "known"}, values \in Values :
        LET joined == With(record[d], values) IN
        /\ OnlyWrite(d, [UpdateData(u, values, [dictionary |-> joined]) EXCEPT !.fate = fate])
        /\ server[u] \in {record[d], joined}
    BY <1>13 DEF Saves
  <2> DEFINE joined == With(record[d], values)
  <2>2. w = [UpdateData(u, values, [dictionary |-> joined]) EXCEPT !.fate = fate]
    BY <1>4, <1>5, <2>1 DEF OnlyWrite
  <2>3. /\ w2 = [UpdateData(u, values, [dictionary |-> joined]) EXCEPT !.fate = "committed"]
        /\ w.op = "update" /\ w.fields = values
    BY <2>2 DEF UpdateData
  <2>4. record[d] \in Records /\ joined \in Records /\ With(joined, values) = joined
    BY <1>13, Joined, JoinedTwice DEF Saves
  <2>5. server'[u] = joined
    <3>1. server[u] # NoDoc /\ server[u] \in {record[d], joined}
      BY <2>1, <2>4, RecordsAreThere
    <3>2. Applied(w, server[u]) = With(server[u], values)
      BY <2>3, <3>1 DEF Applied, With
    <3> QED
      BY <1>8, <2>4, <3>1, <3>2
  <2> HIDE DEF w2
  <2>6. Idle(d)' /\ Alone(d)'
    BY <1>4, <1>6, <1>13 DEF Idle, Alone, Saves
  <2>7. Saves(d)'
    BY <1>6, <1>11, <1>13, <2>3, <2>5, <2>6 DEF Saves
  <2>8. \A e \in Devices \ {d} : user[e] # u
    BY <1>13 DEF Saves, Alone
  <2> QED
    BY <1>9, <1>10, <2>7, <2>8, OneSteps DEF Busy
<1> QED
  BY <1>3, <1>12, <1>13

LEMMA LearnSteps ==
    ASSUME SessionInv, NEW d \in Devices, Rests(d) \/ Busy(d),
           \A e \in Devices \ {d} : Rests(e), ClientLearns(d)
    PROVE  PatientInv'
<1> DEFINE u == user[d]
<1>1. /\ queue \in [Devices -> [Accounts -> Seq(Writes)]] /\ main \in [Devices -> Seq(Blocks)]
      /\ user \in [Devices -> Accounts]
  BY DEF SessionInv, ClientTyped, ClientHolds
<1>2. /\ pending(d) # << >> /\ Head(pending(d)).fate # "pending"
      /\ queue' = [queue EXCEPT ![d][u] = Tail(queue[d][u])]
      /\ main' = IF Head(pending(d)).tag = None THEN main
                 ELSE [main EXCEPT ![d] = Append(main[d], Written(Head(pending(d))))]
      /\ UNCHANGED <<server, user, record, signing, reading>>
  BY DEF ClientLearns, Acknowledge, appVars, local
<1>3. Creates(d) \/ Saves(d)
  BY <1>1, <1>2
  DEF Rests, Busy, SigningIn, Reads, HasAnswer, IsTold, Idle, NoWrites, pending
<1>4. u \in Users /\ u \in Keys /\ u \in Accounts /\ Idle(d)
      /\ \E w \in Writes : OnlyWrite(d, w) /\ pending(d) = <<w>> /\ w.key = u
  BY <1>3, TheOneWrite
<1>5. PICK w \in Writes : OnlyWrite(d, w) /\ pending(d) = <<w>> /\ w.key = u
  BY <1>4
<1>6. w.fate # "pending" /\ Tail(queue[d][u]) = << >>
      /\ main' = IF w.tag = None THEN main ELSE [main EXCEPT ![d] = <<Written(w)>>]
  <2>1. Head(<<w>>) = w /\ Tail(<<w>>) = << >> /\ \A b : Append(<< >>, b) = <<b>>
    OBVIOUS
  <2> QED
    BY <1>2, <1>4, <1>5, <2>1 DEF pending, Idle
<1>7. NoWrites(d)' /\ \A e \in Devices \ {d} : UNCHANGED Own(e)
  <2>1. queue'[d] = [queue[d] EXCEPT ![u] = << >>]
    BY <1>1, <1>2, <1>6
  <2>2. NoWrites(d)'
    BY <1>5, <2>1 DEF OnlyWrite, NoWrites
  <2> QED
    BY <1>1, <1>2, <1>6, <2>2 DEF Own
<1>8. CASE Creates(d)
  <2>1. PICK fate \in {"pending", "committed", "known"} :
          /\ OnlyWrite(d, [SetData(u, NewUser(u), None) EXCEPT !.fate = fate])
          /\ fate \in Accepted => server[u] = NewUser(u)
    BY <1>8 DEF Creates
  <2>2. w = [SetData(u, NewUser(u), None) EXCEPT !.fate = fate]
    BY <1>4, <1>5, <2>1 DEF OnlyWrite
  <2>3. w.tag = None /\ w.fate = fate
    BY <2>2 DEF SetData
  <2>4. server[u] = NewUser(u) /\ record[d] = NewUser(u)
    BY <1>6, <1>8, <2>1, <2>3 DEF Accepted, Creates
  <2>5. NewUser(u).id = u
    BY DEF NewUser
  <2>6. Rests(d)'
    BY <1>2, <1>4, <1>6, <1>7, <2>3, <2>4, <2>5 DEF Rests, Idle, RecordRight
  <2> QED
    BY <1>2, <1>7, <2>6, OneSteps
<1>9. CASE Saves(d)
  <2>1. PICK fate \in {"pending", "committed", "known"}, values \in Values :
        LET joined == With(record[d], values) IN
        /\ OnlyWrite(d, [UpdateData(u, values, [dictionary |-> joined]) EXCEPT !.fate = fate])
        /\ fate \in Accepted => server[u] = joined
    BY <1>9 DEF Saves
  <2> DEFINE joined == With(record[d], values)
  <2>2. w = [UpdateData(u, values, [dictionary |-> joined]) EXCEPT !.fate = fate]
    BY <1>4, <1>5, <2>1 DEF OnlyWrite
  <2>3. w.tag = [dictionary |-> joined] /\ w.fate = fate
    BY <2>2 DEF UpdateData
  <2>4. fate \in Accepted /\ server[u] = joined
    BY <1>6, <2>1, <2>3 DEF Accepted
  <2>5. joined \in Records
    BY <1>9, Joined DEF Saves
  <2>6. w.tag # None
    <3>1. [dictionary |-> joined] # None
      BY <2>5, SessionAssumption DEF Records
    <3> QED
      BY <2>3, <3>1
  <2> HIDE DEF joined
  <2>7. Written(w) = [kind |-> "written", tag |-> [dictionary |-> server[u]], ok |-> TRUE]
    BY <2>3, <2>4 DEF Written
  <2>8. Alone(d)'
    BY <1>2, <1>9 DEF Alone, Saves
  <2>9. IsTold(d)'
    BY <1>1, <1>2, <1>4, <1>6, <1>7, <2>4, <2>5, <2>6, <2>7, <2>8 DEF IsTold, Idle
  <2> QED
    BY <1>2, <1>7, <2>9, OneSteps DEF Busy
<1> QED
  BY <1>3, <1>8, <1>9

\* The connection comes and goes.
LEMMA NetSteps ==
    ASSUME SessionInv, NEW d \in Devices, Rests(d) \/ Busy(d),
           \A e \in Devices \ {d} : Rests(e), NetworkLost(d) \/ NetworkBack(d)
    PROVE  PatientInv'
<1>1. /\ StreamBreaks(d) \/ UNCHANGED queue
      /\ UNCHANGED <<server, user, main, record, signing, reading>>
  BY DEF NetworkLost, NetworkBack, GoOffline, GoOnline, appVars, local
<1>2. StreamBreaks(d)
  BY <1>1 DEF StreamBreaks
<1>3. \A e \in Devices \ {d} : UNCHANGED Own(e)
  BY <1>1, <1>2, QueueBroken DEF Own
<1>4. NoWrites(d) => NoWrites(d)'
  BY <1>2, QueueBroken DEF NoWrites
<1>5. Rests(d) => Rests(d)'
  BY <1>1, <1>4 DEF Rests, Idle, RecordRight
<1>6. (Idle(d) => Idle(d)') /\ (Alone(d) => Alone(d)')
  BY <1>1 DEF Idle, Alone
<1>7. /\ SigningIn(d) => SigningIn(d)'
      /\ Reads(d) => Reads(d)'
      /\ HasAnswer(d) => HasAnswer(d)'
      /\ IsTold(d) => IsTold(d)'
  BY <1>1, <1>4, <1>6 DEF SigningIn, Reads, HasAnswer, IsTold
<1>8. ASSUME NEW w, OnlyWrite(d, w), NEW w2, w2 = [w EXCEPT !.fate = "pending"]
      PROVE  \E x \in {w, w2} :
                queue'[d] = [u \in Accounts |-> IF u = user'[d] THEN <<x>> ELSE << >>]
  BY <1>1, <1>2, <1>8, QueueBroken DEF OnlyWrite
<1>9. "pending" \notin Accepted
  BY DEF Accepted
<1>10. CASE Creates(d)
  <2> DEFINE u == user[d]
             first(f) == [SetData(u, NewUser(u), None) EXCEPT !.fate = f]
  <2>1. PICK fate \in {"pending", "committed", "known"} :
          OnlyWrite(d, first(fate)) /\ (fate \in Accepted => server[u] = NewUser(u))
    BY <1>10 DEF Creates
  <2>2. first("pending") = [first(fate) EXCEPT !.fate = "pending"]
    BY DEF SetData
  <2>3. PICK f \in {fate, "pending"} :
          queue'[d] = [v \in Accounts |-> IF v = u THEN <<first(f)>> ELSE << >>]
    <3> HIDE DEF first
    <3> QED
      BY <1>1, <1>8, <2>1, <2>2
  <2>4. f \in {"pending", "committed", "known"} /\ (f \in Accepted => server[u] = NewUser(u))
    BY <1>9, <2>1, <2>3
  <2>5. Creates(d)'
    BY <1>1, <1>6, <1>10, <2>3, <2>4 DEF Creates, OnlyWrite
  <2> QED
    BY <1>1, <1>3, <2>5, OneSteps DEF Busy
<1>11. CASE Saves(d)
  <2> DEFINE u == user[d]
             joined(values) == With(record[d], values)
             sent(values, f) == [UpdateData(u, values, [dictionary |-> joined(values)])
                                    EXCEPT !.fate = f]
  <2>1. PICK fate \in {"pending", "committed", "known"}, values \in Values :
          /\ OnlyWrite(d, sent(values, fate))
          /\ server[u] \in {record[d], joined(values)}
          /\ fate \in Accepted => server[u] = joined(values)
    BY <1>11 DEF Saves
  <2>2. sent(values, "pending") = [sent(values, fate) EXCEPT !.fate = "pending"]
    BY DEF UpdateData
  <2>3. PICK f \in {fate, "pending"} :
          queue'[d] = [v \in Accounts |-> IF v = u THEN <<sent(values, f)>> ELSE << >>]
    <3> HIDE DEF sent
    <3> QED
      BY <1>1, <1>8, <2>1, <2>2
  <2>4. f \in {"pending", "committed", "known"} /\ (f \in Accepted => server[u] = joined(values))
    BY <1>9, <2>1, <2>3
  <2>5. /\ Idle(d)' /\ Alone(d)' /\ UNCHANGED <<user, record, server>>
        /\ u \in Users /\ record[d] \in Records /\ record[d].id = u
    BY <1>1, <1>6, <1>11 DEF Saves
  <2>6. OnlyWrite(d, sent(values, f))'
    <3>1. sent(values, f)' = sent(values, f)
      BY <1>1
    <3> HIDE DEF sent
    <3> QED
      BY <1>1, <2>3, <3>1 DEF OnlyWrite
  <2>7. Saves(d)'
    <3> HIDE DEF joined
    <3>1. \E fate2 \in {"pending", "committed", "known"}, values2 \in Values :
            /\ OnlyWrite(d, sent(values2, fate2))'
            /\ server[u] \in {record[d], joined(values2)}
            /\ fate2 \in Accepted => server[u] = joined(values2)
      <4> HIDE DEF sent
      <4> QED
        BY <2>1, <2>4, <2>6
    <3> QED
      BY <2>5, <3>1 DEF Saves, joined
  <2> QED
    BY <1>1, <1>3, <2>7, OneSteps DEF Busy
<1> QED
  BY <1>1, <1>3, <1>5, <1>7, <1>10, <1>11, OneSteps DEF Busy

--------------------------------------------------------------------------------
(* What the users do.                                                      *)

\* Signing out, and a press of "login".
LEMMA AccountTaps ==
    ASSUME SessionInv, \A e \in Devices : Rests(e), NEW d \in Devices, UpToDate(d),
           \/ \E u \in Users, new \in BOOLEAN : loginOrSignupTapped(d, u, new)
           \/ logOutCurrentUser(d)
    PROVE  PatientInv'
<1>1. /\ queue \in [Devices -> [Accounts -> Seq(Writes)]] /\ user \in [Devices -> Accounts]
      /\ record \in [Devices -> Records \cup {None}]
      /\ signing \in [Devices -> SUBSET [user : Users, new : BOOLEAN]]
  BY DEF SessionInv, ScreensTyped, ClientTyped, ClientHolds
<1>2. Idle(d) /\ NoWrites(d) /\ RecordRight(d) /\ \A e \in Devices \ {d} : Rests(e)
  BY DEF Rests
<1>3. CASE \E u \in Users, new \in BOOLEAN : loginOrSignupTapped(d, u, new)
  <2>1. PICK u \in Users, new \in BOOLEAN : loginOrSignupTapped(d, u, new)
    BY <1>3
  <2>2. /\ signing' = [signing EXCEPT ![d] = {[user |-> u, new |-> new]}]
        /\ UNCHANGED <<server, queue, user, main, record, reading>>
    BY <1>2, <2>1 DEF loginOrSignupTapped, Idle, clientVars
  <2>3. record[d] = None
    <3>1. currentUser(d) = None
      BY <2>1 DEF loginOrSignupTapped, WelcomeOffered, UpToDate
    <3>2. record[d] # None => record[d].id = user[d] /\ record[d].id \in Users
      BY <1>1, <1>2 DEF RecordRight, Records
    <3> QED
      BY <3>1, <3>2, ClientAssumption DEF currentUser
  <2>4. SigningIn(d)'
    <3>1. [user |-> u, new |-> new] \in [user : Users, new : BOOLEAN]
      OBVIOUS
    <3>2. signing'[d] = {[user |-> u, new |-> new]}
      BY <1>1, <2>2
    <3> QED
      BY <1>2, <2>2, <2>3, <3>1, <3>2 DEF SigningIn, Idle, NoWrites
  <2>5. \A e \in Devices \ {d} : UNCHANGED Own(e)
    BY <1>1, <2>2 DEF Own
  <2> QED
    BY <1>2, <2>2, <2>4, <2>5, OneSteps DEF Busy
<1>4. CASE logOutCurrentUser(d)
  <2>1. /\ StreamBreaks(d) /\ record' = [record EXCEPT ![d] = None]
        /\ UNCHANGED <<server, main, signing, reading>>
        /\ \A e \in Devices \ {d} : user'[e] = user[e]
    <3>1. CASE CredentialChange(d, NoUser)
      BY <1>1, <1>4, <3>1 DEF logOutCurrentUser, CredentialChange
    <3>2. CASE UNCHANGED clientVars
      BY <1>4, <3>2 DEF logOutCurrentUser, clientVars, StreamBreaks
    <3> QED
      BY <1>4, <3>1, <3>2 DEF logOutCurrentUser
  <2>2. queue'[d] = queue[d] /\ \A e \in Devices \ {d} : queue'[e] = queue[e]
    BY <1>2, <2>1, QueueBroken
  <2>3. Rests(d)'
    BY <1>1, <1>2, <2>1, <2>2 DEF Rests, Idle, NoWrites, RecordRight
  <2>4. \A e \in Devices \ {d} : UNCHANGED Own(e)
    BY <1>1, <2>1, <2>2 DEF Own
  <2> QED
    BY <1>2, <2>1, <2>3, <2>4, OneSteps
<1> QED
  BY <1>3, <1>4

\* The app is put away and started again.
LEMMA RestartSteps ==
    ASSUME SessionInv, \A e \in Devices : Rests(e), NEW d \in Devices, Terminate(d)
    PROVE  PatientInv'
<1>1. /\ queue \in [Devices -> [Accounts -> Seq(Writes)]] /\ main \in [Devices -> Seq(Blocks)]
      /\ signing \in [Devices -> SUBSET [user : Users, new : BOOLEAN]]
      /\ reading \in [Devices -> Seq(Users)]
  BY DEF SessionInv, ScreensTyped, ClientTyped, ClientHolds
<1>2. Idle(d) /\ NoWrites(d)
  BY DEF Rests
<1>3. /\ main' = [main EXCEPT ![d] = << >>]
      /\ queue' = [queue EXCEPT ![d] = [u \in Accounts |-> Unsent(Untagged(queue[d][u]))]]
      /\ signing' = [signing EXCEPT ![d] = {}] /\ reading' = [reading EXCEPT ![d] = << >>]
      /\ UNCHANGED <<server, user, record>>
  BY DEF Terminate, RestartClient, RestartFrom
<1>4. Unsent(Untagged(<< >>)) = << >>
  BY DEF Unsent, Untagged
<1>5. [u \in Accounts |-> Unsent(Untagged(queue[d][u]))] = queue[d]
  BY <1>2, <1>4 DEF NoWrites
<1>6. \A e \in Devices : UNCHANGED Own(e)
  BY <1>1, <1>2, <1>3, <1>5 DEF Own, Idle
<1>7. PatientInv
  BY DEF PatientInv
<1> QED
  BY <1>3, <1>6, <1>7, NothingHappened

\* "Done" and "save".
LEMMA SaveSteps ==
    ASSUME SessionInv, \A e \in Devices : Rests(e), NEW d \in Devices, NEW values \in Values,
           Save(d, values), EditedOnOnePhone(d), saves \in Nat
    PROVE  PatientInv'
<1> DEFINE u == user[d]
           joined == With(record[d], values)
           w == UpdateData(u, values, [dictionary |-> joined])
<1>1. /\ queue \in [Devices -> [Accounts -> Seq(Writes)]] /\ user \in [Devices -> Accounts]
      /\ record \in [Devices -> Records \cup {None}] /\ PatientInv
  BY DEF SessionInv, ScreensTyped, ClientTyped, ClientHolds, PatientInv
<1>2. Idle(d) /\ NoWrites(d) /\ RecordRight(d)
  BY DEF Rests
<1>3. record[d] # None => u \in Users /\ record[d].id = u /\ server[u] = record[d]
  BY <1>1, <1>2 DEF RecordRight, Records
<1>4. CASE /\ record[d] # None /\ u # NoUser
           /\ updateCurrentUserInFirestore(d, values)
           /\ UNCHANGED <<server, cache, online, user, main, local, world, tries>>
  <2>1. /\ queue' = [queue EXCEPT ![d][u] = Append(queue[d][u], w)]
        /\ UNCHANGED <<server, user, main, record, signing, reading>>
    BY <1>4 DEF updateCurrentUserInFirestore, WriteMutations, local
  <2>2. w = [w EXCEPT !.fate = "pending"] /\ "pending" \notin Accepted /\ w' = w
    BY <2>1 DEF UpdateData, Accepted
  <2>3. Alone(d)'
    <3>1. SUFFICES saves' # saves
      BY <1>1, <2>1 DEF EditedOnOnePhone, Alone
    <3>2. saves' = saves + 1
      BY DEF Save
    <3> QED
      BY <3>2
  <2> HIDE DEF w
  <2>4. Append(<< >>, w) = <<w>> /\ queue[d][u] = << >> /\ u \in Accounts
    BY <1>1, <1>2 DEF NoWrites
  <2>5. queue'[d] = [queue[d] EXCEPT ![u] = <<w>>]
    BY <1>1, <2>1, <2>4
  <2>6. OnlyWrite(d, w)'
    <3>1. queue'[d] = [v \in Accounts |-> IF v = u THEN <<w>> ELSE << >>]
      BY <1>2, <2>4, <2>5 DEF NoWrites
    <3> QED
      BY <2>1, <2>2, <3>1 DEF OnlyWrite
  <2>7. /\ Idle(d)' /\ u \in Users /\ record[d] \in Records /\ record[d].id = u
        /\ server[u] = record[d]
    BY <1>1, <1>2, <1>3, <1>4, <2>1 DEF Idle
  <2>8. Saves(d)'
    BY <2>1, <2>2, <2>3, <2>6, <2>7 DEF Saves, w
  <2>9. \A e \in Devices \ {d} : UNCHANGED Own(e)
    BY <1>1, <2>1 DEF Own
  <2> QED
    BY <2>1, <2>8, <2>9, OneSteps DEF Busy
<1>5. CASE record[d] # None /\ u = NoUser
  BY <1>3, <1>5, ClientAssumption
<1>6. CASE UNCHANGED <<clientVars, local, world, tries>>
  <2>1. UNCHANGED server /\ \A e \in Devices : UNCHANGED Own(e)
    BY <1>6 DEF clientVars, local, Own
  <2> QED
    BY <1>1, <2>1, NothingHappened
<1> QED
  BY <1>4, <1>5, <1>6 DEF Save

--------------------------------------------------------------------------------
(* The whole.                                                              *)

LEMMA PatientInit == Init => PatientInv /\ saves \in Nat
<1> SUFFICES ASSUME Init PROVE PatientInv /\ saves \in Nat
  OBVIOUS
<1>1. \A d \in Devices : Rests(d)
  BY DEF Init, ClientInit, Rests, Idle, NoWrites, RecordRight
<1> QED
  BY <1>1 DEF Init, PatientInv

LEMMA PatientIsNext == ASSUME [PatientNext]_vars PROVE [Next]_vars
<1>1. CASE AllSettled /\ \E d \in Devices : UpToDate(d) /\ UserActs(d) /\ EditedOnOnePhone(d)
  BY <1>1 DEF Next
<1>2. CASE AllSettled /\ \E d \in Devices : Terminate(d) /\ UNCHANGED saves
  BY <1>2 DEF Next
<1>3. CASE AllSettled /\ \E u \in Users : VerifyEmail(u)
  BY <1>3 DEF Next
<1>4. CASE \E d \in Devices : (viewDidAppear(d) \/ AppRuns(d) \/ Network(d)) /\ NothingFails(d)
  BY <1>4 DEF Next
<1> QED
  BY <1>1, <1>2, <1>3, <1>4 DEF PatientNext

\* The phones that wait change nothing, whatever they do.
LEMMA RestsOrRuns ==
    ASSUME SessionInv, PatientInv, NEW d \in Devices, AppRuns(d) \/ Network(d)
    PROVE  (Rests(d) \/ Busy(d)) /\ \A e \in Devices \ {d} : Rests(e) \/ Busy(e)
BY DEF PatientInv

LEMMA RunSteps ==
    ASSUME SessionInv, PatientInv, NEW d \in Devices, AppRuns(d) \/ Network(d), NothingFails(d)
    PROVE  PatientInv'
<1>1. CASE \A e \in Devices \ {d} : Rests(e)
  <2>1. Rests(d) \/ Busy(d)
    BY DEF PatientInv
  <2> QED
    BY <1>1, <2>1, AuthSteps, DownloadSteps, MainSteps, DecideSteps, LearnSteps, NetSteps
    DEF AppRuns, Network
<1>2. CASE ~ \A e \in Devices \ {d} : Rests(e)
  <2>1. Rests(d)
    BY <1>2 DEF PatientInv
  <2>2. /\ queue[d] \in [Accounts -> Seq(Writes)] /\ user[d] \in Accounts
    BY DEF SessionInv, ClientTyped, ClientHolds
  <2>3. signing[d] = {} /\ reading[d] = << >> /\ main[d] = << >> /\ pending(d) = << >>
    BY <2>1, <2>2 DEF Rests, Idle, NoWrites, pending
  <2>4. NetworkLost(d) \/ NetworkBack(d)
    BY <2>3 DEF AppRuns, AuthAnswers, downloadUserFromFirestore, MainQueue, Network,
                ServerDecides, ClientLearns, Acknowledge
  <2>5. /\ StreamBreaks(d)
        /\ UNCHANGED <<server, user, main, record, signing, reading>>
    BY <2>4 DEF NetworkLost, NetworkBack, GoOffline, GoOnline, StreamBreaks, appVars, local
  <2>6. \A e \in Devices : queue'[e] = queue[e]
    BY <2>1, <2>5, QueueBroken DEF Rests
  <2>7. \A e \in Devices : UNCHANGED Own(e)
    BY <2>5, <2>6 DEF Own
  <2> QED
    BY <2>5, <2>7, NothingHappened
<1> QED
  BY <1>1, <1>2

LEMMA PatientSteps ==
    ASSUME SessionInv, PatientInv, saves \in Nat, [PatientNext]_vars
    PROVE  PatientInv'
<1>1. ASSUME NEW d \in Devices, UpToDate(d), UserActs(d), EditedOnOnePhone(d), AllSettled
      PROVE  PatientInv'
  <2>1. \A e \in Devices : Rests(e)
    BY <1>1, SettledRests
  <2>2. ASSUME NEW n \in Names, finishiOnboarding(d, n) \/ saveBarButtonPressed(d, n)
        PROVE  PatientInv'
    <3>1. [onBoard |-> TRUE, name |-> n] \in Values /\ [name |-> n] \in Values
      BY DEF Values
    <3> QED
      BY <1>1, <2>1, <2>2, <3>1, SaveSteps DEF finishiOnboarding, saveBarButtonPressed
  <2> QED
    BY <1>1, <2>1, <2>2, AccountTaps DEF UserActs
<1>2. ASSUME NEW d \in Devices, Terminate(d), AllSettled PROVE PatientInv'
  BY <1>2, SettledRests, RestartSteps
<1>3. ASSUME UNCHANGED <<clientVars, record, signing, reading>> PROVE PatientInv'
  <2>1. UNCHANGED server /\ \A d \in Devices : UNCHANGED Own(d)
    BY <1>3 DEF clientVars, Own
  <2> QED
    BY <2>1, NothingHappened
<1>4. ASSUME NEW d \in Devices, viewDidAppear(d) PROVE PatientInv'
  BY <1>3, <1>4 DEF viewDidAppear
<1>5. ASSUME NEW u \in Users, VerifyEmail(u) PROVE PatientInv'
  BY <1>3, <1>5 DEF VerifyEmail, local
<1>6. CASE UNCHANGED vars
  BY <1>3, <1>6 DEF vars, local
<1> QED
  BY <1>1, <1>2, <1>4, <1>5, <1>6, RunSteps DEF PatientNext

\* Presses of "done" and "save" are counted.
LEMMA SavesCounted ==
    ASSUME saves \in Nat, [Next]_vars
    PROVE  saves' \in Nat
<1>1. ASSUME NEW d \in Devices, NEW values, Save(d, values) PROVE saves' \in Nat
  BY <1>1 DEF Save
<1>2. ASSUME NEW d \in Devices, UserActs(d) PROVE saves' \in Nat
  BY <1>1, <1>2 DEF UserActs, loginOrSignupTapped, logOutCurrentUser, finishiOnboarding,
                    saveBarButtonPressed
<1>3. ASSUME NEW d \in Devices, AppRuns(d) \/ Network(d) \/ viewDidAppear(d)
      PROVE  saves' \in Nat
  BY <1>3 DEF AppRuns, Network, viewDidAppear, AuthAnswers, downloadUserFromFirestore,
              MainQueue, ServerDecides, ClientLearns, NetworkLost, NetworkBack, appVars
<1>4. ASSUME NEW u \in Users, VerifyEmail(u) PROVE saves' \in Nat
  BY <1>4 DEF VerifyEmail
<1> QED
  BY <1>2, <1>3, <1>4 DEF Next, vars

LEMMA PatientInvariant == PatientSpec => [](SessionInv /\ PatientInv /\ saves \in Nat)
<1>1. SessionInv /\ PatientInv /\ saves \in Nat /\ [PatientNext]_vars
        => (SessionInv /\ PatientInv /\ saves \in Nat)'
  BY PatientIsNext, StepHolds, PatientSteps, SavesCounted
<1> QED
  BY <1>1, InitHolds, PatientInit, PTL DEF PatientSpec

\* When all is quiet, the record on a phone is what the server has for the account that
\* is signed in there, if users wait and nothing fails: saveUserLocally is called with
\* the values of the setData or updateData beside it, or with what was read.
THEOREM RecordsAreDocuments == PatientSpec => []RecordIsDocument
<1>1. SessionInv /\ PatientInv => RecordIsDocument
  <2> SUFFICES ASSUME SessionInv, PatientInv, AllSettled, NEW d \in Devices, record[d] # None
               PROVE  record[d] = server[record[d].id] /\ record[d].id = user[d]
    BY DEF RecordIsDocument
  <2> QED
    BY SettledRests DEF Rests, RecordRight
<1> QED
  BY <1>1, PatientInvariant, PTL

\* A new account's document is saved where there is none, or where one as new was saved
\* before the connection was lost: nothing is overwritten, if users wait.
THEOREM NothingOverwritten == PatientSpec => BlankOnlyForNew
<1>1. SessionInv /\ PatientInv /\ [PatientNext]_vars =>
        [\A d \in Devices : \A i \in DOMAIN pending(d) :
            LET w == pending(d)[i] IN
            CommitWrite(d, i) /\ w.op = "set" => server[w.key] \in {NoDoc, NewUser(w.key)}]_vars
  <2> SUFFICES ASSUME SessionInv, PatientInv, NEW d \in Devices, NEW i \in DOMAIN pending(d),
                      pending(d)[i].op = "set"
               PROVE  server[pending(d)[i].key] \in {NoDoc, NewUser(pending(d)[i].key)}
    OBVIOUS
  <2>1. pending(d) # << >>
    OBVIOUS
  <2>2. queue[d] \in [Accounts -> Seq(Writes)] /\ user[d] \in Accounts
    BY DEF SessionInv, ClientTyped, ClientHolds
  <2>3. ~ NoWrites(d)
    BY <2>1, <2>2 DEF NoWrites, pending
  <2>4. Creates(d) \/ Saves(d)
    BY <2>3
    DEF PatientInv, Rests, Busy, SigningIn, Reads, HasAnswer, IsTold
  <2>5. PICK w \in Writes : OnlyWrite(d, w) /\ pending(d) = <<w>> /\ w.key = user[d]
    BY <2>4, TheOneWrite
  <2>6. pending(d)[i] = w
    BY <2>5
  <2>7. user[d] \in Accounts
    BY <2>2
  <2>8. ~ Saves(d)
    <3>1. SUFFICES ASSUME Saves(d) PROVE FALSE
      OBVIOUS
    <3>2. PICK fate, values :
            OnlyWrite(d, [UpdateData(user[d], values, [dictionary |-> With(record[d], values)])
                            EXCEPT !.fate = fate])
      BY <3>1 DEF Saves
    <3>3. w = [UpdateData(user[d], values, [dictionary |-> With(record[d], values)])
                  EXCEPT !.fate = fate]
      BY <2>5, <2>7, <3>2 DEF OnlyWrite
    <3> QED
      BY <2>6, <3>3 DEF UpdateData
  <2> QED
    BY <2>4, <2>5, <2>6, <2>8 DEF Creates
<1> QED
  BY <1>1, PatientInvariant, PTL DEF PatientSpec, BlankOnlyForNew

================================================================================
