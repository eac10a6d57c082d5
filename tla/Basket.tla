-------------------------------- MODULE Basket --------------------------------
(***************************************************************************)
(* "Add to basket", pressed on the item screen, on any number of phones.   *)
(* The app reads the basket document of the signed-in account and then     *)
(* writes it back with one more line, or creates it; nothing makes the two *)
(* steps one.  A line of a basket is identified with the tap that made it, *)
(* so that two taps on one item are two lines, as they are in the code.    *)
(***************************************************************************)
EXTENDS FirestoreClient, FiniteSets

CONSTANTS
    Taps  \* presses of the button

VARIABLES
    phase,    \* phase[t]: how far tap t has got
    device,   \* device[t]: the phone it was made on, or None
    tapper,   \* tapper[t]: the account signed in when it was made
    made,     \* made[k]: who drew the UUID k, for whose basket; or None
    home,     \* history: home[t], the basket t's line was written to, or None
    calm,     \* history: t's read was answered by the server, with no write of
              \*   the account pending on that phone
    before,   \* history: before[t][k], the lines of basket k at t's read
    arrived   \* history: the lines some write has brought to the server

historyVars == <<calm, before, arrived>>
tapVars == <<phase, device, tapper, made, home, historyVars>>
vars == <<clientVars, tapVars>>

\* Firestore orders the documents of a query by name; a UUID is a number here.
ASSUME BasketAssumption ==
    /\ Keys \subseteq Nat
    /\ Fields = {"owner", "lines"}
    /\ None \notin Keys \cup Taps \cup Devices \cup [by : Taps, owner : Users]
    /\ NoDoc \notin Keys
    /\ NoDoc \notin [owner : Users, lines : Seq(Taps)]

BasketDocs == [owner : Users, lines : Seq(Taps)]

Lines(doc) == IF doc = NoDoc THEN {} ELSE {doc.lines[i] : i \in DOMAIN doc.lines}

--------------------------------------------------------------------------------
(* Basket.swift                                                            *)

\* Variant: the query without its whereField.
BasketsOfAnybody(u, docs) == {k \in Keys : docs[k] # NoDoc}

BasketsOf(u, docs) == {k \in Keys : docs[k] # NoDoc /\ docs[k].owner = u}

\* Variant: "documents.count > 1" for "> 0".
FirstBasketOfMany(u, docs) ==
    IF \E j, k \in BasketsOf(u, docs) : j < k
    THEN CHOOSE k \in BasketsOf(u, docs) : \A j \in BasketsOf(u, docs) : k <= j
    ELSE NoDoc

\* snapshot.documents.first!, or nil
FirstBasket(u, docs) ==
    IF BasketsOf(u, docs) = {} THEN NoDoc
    ELSE CHOOSE k \in BasketsOf(u, docs) : \A j \in BasketsOf(u, docs) : k <= j

\* The completion block of the read: key = NoDoc stands for a nil basket.
Downloaded(t, key, doc) ==
    [kind |-> "basket", tag |-> t, key |-> key, basket |-> doc]

Answer(t, u, docs) ==
    LET k == FirstBasket(u, docs) IN
    IF k = NoDoc THEN Downloaded(t, NoDoc, NoDoc) ELSE Downloaded(t, k, docs[k])

Deliver(d, block) == main' = [main EXCEPT ![d] = Append(@, block)]

\* The server answers the query; the client lays its pending writes over it.
downloadBasketFromServer(t) ==
    LET d == device[t]
        u == tapper[t]
    IN
    /\ online[d]
    /\ Fetch(d, BasketsOf(u, server))
    /\ Deliver(d, Answer(t, u, LocalView(d, cache'[d])))
    /\ calm' = [calm EXCEPT ![t] = pending(d) = << >>]

\* Offline, the query is answered by the cache, which may know no basket.
downloadBasketFromCache(t) ==
    LET d == device[t] IN
    /\ ~ online[d]
    /\ Deliver(d, Answer(t, tapper[t], LocalView(d, cache[d])))
    /\ UNCHANGED <<cache, queue, calm>>

\* An error: the snapshot is nil, and so is the basket.
downloadBasketError(t) ==
    /\ Deliver(device[t], Downloaded(t, NoDoc, NoDoc))
    /\ UNCHANGED <<cache, queue, calm>>

Read(t) ==
    /\ phase' = [phase EXCEPT ![t] = "answered"]
    /\ before' = [before EXCEPT ![t] = [k \in Keys |-> Lines(server[k])]]
    /\ \/ downloadBasketFromServer(t)
       \/ downloadBasketFromCache(t)
       \/ downloadBasketError(t)
    /\ UNCHANGED <<server, online, user, device, tapper, made, home, arrived>>

\* Variant: a listener, which goes on answering, for getDocuments.
listenToBasket(t) == phase[t] \in {"reading", "answered"} /\ Read(t)

downloadBasketFromFirestore(t) == phase[t] = "reading" /\ Read(t)

\* Variant: basketDictionaryFrom falls back to an empty owner.
saveBasketOwnerless(d, k, basket) ==
    WriteMutations(d, SetData(k, [basket EXCEPT !.owner = NoUser], None))

saveBasketToFirestore(d, k, basket) ==
    WriteMutations(d, SetData(k, basket, None))

\* Variant: only the new line is sent.
updateBasketWithLast(d, k, lines, t) ==
    WriteMutations(d, UpdateData(k, [lines |-> <<t>>], t))

\* Variant: the completion is not passed on.
updateBasketSilently(d, k, lines, t) ==
    WriteMutations(d, UpdateData(k, [lines |-> lines], None))

updateBasketInFirestore(d, k, lines, t) ==
    WriteMutations(d, UpdateData(k, [lines |-> lines], t))

--------------------------------------------------------------------------------
(* ItemViewController.swift                                                *)

\* Signed in: the read is under way.
addToBasketTapped(t, d) ==
    /\ phase[t] = "idle"
    /\ user[d] # NoUser
    /\ phase' = [phase EXCEPT ![t] = "reading"]
    /\ device' = [device EXCEPT ![t] = d]
    /\ tapper' = [tapper EXCEPT ![t] = user[d]]
    /\ UNCHANGED <<clientVars, made, home, historyVars>>

\* Signed out: the welcome screen is presented instead.
addToBasketRefused(t, d) ==
    /\ phase[t] = "idle"
    /\ user[d] = NoUser
    /\ phase' = [phase EXCEPT ![t] = "refused"]
    /\ UNCHANGED <<clientVars, device, tapper, made, home, historyVars>>

\* No basket: one is made, for the account signed in by now, and "Added to
\* basket!" is shown without waiting for the write.
createNewBasket(d) ==
    LET block == Head(main[d]) IN
    /\ block.kind = "basket"
    /\ block.key = NoDoc
    /\ user[d] # NoUser
    /\ \E k \in {j \in Keys : made[j] = None} :
        /\ made' = [made EXCEPT ![k] = [by |-> block.tag, owner |-> user[d]]]
        /\ home' = [home EXCEPT ![block.tag] = k]
        /\ saveBasketToFirestore(d, k, [owner |-> user[d], lines |-> <<block.tag>>])
        /\ phase' = [phase EXCEPT ![block.tag] = "added"]

\* A basket: the line is appended to the copy the read returned, and the list
\* is written back.
updateBasket(d) ==
    LET block == Head(main[d]) IN
    /\ block.kind = "basket"
    /\ block.key # NoDoc
    /\ updateBasketInFirestore(d, block.key,
                               Append(block.basket.lines, block.tag), block.tag)
    /\ phase' = [phase EXCEPT ![block.tag] = "writing"]
    /\ home' = [home EXCEPT ![block.tag] = block.key]
    /\ UNCHANGED made

\* Variant: the error is not looked at.
updateBasketShownAnyway(d) ==
    /\ Head(main[d]).kind = "written"
    /\ phase' = [phase EXCEPT ![Head(main[d]).tag] = "added"]
    /\ UNCHANGED <<queue, made, home>>

\* The update is answered: "Added to basket!" or "Error: ..."
updateBasketShown(d) ==
    LET block == Head(main[d]) IN
    /\ block.kind = "written"
    /\ phase' = [phase EXCEPT ![block.tag] = IF block.ok THEN "added" ELSE "failed"]
    /\ UNCHANGED <<queue, made, home>>

MainQueue(d) ==
    /\ main[d] # << >>
    /\ main' = [main EXCEPT ![d] = Tail(@)]
    /\ \/ createNewBasket(d)
       \/ updateBasket(d)
       \/ updateBasketShown(d)
    /\ UNCHANGED <<server, cache, online, user, device, tapper, historyVars>>

--------------------------------------------------------------------------------
(* The process ends: by the user's hand, or because currentId() unwraps a  *)
(* nil user.  What a tap waits for in memory is gone; its write is not.    *)

Terminate(d) ==
    /\ RestartClient(d)
    /\ phase' = [t \in Taps |->
                    IF device[t] # d THEN phase[t]
                    ELSE IF phase[t] \in {"reading", "answered"} THEN "dropped"
                    ELSE IF phase[t] = "writing" THEN "untold"
                    ELSE phase[t]]
    /\ UNCHANGED <<device, tapper, made, home, historyVars>>

createNewBasketTraps(d) ==
    /\ main[d] # << >>
    /\ Head(main[d]).kind = "basket"
    /\ Head(main[d]).key = NoDoc
    /\ user[d] = NoUser
    /\ Terminate(d)

--------------------------------------------------------------------------------

ServerDecides(d) ==
    \E i \in DOMAIN pending(d) :
        \/ /\ CommitWrite(d, i)
           /\ arrived' = arrived \cup Lines(server'[pending(d)[i].key])
           /\ UNCHANGED <<phase, device, tapper, made, home, calm, before>>
        \/ /\ RefuseWrite(d, i)
           /\ UNCHANGED tapVars

ClientLearns(d) == Acknowledge(d) /\ UNCHANGED tapVars

NetworkLost(d) == GoOffline(d) /\ UNCHANGED tapVars

NetworkBack(d) == GoOnline(d) /\ UNCHANGED tapVars

SignInOrOut(d) ==
    /\ \E u \in Accounts : CredentialChange(d, u)
    /\ UNCHANGED tapVars

Init ==
    /\ server = [k \in Keys |-> NoDoc]
    /\ user \in [Devices -> Users]
    /\ ClientInit
    /\ phase = [t \in Taps |-> "idle"]
    /\ device = [t \in Taps |-> None]
    /\ tapper = [t \in Taps |-> NoUser]
    /\ made = [k \in Keys |-> None]
    /\ home = [t \in Taps |-> None]
    /\ calm = [t \in Taps |-> FALSE]
    /\ before = [t \in Taps |-> [k \in Keys |-> {}]]
    /\ arrived = {}

Next ==
    \/ \E t \in Taps : downloadBasketFromFirestore(t)
    \/ \E t \in Taps, d \in Devices : addToBasketTapped(t, d) \/ addToBasketRefused(t, d)
    \/ \E d \in Devices : MainQueue(d) \/ createNewBasketTraps(d) \/ Terminate(d)
    \/ \E d \in Devices :
           \/ ServerDecides(d)
           \/ ClientLearns(d)
           \/ NetworkLost(d)
           \/ NetworkBack(d)
           \/ SignInOrOut(d)

Spec == Init /\ [][Next]_vars

\* Reads are answered and the main queue runs; the network, whenever it is lost,
\* comes back, and is there often enough for the server to be heard.  Nobody has
\* to press a button.
Fairness ==
    /\ \A t \in Taps : WF_vars(downloadBasketFromFirestore(t))
    /\ \A d \in Devices :
        /\ WF_vars(MainQueue(d) \/ createNewBasketTraps(d))
        /\ WF_vars(NetworkBack(d))
        /\ SF_vars(ServerDecides(d))
        /\ SF_vars(ClientLearns(d))

FairSpec == Spec /\ Fairness

--------------------------------------------------------------------------------
(* Properties                                                              *)

Phases == {"idle", "refused", "reading", "answered", "writing", "added",
           "failed", "dropped", "untold"}

Fates == {"pending", "refused"} \cup Accepted

Writes ==
    [op : {"set"}, key : Keys, fields : BasketDocs, tag : {None},
     fate : Fates]
    \cup
    [op : {"update"}, key : Keys, fields : [lines : Seq(Taps)],
     tag : Taps \cup {None}, fate : Fates]

Blocks ==
    [kind : {"basket"}, tag : Taps, key : {NoDoc}, basket : {NoDoc}]
    \cup [kind : {"basket"}, tag : Taps, key : Keys, basket : BasketDocs]
    \cup [kind : {"written"}, tag : Taps, ok : BOOLEAN]

\* The values the state is made of.
TypeOK ==
    /\ server \in [Keys -> BasketDocs \cup {NoDoc}]
    /\ cache \in [Devices -> [Keys -> BasketDocs \cup {NoDoc}]]
    /\ queue \in [Devices -> [Accounts -> Seq(Writes)]]
    /\ online \in [Devices -> BOOLEAN]
    /\ user \in [Devices -> Accounts]
    /\ main \in [Devices -> Seq(Blocks)]
    /\ phase \in [Taps -> Phases]
    /\ device \in [Taps -> Devices \cup {None}]
    /\ tapper \in [Taps -> Accounts]
    /\ made \in [Keys -> [by : Taps, owner : Users] \cup {None}]
    /\ home \in [Taps -> Keys \cup {None}]
    /\ calm \in [Taps -> BOOLEAN]
    /\ before \in [Taps -> [Keys -> SUBSET Taps]]
    /\ arrived \in SUBSET Taps

\* One tap never makes two lines, in one basket or in two, however often its
\* write is sent again and whatever the other taps write
\* (ItemViewController.addToBasketTapped, which carries the whole list).
NoLineTwice ==
    \A j, k \in Keys : server[j] # NoDoc /\ server[k] # NoDoc =>
        \A m \in DOMAIN server[j].lines, n \in DOMAIN server[k].lines :
            server[j].lines[m] = server[k].lines[n] => j = k /\ m = n

\* A line in somebody else's basket is the line that created it: only
\* createNewBasket looks at the account again after the read.
StrayOnlyFirst ==
    \A k \in Keys : server[k] # NoDoc =>
        \A n \in 2 .. Len(server[k].lines) :
            tapper[server[k].lines[n]] = server[k].owner

Writer(w) == w.fields.lines[Len(w.fields.lines)]

\* The server loses a line only to a tap whose read came before the line did,
\* or was not answered by the server, or was overlaid with pending writes: the
\* window between downloadBasketFromFirestore and updateBasketInFirestore.
LostOnlyByOverlap ==
    [][\A k \in Keys : \A t \in Lines(server[k]) \ Lines(server'[k]) :
          \E d \in Devices : \E i \in DOMAIN pending(d) :
            LET w == pending(d)[i] IN
            /\ w.key = k
            /\ NextAtServer(d, i)
            /\ calm[Writer(w)] => t \notin before[Writer(w)][k]]_vars

\* An account has a second basket only if the read of a tap that made one of
\* them was not answered by the server, or came before the other basket did.
SecondBasketOnlyByOverlap ==
    \A j, k \in Keys :
        LET t == made[k].by IN
        (server[j] # NoDoc /\ server[k] # NoDoc /\ calm[t] /\ server[j].owner = tapper[t])
        => before[t][j] = {}

\* "Added to basket!" after an update (updateBasket, not createNewBasket) is
\* shown only when the line has been in the basket on the server.
ToldAfterArrival ==
    \A t \in Taps :
        phase[t] = "added" /\ (\A k \in Keys : made[k] # None => made[k].by # t)
        => t \in arrived

\* Nothing is under way on any phone.
Quiet ==
    /\ \A t \in Taps : phase[t] \notin {"reading", "answered", "writing"}
    /\ \A d \in Devices :
        /\ online[d]
        /\ main[d] = << >>
        /\ \A u \in Accounts : queue[d][u] = << >>

\* When all is quiet, a line the user was told about is in the user's basket:
\* "Added to basket!" (ItemViewController.swift:69 and :85).
AddedIsInBasket ==
    Quiet => \A t \in Taps : phase[t] = "added" =>
                \E k \in BasketsOf(tapper[t], server) : t \in Lines(server[k])

\* A tap ends with a message, or with the process, while its account stays.
TapEnds ==
    \A t \in Taps :
        phase[t] = "reading" ~>
            \/ phase[t] \in {"added", "failed", "dropped", "untold"}
            \/ \E d \in Devices : device[t] = d /\ user[d] # tapper[t]

--------------------------------------------------------------------------------
(* The inductive invariant: what a list of lines may look like wherever a  *)
(* copy of it is, on the server, in a cache, in a pending write or in an   *)
(* answer on its way to the app.                                           *)

GoodLines(k, ls) ==
    /\ made[k] # None
    /\ ls # << >>
    /\ \A i \in DOMAIN ls : home[ls[i]] = k
    /\ \A i, j \in DOMAIN ls : ls[i] = ls[j] => i = j
    /\ \A i \in 2 .. Len(ls) : tapper[ls[i]] = made[k].owner

GoodDoc(k, doc) ==
    doc # NoDoc => GoodLines(k, doc.lines) /\ doc.owner = made[k].owner

\* The tap has written.
Past(t) == phase[t] \notin {"idle", "reading", "answered"}

GoodWrite(w) ==
    /\ GoodLines(w.key, w.fields.lines)
    /\ w.op = "set" => w.fields.owner = made[w.key].owner
    /\ w.tag # None => Past(w.tag)

GoodBlock(d, b) ==
    /\ b.kind = "basket" =>
        /\ phase[b.tag] = "answered"
        /\ device[b.tag] = d
        /\ b.key # NoDoc =>
            /\ b.basket # NoDoc
            /\ GoodDoc(b.key, b.basket)
            /\ b.basket.owner = tapper[b.tag]
    /\ b.kind = "written" => Past(b.tag)

GoodDocs ==
    \A k \in Keys : GoodDoc(k, server[k]) /\ \A d \in Devices : GoodDoc(k, cache[d][k])

GoodQueues ==
    \A d \in Devices, u \in Accounts : \A i \in DOMAIN queue[d][u] : GoodWrite(queue[d][u][i])

GoodBlocks == \A d \in Devices : \A i \in DOMAIN main[d] : GoodBlock(d, main[d][i])

OneAnswer ==
    \A d \in Devices : \A i, j \in DOMAIN main[d] :
        /\ main[d][i].kind = "basket" /\ main[d][j].kind = "basket"
        /\ main[d][i].tag = main[d][j].tag
        => i = j

Homeless ==
    \A t \in Taps : ~ Past(t) => home[t] = None

Provenance ==
    /\ TypeOK
    /\ GoodDocs
    /\ GoodQueues
    /\ GoodBlocks
    /\ OneAnswer
    /\ Homeless

--------------------------------------------------------------------------------
(* What a list owes to the read it was made from, wherever it waits.  A    *)
(* tap is calm when the server answered its read and nothing was pending.  *)

\* Everything that was on the server's list when the tap read it is still there.
KeepsWhatWasRead(t, k, ls) == calm[t] => before[t][k] \subseteq {ls[i] : i \in DOMAIN ls}

\* The tap read that its account has no basket, and nothing since makes that untrue.
SawNoBasket(t) ==
    calm[t] => \A j \in Keys : before[t][j] # {} => made[j].owner # tapper[t]

FaithfulWrite(w) ==
    /\ KeepsWhatWasRead(Writer(w), w.key, w.fields.lines)
    /\ w.tag # None => w.op = "update" /\ w.tag = Writer(w)
    /\ w.fate \in Accepted => /\ server[w.key] # NoDoc
                              /\ w.tag # None => w.tag \in arrived

FaithfulBlock(b) ==
    /\ b.kind = "basket" =>
        IF b.key = NoDoc THEN SawNoBasket(b.tag)
        ELSE KeepsWhatWasRead(b.tag, b.key, b.basket.lines)
    /\ b.kind = "written" => (b.ok => b.tag \in arrived)

FaithfulQueues ==
    \A d \in Devices, u \in Accounts :
        \A i \in DOMAIN queue[d][u] : FaithfulWrite(queue[d][u][i])

FaithfulBlocks == \A d \in Devices : \A i \in DOMAIN main[d] : FaithfulBlock(main[d][i])

\* Who made a basket has written, and had read that there was none.
FaithfulMakers ==
    \A k \in Keys : made[k] # None => Past(made[k].by) /\ SawNoBasket(made[k].by)

\* Nobody has read what is not there.
ReadThings ==
    /\ \A t \in Taps : phase[t] \in {"idle", "reading"} => ~ calm[t]
    /\ \A k \in Keys, t \in Taps : made[k] = None => before[t][k] = {}
    /\ \A k \in Keys, d \in Devices : server[k] = NoDoc => cache[d][k] = NoDoc

Faith ==
    /\ FaithfulQueues
    /\ FaithfulBlocks
    /\ FaithfulMakers
    /\ ReadThings
    /\ ToldAfterArrival

================================================================================
