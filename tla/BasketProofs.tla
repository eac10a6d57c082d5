----------------------------- MODULE BasketProofs -----------------------------
(***************************************************************************)
(* Theorems about Basket, for any number of phones, accounts, taps and     *)
(* document names: its types, where the lines of a basket come from, what  *)
(* overlapping taps can do to it and all they can do, and that taps which  *)
(* do not overlap make it a Cart (SerialBasket).                           *)
(***************************************************************************)
EXTENDS SerialBasket, FirestoreClientProofs

--------------------------------------------------------------------------------
(* Documents and writes                                                    *)

DocsOrNone == BasketDocs \cup {NoDoc}

\* A pending write gives fields the values it carries, and only a "set" names
\* an owner.
LEMMA TouchesType ==
    ASSUME NEW w \in Writes, NEW k, NEW f \in Fields, Touches(w, k, f)
    PROVE  /\ f = "lines" => w.fields.lines \in Seq(Taps)
           /\ f = "owner" => w.op = "set" /\ w.fields.owner \in Users
  BY BasketAssumption DEF Touches, Writes, BasketDocs

\* A "set" gives every field a value.
LEMMA SetTouches ==
    ASSUME NEW w \in Writes, NEW f \in Fields, w.op = "set"
    PROVE  Touches(w, w.key, f)
  BY BasketAssumption DEF Touches, Writes, BasketDocs

\* A write keeps the type of the document it is applied to.
LEMMA AppliedType ==
    ASSUME NEW w \in Writes, NEW doc \in DocsOrNone
    PROVE  Applied(w, doc) \in DocsOrNone
<1>1. CASE w.op = "set"
  BY <1>1 DEF Writes, Applied, DocsOrNone
<1>2. CASE w.op # "set" /\ doc = NoDoc
  BY <1>2 DEF Applied, DocsOrNone
<1>3. CASE w.op # "set" /\ doc # NoDoc
  <2>1. doc \in BasketDocs /\ w.fields \in [lines : Seq(Taps)]
    BY <1>3 DEF Writes, DocsOrNone
  <2>2. Applied(w, doc) = [owner |-> doc.owner, lines |-> w.fields.lines]
    BY <1>3, <2>1 DEF Applied, BasketDocs
  <2> QED
    BY <2>1, <2>2 DEF BasketDocs, DocsOrNone
<1> QED
  BY <1>1, <1>2, <1>3

\* So does the overlay of the pending writes: where its lines and its owner
\* come from.
LEMMA LocalDocFrom ==
    ASSUME NEW base \in DocsOrNone, NEW ws \in Seq(Writes), NEW k,
           LocalDoc(base, ws, k) # NoDoc
    PROVE  LET doc == LocalDoc(base, ws, k) IN
           /\ doc \in BasketDocs
           /\ \/ base # NoDoc /\ doc.lines = base.lines
              \/ \E i \in DOMAIN ws : ws[i].key = k /\ doc.lines = ws[i].fields.lines
           /\ \/ base # NoDoc /\ doc.owner = base.owner
              \/ \E i \in DOMAIN ws : /\ ws[i].key = k /\ ws[i].op = "set"
                                      /\ doc.owner = ws[i].fields.owner
<1> DEFINE doc == LocalDoc(base, ws, k)
<1>1. \A i \in DOMAIN ws : ws[i] \in Writes
  OBVIOUS
<1>2. "lines" \in Fields /\ "owner" \in Fields
  BY BasketAssumption
<1>3. base = NoDoc => \E i \in DOMAIN ws : Touches(ws[i], k, "lines") /\ Touches(ws[i], k, "owner")
  <2>1. base = NoDoc => \E i \in DOMAIN ws : ws[i].key = k /\ ws[i].op = "set"
    BY LocalDocShape
  <2> QED
    BY <2>1, <1>1, <1>2, SetTouches
<1>4. \/ base # NoDoc /\ doc.lines = base.lines
      \/ \E i \in DOMAIN ws : Touches(ws[i], k, "lines") /\ doc.lines = ws[i].fields.lines
  BY <1>2, <1>3, LocalDocField
<1>5. \/ base # NoDoc /\ doc.owner = base.owner
      \/ \E i \in DOMAIN ws : Touches(ws[i], k, "owner") /\ doc.owner = ws[i].fields.owner
  BY <1>2, <1>3, LocalDocField
<1>6. doc = [owner |-> doc.owner, lines |-> doc.lines]
  BY LocalDocShape, BasketAssumption
<1>7. doc.lines \in Seq(Taps)
  BY <1>1, <1>2, <1>4, TouchesType DEF DocsOrNone, BasketDocs
<1>8. doc.owner \in Users
  BY <1>1, <1>2, <1>5, TouchesType DEF DocsOrNone, BasketDocs
<1>9. doc \in BasketDocs
  BY <1>6, <1>7, <1>8 DEF BasketDocs
<1> QED
  BY <1>1, <1>2, <1>4, <1>5, <1>9, TouchesType DEF Touches

\* The view a read returns.
LEMMA ViewType ==
    ASSUME NEW d \in Devices, NEW base \in [Keys -> DocsOrNone], TypeOK
    PROVE  LocalView(d, base) \in [Keys -> DocsOrNone]
<1>1. pending(d) \in Seq(Writes)
  BY DEF TypeOK, pending
<1>2. \A k \in Keys : LocalDoc(base[k], pending(d), k) \in DocsOrNone
  BY <1>1, LocalDocFrom DEF DocsOrNone
<1> QED
  BY <1>2 DEF LocalView

\* The answer names the first of the account's baskets, or there is none.
LEMMA AnswerIs ==
    ASSUME NEW t \in Taps, NEW u, NEW docs \in [Keys -> DocsOrNone]
    PROVE  \/ /\ BasketsOf(u, docs) = {}
              /\ Answer(t, u, docs) = Downloaded(t, NoDoc, NoDoc)
           \/ \E k \in BasketsOf(u, docs) :
                /\ Answer(t, u, docs) = Downloaded(t, k, docs[k])
                /\ docs[k] \in BasketDocs /\ docs[k].owner = u
<1>1. CASE BasketsOf(u, docs) = {}
  BY <1>1 DEF Answer, FirstBasket
<1>2. CASE BasketsOf(u, docs) # {}
  <2>1. BasketsOf(u, docs) \in SUBSET Nat
    BY BasketAssumption DEF BasketsOf
  <2>2. PICK m \in BasketsOf(u, docs) : \A j \in BasketsOf(u, docs) : ~ (j < m)
    BY <1>2, <2>1, LeastMember
  <2>3. \A j \in BasketsOf(u, docs) : m <= j
    BY <2>1, <2>2
  <2>4. FirstBasket(u, docs) \in BasketsOf(u, docs)
    BY <1>2, <2>3 DEF FirstBasket
  <2>5. FirstBasket(u, docs) # NoDoc
    BY <2>4, BasketAssumption DEF BasketsOf
  <2> QED
    BY <2>4, <2>5 DEF Answer, BasketsOf, DocsOrNone
<1> QED
  BY <1>1, <1>2

LEMMA AnswerType ==
    ASSUME NEW t \in Taps, NEW u, NEW docs \in [Keys -> DocsOrNone]
    PROVE  Answer(t, u, docs) \in Blocks
<1>1. Downloaded(t, NoDoc, NoDoc) \in Blocks
  BY DEF Downloaded, Blocks
<1>2. \A k \in BasketsOf(u, docs) :
        docs[k] \in BasketDocs => Downloaded(t, k, docs[k]) \in Blocks
  BY DEF Downloaded, Blocks, BasketsOf
<1> QED
  BY <1>1, <1>2, AnswerIs

--------------------------------------------------------------------------------
(* Type correctness                                                        *)

\* What the three kinds of change do to a queue of writes.
LEMMA QueueTypes ==
    ASSUME NEW ws \in Seq(Writes)
    PROVE  /\ Unsent(ws) \in Seq(Writes)
           /\ Untagged(ws) \in Seq(Writes)
           /\ \A i \in DOMAIN ws, f \in Fates : [ws EXCEPT ![i].fate = f] \in Seq(Writes)
<1>1. \A w \in Writes, f \in Fates : [w EXCEPT !.fate = f] \in Writes
  BY DEF Writes
<1>2. \A w \in Writes : [w EXCEPT !.tag = None] \in Writes
  BY DEF Writes
<1>3. "pending" \in Fates
  BY DEF Fates
<1>4. Unsent(ws) \in Seq(Writes)
  BY <1>1, <1>3 DEF Unsent
<1>5. Untagged(ws) \in Seq(Writes)
  BY <1>2 DEF Untagged
<1>6. \A i \in DOMAIN ws, f \in Fates : [ws EXCEPT ![i].fate = f] \in Seq(Writes)
  BY <1>1
<1> QED
  BY <1>4, <1>5, <1>6

ClientTypeOK ==
    /\ server \in [Keys -> DocsOrNone]
    /\ cache \in [Devices -> [Keys -> DocsOrNone]]
    /\ queue \in [Devices -> [Accounts -> Seq(Writes)]]
    /\ online \in [Devices -> BOOLEAN]
    /\ user \in [Devices -> Accounts]
    /\ main \in [Devices -> Seq(Blocks)]

\* A write that the app hands over keeps the type of the queue.
LEMMA WriteMutationsType ==
    ASSUME ClientTypeOK, NEW d \in Devices, NEW w \in Writes, WriteMutations(d, w)
    PROVE  queue' \in [Devices -> [Accounts -> Seq(Writes)]]
  BY DEF ClientTypeOK, WriteMutations

LEMMA CommitWriteType ==
    ASSUME ClientTypeOK, NEW d \in Devices, NEW i \in DOMAIN pending(d), CommitWrite(d, i)
    PROVE  ClientTypeOK'
<1>1. pending(d) \in Seq(Writes) /\ user[d] \in Accounts
  BY DEF ClientTypeOK, pending
<1>2. pending(d)[i] \in Writes /\ pending(d)[i].key \in Keys
  BY <1>1 DEF Writes
<1>3. server' \in [Keys -> DocsOrNone]
  BY <1>2, AppliedType DEF CommitWrite, ClientTypeOK
<1>4. [pending(d) EXCEPT ![i].fate = "committed"] \in Seq(Writes)
  BY <1>1, QueueTypes DEF Fates, Accepted
<1>5. queue' \in [Devices -> [Accounts -> Seq(Writes)]]
  BY <1>1, <1>4 DEF CommitWrite, Decide, ClientTypeOK, pending
<1> QED
  BY <1>3, <1>5 DEF CommitWrite, ClientTypeOK

LEMMA RefuseWriteType ==
    ASSUME ClientTypeOK, NEW d \in Devices, NEW i \in DOMAIN pending(d), RefuseWrite(d, i)
    PROVE  ClientTypeOK'
<1>1. pending(d) \in Seq(Writes) /\ user[d] \in Accounts
  BY DEF ClientTypeOK, pending
<1>2. [pending(d) EXCEPT ![i].fate = "refused"] \in Seq(Writes)
  BY <1>1, QueueTypes DEF Fates
<1>3. queue' \in [Devices -> [Accounts -> Seq(Writes)]]
  BY <1>1, <1>2 DEF RefuseWrite, Decide, ClientTypeOK, pending
<1> QED
  BY <1>3 DEF RefuseWrite, ClientTypeOK

LEMMA AcknowledgeType ==
    ASSUME ClientTypeOK, NEW d \in Devices, Acknowledge(d)
    PROVE  ClientTypeOK'
<1> DEFINE w == Head(pending(d))
<1>1. pending(d) \in Seq(Writes) /\ user[d] \in Accounts
  BY DEF ClientTypeOK, pending
<1>2. w \in Writes /\ w.key \in Keys /\ Tail(pending(d)) \in Seq(Writes)
  BY <1>1 DEF Writes, Acknowledge
<1>3. cache' \in [Devices -> [Keys -> DocsOrNone]]
  BY <1>2, AppliedType DEF Acknowledge, ClientTypeOK
<1>4. queue' \in [Devices -> [Accounts -> Seq(Writes)]]
  BY <1>1, <1>2 DEF Acknowledge, ClientTypeOK, pending
<1>5. w.tag # None => Written(w) \in Blocks
  BY <1>2 DEF Written, Blocks, Writes
<1>6. main' \in [Devices -> Seq(Blocks)]
  BY <1>5 DEF Acknowledge, ClientTypeOK
<1> QED
  BY <1>3, <1>4, <1>6 DEF Acknowledge, ClientTypeOK

LEMMA FetchType ==
    ASSUME ClientTypeOK, NEW d \in Devices, NEW K, Fetch(d, K)
    PROVE  /\ cache' \in [Devices -> [Keys -> DocsOrNone]]
           /\ queue' \in [Devices -> [Accounts -> Seq(Writes)]]
<1> DEFINE marked(w) == IF w.fate = "committed" /\ w.key \in K
                        THEN [w EXCEPT !.fate = "known"] ELSE w
<1>1. cache' \in [Devices -> [Keys -> DocsOrNone]]
  BY DEF Fetch, ClientTypeOK
<1>2. \A w \in Writes : marked(w) \in Writes
  BY DEF Writes, Fates, Accepted
<1>3. \A u \in Accounts : [i \in DOMAIN queue[d][u] |-> marked(queue[d][u][i])] \in Seq(Writes)
  <2> SUFFICES ASSUME NEW u \in Accounts
               PROVE  [i \in DOMAIN queue[d][u] |-> marked(queue[d][u][i])] \in Seq(Writes)
    OBVIOUS
  <2>1. queue[d][u] \in Seq(Writes)
    BY DEF ClientTypeOK
  <2>2. \A i \in DOMAIN queue[d][u] : marked(queue[d][u][i]) \in Writes
    BY <2>1, <1>2
  <2> HIDE DEF marked
  <2> QED
    BY <2>1, <2>2
<1>4. queue' = [queue EXCEPT ![d] =
          [u \in Accounts |-> [i \in DOMAIN queue[d][u] |-> marked(queue[d][u][i])]]]
  BY DEF Fetch
<1> HIDE DEF marked
<1>5. queue' \in [Devices -> [Accounts -> Seq(Writes)]]
  BY <1>3, <1>4 DEF ClientTypeOK
<1> QED
  BY <1>1, <1>5

LEMMA StreamBreaksType ==
    ASSUME ClientTypeOK, NEW d \in Devices, StreamBreaks(d)
    PROVE  queue' \in [Devices -> [Accounts -> Seq(Writes)]]
<1>1. queue[d][user[d]] \in Seq(Writes)
  BY DEF ClientTypeOK
<1>2. Unsent(queue[d][user[d]]) \in Seq(Writes)
  BY <1>1, QueueTypes
<1>3. CASE UNCHANGED queue
  BY <1>3 DEF ClientTypeOK
<1>4. CASE queue' = [queue EXCEPT ![d][user[d]] = Unsent(@)]
  BY <1>2, <1>4 DEF ClientTypeOK
<1> QED
  BY <1>3, <1>4 DEF StreamBreaks

LEMMA RestartClientType ==
    ASSUME ClientTypeOK, NEW d \in Devices, RestartClient(d)
    PROVE  ClientTypeOK'
<1>1. \A u \in Accounts : Unsent(Untagged(queue[d][u])) \in Seq(Writes)
  BY QueueTypes DEF ClientTypeOK
<1>2. queue' \in [Devices -> [Accounts -> Seq(Writes)]]
  BY <1>1 DEF RestartClient, RestartFrom, ClientTypeOK
<1> QED
  BY <1>2 DEF RestartClient, RestartFrom, ClientTypeOK

\* What the rest of the state is made of.
TapTypeOK ==
    /\ phase \in [Taps -> Phases]
    /\ device \in [Taps -> Devices \cup {None}]
    /\ tapper \in [Taps -> Accounts]
    /\ made \in [Keys -> [by : Taps, owner : Users] \cup {None}]
    /\ home \in [Taps -> Keys \cup {None}]
    /\ calm \in [Taps -> BOOLEAN]
    /\ before \in [Taps -> [Keys -> SUBSET Taps]]
    /\ arrived \in SUBSET Taps

LEMMA TypeParts ==
    /\ TypeOK <=> ClientTypeOK /\ TapTypeOK
    /\ TypeOK' <=> ClientTypeOK' /\ TapTypeOK'
  BY DEF TypeOK, ClientTypeOK, TapTypeOK, DocsOrNone

LEMMA LinesType ==
    ASSUME NEW doc \in DocsOrNone
    PROVE  Lines(doc) \in SUBSET Taps
  BY DEF Lines, DocsOrNone, BasketDocs

\* A read keeps the types, whichever way it is answered.
LEMMA DownloadType ==
    ASSUME TypeOK, NEW t \in Taps, downloadBasketFromFirestore(t), device[t] \in Devices
    PROVE  TypeOK'
<1> DEFINE d == device[t]
<1>1. ClientTypeOK /\ TapTypeOK
  BY TypeParts
<1>2. phase' \in [Taps -> Phases]
  BY <1>1 DEF downloadBasketFromFirestore, Read, TapTypeOK, Phases
<1>3. [k \in Keys |-> Lines(server[k])] \in [Keys -> SUBSET Taps]
  BY <1>1, LinesType DEF ClientTypeOK
<1>4. before' \in [Taps -> [Keys -> SUBSET Taps]]
  BY <1>1, <1>3 DEF downloadBasketFromFirestore, Read, TapTypeOK
<1>5. ASSUME downloadBasketFromServer(t)
      PROVE  /\ cache' \in [Devices -> [Keys -> DocsOrNone]]
             /\ queue' \in [Devices -> [Accounts -> Seq(Writes)]]
             /\ main' \in [Devices -> Seq(Blocks)]
             /\ calm' \in [Taps -> BOOLEAN]
  <2>1. /\ cache' \in [Devices -> [Keys -> DocsOrNone]]
        /\ queue' \in [Devices -> [Accounts -> Seq(Writes)]]
    BY <1>1, <1>5, FetchType DEF downloadBasketFromServer
  <2>2. LocalView(d, cache'[d]) \in [Keys -> DocsOrNone]
    BY <2>1, ViewType
  <2>3. Answer(t, tapper[t], LocalView(d, cache'[d])) \in Blocks
    BY <2>2, AnswerType
  <2>4. main' \in [Devices -> Seq(Blocks)]
    BY <1>1, <1>5, <2>3 DEF downloadBasketFromServer, Deliver, ClientTypeOK
  <2>5. calm' \in [Taps -> BOOLEAN]
    BY <1>1, <1>5 DEF downloadBasketFromServer, TapTypeOK
  <2> QED
    BY <2>1, <2>4, <2>5
<1>6. ASSUME downloadBasketFromCache(t) \/ downloadBasketError(t)
      PROVE  main' \in [Devices -> Seq(Blocks)] /\ UNCHANGED <<cache, queue, calm>>
  <2>1. LocalView(d, cache[d]) \in [Keys -> DocsOrNone]
    BY <1>1, ViewType DEF ClientTypeOK
  <2>2. Answer(t, tapper[t], LocalView(d, cache[d])) \in Blocks
    BY <2>1, AnswerType
  <2>3. Downloaded(t, NoDoc, NoDoc) \in Blocks
    BY DEF Downloaded, Blocks
  <2>4. \A b \in Blocks : Deliver(d, b) => main' \in [Devices -> Seq(Blocks)]
    BY <1>1 DEF Deliver, ClientTypeOK
  <2>5. CASE downloadBasketFromCache(t)
    BY <2>2, <2>4, <2>5 DEF downloadBasketFromCache
  <2>6. CASE downloadBasketError(t)
    BY <2>3, <2>4, <2>6 DEF downloadBasketError
  <2> QED
    BY <1>6, <2>5, <2>6
<1>7. ClientTypeOK'
  BY <1>1, <1>5, <1>6 DEF downloadBasketFromFirestore, Read, ClientTypeOK
<1>8. TapTypeOK'
  BY <1>1, <1>2, <1>4, <1>5, <1>6 DEF downloadBasketFromFirestore, Read, TapTypeOK
<1> QED
  BY <1>7, <1>8, TypeParts

LEMMA MainQueueType ==
    ASSUME TypeOK, NEW d \in Devices, MainQueue(d)
    PROVE  TypeOK'
<1> DEFINE b == Head(main[d])
<1>1. ClientTypeOK /\ TapTypeOK
  BY TypeParts
<1>2. b \in Blocks /\ main' \in [Devices -> Seq(Blocks)]
  BY <1>1 DEF MainQueue, ClientTypeOK
<1>3. CASE createNewBasket(d)
  <2>1. b.tag \in Taps /\ user[d] \in Users
    BY <1>1, <1>2, <1>3 DEF createNewBasket, Blocks, ClientTypeOK, Accounts
  <2>2. PICK k \in Keys :
          /\ made' = [made EXCEPT ![k] = [by |-> b.tag, owner |-> user[d]]]
          /\ home' = [home EXCEPT ![b.tag] = k]
          /\ saveBasketToFirestore(d, k, [owner |-> user[d], lines |-> <<b.tag>>])
          /\ phase' = [phase EXCEPT ![b.tag] = "added"]
    BY <1>3 DEF createNewBasket
  <2>3. SetData(k, [owner |-> user[d], lines |-> <<b.tag>>], None) \in Writes
    BY <2>1 DEF SetData, Writes, BasketDocs, Fates
  <2>4. queue' \in [Devices -> [Accounts -> Seq(Writes)]]
    BY <1>1, <2>2, <2>3, WriteMutationsType DEF saveBasketToFirestore
  <2>5. ClientTypeOK'
    BY <1>1, <1>2, <2>4 DEF MainQueue, ClientTypeOK
  <2>6. TapTypeOK'
    BY <1>1, <2>1, <2>2 DEF MainQueue, historyVars, TapTypeOK, Phases
  <2> QED
    BY <2>5, <2>6, TypeParts
<1>4. CASE updateBasket(d)
  <2>1. b.tag \in Taps /\ b.key \in Keys /\ b.basket \in BasketDocs
    BY <1>2, <1>4 DEF updateBasket, Blocks
  <2>2. UpdateData(b.key, [lines |-> Append(b.basket.lines, b.tag)], b.tag) \in Writes
    BY <2>1 DEF UpdateData, Writes, BasketDocs, Fates
  <2>3. queue' \in [Devices -> [Accounts -> Seq(Writes)]]
    BY <1>1, <1>4, <2>2, WriteMutationsType DEF updateBasket, updateBasketInFirestore
  <2>4. ClientTypeOK'
    BY <1>1, <1>2, <2>3 DEF MainQueue, ClientTypeOK
  <2>5. TapTypeOK'
    BY <1>1, <1>4, <2>1 DEF updateBasket, MainQueue, historyVars, TapTypeOK, Phases
  <2> QED
    BY <2>4, <2>5, TypeParts
<1>5. CASE updateBasketShown(d)
  <2>1. b.tag \in Taps
    BY <1>2, <1>5 DEF updateBasketShown, Blocks
  <2>2. ClientTypeOK'
    BY <1>1, <1>2, <1>5 DEF updateBasketShown, MainQueue, ClientTypeOK
  <2>3. TapTypeOK'
    BY <1>1, <1>5, <2>1 DEF updateBasketShown, MainQueue, historyVars, TapTypeOK, Phases
  <2> QED
    BY <2>2, <2>3, TypeParts
<1> QED
  BY <1>3, <1>4, <1>5 DEF MainQueue

LEMMA TerminateType ==
    ASSUME TypeOK, NEW d \in Devices, Terminate(d)
    PROVE  TypeOK'
<1>1. ClientTypeOK /\ TapTypeOK
  BY TypeParts
<1>2. ClientTypeOK'
  BY <1>1, RestartClientType DEF Terminate
<1>3. TapTypeOK'
  BY <1>1 DEF Terminate, historyVars, TapTypeOK, Phases
<1> QED
  BY <1>2, <1>3, TypeParts

LEMMA ServerDecidesType ==
    ASSUME TypeOK, NEW d \in Devices, ServerDecides(d)
    PROVE  TypeOK'
<1>1. ClientTypeOK /\ TapTypeOK
  BY TypeParts
<1>2. PICK i \in DOMAIN pending(d) :
        \/ /\ CommitWrite(d, i)
           /\ arrived' = arrived \cup Lines(server'[pending(d)[i].key])
           /\ UNCHANGED <<phase, device, tapper, made, home, calm, before>>
        \/ RefuseWrite(d, i) /\ UNCHANGED tapVars
  BY DEF ServerDecides
<1>3. CASE /\ CommitWrite(d, i)
           /\ arrived' = arrived \cup Lines(server'[pending(d)[i].key])
           /\ UNCHANGED <<phase, device, tapper, made, home, calm, before>>
  <2>1. ClientTypeOK'
    BY <1>1, <1>3, CommitWriteType
  <2>2. pending(d)[i] \in Writes /\ pending(d)[i].key \in Keys
    BY <1>1 DEF ClientTypeOK, pending, Writes
  <2>3. Lines(server'[pending(d)[i].key]) \in SUBSET Taps
    BY <2>1, <2>2, LinesType DEF ClientTypeOK
  <2>4. TapTypeOK'
    BY <1>1, <1>3, <2>3 DEF TapTypeOK
  <2> QED
    BY <2>1, <2>4, TypeParts
<1>4. CASE RefuseWrite(d, i) /\ UNCHANGED tapVars
  <2>1. ClientTypeOK'
    BY <1>1, <1>4, RefuseWriteType
  <2>2. TapTypeOK'
    BY <1>1, <1>4 DEF TapTypeOK, tapVars, historyVars
  <2> QED
    BY <2>1, <2>2, TypeParts
<1> QED
  BY <1>2, <1>3, <1>4

\* A phone that has a tap's read under way exists.
ReadersHaveDevices == \A t \in Taps : phase[t] = "reading" => device[t] \in Devices

TypeInv == TypeOK /\ ReadersHaveDevices

LEMMA TypeInit == Init => TypeInv
<1> SUFFICES ASSUME Init PROVE TypeInv
  OBVIOUS
<1>1. server \in [Keys -> DocsOrNone]
  BY DEF Init, DocsOrNone
<1>2. ClientTypeOK
  BY <1>1 DEF Init, ClientInit, ClientTypeOK, Accounts
<1>3. TapTypeOK
  BY DEF Init, TapTypeOK, Phases, Accounts
<1>4. ReadersHaveDevices
  BY DEF Init, ReadersHaveDevices
<1> QED
  BY <1>2, <1>3, <1>4, TypeParts DEF TypeInv

LEMMA TypeStep == TypeInv /\ [Next]_vars => TypeInv'
<1> SUFFICES ASSUME TypeInv, [Next]_vars PROVE TypeInv'
  OBVIOUS
<1>1. TypeOK /\ ReadersHaveDevices /\ ClientTypeOK /\ TapTypeOK
  BY TypeParts DEF TypeInv
<1>2. ASSUME NEW t \in Taps, downloadBasketFromFirestore(t)
      PROVE  TypeInv'
  <2>1. TypeOK'
    BY <1>1, <1>2, DownloadType DEF ReadersHaveDevices, downloadBasketFromFirestore
  <2>2. ReadersHaveDevices'
    BY <1>1, <1>2 DEF ReadersHaveDevices, downloadBasketFromFirestore, Read, TapTypeOK
  <2> QED
    BY <2>1, <2>2 DEF TypeInv
<1>3. ASSUME NEW t \in Taps, NEW d \in Devices, addToBasketTapped(t, d)
      PROVE  TypeInv'
  <2>1. ClientTypeOK'
    BY <1>1, <1>3 DEF addToBasketTapped, clientVars, ClientTypeOK
  <2>2. TapTypeOK'
    BY <1>1, <1>3 DEF addToBasketTapped, historyVars, TapTypeOK, ClientTypeOK, Phases
  <2>3. ReadersHaveDevices'
    BY <1>1, <1>3 DEF ReadersHaveDevices, addToBasketTapped, TapTypeOK
  <2> QED
    BY <2>1, <2>2, <2>3, TypeParts DEF TypeInv
<1>4. ASSUME NEW t \in Taps, NEW d \in Devices, addToBasketRefused(t, d)
      PROVE  TypeInv'
  <2>1. ClientTypeOK'
    BY <1>1, <1>4 DEF addToBasketRefused, clientVars, ClientTypeOK
  <2>2. TapTypeOK'
    BY <1>1, <1>4 DEF addToBasketRefused, historyVars, TapTypeOK, Phases
  <2>3. ReadersHaveDevices'
    BY <1>1, <1>4 DEF ReadersHaveDevices, addToBasketRefused, TapTypeOK
  <2> QED
    BY <2>1, <2>2, <2>3, TypeParts DEF TypeInv
<1>5. ASSUME NEW d \in Devices, MainQueue(d)
      PROVE  TypeInv'
  <2>1. TypeOK'
    BY <1>1, <1>5, MainQueueType
  <2>2. ReadersHaveDevices'
    BY <1>1, <1>5 DEF ReadersHaveDevices, MainQueue, createNewBasket, updateBasket,
                      updateBasketShown, TapTypeOK
  <2> QED
    BY <2>1, <2>2 DEF TypeInv
<1>6. ASSUME NEW d \in Devices, Terminate(d)
      PROVE  TypeInv'
  <2>1. TypeOK'
    BY <1>1, <1>6, TerminateType
  <2>2. ReadersHaveDevices'
    BY <1>1, <1>6 DEF ReadersHaveDevices, Terminate
  <2> QED
    BY <2>1, <2>2 DEF TypeInv
<1>7. ASSUME NEW d \in Devices, createNewBasketTraps(d)
      PROVE  TypeInv'
  BY <1>6, <1>7 DEF createNewBasketTraps
<1>8. ASSUME NEW d \in Devices, ServerDecides(d)
      PROVE  TypeInv'
  <2>1. TypeOK'
    BY <1>1, <1>8, ServerDecidesType
  <2>2. ReadersHaveDevices'
    BY <1>1, <1>8 DEF ReadersHaveDevices, ServerDecides, tapVars, historyVars
  <2> QED
    BY <2>1, <2>2 DEF TypeInv
<1>9. ASSUME UNCHANGED tapVars, ClientTypeOK'
      PROVE  TypeInv'
  <2>1. TapTypeOK'
    BY <1>1, <1>9 DEF TapTypeOK, tapVars, historyVars
  <2>2. ReadersHaveDevices'
    BY <1>1, <1>9 DEF ReadersHaveDevices, tapVars
  <2> QED
    BY <1>9, <2>1, <2>2, TypeParts DEF TypeInv
<1>10. ASSUME NEW d \in Devices, ClientLearns(d)
       PROVE  TypeInv'
  BY <1>1, <1>9, <1>10, AcknowledgeType DEF ClientLearns
<1>11. ASSUME NEW d \in Devices, NetworkLost(d) \/ NetworkBack(d) \/ SignInOrOut(d)
       PROVE  TypeInv'
  <2>1. CASE NetworkLost(d)
    <3>1. queue' \in [Devices -> [Accounts -> Seq(Writes)]]
      BY <1>1, <2>1, StreamBreaksType DEF NetworkLost, GoOffline
    <3>2. ClientTypeOK'
      BY <1>1, <2>1, <3>1 DEF NetworkLost, GoOffline, ClientTypeOK
    <3> QED
      BY <1>9, <2>1, <3>2 DEF NetworkLost
  <2>2. CASE NetworkBack(d)
    <3>1. ClientTypeOK'
      BY <1>1, <2>2 DEF NetworkBack, GoOnline, ClientTypeOK
    <3> QED
      BY <1>9, <2>2, <3>1 DEF NetworkBack
  <2>3. CASE SignInOrOut(d)
    <3>1. queue' \in [Devices -> [Accounts -> Seq(Writes)]]
      BY <1>1, <2>3, StreamBreaksType DEF SignInOrOut, CredentialChange
    <3>2. PICK u \in Accounts : CredentialChange(d, u)
      BY <2>3 DEF SignInOrOut
    <3>3. /\ user' = [user EXCEPT ![d] = u]
          /\ UNCHANGED <<server, cache, online, main>>
      BY <3>2 DEF CredentialChange
    <3>4. user' \in [Devices -> Accounts]
      BY <1>1, <3>3 DEF ClientTypeOK
    <3>5. ClientTypeOK'
      BY <1>1, <3>1, <3>3, <3>4 DEF ClientTypeOK
    <3> QED
      BY <1>9, <2>3, <3>5 DEF SignInOrOut
  <2> QED
    BY <1>11, <2>1, <2>2, <2>3
<1>12. CASE UNCHANGED vars
  <2>1. ClientTypeOK'
    BY <1>1, <1>12 DEF vars, clientVars, ClientTypeOK
  <2> QED
    BY <1>9, <1>12, <2>1 DEF vars
<1> QED
  BY <1>2, <1>3, <1>4, <1>5, <1>6, <1>7, <1>8, <1>10, <1>11, <1>12 DEF Next

\* Every variable keeps to its type.
THEOREM TypeCorrect == Spec => []TypeOK
<1>1. TypeInv => TypeOK
  BY DEF TypeInv
<1> QED
  BY <1>1, TypeInit, TypeStep, PTL DEF Spec

--------------------------------------------------------------------------------
(* Where every line of every basket comes from: Provenance is inductive.   *)
(* A tap has no home until it writes, and then one, for good; a document   *)
(* name is drawn once.  So what Provenance says of a list of lines stays   *)
(* true of it, wherever copies of it are, and a step has to account only   *)
(* for the lists it makes.  GoodLines and what is built on it come first,  *)
(* with the state as parameters, so that the same lists can be looked at   *)
(* before and after a step.                                                *)

LinesOK(k, ls, mk, hm, tp) ==
    /\ mk[k] # None
    /\ ls # << >>
    /\ \A i \in DOMAIN ls : hm[ls[i]] = k
    /\ \A i, j \in DOMAIN ls : ls[i] = ls[j] => i = j
    /\ \A i \in 2 .. Len(ls) : tp[ls[i]] = mk[k].owner

DocOK(k, doc, mk, hm, tp) ==
    doc # NoDoc => LinesOK(k, doc.lines, mk, hm, tp) /\ doc.owner = mk[k].owner

Early == {"idle", "reading", "answered"}

WriteOK(w, mk, hm, tp, ph) ==
    /\ LinesOK(w.key, w.fields.lines, mk, hm, tp)
    /\ w.op = "set" => w.fields.owner = mk[w.key].owner
    /\ w.tag # None => ph[w.tag] \notin Early

BasketOK(d, b, mk, hm, tp, ph, dv) ==
    /\ ph[b.tag] = "answered"
    /\ dv[b.tag] = d
    /\ b.key # NoDoc =>
        /\ b.basket # NoDoc
        /\ DocOK(b.key, b.basket, mk, hm, tp)
        /\ b.basket.owner = tp[b.tag]

BlockOK(d, b, mk, hm, tp, ph, dv) ==
    /\ b.kind = "basket" => BasketOK(d, b, mk, hm, tp, ph, dv)
    /\ b.kind = "written" => ph[b.tag] \notin Early

\* What a step may do to the names, the homes, the accounts and the phases.
Later(mk, hm, tp, ph, mk2, hm2, tp2, ph2) ==
    /\ \A k \in Keys : mk[k] # None => mk2[k] = mk[k]
    /\ \A t \in Taps : hm[t] # None => hm2[t] = hm[t] /\ tp2[t] = tp[t]
    /\ \A t \in Taps : ph[t] \notin Early => ph2[t] \notin Early

LEMMA ProvenanceParts ==
    /\ GoodDocs <=>
        \A k \in Keys : /\ DocOK(k, server[k], made, home, tapper)
                        /\ \A d \in Devices : DocOK(k, cache[d][k], made, home, tapper)
    /\ GoodDocs' <=>
        \A k \in Keys : /\ DocOK(k, server'[k], made', home', tapper')
                        /\ \A d \in Devices : DocOK(k, cache'[d][k], made', home', tapper')
    /\ GoodQueues <=>
        \A d \in Devices, u \in Accounts : \A i \in DOMAIN queue[d][u] :
            WriteOK(queue[d][u][i], made, home, tapper, phase)
    /\ GoodQueues' <=>
        \A d \in Devices, u \in Accounts : \A i \in DOMAIN queue'[d][u] :
            WriteOK(queue'[d][u][i], made', home', tapper', phase')
    /\ GoodBlocks <=>
        \A d \in Devices : \A i \in DOMAIN main[d] :
            BlockOK(d, main[d][i], made, home, tapper, phase, device)
    /\ GoodBlocks' <=>
        \A d \in Devices : \A i \in DOMAIN main'[d] :
            BlockOK(d, main'[d][i], made', home', tapper', phase', device')
<1>1. GoodDocs <=>
        \A k \in Keys : /\ DocOK(k, server[k], made, home, tapper)
                        /\ \A d \in Devices : DocOK(k, cache[d][k], made, home, tapper)
  BY Zenon DEF GoodDocs, GoodDoc, GoodLines, DocOK, LinesOK
<1>2. GoodDocs' <=>
        \A k \in Keys : /\ DocOK(k, server'[k], made', home', tapper')
                        /\ \A d \in Devices : DocOK(k, cache'[d][k], made', home', tapper')
  BY Zenon DEF GoodDocs, GoodDoc, GoodLines, DocOK, LinesOK
<1>3. GoodQueues <=>
        \A d \in Devices, u \in Accounts : \A i \in DOMAIN queue[d][u] :
            WriteOK(queue[d][u][i], made, home, tapper, phase)
  BY Zenon DEF GoodQueues, GoodWrite, GoodLines, WriteOK, LinesOK, Past, Early
<1>4. GoodQueues' <=>
        \A d \in Devices, u \in Accounts : \A i \in DOMAIN queue'[d][u] :
            WriteOK(queue'[d][u][i], made', home', tapper', phase')
  BY Zenon DEF GoodQueues, GoodWrite, GoodLines, WriteOK, LinesOK, Past, Early
<1>5. GoodBlocks <=>
        \A d \in Devices : \A i \in DOMAIN main[d] :
            BlockOK(d, main[d][i], made, home, tapper, phase, device)
  BY Zenon DEF GoodBlocks, GoodBlock, GoodDoc, GoodLines, BlockOK, BasketOK, DocOK, LinesOK,
               Past, Early
<1>6. GoodBlocks' <=>
        \A d \in Devices : \A i \in DOMAIN main'[d] :
            BlockOK(d, main'[d][i], made', home', tapper', phase', device')
  BY Zenon DEF GoodBlocks, GoodBlock, GoodDoc, GoodLines, BlockOK, BasketOK, DocOK, LinesOK,
               Past, Early
<1> QED
  BY <1>1, <1>2, <1>3, <1>4, <1>5, <1>6

--------------------------------------------------------------------------------
(* What is true of a list stays true of it.                                *)

LEMMA LinesKept ==
    ASSUME NEW mk, NEW hm, NEW tp, NEW ph, NEW mk2, NEW hm2, NEW tp2, NEW ph2,
           Later(mk, hm, tp, ph, mk2, hm2, tp2, ph2),
           NEW k \in Keys, NEW ls \in Seq(Taps), LinesOK(k, ls, mk, hm, tp)
    PROVE  LinesOK(k, ls, mk2, hm2, tp2) /\ mk2[k] = mk[k]
<1>1. \A i \in DOMAIN ls : ls[i] \in Taps /\ hm[ls[i]] = k /\ k # None
  BY BasketAssumption DEF LinesOK
<1>2. \A i \in DOMAIN ls : hm2[ls[i]] = k /\ tp2[ls[i]] = tp[ls[i]]
  BY <1>1 DEF Later
<1>3. mk2[k] = mk[k]
  BY DEF Later, LinesOK
<1>4. \A i \in 2 .. Len(ls) : i \in DOMAIN ls
  OBVIOUS
<1> QED
  BY <1>2, <1>3, <1>4 DEF LinesOK

\* Lines that get one more tap, of the basket's account, remain good.
LEMMA LinesAppended ==
    ASSUME NEW k, NEW ls \in Seq(Taps), NEW t \in Taps, NEW mk, NEW hm, NEW tp,
           LinesOK(k, ls, mk, hm, tp), \A i \in DOMAIN ls : ls[i] # t,
           hm[t] = k, tp[t] = mk[k].owner
    PROVE  LinesOK(k, Append(ls, t), mk, hm, tp)
<1> DEFINE new == Append(ls, t)
<1>1. DOMAIN new = 1 .. Len(ls) + 1 /\ DOMAIN ls = 1 .. Len(ls) /\ Len(ls) \in Nat
  OBVIOUS
<1>2. \A i \in DOMAIN ls : new[i] = ls[i]
  OBVIOUS
<1>3. new[Len(ls) + 1] = t
  OBVIOUS
<1>4. new # << >> /\ Len(new) = Len(ls) + 1
  OBVIOUS
<1> HIDE DEF new
<1>5. ASSUME NEW i \in DOMAIN new
      PROVE  i \in DOMAIN ls \/ i = Len(ls) + 1
  BY <1>1
<1>6. \A i \in DOMAIN new : hm[new[i]] = k
  BY <1>2, <1>3, <1>5 DEF LinesOK
<1>7. \A i, j \in DOMAIN new : new[i] = new[j] => i = j
  BY <1>2, <1>3, <1>5 DEF LinesOK
<1>8. \A i \in 2 .. Len(new) : tp[new[i]] = mk[k].owner
  <2> SUFFICES ASSUME NEW i \in 2 .. Len(new)
               PROVE  tp[new[i]] = mk[k].owner
    OBVIOUS
  <2>1. CASE i = Len(ls) + 1
    BY <1>3, <2>1
  <2>2. CASE i # Len(ls) + 1
    <3>1. i \in 2 .. Len(ls) /\ i \in DOMAIN ls
      BY <1>1, <1>4, <2>2
    <3> QED
      BY <1>2, <3>1 DEF LinesOK
  <2> QED
    BY <2>1, <2>2
<1>9. mk[k] # None
  BY DEF LinesOK
<1> QED
  BY <1>4, <1>6, <1>7, <1>8, <1>9 DEF LinesOK, new

LEMMA DocKept ==
    ASSUME NEW mk, NEW hm, NEW tp, NEW ph, NEW mk2, NEW hm2, NEW tp2, NEW ph2,
           Later(mk, hm, tp, ph, mk2, hm2, tp2, ph2),
           NEW k \in Keys, NEW doc \in DocsOrNone, DocOK(k, doc, mk, hm, tp)
    PROVE  DocOK(k, doc, mk2, hm2, tp2)
<1> SUFFICES ASSUME doc # NoDoc
             PROVE  LinesOK(k, doc.lines, mk2, hm2, tp2) /\ doc.owner = mk2[k].owner
  BY DEF DocOK
<1>1. doc.lines \in Seq(Taps)
  BY DEF DocsOrNone, BasketDocs
<1>2. LinesOK(k, doc.lines, mk, hm, tp) /\ doc.owner = mk[k].owner
  BY DEF DocOK
<1> QED
  BY <1>1, <1>2, LinesKept

\* A write that is sent again, answered or loses its completion block is the
\* same write.
Same(v, w) ==
    /\ v.op = w.op
    /\ v.key = w.key
    /\ v.fields = w.fields
    /\ v.tag \in {w.tag, None}
    /\ v.fate \in Accepted => w.fate \in Accepted

LEMMA WriteKept ==
    ASSUME NEW mk, NEW hm, NEW tp, NEW ph, NEW mk2, NEW hm2, NEW tp2, NEW ph2,
           Later(mk, hm, tp, ph, mk2, hm2, tp2, ph2),
           NEW w \in Writes, WriteOK(w, mk, hm, tp, ph), NEW v, Same(v, w)
    PROVE  WriteOK(v, mk2, hm2, tp2, ph2)
<1>1. w.key \in Keys /\ w.fields.lines \in Seq(Taps) /\ w.tag \in Taps \cup {None}
  BY DEF Writes, BasketDocs
<1>2. LinesOK(w.key, w.fields.lines, mk, hm, tp)
  BY DEF WriteOK
<1>3. LinesOK(w.key, w.fields.lines, mk2, hm2, tp2) /\ mk2[w.key] = mk[w.key]
  BY <1>1, <1>2, LinesKept
<1>4. v.tag # None => ph2[v.tag] \notin Early
  BY <1>1 DEF WriteOK, Same, Later
<1> QED
  BY <1>3, <1>4 DEF WriteOK, Same

--------------------------------------------------------------------------------
(* A step that makes no bad copy preserves each part.                      *)

Moves == Later(made, home, tapper, phase, made', home', tapper', phase')

LEMMA DocsStep ==
    ASSUME TypeOK, GoodDocs, Moves,
           \A k \in Keys :
               \/ server'[k] = server[k]
               \/ DocOK(k, server'[k], made', home', tapper'),
           \A d \in Devices, k \in Keys :
               \/ cache'[d][k] = cache[d][k]
               \/ cache'[d][k] = server[k]
               \/ DocOK(k, cache'[d][k], made', home', tapper')
    PROVE  GoodDocs'
<1>1. \A k \in Keys : server[k] \in DocsOrNone /\ DocOK(k, server[k], made, home, tapper)
  BY ProvenanceParts DEF TypeOK, DocsOrNone
<1>2. \A k \in Keys, d \in Devices :
        cache[d][k] \in DocsOrNone /\ DocOK(k, cache[d][k], made, home, tapper)
  BY ProvenanceParts DEF TypeOK, DocsOrNone
<1>3. \A k \in Keys : DocOK(k, server[k], made', home', tapper')
  BY <1>1, DocKept DEF Moves
<1>4. \A k \in Keys, d \in Devices : DocOK(k, cache[d][k], made', home', tapper')
  BY <1>2, DocKept DEF Moves
<1> QED
  BY <1>3, <1>4, ProvenanceParts

LEMMA QueuesStep ==
    ASSUME TypeOK, GoodQueues, Moves,
           \A d \in Devices, u \in Accounts : \A i \in DOMAIN queue'[d][u] :
               \/ \E j \in DOMAIN queue[d][u] : Same(queue'[d][u][i], queue[d][u][j])
               \/ WriteOK(queue'[d][u][i], made', home', tapper', phase')
    PROVE  GoodQueues'
<1>1. \A d \in Devices, u \in Accounts : \A j \in DOMAIN queue[d][u] :
        /\ queue[d][u][j] \in Writes
        /\ WriteOK(queue[d][u][j], made, home, tapper, phase)
  BY ProvenanceParts DEF TypeOK
<1>2. \A d \in Devices, u \in Accounts : \A i \in DOMAIN queue'[d][u] :
        WriteOK(queue'[d][u][i], made', home', tapper', phase')
  BY <1>1, WriteKept DEF Moves
<1> QED
  BY <1>2, ProvenanceParts

LEMMA BlockKept ==
    ASSUME NEW mk, NEW hm, NEW tp, NEW ph, NEW mk2, NEW hm2, NEW tp2, NEW ph2,
           Later(mk, hm, tp, ph, mk2, hm2, tp2, ph2),
           NEW dv, NEW dv2, NEW d, NEW b \in Blocks, BlockOK(d, b, mk, hm, tp, ph, dv),
           b.kind = "basket" => /\ ph2[b.tag] = "answered"
                                /\ dv2[b.tag] = dv[b.tag]
                                /\ tp2[b.tag] = tp[b.tag]
    PROVE  BlockOK(d, b, mk2, hm2, tp2, ph2, dv2)
<1>1. CASE b.kind = "basket"
  <2>1. BasketOK(d, b, mk, hm, tp, ph, dv)
    BY <1>1 DEF BlockOK
  <2>2. ASSUME b.key # NoDoc
        PROVE  DocOK(b.key, b.basket, mk2, hm2, tp2)
    <3>1. b.key \in Keys /\ b.basket \in DocsOrNone
      BY <1>1, <2>2 DEF Blocks, DocsOrNone
    <3>2. DocOK(b.key, b.basket, mk, hm, tp)
      BY <2>1, <2>2 DEF BasketOK
    <3> QED
      BY <3>1, <3>2, DocKept
  <2>3. BasketOK(d, b, mk2, hm2, tp2, ph2, dv2)
    BY <1>1, <2>1, <2>2 DEF BasketOK
  <2> QED
    BY <1>1, <2>3 DEF BlockOK
<1>2. CASE b.kind = "written"
  <2>1. b.tag \in Taps
    BY <1>2 DEF Blocks
  <2> QED
    BY <1>2, <2>1 DEF BlockOK, Later
<1> QED
  BY <1>1, <1>2 DEF Blocks

LEMMA BlocksStep ==
    ASSUME TypeOK, GoodBlocks, Moves,
           \A d \in Devices : \A i \in DOMAIN main'[d] :
               \/ BlockOK(d, main'[d][i], made', home', tapper', phase', device')
               \/ \E j \in DOMAIN main[d] :
                    /\ main'[d][i] = main[d][j]
                    /\ main[d][j].kind = "basket" =>
                        /\ phase'[main[d][j].tag] = "answered"
                        /\ device'[main[d][j].tag] = device[main[d][j].tag]
                        /\ tapper'[main[d][j].tag] = tapper[main[d][j].tag]
    PROVE  GoodBlocks'
<1>1. \A d \in Devices : \A j \in DOMAIN main[d] :
        /\ main[d][j] \in Blocks
        /\ BlockOK(d, main[d][j], made, home, tapper, phase, device)
  BY ProvenanceParts DEF TypeOK
<1>2. \A d \in Devices : \A i \in DOMAIN main'[d] :
        BlockOK(d, main'[d][i], made', home', tapper', phase', device')
  BY <1>1, BlockKept DEF Moves
<1> QED
  BY <1>2, ProvenanceParts

--------------------------------------------------------------------------------
(* What the client makes of good documents and good writes is good.        *)

\* The server and the cache apply a write.
LEMMA AppliedOK ==
    ASSUME NEW mk, NEW hm, NEW tp, NEW ph,
           NEW w \in Writes, WriteOK(w, mk, hm, tp, ph),
           NEW doc \in DocsOrNone, DocOK(w.key, doc, mk, hm, tp)
    PROVE  DocOK(w.key, Applied(w, doc), mk, hm, tp)
<1>1. LinesOK(w.key, w.fields.lines, mk, hm, tp)
  BY DEF WriteOK
<1>2. CASE w.op = "set"
  BY <1>1, <1>2 DEF WriteOK, DocOK, Applied
<1>3. CASE w.op # "set" /\ doc = NoDoc
  BY <1>3 DEF DocOK, Applied
<1>4. CASE w.op # "set" /\ doc # NoDoc
  <2>1. doc \in BasketDocs /\ w.fields \in [lines : Seq(Taps)]
    BY <1>4 DEF Writes, DocsOrNone
  <2>2. Applied(w, doc) = [owner |-> doc.owner, lines |-> w.fields.lines]
    BY <1>4, <2>1 DEF Applied, BasketDocs
  <2> QED
    BY <1>1, <1>4, <2>2 DEF DocOK
<1> QED
  BY <1>2, <1>3, <1>4

\* The overlay of the pending writes.
LEMMA LocalDocOK ==
    ASSUME NEW mk, NEW hm, NEW tp, NEW ph, NEW k,
           NEW base \in DocsOrNone, DocOK(k, base, mk, hm, tp),
           NEW ws \in Seq(Writes), \A i \in DOMAIN ws : WriteOK(ws[i], mk, hm, tp, ph)
    PROVE  DocOK(k, LocalDoc(base, ws, k), mk, hm, tp)
<1> DEFINE doc == LocalDoc(base, ws, k)
<1> SUFFICES ASSUME doc # NoDoc
             PROVE  LinesOK(k, doc.lines, mk, hm, tp) /\ doc.owner = mk[k].owner
  BY DEF DocOK
<1>1. /\ \/ base # NoDoc /\ doc.lines = base.lines
         \/ \E i \in DOMAIN ws : ws[i].key = k /\ doc.lines = ws[i].fields.lines
      /\ \/ base # NoDoc /\ doc.owner = base.owner
         \/ \E i \in DOMAIN ws : /\ ws[i].key = k /\ ws[i].op = "set"
                                 /\ doc.owner = ws[i].fields.owner
  BY LocalDocFrom
<1> HIDE DEF doc
<1>2. LinesOK(k, doc.lines, mk, hm, tp)
  BY <1>1 DEF DocOK, WriteOK
<1>3. doc.owner = mk[k].owner
  BY <1>1 DEF DocOK, WriteOK
<1> QED
  BY <1>2, <1>3

\* The answer to a read.
LEMMA AnswerOK ==
    ASSUME NEW mk, NEW hm, NEW tp, NEW ph, NEW dv, NEW d, NEW t \in Taps,
           ph[t] = "answered", dv[t] = d,
           NEW docs \in [Keys -> DocsOrNone],
           \A k \in Keys : DocOK(k, docs[k], mk, hm, tp)
    PROVE  BlockOK(d, Answer(t, tp[t], docs), mk, hm, tp, ph, dv)
<1>1. CASE Answer(t, tp[t], docs) = Downloaded(t, NoDoc, NoDoc)
  BY <1>1 DEF Downloaded, BlockOK, BasketOK
<1>2. CASE \E k \in BasketsOf(tp[t], docs) :
             /\ Answer(t, tp[t], docs) = Downloaded(t, k, docs[k])
             /\ docs[k] \in BasketDocs /\ docs[k].owner = tp[t]
  BY <1>2 DEF BasketsOf, Downloaded, BlockOK, BasketOK
<1> QED
  BY <1>1, <1>2, AnswerIs

--------------------------------------------------------------------------------
(* The client's steps keep the writes they do not drop.                    *)

QueueKept ==
    \A d \in Devices, u \in Accounts :
        /\ DOMAIN queue'[d][u] \subseteq DOMAIN queue[d][u]
        /\ \A i \in DOMAIN queue'[d][u] :
                \E j \in DOMAIN queue[d][u] : Same(queue'[d][u][i], queue[d][u][j])

LEMMA SameWrites ==
    ASSUME NEW ws \in Seq(Writes)
    PROVE  /\ \A i \in DOMAIN ws : Same(ws[i], ws[i])
           /\ DOMAIN Unsent(ws) = DOMAIN ws
           /\ \A i \in DOMAIN ws : Same(Unsent(ws)[i], ws[i])
           /\ \A i \in DOMAIN ws : Same(Unsent(Untagged(ws))[i], ws[i])
           /\ DOMAIN Unsent(Untagged(ws)) = DOMAIN ws
           /\ \A i, n \in DOMAIN ws, f \in Fates \ Accepted :
                 Same([ws EXCEPT ![n].fate = f][i], ws[i])
<1>1. \A i \in DOMAIN ws : ws[i] \in Writes
  OBVIOUS
<1>2. \A w \in Writes, f \in Fates \ Accepted : Same([w EXCEPT !.fate = f], w)
  BY DEF Writes, Same
<1>3. \A w \in Writes : Same([[w EXCEPT !.tag = None] EXCEPT !.fate = "pending"], w)
  BY DEF Writes, Same, Accepted
<1>4. \A i \in DOMAIN ws : Same(ws[i], ws[i])
  BY DEF Same
<1>5. DOMAIN Unsent(ws) = DOMAIN ws /\ \A i \in DOMAIN ws : Same(Unsent(ws)[i], ws[i])
  BY <1>1, <1>2 DEF Unsent, Fates, Accepted
<1>6. /\ DOMAIN Unsent(Untagged(ws)) = DOMAIN ws
      /\ \A i \in DOMAIN ws :
            Unsent(Untagged(ws))[i] = [[ws[i] EXCEPT !.tag = None] EXCEPT !.fate = "pending"]
  BY DEF Unsent, Untagged
<1>7. \A i \in DOMAIN ws : Same(Unsent(Untagged(ws))[i], ws[i])
  <2> SUFFICES ASSUME NEW i \in DOMAIN ws
               PROVE  Same(Unsent(Untagged(ws))[i], ws[i])
    OBVIOUS
  <2>1. ws[i] \in Writes
    BY <1>1
  <2>2. Same([[ws[i] EXCEPT !.tag = None] EXCEPT !.fate = "pending"], ws[i])
    BY <1>3, <2>1
  <2> QED
    BY <1>6, <2>2
<1>8. \A i, n \in DOMAIN ws, f \in Fates \ Accepted : Same([ws EXCEPT ![n].fate = f][i], ws[i])
  <2> SUFFICES ASSUME NEW i \in DOMAIN ws, NEW n \in DOMAIN ws, NEW f \in Fates \ Accepted
               PROVE  Same([ws EXCEPT ![n].fate = f][i], ws[i])
    OBVIOUS
  <2>1. [ws EXCEPT ![n].fate = f][i] = IF i = n THEN [ws[i] EXCEPT !.fate = f] ELSE ws[i]
    OBVIOUS
  <2> QED
    BY <2>1, <1>1, <1>2, <1>4
<1> QED
  BY <1>4, <1>5, <1>6, <1>7, <1>8

\* The queue of one account on one phone changes.
LEMMA OneQueueKept ==
    ASSUME TypeOK, NEW d \in Devices, NEW ws,
           queue' = [queue EXCEPT ![d][user[d]] = ws],
           DOMAIN ws \subseteq DOMAIN pending(d),
           \A i \in DOMAIN ws : \E j \in DOMAIN pending(d) : Same(ws[i], pending(d)[j])
    PROVE  QueueKept
<1>1. \A e \in Devices, u \in Accounts : queue[e][u] \in Seq(Writes)
  BY DEF TypeOK
<1>2. \A e \in Devices, u \in Accounts :
        queue'[e][u] = IF e = d /\ u = user[d] THEN ws ELSE queue[e][u]
  BY DEF TypeOK
<1>3. ASSUME NEW e \in Devices, NEW u \in Accounts, NEW i \in DOMAIN queue'[e][u]
      PROVE  \E j \in DOMAIN queue[e][u] : Same(queue'[e][u][i], queue[e][u][j])
  <2>1. CASE e = d /\ u = user[d]
    BY <1>2, <2>1 DEF pending
  <2>2. CASE ~ (e = d /\ u = user[d])
    BY <1>1, <1>2, <2>2, SameWrites
  <2> QED
    BY <2>1, <2>2
<1>4. \A e \in Devices, u \in Accounts : DOMAIN queue'[e][u] \subseteq DOMAIN queue[e][u]
  BY <1>2 DEF pending
<1> QED
  BY <1>3, <1>4 DEF QueueKept

LEMMA NoQueueChange ==
    ASSUME TypeOK, UNCHANGED queue
    PROVE  QueueKept
<1>1. \A e \in Devices, u \in Accounts : queue[e][u] \in Seq(Writes)
  BY DEF TypeOK
<1> QED
  BY <1>1, SameWrites DEF QueueKept

LEMMA RefuseKeeps ==
    ASSUME TypeOK, NEW d \in Devices, NEW i \in DOMAIN pending(d),
           NEW f \in Fates \ Accepted, Decide(d, i, f)
    PROVE  QueueKept
<1> DEFINE ws == [pending(d) EXCEPT ![i].fate = f]
<1>1. pending(d) \in Seq(Writes)
  BY DEF TypeOK, pending
<1>2. DOMAIN ws = DOMAIN pending(d)
  BY <1>1
<1>3. \A n \in DOMAIN ws : Same(ws[n], pending(d)[n])
  BY <1>1, <1>2, SameWrites
<1>4. queue' = [queue EXCEPT ![d][user[d]] = ws]
  BY DEF Decide, pending, TypeOK
<1> HIDE DEF ws
<1> QED
  BY <1>2, <1>3, <1>4, OneQueueKept

\* Of the writes, only the one that is committed may become an accepted one.
LEMMA CommitQueue ==
    ASSUME TypeOK, NEW d \in Devices, NEW n \in DOMAIN pending(d),
           Decide(d, n, "committed")
    PROVE  \A e \in Devices, u \in Accounts :
             /\ DOMAIN queue'[e][u] \subseteq DOMAIN queue[e][u]
             /\ \A i \in DOMAIN queue'[e][u] :
               \/ \E j \in DOMAIN queue[e][u] : Same(queue'[e][u][i], queue[e][u][j])
               \/ /\ e = d /\ u = user[d] /\ i = n
                  /\ queue'[e][u][i] = [pending(d)[n] EXCEPT !.fate = "committed"]
<1> DEFINE ws == [pending(d) EXCEPT ![n].fate = "committed"]
<1>1. \A e \in Devices, u \in Accounts : queue[e][u] \in Seq(Writes)
  BY DEF TypeOK
<1>2. \A e \in Devices, u \in Accounts :
        queue'[e][u] = IF e = d /\ u = user[d] THEN ws ELSE queue[e][u]
  BY DEF TypeOK, Decide, pending
<1>3. /\ DOMAIN ws = DOMAIN pending(d)
      /\ \A i \in DOMAIN ws :
            ws[i] = IF i = n THEN [pending(d)[i] EXCEPT !.fate = "committed"]
                    ELSE pending(d)[i]
  BY <1>1 DEF pending, TypeOK
<1> HIDE DEF ws
<1>4. \A e \in Devices, u \in Accounts : \A i \in DOMAIN queue[e][u] :
        Same(queue[e][u][i], queue[e][u][i])
  BY DEF Same
<1>5. ASSUME NEW e \in Devices, NEW u \in Accounts, NEW i \in DOMAIN queue'[e][u]
      PROVE  \/ \E j \in DOMAIN queue[e][u] : Same(queue'[e][u][i], queue[e][u][j])
             \/ /\ e = d /\ u = user[d] /\ i = n
                /\ queue'[e][u][i] = [pending(d)[n] EXCEPT !.fate = "committed"]
  <2>1. CASE e = d /\ u = user[d]
    <3>1. queue'[e][u] = ws /\ queue[e][u] = pending(d)
      BY <1>2, <2>1 DEF pending
    <3> QED
      BY <1>3, <1>4, <2>1, <3>1
  <2>2. CASE ~ (e = d /\ u = user[d])
    <3>1. queue'[e][u] = queue[e][u]
      BY <1>2, <2>2
    <3> QED
      BY <1>4, <3>1
  <2> QED
    BY <2>1, <2>2
<1>6. \A e \in Devices, u \in Accounts : DOMAIN queue'[e][u] \subseteq DOMAIN queue[e][u]
  BY <1>2, <1>3 DEF pending
<1> QED
  BY <1>5, <1>6

LEMMA AcknowledgeKeeps ==
    ASSUME TypeOK, NEW d \in Devices, Acknowledge(d)
    PROVE  QueueKept
<1> DEFINE ws == Tail(pending(d))
<1>1. pending(d) \in Seq(Writes) /\ pending(d) # << >>
  BY DEF TypeOK, pending, Acknowledge
<1>2. \A i \in DOMAIN ws : i + 1 \in DOMAIN pending(d) /\ ws[i] = pending(d)[i + 1]
  BY <1>1
<1>3. \A i \in DOMAIN ws : \E j \in DOMAIN pending(d) : Same(ws[i], pending(d)[j])
  BY <1>1, <1>2, SameWrites
<1>4. queue' = [queue EXCEPT ![d][user[d]] = ws]
  BY DEF Acknowledge, pending, TypeOK
<1>5. DOMAIN ws \subseteq DOMAIN pending(d)
  BY <1>1
<1> HIDE DEF ws
<1> QED
  BY <1>3, <1>4, <1>5, OneQueueKept

LEMMA StreamBreaksKeeps ==
    ASSUME TypeOK, NEW d \in Devices, StreamBreaks(d)
    PROVE  QueueKept
<1> DEFINE ws == Unsent(pending(d))
<1>1. pending(d) \in Seq(Writes)
  BY DEF TypeOK, pending
<1>2. /\ DOMAIN ws = DOMAIN pending(d)
      /\ \A i \in DOMAIN ws : \E j \in DOMAIN pending(d) : Same(ws[i], pending(d)[j])
  BY <1>1, SameWrites
<1>3. CASE UNCHANGED queue
  BY <1>3, NoQueueChange
<1>4. CASE queue' = [queue EXCEPT ![d][user[d]] = Unsent(@)]
  <2>1. queue' = [queue EXCEPT ![d][user[d]] = ws]
    BY <1>4 DEF pending, TypeOK
  <2> HIDE DEF ws
  <2> QED
    BY <1>2, <2>1, OneQueueKept
<1> QED
  BY <1>3, <1>4 DEF StreamBreaks

LEMMA RestartKeeps ==
    ASSUME TypeOK, NEW d \in Devices, RestartClient(d)
    PROVE  QueueKept
<1>1. \A e \in Devices, u \in Accounts : queue[e][u] \in Seq(Writes)
  BY DEF TypeOK
<1>2. \A e \in Devices, u \in Accounts :
        queue'[e][u] = IF e = d THEN Unsent(Untagged(queue[d][u])) ELSE queue[e][u]
  BY DEF TypeOK, RestartClient, RestartFrom
<1> QED
  BY <1>1, <1>2, SameWrites DEF QueueKept

LEMMA FetchKeeps ==
    ASSUME TypeOK, NEW d \in Devices, NEW K, Fetch(d, K)
    PROVE  QueueKept
<1> DEFINE marked(w) == IF w.fate = "committed" /\ w.key \in K
                        THEN [w EXCEPT !.fate = "known"] ELSE w
<1>1. \A e \in Devices, u \in Accounts : queue[e][u] \in Seq(Writes)
  BY DEF TypeOK
<1>6. \A e \in Devices, u \in Accounts : \A i \in DOMAIN queue[e][u] :
        Same(queue[e][u][i], queue[e][u][i])
  BY <1>1, SameWrites
<1>2. \A w \in Writes : Same(marked(w), w)
  BY DEF Same, Writes, Accepted
<1>3. \A e \in Devices, u \in Accounts :
        queue'[e][u] = IF e = d THEN [i \in DOMAIN queue[d][u] |-> marked(queue[d][u][i])]
                       ELSE queue[e][u]
  BY DEF Fetch, TypeOK
<1> HIDE DEF marked
<1>4. ASSUME NEW u \in Accounts, NEW i \in DOMAIN queue'[d][u]
      PROVE  i \in DOMAIN queue[d][u] /\ Same(queue'[d][u][i], queue[d][u][i])
  <2>1. queue'[d][u] = [n \in DOMAIN queue[d][u] |-> marked(queue[d][u][n])]
    BY <1>3
  <2>2. i \in DOMAIN queue[d][u] /\ queue'[d][u][i] = marked(queue[d][u][i])
    BY <2>1
  <2>3. queue[d][u][i] \in Writes
    BY <1>1, <2>2
  <2> QED
    BY <1>2, <2>2, <2>3
<1>5. ASSUME NEW e \in Devices, NEW u \in Accounts, NEW i \in DOMAIN queue'[e][u]
      PROVE  \E j \in DOMAIN queue[e][u] : Same(queue'[e][u][i], queue[e][u][j])
  <2>1. CASE e = d
    BY <1>4, <2>1
  <2>2. CASE e # d
    <3>1. queue'[e][u] = queue[e][u]
      BY <1>3, <2>2
    <3> QED
      BY <1>6, <3>1
  <2> QED
    BY <2>1, <2>2
<1>7. ASSUME NEW e \in Devices, NEW u \in Accounts
      PROVE  DOMAIN queue'[e][u] \subseteq DOMAIN queue[e][u]
  <2>1. CASE e = d
    BY <1>3, <2>1
  <2>2. CASE e # d
    BY <1>3, <2>2
  <2> QED
    BY <2>1, <2>2
<1> QED
  BY <1>5, <1>7 DEF QueueKept

--------------------------------------------------------------------------------
(* One write more, one completion block more, or one fewer.                *)

LEMMA QueueAppended ==
    ASSUME TypeOK, GoodQueues, Moves, NEW d \in Devices, NEW w,
           WriteMutations(d, w), WriteOK(w, made', home', tapper', phase')
    PROVE  GoodQueues'
<1>1. \A e \in Devices, u \in Accounts : queue[e][u] \in Seq(Writes)
  BY DEF TypeOK
<1>2. \A e \in Devices, u \in Accounts :
        queue'[e][u] = IF e = d /\ u = user[d] THEN Append(queue[e][u], w) ELSE queue[e][u]
  BY DEF TypeOK, WriteMutations
<1>3. ASSUME NEW e \in Devices, NEW u \in Accounts, NEW i \in DOMAIN queue'[e][u]
      PROVE  \/ \E j \in DOMAIN queue[e][u] : Same(queue'[e][u][i], queue[e][u][j])
             \/ WriteOK(queue'[e][u][i], made', home', tapper', phase')
  <2>1. \A j \in DOMAIN queue[e][u] : Same(queue[e][u][j], queue[e][u][j])
    BY DEF Same
  <2>2. CASE queue'[e][u] = queue[e][u]
    BY <2>1, <2>2
  <2>3. CASE queue'[e][u] = Append(queue[e][u], w)
    <3>1. \/ i \in DOMAIN queue[e][u] /\ queue'[e][u][i] = queue[e][u][i]
          \/ queue'[e][u][i] = w
      BY <1>1, <2>3
    <3> QED
      BY <2>1, <3>1
  <2> QED
    BY <1>2, <2>2, <2>3
<1> QED
  BY <1>3, QueuesStep

LEMMA QueuesKept ==
    ASSUME TypeOK, GoodQueues, Moves, QueueKept
    PROVE  GoodQueues'
  BY QueuesStep DEF QueueKept

\* The taps whose answer waits are left alone.
WaitersKept ==
    \A t \in Taps : phase[t] = "answered" =>
        phase'[t] = "answered" /\ device'[t] = device[t] /\ tapper'[t] = tapper[t]

\* Where a waiting answer comes from.
LEMMA Waiting ==
    ASSUME TypeOK, GoodBlocks, NEW d \in Devices, NEW j \in DOMAIN main[d]
    PROVE  /\ main[d][j] \in Blocks
           /\ main[d][j].tag \in Taps
           /\ main[d][j].kind = "basket" => /\ phase[main[d][j].tag] = "answered"
                                            /\ device[main[d][j].tag] = d
           /\ main[d][j].kind = "written" => phase[main[d][j].tag] \notin Early
<1>1. main[d][j] \in Blocks
  BY DEF TypeOK
<1>2. main[d][j].tag \in Taps
  BY <1>1 DEF Blocks
<1>3. BlockOK(d, main[d][j], made, home, tapper, phase, device)
  BY ProvenanceParts
<1> QED
  BY <1>1, <1>2, <1>3 DEF BlockOK, BasketOK

LEMMA BlocksSame ==
    ASSUME TypeOK, GoodBlocks, OneAnswer, Moves, WaitersKept,
           \A d \in Devices : main'[d] = main[d] \/ main'[d] = << >>
    PROVE  GoodBlocks' /\ OneAnswer'
<1>1. OneAnswer'
  BY DEF OneAnswer
<1>2. \A d \in Devices : \A i \in DOMAIN main'[d] :
        i \in DOMAIN main[d] /\ main'[d][i] = main[d][i]
  OBVIOUS
<1>3. GoodBlocks'
  BY <1>2, Waiting, BlocksStep DEF WaitersKept
<1> QED
  BY <1>1, <1>3

LEMMA BlockAppended ==
    ASSUME TypeOK, GoodBlocks, OneAnswer, Moves, WaitersKept,
           NEW d \in Devices, NEW b,
           main' = [main EXCEPT ![d] = Append(@, b)],
           BlockOK(d, b, made', home', tapper', phase', device'),
           b.kind = "basket" => phase[b.tag] # "answered"
    PROVE  GoodBlocks' /\ OneAnswer'
<1>1. \A e \in Devices : main[e] \in Seq(Blocks)
  BY DEF TypeOK
<1>2. \A e \in Devices : main'[e] = IF e = d THEN Append(main[e], b) ELSE main[e]
  BY DEF TypeOK
<1>3. \A e \in Devices : \A i \in DOMAIN main'[e] :
        \/ i \in DOMAIN main[e] /\ main'[e][i] = main[e][i]
        \/ e = d /\ i = Len(main[d]) + 1 /\ main'[e][i] = b
  BY <1>1, <1>2
<1>4. GoodBlocks'
  BY <1>3, Waiting, BlocksStep DEF WaitersKept
<1>5. OneAnswer'
  <2> SUFFICES ASSUME NEW e \in Devices, NEW i \in DOMAIN main'[e], NEW j \in DOMAIN main'[e],
                      main'[e][i].kind = "basket", main'[e][j].kind = "basket",
                      main'[e][i].tag = main'[e][j].tag
               PROVE  i = j
    BY DEF OneAnswer
  <2>1. \A n \in DOMAIN main[e] : main[e][n].kind = "basket" => phase[main[e][n].tag] = "answered"
    BY Waiting
  <2> QED
    BY <1>3, <2>1 DEF OneAnswer
<1> QED
  BY <1>4, <1>5

\* The main queue runs its first block.
LEMMA BlockRun ==
    ASSUME TypeOK, GoodBlocks, OneAnswer, Moves, NEW d \in Devices, NEW x,
           main[d] # << >>,
           main' = [main EXCEPT ![d] = Tail(@)],
           phase' = [phase EXCEPT ![Head(main[d]).tag] = x],
           UNCHANGED <<device, tapper>>
    PROVE  GoodBlocks' /\ OneAnswer'
<1> DEFINE t == Head(main[d]).tag
<1>1. \A e \in Devices : main[e] \in Seq(Blocks)
  BY DEF TypeOK
<1>2. 1 \in DOMAIN main[d] /\ main[d][1] = Head(main[d])
  BY <1>1
<1>3. \A i \in DOMAIN main'[d] :
        /\ i \in Nat
        /\ i + 1 \in DOMAIN main[d] /\ i + 1 # 1
        /\ main'[d][i] = main[d][i + 1]
  BY <1>1 DEF TypeOK
<1>4. \A e \in Devices \ {d} : main'[e] = main[e]
  BY DEF TypeOK
<1>5. \A e \in Devices : \A j \in DOMAIN main[e] :
        main[e][j].kind = "basket" /\ ~ (e = d /\ j = 1) => main[e][j].tag # t
  <2> SUFFICES ASSUME NEW e \in Devices, NEW j \in DOMAIN main[e],
                      main[e][j].kind = "basket", ~ (e = d /\ j = 1), main[e][j].tag = t
               PROVE  FALSE
    OBVIOUS
  <2>1. phase[t] = "answered" /\ device[t] = e
    BY Waiting
  <2>2. main[d][1] \in Blocks
    BY <1>2, Waiting
  <2>3. main[d][1].kind = "basket"
    <3>1. main[d][1].kind = "written" => phase[t] \notin Early
      BY <1>2, Waiting
    <3> QED
      BY <2>1, <2>2, <3>1 DEF Blocks, Early
  <2>4. device[t] = d
    BY <1>2, <2>3, Waiting
  <2> QED
    BY <1>2, <2>1, <2>3, <2>4 DEF OneAnswer
<1>6. \A s \in Taps : s # t => phase'[s] = phase[s]
  BY DEF TypeOK
<1>7. \A e \in Devices : \A i \in DOMAIN main'[e] :
        \E j \in DOMAIN main[e] : main'[e][i] = main[e][j] /\ ~ (e = d /\ j = 1)
  BY <1>3, <1>4
<1>8. GoodBlocks'
  BY <1>5, <1>6, <1>7, Waiting, BlocksStep
<1>9. OneAnswer'
  <2> SUFFICES ASSUME NEW e \in Devices, NEW i \in DOMAIN main'[e], NEW j \in DOMAIN main'[e],
                      main'[e][i].kind = "basket", main'[e][j].kind = "basket",
                      main'[e][i].tag = main'[e][j].tag
               PROVE  i = j
    BY DEF OneAnswer
  <2>1. CASE e = d
    <3>1. i + 1 = j + 1
      BY <1>3, <2>1 DEF OneAnswer
    <3> QED
      BY <1>3, <2>1, <3>1
  <2>2. CASE e # d
    BY <1>4, <2>2 DEF OneAnswer
  <2> QED
    BY <2>1, <2>2
<1> QED
  BY <1>8, <1>9

--------------------------------------------------------------------------------
(* One lemma for each action.                                              *)

\* Nothing but phases, and those of no tap that has written or waits.
LEMMA PhasesMove ==
    ASSUME UNCHANGED <<made, home, tapper>>,
           \A t \in Taps : phase[t] \notin Early => phase'[t] \notin Early
    PROVE  Moves
  BY DEF Moves, Later

LEMMA DownloadKeeps ==
    ASSUME Provenance, NEW t \in Taps, downloadBasketFromFirestore(t), device[t] \in Devices,
           TypeOK'
    PROVE  Provenance'
<1> DEFINE d == device[t]
<1> USE DEF Provenance
<1>1. /\ phase[t] = "reading" /\ phase' = [phase EXCEPT ![t] = "answered"]
      /\ UNCHANGED <<server, online, user, device, tapper, made, home>>
  BY DEF downloadBasketFromFirestore, Read
<1>2. phase \in [Taps -> Phases]
  BY DEF TypeOK
<1>3. Moves
  BY <1>1, <1>2, PhasesMove DEF Early
<1>4. WaitersKept
  BY <1>1, <1>2 DEF WaitersKept
<1>5. Homeless'
  BY <1>1, <1>2 DEF Homeless, Past
<1>6. \/ downloadBasketFromServer(t)
      \/ downloadBasketFromCache(t)
      \/ downloadBasketError(t)
  BY DEF downloadBasketFromFirestore, Read
<1>7. \A e \in Devices, k \in Keys : cache'[e][k] = cache[e][k] \/ cache'[e][k] = server[k]
  <2>1. CASE downloadBasketFromServer(t)
    BY <2>1 DEF downloadBasketFromServer, Fetch, TypeOK
  <2>2. CASE downloadBasketFromCache(t) \/ downloadBasketError(t)
    BY <2>2 DEF downloadBasketFromCache, downloadBasketError
  <2> QED
    BY <1>6, <2>1, <2>2
<1>8. GoodDocs'
  BY <1>1, <1>3, <1>7, DocsStep
<1>9. GoodQueues'
  <2>1. CASE downloadBasketFromServer(t)
    BY <1>3, <2>1, FetchKeeps, QueuesKept DEF downloadBasketFromServer
  <2>2. CASE downloadBasketFromCache(t) \/ downloadBasketError(t)
    BY <1>3, <2>2, NoQueueChange, QueuesKept DEF downloadBasketFromCache, downloadBasketError
  <2> QED
    BY <1>6, <2>1, <2>2
<1>10. PICK b : /\ main' = [main EXCEPT ![d] = Append(@, b)]
                /\ \/ b = Downloaded(t, NoDoc, NoDoc)
                   \/ b = Answer(t, tapper[t], LocalView(d, cache'[d]))
  BY <1>6 DEF downloadBasketFromServer, downloadBasketFromCache, downloadBasketError, Deliver
<1>11. b.kind = "basket" => phase[b.tag] # "answered"
  <2>1. \A k, doc : Downloaded(t, k, doc).tag = t
    BY DEF Downloaded
  <2>2. b.tag = t
    BY <1>10, <2>1 DEF Answer
  <2> QED
    BY <1>1, <2>2
<1>12. BlockOK(d, b, made', home', tapper', phase', device')
  <2>1. phase'[t] = "answered" /\ device'[t] = d /\ tapper'[t] = tapper[t]
    BY <1>1, <1>2
  <2>2. CASE b = Downloaded(t, NoDoc, NoDoc)
    BY <2>1, <2>2 DEF Downloaded, BlockOK, BasketOK
  <2>3. CASE b = Answer(t, tapper[t], LocalView(d, cache'[d]))
    <3>1. cache'[d] \in [Keys -> DocsOrNone]
      BY DEF TypeOK, DocsOrNone
    <3>2. LocalView(d, cache'[d]) \in [Keys -> DocsOrNone]
      BY <3>1, ViewType
    <3>3. pending(d) \in Seq(Writes)
      BY DEF TypeOK, pending
    <3>4. \A i \in DOMAIN pending(d) : WriteOK(pending(d)[i], made', home', tapper', phase')
      <4>1. \A i \in DOMAIN pending(d) :
              /\ pending(d)[i] \in Writes
              /\ Same(pending(d)[i], pending(d)[i])
              /\ WriteOK(pending(d)[i], made, home, tapper, phase)
        BY <3>3, ProvenanceParts DEF pending, TypeOK, Same
      <4> QED
        BY <1>3, <4>1, WriteKept DEF Moves
    <3>5. \A k \in Keys : DocOK(k, cache'[d][k], made', home', tapper')
      BY <1>8, ProvenanceParts
    <3>6. ASSUME NEW k \in Keys
          PROVE  DocOK(k, LocalView(d, cache'[d])[k], made', home', tapper')
      <4>1. DocOK(k, LocalDoc(cache'[d][k], pending(d), k), made', home', tapper')
        BY <3>1, <3>3, <3>4, <3>5, LocalDocOK
      <4> QED
        BY <4>1 DEF LocalView
    <3> QED
      BY <2>1, <2>3, <3>2, <3>6, AnswerOK
  <2> QED
    BY <1>10, <2>2, <2>3
<1>13. GoodBlocks' /\ OneAnswer'
  BY <1>3, <1>4, <1>10, <1>11, <1>12, BlockAppended
<1> QED
  BY <1>5, <1>8, <1>9, <1>13

\* A tap is made, by a phone with an account or by one without.
LEMMA TappedKeeps ==
    ASSUME Provenance, NEW t \in Taps, NEW d \in Devices,
           addToBasketTapped(t, d) \/ addToBasketRefused(t, d), TypeOK'
    PROVE  Provenance'
<1> USE DEF Provenance
<1>1. /\ phase[t] = "idle" /\ phase' = [phase EXCEPT ![t] = phase'[t]]
      /\ \A s \in Taps : s # t => /\ phase'[s] = phase[s]
                                  /\ device'[s] = device[s]
                                  /\ tapper'[s] = tapper[s]
      /\ UNCHANGED <<server, cache, queue, main, made, home>>
  BY DEF addToBasketTapped, addToBasketRefused, clientVars, TypeOK
<1>2. home[t] = None
  BY <1>1 DEF Homeless, Past
<1>3. Moves
  BY <1>1, <1>2 DEF Moves, Later, Early
<1>4. WaitersKept
  BY <1>1 DEF WaitersKept
<1>5. Homeless'
  BY <1>1, <1>2 DEF Homeless, Past
<1>6. GoodDocs'
  BY <1>1, <1>3, DocsStep
<1>7. GoodQueues'
  BY <1>1, <1>3, NoQueueChange, QueuesKept
<1>8. GoodBlocks' /\ OneAnswer'
  BY <1>1, <1>3, <1>4, BlocksSame
<1> QED
  BY <1>5, <1>6, <1>7, <1>8

\* The first block is an answer: what it says of its tap.
LEMMA HeadAnswer ==
    ASSUME Provenance, NEW d \in Devices, main[d] # << >>, Head(main[d]).kind = "basket"
    PROVE  LET b == Head(main[d]) IN
           /\ b \in Blocks /\ b.tag \in Taps
           /\ phase[b.tag] = "answered" /\ home[b.tag] = None
           /\ BasketOK(d, b, made, home, tapper, phase, device)
<1> USE DEF Provenance
<1>1. 1 \in DOMAIN main[d] /\ main[d][1] = Head(main[d])
  BY DEF TypeOK
<1>2. BlockOK(d, Head(main[d]), made, home, tapper, phase, device)
  BY <1>1, ProvenanceParts
<1>3. /\ Head(main[d]) \in Blocks /\ Head(main[d]).tag \in Taps
      /\ phase[Head(main[d]).tag] = "answered"
  BY <1>1, Waiting
<1> QED
  BY <1>2, <1>3 DEF BlockOK, Homeless, Past

LEMMA MainQueueKeeps ==
    ASSUME Provenance, NEW d \in Devices, MainQueue(d), TypeOK'
    PROVE  Provenance'
<1> DEFINE b == Head(main[d])
           t == b.tag
<1> USE DEF Provenance
<1>1. /\ main[d] # << >>
      /\ main' = [main EXCEPT ![d] = Tail(@)]
      /\ UNCHANGED <<server, cache, online, user, device, tapper>>
  BY DEF MainQueue
<1>2. /\ phase \in [Taps -> Phases]
      /\ home \in [Taps -> Keys \cup {None}]
      /\ made \in [Keys -> [by : Taps, owner : Users] \cup {None}]
  BY DEF TypeOK
<1>3. CASE createNewBasket(d)
  <2>1. t \in Taps /\ phase[t] = "answered" /\ home[t] = None
    BY <1>1, <1>3, HeadAnswer DEF createNewBasket
  <2>2. PICK k \in Keys :
          /\ made[k] = None
          /\ made' = [made EXCEPT ![k] = [by |-> t, owner |-> user[d]]]
          /\ home' = [home EXCEPT ![t] = k]
          /\ saveBasketToFirestore(d, k, [owner |-> user[d], lines |-> <<t>>])
          /\ phase' = [phase EXCEPT ![t] = "added"]
    BY <1>3 DEF createNewBasket
  <2>3. Moves
    BY <1>1, <1>2, <2>1, <2>2 DEF Moves, Later, Early
  <2>4. Homeless'
    BY <1>2, <2>1, <2>2 DEF Homeless, Past
  <2>5. GoodDocs'
    BY <1>1, <2>3, DocsStep
  <2> DEFINE w == SetData(k, [owner |-> user[d], lines |-> <<t>>], None)
  <2>6. made'[k] = [by |-> t, owner |-> user[d]] /\ home'[t] = k
    BY <1>2, <2>1, <2>2
  <2>7. LinesOK(k, <<t>>, made', home', tapper')
    <3>1. made'[k] # None
      <4>1. made' \in [Keys -> [by : Taps, owner : Users] \cup {None}] /\ user[d] \in Users
        BY <1>3 DEF TypeOK, Accounts, createNewBasket
      <4>2. made'[k] \in [by : Taps, owner : Users]
        BY <2>1, <2>6, <4>1
      <4> QED
        BY <4>2, BasketAssumption
    <3> QED
      BY <2>6, <3>1 DEF LinesOK
  <2>8. WriteOK(w, made', home', tapper', phase')
    BY <2>6, <2>7 DEF SetData, WriteOK
  <2>9. GoodQueues'
    BY <2>2, <2>3, <2>8, QueueAppended DEF saveBasketToFirestore
  <2>10. GoodBlocks' /\ OneAnswer'
    BY <1>1, <2>2, <2>3, BlockRun
  <2> QED
    BY <2>4, <2>5, <2>9, <2>10
<1>4. CASE updateBasket(d)
  <2>1. /\ b \in Blocks /\ t \in Taps /\ phase[t] = "answered" /\ home[t] = None
        /\ BasketOK(d, b, made, home, tapper, phase, device)
    BY <1>1, <1>4, HeadAnswer DEF updateBasket
  <2>2. /\ b.kind = "basket" /\ b.key # NoDoc
        /\ phase' = [phase EXCEPT ![t] = "writing"]
        /\ home' = [home EXCEPT ![t] = b.key]
        /\ made' = made
        /\ updateBasketInFirestore(d, b.key, Append(b.basket.lines, t), t)
    BY <1>4 DEF updateBasket
  <2>3. b.key \in Keys /\ b.basket.lines \in Seq(Taps)
    BY <2>1, <2>2 DEF Blocks, BasketDocs
  <2>4. LinesOK(b.key, b.basket.lines, made, home, tapper) /\ tapper[t] = made[b.key].owner
    BY <2>1, <2>2 DEF BasketOK, DocOK
  <2>5. Moves
    BY <1>1, <1>2, <2>1, <2>2 DEF Moves, Later, Early
  <2>6. Homeless'
    BY <1>2, <2>1, <2>2 DEF Homeless, Past
  <2>7. GoodDocs'
    BY <1>1, <2>5, DocsStep
  <2> DEFINE ls == b.basket.lines
             w == UpdateData(b.key, [lines |-> Append(ls, t)], t)
  <2>8. LinesOK(b.key, Append(ls, t), made', home', tapper')
    <3>1. LinesOK(b.key, ls, made', home', tapper') /\ made'[b.key] = made[b.key]
      BY <2>3, <2>4, <2>5, LinesKept DEF Moves
    <3>2. home'[t] = b.key /\ tapper'[t] = made'[b.key].owner
      BY <1>1, <1>2, <2>1, <2>2, <2>4
    <3>3. \A i \in DOMAIN ls : ls[i] # t
      BY <2>1, <2>3, <2>4, BasketAssumption DEF LinesOK
    <3> QED
      BY <2>1, <2>3, <3>1, <3>2, <3>3, LinesAppended
  <2>9. WriteOK(w, made', home', tapper', phase')
    BY <1>2, <2>1, <2>2, <2>8 DEF UpdateData, WriteOK, Early
  <2>10. GoodQueues'
    BY <2>2, <2>5, <2>9, QueueAppended DEF updateBasketInFirestore
  <2>11. GoodBlocks' /\ OneAnswer'
    BY <1>1, <2>2, <2>5, BlockRun
  <2> QED
    BY <2>6, <2>7, <2>10, <2>11
<1>5. CASE updateBasketShown(d)
  <2>1. b.kind = "written" /\ phase' = [phase EXCEPT ![t] = phase'[t]]
        /\ phase'[t] \in {"added", "failed"}
        /\ UNCHANGED <<queue, made, home>>
    <3>1. t \in Taps
      BY <1>1, Waiting DEF TypeOK
    <3> QED
      BY <1>2, <1>5, <3>1 DEF updateBasketShown
  <2>2. Moves
    BY <1>1, <1>2, <2>1, PhasesMove DEF Early
  <2>3. Homeless'
    BY <1>2, <2>1 DEF Homeless, Past
  <2>4. GoodDocs'
    BY <1>1, <2>2, DocsStep
  <2>5. GoodQueues'
    BY <2>1, <2>2, NoQueueChange, QueuesKept
  <2>6. GoodBlocks' /\ OneAnswer'
    BY <1>1, <2>1, <2>2, BlockRun
  <2> QED
    BY <2>3, <2>4, <2>5, <2>6
<1> QED
  BY <1>3, <1>4, <1>5 DEF MainQueue

LEMMA TerminateKeeps ==
    ASSUME Provenance, NEW d \in Devices, Terminate(d), TypeOK'
    PROVE  Provenance'
<1> USE DEF Provenance
<1>1. /\ RestartClient(d)
      /\ main' = [main EXCEPT ![d] = << >>]
      /\ UNCHANGED <<server, cache, device, tapper, made, home>>
      /\ \A t \in Taps : device[t] # d => phase'[t] = phase[t]
      /\ \A t \in Taps : phase[t] \notin Early => phase'[t] \notin Early
      /\ \A t \in Taps : phase'[t] \in Early => phase[t] \in Early
  BY DEF Terminate, RestartClient, RestartFrom, Early
<1>2. Moves
  BY <1>1, PhasesMove
<1>3. Homeless'
  BY <1>1 DEF Homeless, Past, Early
<1>4. GoodDocs'
  BY <1>1, <1>2, DocsStep
<1>5. GoodQueues'
  BY <1>1, <1>2, RestartKeeps, QueuesKept
<1>6. \A e \in Devices : main'[e] = IF e = d THEN << >> ELSE main[e]
  BY <1>1 DEF TypeOK
<1>7. \A e \in Devices : \A i \in DOMAIN main'[e] :
        i \in DOMAIN main[e] /\ main'[e][i] = main[e][i] /\ e # d
  BY <1>6
<1>8. GoodBlocks'
  BY <1>1, <1>2, <1>7, Waiting, BlocksStep
<1>9. OneAnswer'
  BY <1>7 DEF OneAnswer
<1> QED
  BY <1>3, <1>4, <1>5, <1>8, <1>9

\* The client's own steps leave the taps alone.
LEMMA TapsStay ==
    ASSUME UNCHANGED <<made, home, tapper, phase, device>>, Homeless
    PROVE  Moves /\ WaitersKept /\ Homeless'
  BY DEF Moves, Later, WaitersKept, Homeless, Past

LEMMA ServerDecidesKeeps ==
    ASSUME Provenance, NEW d \in Devices, ServerDecides(d), TypeOK'
    PROVE  Provenance'
<1> USE DEF Provenance
<1>1. PICK i \in DOMAIN pending(d) :
        /\ CommitWrite(d, i) \/ RefuseWrite(d, i)
        /\ UNCHANGED <<made, home, tapper, phase, device>>
  BY DEF ServerDecides, tapVars
<1>2. Moves /\ WaitersKept /\ Homeless' /\ UNCHANGED <<cache, main>>
  BY <1>1, TapsStay DEF CommitWrite, RefuseWrite
<1> DEFINE w == pending(d)[i]
<1>3. w \in Writes /\ w.key \in Keys
  BY DEF TypeOK, pending, Writes
<1>4. WriteOK(w, made, home, tapper, phase)
  BY ProvenanceParts DEF pending, TypeOK
<1>5. ASSUME NEW k \in Keys
      PROVE  server'[k] = server[k] \/ DocOK(k, server'[k], made', home', tapper')
  <2>1. CASE CommitWrite(d, i) /\ k = w.key
    <3>1. server'[k] = Applied(w, server[w.key])
      BY <1>3, <2>1 DEF CommitWrite, TypeOK
    <3>2. server[w.key] \in DocsOrNone /\ DocOK(w.key, server[w.key], made, home, tapper)
      <4>1. \A l \in Keys : server[l] \in DocsOrNone /\ DocOK(l, server[l], made, home, tapper)
        BY ProvenanceParts DEF TypeOK, DocsOrNone
      <4> HIDE DEF w
      <4> QED
        BY <1>3, <4>1
    <3>3. DocOK(w.key, Applied(w, server[w.key]), made, home, tapper)
      BY <1>3, <1>4, <3>2, AppliedOK
    <3> QED
      BY <1>1, <2>1, <3>1, <3>3
  <2>2. CASE CommitWrite(d, i) /\ k # w.key
    BY <1>3, <2>2 DEF CommitWrite, TypeOK
  <2>3. CASE RefuseWrite(d, i)
    BY <2>3 DEF RefuseWrite
  <2> QED
    BY <1>1, <2>1, <2>2, <2>3
<1>6. GoodDocs'
  BY <1>2, <1>5, DocsStep
<1>7. ASSUME CommitWrite(d, i) PROVE GoodQueues'
  <2>1. Decide(d, i, "committed")
    BY <1>7 DEF CommitWrite
  <2>2. WriteOK([w EXCEPT !.fate = "committed"], made', home', tapper', phase')
    <3> HIDE DEF w
    <3>1. /\ [w EXCEPT !.fate = "committed"].key = w.key
          /\ [w EXCEPT !.fate = "committed"].fields = w.fields
          /\ [w EXCEPT !.fate = "committed"].op = w.op
          /\ [w EXCEPT !.fate = "committed"].tag = w.tag
      BY <1>3 DEF Writes
    <3> QED
      BY <1>1, <1>4, <3>1 DEF WriteOK
  <2>3. \A e \in Devices, u \in Accounts : \A n \in DOMAIN queue'[e][u] :
          \/ \E j \in DOMAIN queue[e][u] : Same(queue'[e][u][n], queue[e][u][j])
          \/ queue'[e][u][n] = [w EXCEPT !.fate = "committed"]
    BY <2>1, CommitQueue
  <2> HIDE DEF w
  <2>4. GoodQueues'
    BY <1>2, <2>2, <2>3, QueuesStep
  <2> QED
    BY <2>4
<1>8. ASSUME RefuseWrite(d, i) PROVE GoodQueues'
  BY <1>2, <1>8, RefuseKeeps, QueuesKept DEF RefuseWrite, Fates, Accepted
<1>9. GoodBlocks' /\ OneAnswer'
  BY <1>2, BlocksSame
<1> QED
  BY <1>1, <1>2, <1>6, <1>7, <1>8, <1>9

LEMMA ClientLearnsKeeps ==
    ASSUME Provenance, NEW d \in Devices, ClientLearns(d), TypeOK'
    PROVE  Provenance'
<1> DEFINE w == Head(pending(d))
<1> USE DEF Provenance
<1>1. /\ Acknowledge(d)
      /\ UNCHANGED <<made, home, tapper, phase, device, server>>
  BY DEF ClientLearns, Acknowledge, tapVars
<1>2. Moves /\ WaitersKept /\ Homeless'
  BY <1>1, TapsStay
<1>3. pending(d) \in Seq(Writes) /\ 1 \in DOMAIN pending(d) /\ w = pending(d)[1]
  <2>1. pending(d) \in Seq(Writes)
    BY DEF TypeOK, pending
  <2>2. pending(d) # << >>
    BY <1>1 DEF Acknowledge
  <2> QED
    BY <2>1, <2>2
<1>4. w \in Writes /\ w.key \in Keys
  <2>1. w \in Writes
    BY <1>3
  <2> HIDE DEF w
  <2> QED
    BY <2>1 DEF Writes
<1>5. WriteOK(w, made, home, tapper, phase)
  BY <1>3, ProvenanceParts DEF pending, TypeOK
<1>6. ASSUME NEW e \in Devices, NEW k \in Keys
      PROVE  cache'[e][k] = cache[e][k] \/ DocOK(k, cache'[e][k], made', home', tapper')
  <2>1. CASE e = d /\ k = w.key /\ w.fate = "committed"
    <3>1. cache'[e][k] = Applied(w, cache[d][w.key])
      <4>1. cache' = [cache EXCEPT ![d][w.key] = Applied(w, cache[d][w.key])]
        BY <1>1, <2>1 DEF Acknowledge
      <4>2. cache \in [Devices -> [Keys -> DocsOrNone]]
        BY DEF TypeOK, DocsOrNone
      <4> HIDE DEF w
      <4> QED
        BY <1>4, <2>1, <4>1, <4>2
    <3>2. cache[d][w.key] \in DocsOrNone /\ DocOK(w.key, cache[d][w.key], made, home, tapper)
      <4>1. \A l \in Keys : /\ cache[d][l] \in DocsOrNone
                            /\ DocOK(l, cache[d][l], made, home, tapper)
        BY ProvenanceParts DEF TypeOK, DocsOrNone
      <4> HIDE DEF w
      <4> QED
        BY <1>4, <4>1
    <3>3. DocOK(w.key, Applied(w, cache[d][w.key]), made, home, tapper)
      BY <1>4, <1>5, <3>2, AppliedOK
    <3> QED
      BY <1>1, <2>1, <3>1, <3>3
  <2>2. CASE ~ (e = d /\ k = w.key /\ w.fate = "committed")
    <3>1. cache' = IF w.fate = "committed"
                   THEN [cache EXCEPT ![d][w.key] = Applied(w, cache[d][w.key])] ELSE cache
      BY <1>1 DEF Acknowledge
    <3>2. cache \in [Devices -> [Keys -> DocsOrNone]]
      BY DEF TypeOK, DocsOrNone
    <3> HIDE DEF w
    <3>3. CASE w.fate = "committed"
      <4>1. cache' = [cache EXCEPT ![d][w.key] = Applied(w, cache[d][w.key])]
        BY <3>1, <3>3
      <4>2. ~ (e = d /\ k = w.key)
        BY <2>2, <3>3
      <4>3. cache'[e][k] = cache[e][k]
        BY <3>2, <4>1, <4>2
      <4> QED
        BY <4>3
    <3>4. CASE w.fate # "committed"
      BY <3>1, <3>4
    <3> QED
      BY <3>3, <3>4
  <2> QED
    BY <2>1, <2>2
<1>7. GoodDocs'
  BY <1>1, <1>2, <1>6, DocsStep
<1>8. GoodQueues'
  BY <1>1, <1>2, AcknowledgeKeeps, QueuesKept
<1>9. CASE w.tag = None
  <2>1. UNCHANGED main
    BY <1>1, <1>9 DEF Acknowledge
  <2>2. GoodBlocks' /\ OneAnswer'
    BY <1>2, <2>1, BlocksSame
  <2> QED
    BY <1>2, <1>7, <1>8, <2>2
<1>10. CASE w.tag # None
  <2>1. main' = [main EXCEPT ![d] = Append(@, Written(w))]
    BY <1>1, <1>10 DEF Acknowledge
  <2>2. BlockOK(d, Written(w), made', home', tapper', phase', device')
    BY <1>1, <1>5, <1>10 DEF Written, BlockOK, WriteOK
  <2>3. Written(w).kind # "basket"
    BY DEF Written
  <2>4. GoodBlocks' /\ OneAnswer'
    BY <1>2, <2>1, <2>2, <2>3, BlockAppended
  <2> QED
    BY <1>2, <1>7, <1>8, <2>4
<1> QED
  BY <1>9, <1>10

\* The network comes and goes, accounts sign in and out.
LEMMA NetworkKeeps ==
    ASSUME Provenance, NEW d \in Devices,
           NetworkLost(d) \/ NetworkBack(d) \/ SignInOrOut(d), TypeOK'
    PROVE  Provenance'
<1> USE DEF Provenance
<1>1. UNCHANGED <<made, home, tapper, phase, device, server, cache, main>>
  BY DEF NetworkLost, NetworkBack, SignInOrOut, GoOffline, GoOnline, CredentialChange, tapVars
<1>2. StreamBreaks(d)
  BY DEF NetworkLost, NetworkBack, SignInOrOut, GoOffline, GoOnline, CredentialChange,
         StreamBreaks
<1>3. Moves /\ WaitersKept /\ Homeless'
  BY <1>1, TapsStay
<1>4. GoodDocs'
  BY <1>1, <1>3, DocsStep
<1>5. GoodQueues'
  BY <1>2, <1>3, StreamBreaksKeeps, QueuesKept
<1>6. GoodBlocks' /\ OneAnswer'
  BY <1>1, <1>3, BlocksSame
<1> QED
  BY <1>3, <1>4, <1>5, <1>6

--------------------------------------------------------------------------------
(* The invariant, and what follows from it.                                *)

ProvenanceInv == TypeInv /\ Provenance

LEMMA ProvenanceInit == Init => ProvenanceInv
<1> SUFFICES ASSUME Init PROVE ProvenanceInv
  OBVIOUS
<1>1. TypeInv
  BY TypeInit
<1>2. GoodDocs
  BY DEF Init, ClientInit, GoodDocs, GoodDoc
<1>3. GoodQueues
  BY DEF Init, ClientInit, GoodQueues
<1>4. GoodBlocks /\ OneAnswer
  BY DEF Init, ClientInit, GoodBlocks, OneAnswer
<1>5. Homeless
  BY DEF Init, Homeless
<1> QED
  BY <1>1, <1>2, <1>3, <1>4, <1>5 DEF ProvenanceInv, Provenance, TypeInv

LEMMA ProvenanceStep == ProvenanceInv /\ [Next]_vars => ProvenanceInv'
<1> SUFFICES ASSUME ProvenanceInv, [Next]_vars PROVE ProvenanceInv'
  OBVIOUS
<1>1. Provenance /\ ReadersHaveDevices
  BY DEF ProvenanceInv, TypeInv
<1>2. TypeInv' /\ TypeOK'
  BY TypeStep DEF ProvenanceInv, TypeInv
<1>3. ASSUME NEW t \in Taps, downloadBasketFromFirestore(t)
      PROVE  Provenance'
  BY <1>1, <1>2, <1>3, DownloadKeeps DEF ReadersHaveDevices, downloadBasketFromFirestore
<1>4. ASSUME NEW t \in Taps, NEW d \in Devices,
             addToBasketTapped(t, d) \/ addToBasketRefused(t, d)
      PROVE  Provenance'
  BY <1>1, <1>2, <1>4, TappedKeeps
<1>5. ASSUME NEW d \in Devices, MainQueue(d)
      PROVE  Provenance'
  BY <1>1, <1>2, <1>5, MainQueueKeeps
<1>6. ASSUME NEW d \in Devices, Terminate(d) \/ createNewBasketTraps(d)
      PROVE  Provenance'
  BY <1>1, <1>2, <1>6, TerminateKeeps DEF createNewBasketTraps
<1>7. ASSUME NEW d \in Devices, ServerDecides(d)
      PROVE  Provenance'
  BY <1>1, <1>2, <1>7, ServerDecidesKeeps
<1>8. ASSUME NEW d \in Devices, ClientLearns(d)
      PROVE  Provenance'
  BY <1>1, <1>2, <1>8, ClientLearnsKeeps
<1>9. ASSUME NEW d \in Devices, NetworkLost(d) \/ NetworkBack(d) \/ SignInOrOut(d)
      PROVE  Provenance'
  BY <1>1, <1>2, <1>9, NetworkKeeps
<1>10. ASSUME UNCHANGED vars
       PROVE  Provenance'
  <2>1. UNCHANGED <<server, cache, queue, main, made, home, tapper, phase, device>>
    BY <1>10 DEF vars, clientVars, tapVars
  <2>2. Moves /\ WaitersKept /\ Homeless'
    BY <1>1, <2>1, TapsStay DEF Provenance
  <2>3. GoodDocs' /\ GoodQueues' /\ GoodBlocks' /\ OneAnswer'
    BY <1>1, <2>1, <2>2, DocsStep, NoQueueChange, QueuesKept, BlocksSame DEF Provenance
  <2> QED
    BY <1>2, <2>2, <2>3 DEF Provenance
<1>11. Provenance'
  BY <1>3, <1>4, <1>5, <1>6, <1>7, <1>8, <1>9, <1>10 DEF Next
<1> QED
  BY <1>2, <1>11 DEF ProvenanceInv

\* In no basket, and in no two baskets, has a tap two lines: every line of a
\* basket has that basket for its home, and once.
THEOREM OneLinePerTap == Spec => []NoLineTwice
<1>1. ProvenanceInv => NoLineTwice
  <2> SUFFICES ASSUME Provenance,
                      NEW j \in Keys, NEW k \in Keys, server[j] # NoDoc, server[k] # NoDoc,
                      NEW m \in DOMAIN server[j].lines, NEW n \in DOMAIN server[k].lines,
                      server[j].lines[m] = server[k].lines[n]
               PROVE  j = k /\ m = n
    BY DEF NoLineTwice, ProvenanceInv
  <2>1. GoodLines(j, server[j].lines) /\ GoodLines(k, server[k].lines)
    BY DEF Provenance, GoodDocs, GoodDoc
  <2> QED
    BY <2>1 DEF GoodLines
<1> QED
  BY <1>1, ProvenanceInit, ProvenanceStep, PTL DEF Spec

\* Only the line that made a basket can be of a tap for another account: the
\* later ones were appended to a basket that the tap's own query returned.
THEOREM StrayLineIsFirst == Spec => []StrayOnlyFirst
<1>1. ProvenanceInv => StrayOnlyFirst
  <2> SUFFICES ASSUME Provenance, NEW k \in Keys, server[k] # NoDoc,
                      NEW n \in 2 .. Len(server[k].lines)
               PROVE  tapper[server[k].lines[n]] = server[k].owner
    BY DEF StrayOnlyFirst, ProvenanceInv
  <2>1. GoodLines(k, server[k].lines) /\ server[k].owner = made[k].owner
    BY DEF Provenance, GoodDocs, GoodDoc
  <2> QED
    BY <2>1 DEF GoodLines
<1> QED
  BY <1>1, ProvenanceInit, ProvenanceStep, PTL DEF Spec

--------------------------------------------------------------------------------
(***************************************************************************)
(* What overlapping taps can do to a basket, and all they can do: a line   *)
(* lost, a second document, a message before its line.  The argument: a    *)
(* list keeps the lines its tap read when nothing was under way, a maker   *)
(* of a document had read that there was none, and a write that counts as  *)
(* accepted is on the server (Faith), beside ProvenanceInv.                *)
(***************************************************************************)

(* What a list owes to the read it was made from.  As above, the state is  *)
(* a parameter.                                                            *)

KeepsOK(t, k, ls, cm, bf) == cm[t] => bf[t][k] \subseteq {ls[i] : i \in DOMAIN ls}

NoneOK(t, cm, bf, mk, tp) ==
    cm[t] => \A j \in Keys : bf[t][j] # {} => mk[j].owner # tp[t]

SentOK(w, cm, bf, sv, ar) ==
    /\ KeepsOK(Writer(w), w.key, w.fields.lines, cm, bf)
    /\ w.tag # None => w.op = "update" /\ w.tag = Writer(w)
    /\ w.fate \in Accepted => sv[w.key] # NoDoc /\ (w.tag # None => w.tag \in ar)

ReplyOK(b, cm, bf, mk, tp, ar) ==
    /\ b.kind = "basket" =>
        IF b.key = NoDoc THEN NoneOK(b.tag, cm, bf, mk, tp)
        ELSE KeepsOK(b.tag, b.key, b.basket.lines, cm, bf)
    /\ b.kind = "written" => (b.ok => b.tag \in ar)

LEMMA FaithParts ==
    /\ FaithfulQueues <=>
        \A d \in Devices, u \in Accounts : \A i \in DOMAIN queue[d][u] :
            SentOK(queue[d][u][i], calm, before, server, arrived)
    /\ FaithfulQueues' <=>
        \A d \in Devices, u \in Accounts : \A i \in DOMAIN queue'[d][u] :
            SentOK(queue'[d][u][i], calm', before', server', arrived')
    /\ FaithfulBlocks <=>
        \A d \in Devices : \A i \in DOMAIN main[d] :
            ReplyOK(main[d][i], calm, before, made, tapper, arrived)
    /\ FaithfulBlocks' <=>
        \A d \in Devices : \A i \in DOMAIN main'[d] :
            ReplyOK(main'[d][i], calm', before', made', tapper', arrived')
    /\ FaithfulMakers <=>
        \A k \in Keys : made[k] # None =>
            phase[made[k].by] \notin Early /\ NoneOK(made[k].by, calm, before, made, tapper)
    /\ FaithfulMakers' <=>
        \A k \in Keys : made'[k] # None =>
            phase'[made'[k].by] \notin Early
            /\ NoneOK(made'[k].by, calm', before', made', tapper')
<1>1. FaithfulQueues <=>
        \A d \in Devices, u \in Accounts : \A i \in DOMAIN queue[d][u] :
            SentOK(queue[d][u][i], calm, before, server, arrived)
  BY Zenon DEF FaithfulQueues, FaithfulWrite, KeepsWhatWasRead, SentOK, KeepsOK
<1>2. FaithfulQueues' <=>
        \A d \in Devices, u \in Accounts : \A i \in DOMAIN queue'[d][u] :
            SentOK(queue'[d][u][i], calm', before', server', arrived')
  BY Zenon DEF FaithfulQueues, FaithfulWrite, KeepsWhatWasRead, SentOK, KeepsOK, Writer
<1>3. FaithfulBlocks <=>
        \A d \in Devices : \A i \in DOMAIN main[d] :
            ReplyOK(main[d][i], calm, before, made, tapper, arrived)
  BY Zenon DEF FaithfulBlocks, FaithfulBlock, KeepsWhatWasRead, SawNoBasket,
               ReplyOK, KeepsOK, NoneOK
<1>4. FaithfulBlocks' <=>
        \A d \in Devices : \A i \in DOMAIN main'[d] :
            ReplyOK(main'[d][i], calm', before', made', tapper', arrived')
  BY Zenon DEF FaithfulBlocks, FaithfulBlock, KeepsWhatWasRead, SawNoBasket,
               ReplyOK, KeepsOK, NoneOK
<1>5. FaithfulMakers <=>
        \A k \in Keys : made[k] # None =>
            phase[made[k].by] \notin Early /\ NoneOK(made[k].by, calm, before, made, tapper)
  BY Zenon DEF FaithfulMakers, SawNoBasket, NoneOK, Past, Early
<1>6. FaithfulMakers' <=>
        \A k \in Keys : made'[k] # None =>
            phase'[made'[k].by] \notin Early
            /\ NoneOK(made'[k].by, calm', before', made', tapper')
  BY Zenon DEF FaithfulMakers, SawNoBasket, NoneOK, Past, Early
<1> QED
  BY <1>1, <1>2, <1>3, <1>4, <1>5, <1>6

--------------------------------------------------------------------------------
(* What is true of a list stays true of it: a tap reads once, and what     *)
(* happens to the server, the names and the arrivals is for good.          *)

Fresh == {"idle", "reading"}

Forward ==
    /\ \A t \in Taps : phase[t] \notin Fresh =>
        calm'[t] = calm[t] /\ before'[t] = before[t] /\ tapper'[t] = tapper[t]
    /\ \A t \in Taps : phase[t] \notin Early => phase'[t] \notin Early
    /\ \A k \in Keys : server[k] # NoDoc => server'[k] # NoDoc
    /\ \A k \in Keys : made[k] # None => made'[k] = made[k]
    /\ arrived \subseteq arrived'

\* The tap whose line is the last of a list has written.
LEMMA WriterPast ==
    ASSUME TypeOK, Homeless, NEW w \in Writes, WriteOK(w, made, home, tapper, phase)
    PROVE  /\ Writer(w) \in Taps /\ phase[Writer(w)] \notin Early
           /\ \E i \in DOMAIN w.fields.lines : w.fields.lines[i] = Writer(w)
           /\ home[Writer(w)] = w.key
<1>1. w.fields.lines \in Seq(Taps) /\ w.fields.lines # << >> /\ w.key \in Keys
  BY DEF Writes, BasketDocs, WriteOK, LinesOK
<1>2. Len(w.fields.lines) \in DOMAIN w.fields.lines
  BY <1>1
<1>3. home[Writer(w)] = w.key /\ Writer(w) \in Taps
  BY <1>1, <1>2 DEF WriteOK, LinesOK, Writer
<1>4. w.key # None
  BY <1>1, BasketAssumption
<1>5. phase[Writer(w)] \notin Early
  BY <1>3, <1>4 DEF Homeless, Past, Early
<1> QED
  BY <1>2, <1>3, <1>5 DEF Writer

LEMMA NoneKept ==
    ASSUME Forward, ReadThings, NEW t \in Taps, phase[t] \notin Fresh,
           NoneOK(t, calm, before, made, tapper)
    PROVE  NoneOK(t, calm', before', made', tapper')
  BY DEF Forward, ReadThings, NoneOK

LEMMA SentKept ==
    ASSUME Forward, NEW w \in Writes, NEW v, Same(v, w),
           Writer(w) \in Taps, phase[Writer(w)] \notin Early,
           SentOK(w, calm, before, server, arrived)
    PROVE  SentOK(v, calm', before', server', arrived')
<1>1. w.key \in Keys
  BY DEF Writes
<1>2. Writer(v) = Writer(w)
  BY DEF Same, Writer
<1>3. calm'[Writer(w)] = calm[Writer(w)] /\ before'[Writer(w)] = before[Writer(w)]
  BY DEF Forward, Early, Fresh
<1>4. KeepsOK(Writer(v), v.key, v.fields.lines, calm', before')
  BY <1>2, <1>3 DEF SentOK, KeepsOK, Same
<1>5. v.tag # None => v.op = "update" /\ v.tag = Writer(v)
  BY <1>2 DEF SentOK, Same
<1>6. v.fate \in Accepted => server'[v.key] # NoDoc /\ (v.tag # None => v.tag \in arrived')
  BY <1>1 DEF SentOK, Same, Forward
<1> QED
  BY <1>4, <1>5, <1>6 DEF SentOK

LEMMA ReplyKept ==
    ASSUME Forward, ReadThings, NEW b \in Blocks, b.kind = "basket" => phase[b.tag] \notin Fresh,
           ReplyOK(b, calm, before, made, tapper, arrived)
    PROVE  ReplyOK(b, calm', before', made', tapper', arrived')
<1>1. b.tag \in Taps
  BY DEF Blocks
<1>2. CASE b.kind = "basket" /\ b.key = NoDoc
  BY <1>1, <1>2, NoneKept DEF ReplyOK
<1>3. CASE b.kind = "basket" /\ b.key # NoDoc
  BY <1>1, <1>3 DEF ReplyOK, KeepsOK, Forward
<1>4. CASE b.kind # "basket"
  BY <1>4 DEF ReplyOK, Forward
<1> QED
  BY <1>2, <1>3, <1>4

LEMMA FaithfulQueuesStep ==
    ASSUME Provenance, FaithfulQueues, Forward,
           \A d \in Devices, u \in Accounts : \A i \in DOMAIN queue'[d][u] :
               \/ \E j \in DOMAIN queue[d][u] : Same(queue'[d][u][i], queue[d][u][j])
               \/ SentOK(queue'[d][u][i], calm', before', server', arrived')
    PROVE  FaithfulQueues'
<1>1. \A d \in Devices, u \in Accounts : \A j \in DOMAIN queue[d][u] :
        /\ queue[d][u][j] \in Writes
        /\ SentOK(queue[d][u][j], calm, before, server, arrived)
        /\ WriteOK(queue[d][u][j], made, home, tapper, phase)
  BY FaithParts, ProvenanceParts DEF TypeOK, Provenance
<1>2. \A d \in Devices, u \in Accounts : \A j \in DOMAIN queue[d][u] :
        Writer(queue[d][u][j]) \in Taps /\ phase[Writer(queue[d][u][j])] \notin Early
  BY <1>1, WriterPast DEF Provenance
<1>3. \A d \in Devices, u \in Accounts : \A i \in DOMAIN queue'[d][u] :
        SentOK(queue'[d][u][i], calm', before', server', arrived')
  BY <1>1, <1>2, SentKept
<1> QED
  BY <1>3, FaithParts

LEMMA FaithfulQueuesKept ==
    ASSUME Provenance, FaithfulQueues, Forward, QueueKept
    PROVE  FaithfulQueues'
  BY FaithfulQueuesStep DEF QueueKept

LEMMA FaithfulBlocksStep ==
    ASSUME Provenance, FaithfulBlocks, ReadThings, Forward,
           \A d \in Devices : \A i \in DOMAIN main'[d] :
               \/ \E j \in DOMAIN main[d] : main'[d][i] = main[d][j]
               \/ ReplyOK(main'[d][i], calm', before', made', tapper', arrived')
    PROVE  FaithfulBlocks'
<1>1. \A d \in Devices : \A j \in DOMAIN main[d] :
        /\ main[d][j] \in Blocks
        /\ main[d][j].kind = "basket" => phase[main[d][j].tag] \notin Fresh
        /\ ReplyOK(main[d][j], calm, before, made, tapper, arrived)
  BY FaithParts, Waiting DEF Provenance, Fresh
<1>2. \A d \in Devices : \A i \in DOMAIN main'[d] :
        ReplyOK(main'[d][i], calm', before', made', tapper', arrived')
  BY <1>1, ReplyKept
<1> QED
  BY <1>2, FaithParts

LEMMA FaithfulMakersStep ==
    ASSUME Provenance, FaithfulMakers, ReadThings, Forward,
           \A k \in Keys : \/ made'[k] = made[k]
                           \/ /\ phase'[made'[k].by] \notin Early
                              /\ NoneOK(made'[k].by, calm', before', made', tapper')
    PROVE  FaithfulMakers'
<1>1. ASSUME NEW k \in Keys, made'[k] = made[k], made[k] # None
      PROVE  /\ phase'[made[k].by] \notin Early
             /\ NoneOK(made[k].by, calm', before', made', tapper')
  <2>1. /\ made[k].by \in Taps /\ phase[made[k].by] \notin Early
        /\ NoneOK(made[k].by, calm, before, made, tapper)
    <3>1. made[k] \in [by : Taps, owner : Users]
      BY <1>1 DEF Provenance, TypeOK
    <3> QED
      BY <1>1, <3>1, FaithParts
  <2> QED
    BY <2>1, NoneKept DEF Forward, Early, Fresh
<1> QED
  BY <1>1, FaithParts

LEMMA ToldStep ==
    ASSUME ToldAfterArrival, Forward, made \in [Keys -> [by : Taps, owner : Users] \cup {None}],
           \A t \in Taps : phase'[t] = "added" =>
               \/ phase[t] = "added"
               \/ t \in arrived'
               \/ \E k \in Keys : made'[k] # None /\ made'[k].by = t
    PROVE  ToldAfterArrival'
  BY DEF ToldAfterArrival, Forward

--------------------------------------------------------------------------------
(* The read, which is where the promise is made.                           *)

\* With nothing pending a view is the documents themselves.
LEMMA NothingOver ==
    ASSUME NEW d, pending(d) = << >>, NEW base \in [Keys -> DocsOrNone], NEW k \in Keys
    PROVE  LocalView(d, base)[k] = base[k]
<1>1. LocalView(d, base)[k] = LocalDoc(base[k], << >>, k)
  BY DEF LocalView
<1>2. CASE base[k] = NoDoc
  BY <1>1, <1>2 DEF LocalDoc, Exists
<1>3. CASE base[k] # NoDoc
  <2>1. LocalDoc(base[k], << >>, k) = [f \in Fields |-> base[k][f]]
    BY <1>3 DEF LocalDoc, Exists, IsLast
  <2>2. base[k] \in [owner : Users, lines : Seq(Taps)]
    BY <1>3 DEF DocsOrNone, BasketDocs
  <2>3. [f \in {"owner", "lines"} |-> base[k][f]] = base[k]
    BY <2>2
  <2> QED
    BY <1>1, <2>1, <2>3, BasketAssumption
<1> QED
  BY <1>2, <1>3

\* What a calm read sees is the server's baskets of the account.
LEMMA CalmView ==
    ASSUME Provenance, ReadThings, NEW t \in Taps, device[t] \in Devices,
           downloadBasketFromServer(t), pending(device[t]) = << >>, TypeOK'
    PROVE  LET docs == LocalView(device[t], cache'[device[t]]) IN
           /\ docs \in [Keys -> DocsOrNone]
           /\ BasketsOf(tapper[t], docs) = BasketsOf(tapper[t], server)
           /\ \A k \in BasketsOf(tapper[t], docs) : docs[k] = server[k]
<1> DEFINE d == device[t]
           u == tapper[t]
           docs == LocalView(d, cache'[d])
<1>1. cache'[d] \in [Keys -> DocsOrNone]
  BY DEF TypeOK, DocsOrNone
<1>2. docs \in [Keys -> DocsOrNone] /\ \A k \in Keys : docs[k] = cache'[d][k]
  BY <1>1, NothingOver, ViewType DEF Provenance
<1>3. \A k \in Keys : cache'[d][k] = IF k \in BasketsOf(u, server) THEN server[k] ELSE cache[d][k]
  BY DEF downloadBasketFromServer, Fetch, Provenance, TypeOK
<1>4. \A k \in Keys : server[k] # NoDoc => server[k].owner = made[k].owner
  BY DEF Provenance, GoodDocs, GoodDoc
<1>5. \A k \in Keys : cache[d][k] # NoDoc => server[k] # NoDoc /\ cache[d][k].owner = made[k].owner
  BY DEF Provenance, GoodDocs, GoodDoc, ReadThings
<1>6. \A k \in BasketsOf(u, docs) : k \in BasketsOf(u, server) /\ docs[k] = server[k]
  BY <1>2, <1>3, <1>4, <1>5 DEF BasketsOf
<1>7. \A k \in BasketsOf(u, server) : k \in BasketsOf(u, docs)
  BY <1>2, <1>3 DEF BasketsOf
<1> HIDE DEF docs
<1> QED
  BY <1>2, <1>6, <1>7 DEF docs

LEMMA CalmAnswer ==
    ASSUME Provenance, ReadThings, NEW t \in Taps, device[t] \in Devices,
           Read(t), downloadBasketFromServer(t), pending(device[t]) = << >>, TypeOK'
    PROVE  ReplyOK(Answer(t, tapper[t], LocalView(device[t], cache'[device[t]])),
                   calm', before', made', tapper', arrived')
<1> DEFINE u == tapper[t]
           docs == LocalView(device[t], cache'[device[t]])
           answer == Answer(t, u, docs)
<1>1. made' = made /\ tapper' = tapper /\ before'[t] = [k \in Keys |-> Lines(server[k])]
  BY DEF Read, Provenance, TypeOK
<1>2. /\ docs \in [Keys -> DocsOrNone]
      /\ BasketsOf(u, docs) = BasketsOf(u, server)
      /\ \A k \in BasketsOf(u, docs) : docs[k] = server[k]
  BY CalmView
<1>3. \A k \in Keys : server[k] # NoDoc =>
        /\ made[k] # None /\ server[k].owner = made[k].owner
        /\ Lines(server[k]) = {server[k].lines[i] : i \in DOMAIN server[k].lines}
  BY DEF Provenance, GoodDocs, GoodDoc, GoodLines, Lines
<1> HIDE DEF docs
<1>4. CASE BasketsOf(u, docs) = {} /\ answer = Downloaded(t, NoDoc, NoDoc)
  <2>1. \A j \in Keys : Lines(server[j]) # {} => server[j] # NoDoc
    BY DEF Lines
  <2>2. \A j \in Keys : before'[t][j] # {} => made[j].owner # u
    BY <1>1, <1>2, <1>3, <1>4, <2>1 DEF BasketsOf
  <2> HIDE DEF answer
  <2>3. answer.kind = "basket" /\ answer.key = NoDoc /\ answer.tag = t
    BY <1>4 DEF Downloaded
  <2> QED
    BY <1>1, <2>2, <2>3 DEF ReplyOK, NoneOK, answer, docs
<1>5. CASE \E k \in BasketsOf(u, docs) : answer = Downloaded(t, k, docs[k])
  <2>1. PICK k \in BasketsOf(u, docs) : answer = Downloaded(t, k, docs[k])
    BY <1>5
  <2>2. k \in Keys /\ k # NoDoc /\ server[k] # NoDoc /\ docs[k] = server[k]
    BY <1>2, <2>1, BasketAssumption DEF BasketsOf
  <2> HIDE DEF answer
  <2>3. /\ answer.kind = "basket" /\ answer.key = k /\ answer.tag = t
        /\ answer.basket = server[k]
    BY <2>1, <2>2 DEF Downloaded
  <2>4. before'[t][k] = {server[k].lines[i] : i \in DOMAIN server[k].lines}
    BY <1>1, <1>3, <2>2
  <2> QED
    BY <2>2, <2>3, <2>4 DEF ReplyOK, KeepsOK, answer, docs
<1> QED
  BY <1>2, <1>4, <1>5, AnswerIs DEF answer, docs

LEMMA DownloadFaithful ==
    ASSUME Provenance, Faith, NEW t \in Taps, downloadBasketFromFirestore(t),
           device[t] \in Devices, TypeOK'
    PROVE  Faith'
<1> DEFINE d == device[t]
<1> USE DEF Faith
<1>1. /\ phase[t] = "reading" /\ Read(t) /\ phase' = [phase EXCEPT ![t] = "answered"]
      /\ before' = [before EXCEPT ![t] = [k \in Keys |-> Lines(server[k])]]
      /\ UNCHANGED <<server, online, user, device, tapper, made, home, arrived>>
  BY DEF downloadBasketFromFirestore, Read
<1>2. /\ calm \in [Taps -> BOOLEAN] /\ phase \in [Taps -> Phases]
      /\ before \in [Taps -> [Keys -> SUBSET Taps]]
  BY DEF Provenance, TypeOK
<1>3. \/ downloadBasketFromServer(t)
      \/ downloadBasketFromCache(t)
      \/ downloadBasketError(t)
  BY <1>1 DEF Read
<1>4. \A s \in Taps : s # t => calm'[s] = calm[s] /\ before'[s] = before[s]
                               /\ phase'[s] = phase[s]
  <2>1. \A s \in Taps : s # t => calm'[s] = calm[s]
    BY <1>2, <1>3 DEF downloadBasketFromServer, downloadBasketFromCache, downloadBasketError
  <2> QED
    BY <1>1, <1>2, <2>1
<1>5. Forward
  BY <1>1, <1>4 DEF Forward, Fresh, Early
<1>6. FaithfulQueues'
  <2>1. CASE downloadBasketFromServer(t)
    <3>1. QueueKept
      BY <2>1, FetchKeeps DEF downloadBasketFromServer, Provenance
    <3> QED
      BY <1>5, <3>1, FaithfulQueuesKept
  <2>2. CASE downloadBasketFromCache(t) \/ downloadBasketError(t)
    <3>1. QueueKept
      BY <2>2, NoQueueChange DEF downloadBasketFromCache, downloadBasketError, Provenance
    <3> QED
      BY <1>5, <3>1, FaithfulQueuesKept
  <2> QED
    BY <1>3, <2>1, <2>2
<1>7. ~ calm[t]
  BY <1>1 DEF ReadThings
<1>8. PICK b : /\ main' = [main EXCEPT ![d] = Append(@, b)]
               /\ ReplyOK(b, calm', before', made', tapper', arrived')
  <2>1. \A x : x.kind = "basket" /\ x.tag = t /\ ~ calm'[t] =>
            ReplyOK(x, calm', before', made', tapper', arrived')
    BY DEF ReplyOK, KeepsOK, NoneOK
  <2>2. \A k, doc : Downloaded(t, k, doc).kind = "basket" /\ Downloaded(t, k, doc).tag = t
    BY DEF Downloaded
  <2>3. \A v, docs : Answer(t, v, docs).kind = "basket" /\ Answer(t, v, docs).tag = t
    BY <2>2 DEF Answer
  <2>4. CASE downloadBasketFromServer(t) /\ pending(d) = << >>
    <3>1. ReplyOK(Answer(t, tapper[t], LocalView(d, cache'[d])),
                  calm', before', made', tapper', arrived')
      BY <1>1, <2>4, CalmAnswer
    <3> QED
      BY <2>4, <3>1 DEF downloadBasketFromServer, Deliver
  <2>5. CASE downloadBasketFromServer(t) /\ pending(d) # << >>
    <3>1. ~ calm'[t]
      BY <1>2, <2>5 DEF downloadBasketFromServer
    <3> QED
      BY <2>1, <2>3, <2>5, <3>1 DEF downloadBasketFromServer, Deliver
  <2>6. CASE downloadBasketFromCache(t)
    BY <1>7, <2>1, <2>3, <2>6 DEF downloadBasketFromCache, Deliver
  <2>7. CASE downloadBasketError(t)
    BY <1>7, <2>1, <2>2, <2>7 DEF downloadBasketError, Deliver
  <2> QED
    BY <1>3, <2>4, <2>5, <2>6, <2>7
<1>9. FaithfulBlocks'
  <2>1. \A e \in Devices : main[e] \in Seq(Blocks)
    BY DEF Provenance, TypeOK
  <2>2. \A e \in Devices : main'[e] = IF e = d THEN Append(main[e], b) ELSE main[e]
    BY <1>8 DEF Provenance, TypeOK
  <2>3. ASSUME NEW e \in Devices, NEW i \in DOMAIN main'[e]
        PROVE  \/ \E j \in DOMAIN main[e] : main'[e][i] = main[e][j]
               \/ main'[e][i] = b
    <3>1. CASE e # d
      BY <2>2, <3>1
    <3>2. CASE e = d
      <4>1. main'[e] = Append(main[e], b) /\ main[e] \in Seq(Blocks)
        BY <2>1, <2>2, <3>2
      <4> QED
        BY <4>1
    <3> QED
      BY <3>1, <3>2
  <2> QED
    BY <1>5, <1>8, <2>3, FaithfulBlocksStep
<1>10. FaithfulMakers'
  BY <1>1, <1>5, FaithfulMakersStep
<1>11. ReadThings'
  <2>1. \A k \in Keys : made[k] = None => Lines(server[k]) = {}
    BY DEF Provenance, GoodDocs, GoodDoc, GoodLines, Lines
  <2>2. \A k \in Keys, s \in Taps : made'[k] = None => before'[s][k] = {}
    BY <1>1, <1>2, <1>4, <2>1 DEF ReadThings
  <2>3. \A e \in Devices, k \in Keys : cache'[e][k] = cache[e][k] \/ cache'[e][k] = server[k]
    <3>1. CASE downloadBasketFromServer(t)
      BY <3>1 DEF downloadBasketFromServer, Fetch, Provenance, TypeOK
    <3>2. CASE downloadBasketFromCache(t) \/ downloadBasketError(t)
      BY <3>2 DEF downloadBasketFromCache, downloadBasketError
    <3> QED
      BY <1>3, <3>1, <3>2
  <2>4. \A k \in Keys, e \in Devices : server'[k] = NoDoc => cache'[e][k] = NoDoc
    BY <1>1, <2>3 DEF ReadThings
  <2>5. \A s \in Taps : phase'[s] \in {"idle", "reading"} => ~ calm'[s]
    BY <1>1, <1>2, <1>4 DEF ReadThings
  <2> QED
    BY <2>2, <2>4, <2>5 DEF ReadThings
<1>12. ToldAfterArrival'
  BY <1>1, <1>2, <1>5, ToldStep DEF Provenance, TypeOK
<1> QED
  BY <1>6, <1>9, <1>10, <1>11, <1>12

--------------------------------------------------------------------------------
(* The other steps.                                                        *)

\* A new tap has read nothing.
LEMMA TappedFaithful ==
    ASSUME Provenance, Faith, NEW t \in Taps, NEW d \in Devices,
           addToBasketTapped(t, d) \/ addToBasketRefused(t, d)
    PROVE  Faith'
<1> USE DEF Faith
<1>1. /\ phase[t] = "idle" /\ phase'[t] \in {"reading", "refused"}
      /\ \A s \in Taps : s # t => phase'[s] = phase[s] /\ tapper'[s] = tapper[s]
      /\ UNCHANGED <<server, cache, queue, main, made, home, calm, before, arrived>>
  BY DEF addToBasketTapped, addToBasketRefused, clientVars, historyVars, Provenance, TypeOK
<1>2. Forward
  BY <1>1 DEF Forward, Fresh, Early
<1>3. FaithfulQueues'
  <2>1. QueueKept
    BY <1>1, NoQueueChange DEF Provenance
  <2> QED
    BY <1>2, <2>1, FaithfulQueuesKept
<1>4. FaithfulBlocks'
  BY <1>1, <1>2, FaithfulBlocksStep
<1>5. FaithfulMakers'
  BY <1>1, <1>2, FaithfulMakersStep
<1>6. ReadThings'
  BY <1>1 DEF ReadThings
<1>7. ToldAfterArrival'
  BY <1>1, <1>2, ToldStep DEF Provenance, TypeOK
<1> QED
  BY <1>3, <1>4, <1>5, <1>6, <1>7

\* One write more.
LEMMA FaithfulAppended ==
    ASSUME Provenance, FaithfulQueues, Forward, NEW d \in Devices, NEW w,
           WriteMutations(d, w), SentOK(w, calm', before', server', arrived')
    PROVE  FaithfulQueues'
<1>1. \A e \in Devices, u \in Accounts : queue[e][u] \in Seq(Writes)
  BY DEF Provenance, TypeOK
<1>2. \A e \in Devices, u \in Accounts :
        queue'[e][u] = IF e = d /\ u = user[d] THEN Append(queue[e][u], w) ELSE queue[e][u]
  BY DEF Provenance, TypeOK, WriteMutations
<1>3. ASSUME NEW e \in Devices, NEW u \in Accounts, NEW i \in DOMAIN queue'[e][u]
      PROVE  \/ \E j \in DOMAIN queue[e][u] : Same(queue'[e][u][i], queue[e][u][j])
             \/ SentOK(queue'[e][u][i], calm', before', server', arrived')
  <2>1. \A j \in DOMAIN queue[e][u] : Same(queue[e][u][j], queue[e][u][j])
    BY DEF Same
  <2>2. CASE queue'[e][u] = queue[e][u]
    BY <2>1, <2>2
  <2>3. CASE queue'[e][u] = Append(queue[e][u], w)
    <3>1. \/ i \in DOMAIN queue[e][u] /\ queue'[e][u][i] = queue[e][u][i]
          \/ queue'[e][u][i] = w
      BY <1>1, <2>3
    <3> QED
      BY <2>1, <3>1
  <2> QED
    BY <1>2, <2>2, <2>3
<1> QED
  BY <1>3, FaithfulQueuesStep

LEMMA MainQueueFaithful ==
    ASSUME Provenance, Faith, NEW d \in Devices, MainQueue(d)
    PROVE  Faith'
<1> DEFINE b == Head(main[d])
           t == b.tag
<1> USE DEF Faith
<1>1. /\ main[d] # << >> /\ main' = [main EXCEPT ![d] = Tail(@)]
      /\ UNCHANGED <<server, cache, online, user, device, tapper, calm, before, arrived>>
  BY DEF MainQueue, historyVars
<1>2. /\ phase \in [Taps -> Phases]
      /\ made \in [Keys -> [by : Taps, owner : Users] \cup {None}]
  BY DEF Provenance, TypeOK
<1>3. /\ b \in Blocks /\ t \in Taps
      /\ ReplyOK(b, calm, before, made, tapper, arrived)
  <2>1. 1 \in DOMAIN main[d] /\ main[d][1] = b
    BY <1>1 DEF Provenance, TypeOK
  <2> QED
    BY <2>1, Waiting, FaithParts DEF Provenance
<1>4. ASSUME Forward PROVE FaithfulBlocks'
  <2>1. \A e \in Devices : main[e] \in Seq(Blocks)
    BY DEF Provenance, TypeOK
  <2>2. \A e \in Devices : main'[e] = IF e = d THEN Tail(main[e]) ELSE main[e]
    BY <1>1 DEF Provenance, TypeOK
  <2>3. ASSUME NEW e \in Devices, NEW i \in DOMAIN main'[e]
        PROVE  \E j \in DOMAIN main[e] : main'[e][i] = main[e][j]
    <3>1. CASE e # d
      BY <2>2, <3>1
    <3>2. CASE e = d
      <4>1. main'[e] = Tail(main[e]) /\ main[e] \in Seq(Blocks) /\ main[e] # << >>
        BY <1>1, <2>1, <2>2, <3>2
      <4>2. i + 1 \in DOMAIN main[e] /\ main'[e][i] = main[e][i + 1]
        BY <4>1
      <4> QED
        BY <4>2
    <3> QED
      BY <3>1, <3>2
  <2> QED
    BY <1>4, <2>3, FaithfulBlocksStep
<1>5. CASE createNewBasket(d)
  <2>1. phase[t] = "answered"
    BY <1>1, <1>5, HeadAnswer DEF createNewBasket
  <2>2. PICK k \in Keys :
          /\ made[k] = None
          /\ made' = [made EXCEPT ![k] = [by |-> t, owner |-> user[d]]]
          /\ saveBasketToFirestore(d, k, [owner |-> user[d], lines |-> <<t>>])
          /\ phase' = [phase EXCEPT ![t] = "added"]
    BY <1>5 DEF createNewBasket
  <2>3. Forward
    BY <1>1, <1>2, <1>3, <2>2 DEF Forward, Early
  <2>4. NoneOK(t, calm', before', made', tapper')
    <3>1. NoneOK(t, calm, before, made, tapper)
      BY <1>3, <1>5 DEF createNewBasket, ReplyOK
    <3> QED
      BY <1>3, <2>1, <2>3, <3>1, NoneKept DEF Fresh
  <2>5. made'[k].by = t /\ phase'[t] = "added" /\ \A j \in Keys : j # k => made'[j] = made[j]
    BY <1>2, <1>3, <2>2
  <2>6. FaithfulMakers'
    BY <2>3, <2>4, <2>5, FaithfulMakersStep DEF Early
  <2> DEFINE w == SetData(k, [owner |-> user[d], lines |-> <<t>>], None)
  <2>7. SentOK(w, calm', before', server', arrived')
    <3>1. before'[t][k] = {}
      BY <1>1, <1>3, <2>2 DEF ReadThings
    <3>2. Writer(w) = t /\ w.key = k /\ w.tag = None /\ w.fate = "pending"
      BY DEF SetData, Writer
    <3> HIDE DEF w
    <3> QED
      BY <3>1, <3>2 DEF SentOK, KeepsOK, Accepted
  <2>8. FaithfulQueues'
    BY <2>2, <2>3, <2>7, FaithfulAppended DEF saveBasketToFirestore
  <2>9. ReadThings'
    BY <1>1, <1>2, <1>3, <2>2, <2>5 DEF ReadThings
  <2>10. made'[k] # None
    <3>1. made'[k] = [by |-> t, owner |-> user[d]] /\ user[d] \in Users
      BY <1>2, <1>5, <2>2 DEF createNewBasket, Provenance, TypeOK, Accounts
    <3>2. made'[k] \in [by : Taps, owner : Users]
      BY <1>3, <3>1
    <3> QED
      BY <3>2, BasketAssumption
  <2>11. ToldAfterArrival'
    <3>1. \A s \in Taps : s # t => phase'[s] = phase[s]
      BY <1>2, <2>2
    <3> QED
      BY <1>2, <2>3, <2>5, <2>10, <3>1, ToldStep
  <2> QED
    BY <1>4, <2>3, <2>6, <2>8, <2>9, <2>11
<1>6. CASE updateBasket(d)
  <2>1. phase[t] = "answered"
    BY <1>1, <1>6, HeadAnswer DEF updateBasket
  <2>2. /\ b.kind = "basket" /\ b.key # NoDoc
        /\ phase' = [phase EXCEPT ![t] = "writing"]
        /\ made' = made
        /\ updateBasketInFirestore(d, b.key, Append(b.basket.lines, t), t)
    BY <1>6 DEF updateBasket
  <2>3. b.key \in Keys /\ b.basket.lines \in Seq(Taps)
    BY <1>3, <2>2 DEF Blocks, BasketDocs
  <2>4. Forward
    BY <1>1, <1>2, <1>3, <2>2 DEF Forward, Early
  <2>5. FaithfulMakers'
    BY <2>2, <2>4, FaithfulMakersStep
  <2> DEFINE ls == b.basket.lines
             w == UpdateData(b.key, [lines |-> Append(ls, t)], t)
  <2>6. SentOK(w, calm', before', server', arrived')
    <3>1. KeepsOK(t, b.key, ls, calm', before')
      BY <1>1, <1>3, <2>2 DEF ReplyOK, KeepsOK
    <3>2. /\ w.key = b.key /\ w.tag = t /\ w.fate = "pending" /\ w.op = "update"
          /\ w.fields.lines = Append(ls, t)
      BY DEF UpdateData
    <3>3. /\ \A i \in DOMAIN ls : i \in DOMAIN Append(ls, t) /\ Append(ls, t)[i] = ls[i]
          /\ Append(ls, t)[Len(Append(ls, t))] = t
      <4>1. \A q \in Seq(Taps), s \in Taps :
              /\ \A i \in DOMAIN q : i \in DOMAIN Append(q, s) /\ Append(q, s)[i] = q[i]
              /\ Append(q, s)[Len(Append(q, s))] = s
        OBVIOUS
      <4> QED
        BY <1>3, <2>3, <4>1
    <3> HIDE DEF w, ls
    <3>4. Writer(w) = t
      BY <3>2, <3>3 DEF Writer
    <3>5. KeepsOK(t, b.key, Append(ls, t), calm', before')
      BY <3>1, <3>3 DEF KeepsOK
    <3> QED
      BY <3>2, <3>4, <3>5 DEF SentOK, Accepted
  <2>7. FaithfulQueues'
    BY <2>2, <2>4, <2>6, FaithfulAppended DEF updateBasketInFirestore
  <2>8. ReadThings'
    BY <1>1, <1>2, <1>3, <2>2 DEF ReadThings
  <2>9. ToldAfterArrival'
    BY <1>2, <1>3, <2>2, <2>4, ToldStep
  <2> QED
    BY <1>4, <2>4, <2>5, <2>7, <2>8, <2>9
<1>7. CASE updateBasketShown(d)
  <2>1. /\ b.kind = "written" /\ UNCHANGED <<queue, made, home>>
        /\ phase' = [phase EXCEPT ![t] = IF b.ok THEN "added" ELSE "failed"]
    BY <1>7 DEF updateBasketShown
  <2>2. b.ok => t \in arrived
    BY <1>3, <2>1 DEF ReplyOK
  <2>3. Forward
    BY <1>1, <1>2, <1>3, <2>1 DEF Forward, Early
  <2>4. FaithfulMakers'
    BY <2>1, <2>3, FaithfulMakersStep
  <2>5. FaithfulQueues'
    <3>1. QueueKept
      BY <2>1, NoQueueChange DEF Provenance
    <3> QED
      BY <2>3, <3>1, FaithfulQueuesKept
  <2>6. \A s \in Taps : s # t => phase'[s] = phase[s]
    BY <1>2, <2>1
  <2>7. phase'[t] = IF b.ok THEN "added" ELSE "failed"
    BY <1>2, <1>3, <2>1
  <2>8. ReadThings'
    BY <1>1, <2>1, <2>6, <2>7 DEF ReadThings
  <2>9. ToldAfterArrival'
    BY <1>1, <1>2, <2>2, <2>3, <2>6, <2>7, ToldStep
  <2> QED
    BY <1>4, <2>3, <2>4, <2>5, <2>8, <2>9
<1> QED
  BY <1>5, <1>6, <1>7 DEF MainQueue

\* The process ends: completion blocks are lost, nothing else.
LEMMA TerminateFaithful ==
    ASSUME Provenance, Faith, NEW d \in Devices, Terminate(d)
    PROVE  Faith'
<1> USE DEF Faith
<1>1. /\ RestartClient(d) /\ main' = [main EXCEPT ![d] = << >>]
      /\ UNCHANGED <<server, cache, tapper, made, calm, before, arrived>>
      /\ \A t \in Taps : phase'[t] \in {"added", "idle", "reading"} => phase[t] = phase'[t]
      /\ \A t \in Taps : phase[t] \notin Early => phase'[t] \notin Early
  BY DEF Terminate, RestartClient, RestartFrom, historyVars, Early
<1>2. Forward
  BY <1>1 DEF Forward, Early
<1>3. FaithfulQueues'
  <2>1. QueueKept
    BY <1>1, RestartKeeps DEF Provenance
  <2> QED
    BY <1>2, <2>1, FaithfulQueuesKept
<1>4. FaithfulBlocks'
  <2>1. \A e \in Devices : \A i \in DOMAIN main'[e] :
          i \in DOMAIN main[e] /\ main'[e][i] = main[e][i]
    BY <1>1 DEF Provenance, TypeOK
  <2> QED
    BY <1>2, <2>1, FaithfulBlocksStep
<1>5. FaithfulMakers'
  BY <1>1, <1>2, FaithfulMakersStep
<1>6. ReadThings'
  BY <1>1 DEF ReadThings
<1>7. ToldAfterArrival'
  BY <1>1, <1>2, ToldStep DEF Provenance, TypeOK
<1> QED
  BY <1>3, <1>4, <1>5, <1>6, <1>7

\* A write that is applied makes a document with its lines.
LEMMA AppliedLines ==
    ASSUME NEW w \in Writes, NEW doc \in DocsOrNone, w.op = "update" => doc # NoDoc
    PROVE  /\ Applied(w, doc) # NoDoc
           /\ Applied(w, doc).lines = w.fields.lines
<1>1. CASE w.op = "set"
  <2>1. Applied(w, doc) = w.fields /\ w.fields \in BasketDocs
    BY <1>1 DEF Writes, Applied
  <2> QED
    BY <2>1, BasketAssumption DEF BasketDocs
<1>2. CASE w.op # "set"
  <2>1. doc \in BasketDocs /\ w.fields \in [lines : Seq(Taps)]
    BY <1>2 DEF Writes, DocsOrNone
  <2>2. Applied(w, doc) = [owner |-> doc.owner, lines |-> w.fields.lines]
    BY <1>2, <2>1 DEF Applied, Writes, BasketDocs
  <2>3. Applied(w, doc) \in BasketDocs
    BY <2>1, <2>2 DEF BasketDocs
  <2> QED
    BY <2>2, <2>3, BasketAssumption DEF BasketDocs
<1> QED
  BY <1>1, <1>2

\* What committing a write does to the server.
LEMMA Committed ==
    ASSUME Provenance, NEW d \in Devices, NEW i \in DOMAIN pending(d), CommitWrite(d, i)
    PROVE  LET w == pending(d)[i] IN
           /\ w \in Writes /\ w.key \in Keys
           /\ SentOK(w, calm, before, server, arrived) \/ ~ FaithfulQueues
           /\ WriteOK(w, made, home, tapper, phase)
           /\ server'[w.key] # NoDoc /\ server'[w.key].lines = w.fields.lines
           /\ \A k \in Keys : k # w.key => server'[k] = server[k]
<1> DEFINE w == pending(d)[i]
<1>1. /\ w \in Writes /\ WriteOK(w, made, home, tapper, phase)
      /\ FaithfulQueues => SentOK(w, calm, before, server, arrived)
  BY ProvenanceParts, FaithParts DEF pending, Provenance, TypeOK
<1>2. w.key \in Keys
  <2> HIDE DEF w
  <2> QED
    BY <1>1 DEF Writes
<1>3. /\ w.op = "update" => server[w.key] # NoDoc
      /\ server' = [server EXCEPT ![w.key] = Applied(w, server[w.key])]
  BY DEF CommitWrite
<1>4. server \in [Keys -> DocsOrNone]
  BY DEF Provenance, TypeOK, DocsOrNone
<1> HIDE DEF w
<1>5. server'[w.key] = Applied(w, server[w.key]) /\ server[w.key] \in DocsOrNone
  BY <1>2, <1>3, <1>4
<1>6. server'[w.key] # NoDoc /\ server'[w.key].lines = w.fields.lines
  BY <1>1, <1>3, <1>5, AppliedLines
<1>7. \A k \in Keys : k # w.key => server'[k] = server[k]
  BY <1>3, <1>4
<1> QED
  BY <1>1, <1>2, <1>6, <1>7 DEF w

LEMMA ServerDecidesFaithful ==
    ASSUME Provenance, Faith, NEW d \in Devices, ServerDecides(d)
    PROVE  Faith'
<1> USE DEF Faith
<1>1. /\ UNCHANGED <<cache, main, phase, tapper, made, calm, before>>
      /\ \/ /\ \E i \in DOMAIN pending(d) : RefuseWrite(d, i)
            /\ UNCHANGED <<server, arrived>>
         \/ \E i \in DOMAIN pending(d) :
                /\ CommitWrite(d, i)
                /\ arrived' = arrived \cup Lines(server'[pending(d)[i].key])
  BY DEF ServerDecides, tapVars, historyVars, CommitWrite, RefuseWrite
<1>2. Forward /\ FaithfulQueues'
  <2>1. CASE \E i \in DOMAIN pending(d) : RefuseWrite(d, i) /\ UNCHANGED <<server, arrived>>
    <3>1. QueueKept
      BY <2>1, RefuseKeeps DEF RefuseWrite, Fates, Accepted, Provenance
    <3>2. Forward
      BY <1>1, <2>1 DEF Forward
    <3> QED
      BY <3>1, <3>2, FaithfulQueuesKept
  <2>2. ASSUME NEW i \in DOMAIN pending(d), CommitWrite(d, i),
               arrived' = arrived \cup Lines(server'[pending(d)[i].key])
        PROVE  Forward /\ FaithfulQueues'
    <3> DEFINE w == pending(d)[i]
    <3>1. /\ w \in Writes /\ w.key \in Keys
          /\ SentOK(w, calm, before, server, arrived)
          /\ WriteOK(w, made, home, tapper, phase)
          /\ server'[w.key] # NoDoc /\ server'[w.key].lines = w.fields.lines
          /\ \A k \in Keys : k # w.key => server'[k] = server[k]
          /\ arrived' = arrived \cup Lines(server'[w.key])
      BY <2>2, Committed
    <3>2. Decide(d, i, "committed")
      BY <2>2 DEF CommitWrite
    <3>3. \A e \in Devices, u \in Accounts : \A n \in DOMAIN queue'[e][u] :
            \/ \E j \in DOMAIN queue[e][u] : Same(queue'[e][u][n], queue[e][u][j])
            \/ queue'[e][u][n] = [w EXCEPT !.fate = "committed"]
      BY <3>2, CommitQueue DEF Provenance
    <3> HIDE DEF w
    <3>4. Forward
      BY <1>1, <3>1 DEF Forward
    <3>5. w.tag # None => w.tag \in arrived'
      <4>1. \E n \in DOMAIN w.fields.lines : w.fields.lines[n] = Writer(w)
        BY <3>1, WriterPast DEF Provenance
      <4>2. Writer(w) \in Lines(server'[w.key])
        BY <3>1, <4>1 DEF Lines
      <4> QED
        BY <3>1, <4>2 DEF SentOK
    <3> DEFINE v == [w EXCEPT !.fate = "committed"]
    <3>6. /\ v.op = w.op /\ v.key = w.key /\ v.fields = w.fields /\ v.tag = w.tag
      BY <3>1 DEF Writes
    <3> HIDE DEF v
    <3>7. SentOK(v, calm', before', server', arrived')
      BY <1>1, <3>1, <3>5, <3>6 DEF SentOK, KeepsOK, Writer
    <3>8. FaithfulQueues'
      BY <3>3, <3>4, <3>7, FaithfulQueuesStep DEF v
    <3> QED
      BY <3>4, <3>8
  <2> QED
    BY <1>1, <2>1, <2>2
<1>3. FaithfulBlocks'
  BY <1>1, <1>2, FaithfulBlocksStep
<1>4. FaithfulMakers'
  BY <1>1, <1>2, FaithfulMakersStep
<1>5. ReadThings'
  BY <1>1, <1>2 DEF ReadThings, Forward
<1>6. ToldAfterArrival'
  BY <1>1, <1>2, ToldStep DEF Provenance, TypeOK
<1> QED
  BY <1>2, <1>3, <1>4, <1>5, <1>6

LEMMA ClientLearnsFaithful ==
    ASSUME Provenance, Faith, NEW d \in Devices, ClientLearns(d)
    PROVE  Faith'
<1> DEFINE w == Head(pending(d))
<1> USE DEF Faith
<1>1. /\ Acknowledge(d)
      /\ UNCHANGED <<made, tapper, phase, server, calm, before, arrived>>
  BY DEF ClientLearns, Acknowledge, tapVars, historyVars
<1>2. Forward
  BY <1>1 DEF Forward
<1>3. w \in Writes /\ SentOK(w, calm, before, server, arrived)
  <2>1. pending(d) \in Seq(Writes) /\ pending(d) # << >>
    BY <1>1 DEF Provenance, TypeOK, pending, Acknowledge
  <2>2. 1 \in DOMAIN pending(d) /\ w = pending(d)[1]
    BY <2>1
  <2>3. \A i \in DOMAIN pending(d) : SentOK(pending(d)[i], calm, before, server, arrived)
    BY FaithParts DEF pending, Provenance, TypeOK
  <2> HIDE DEF w
  <2> QED
    BY <2>1, <2>2, <2>3
<1>4. /\ cache' = IF w.fate = "committed"
                  THEN [cache EXCEPT ![d][w.key] = Applied(w, cache[d][w.key])] ELSE cache
      /\ main' = IF w.tag = None THEN main
                 ELSE [main EXCEPT ![d] = Append(@, Written(w))]
  BY <1>1 DEF Acknowledge
<1>5. FaithfulQueues'
  <2>1. QueueKept
    BY <1>1, AcknowledgeKeeps DEF Provenance
  <2> QED
    BY <1>2, <2>1, FaithfulQueuesKept
<1> HIDE DEF w
<1>6. FaithfulBlocks'
  <2>1. CASE w.tag = None
    BY <1>2, <1>4, <2>1, FaithfulBlocksStep
  <2>2. CASE w.tag # None
    <3> DEFINE b == Written(w)
    <3>1. ReplyOK(b, calm', before', made', tapper', arrived')
      BY <1>1, <1>3, <2>2 DEF Written, ReplyOK, SentOK
    <3> HIDE DEF b
    <3>2. \A e \in Devices : main[e] \in Seq(Blocks)
      BY DEF Provenance, TypeOK
    <3>3. \A e \in Devices : main'[e] = IF e = d THEN Append(main[e], b) ELSE main[e]
      BY <1>4, <2>2 DEF Provenance, TypeOK, b
    <3>4. ASSUME NEW e \in Devices, NEW i \in DOMAIN main'[e]
          PROVE  \/ \E j \in DOMAIN main[e] : main'[e][i] = main[e][j]
                 \/ main'[e][i] = b
      <4>1. CASE e # d
        BY <3>3, <4>1
      <4>2. CASE e = d
        <5>1. main'[e] = Append(main[e], b) /\ main[e] \in Seq(Blocks)
          BY <3>2, <3>3, <4>2
        <5> QED
          BY <5>1
      <4> QED
        BY <4>1, <4>2
    <3> QED
      BY <1>2, <3>1, <3>4, FaithfulBlocksStep
  <2> QED
    BY <2>1, <2>2
<1>7. FaithfulMakers'
  BY <1>1, <1>2, FaithfulMakersStep
<1>8. ReadThings'
  <2>1. ASSUME NEW k \in Keys, NEW e \in Devices, server[k] = NoDoc
        PROVE  cache'[e][k] = cache[e][k]
    <3>1. cache \in [Devices -> [Keys -> DocsOrNone]] /\ w.key \in Keys
      BY <1>3 DEF Provenance, TypeOK, DocsOrNone, Writes
    <3>2. CASE w.fate = "committed"
      <4>1. k # w.key
        BY <1>3, <2>1, <3>2 DEF SentOK, Accepted
      <4>2. cache' = [cache EXCEPT ![d][w.key] = Applied(w, cache[d][w.key])]
        BY <1>4, <3>2
      <4> QED
        BY <3>1, <4>1, <4>2
    <3>3. CASE w.fate # "committed"
      BY <1>4, <3>3
    <3> QED
      BY <3>2, <3>3
  <2> QED
    BY <1>1, <2>1 DEF ReadThings
<1>9. ToldAfterArrival'
  BY <1>1, <1>2, ToldStep DEF Provenance, TypeOK
<1> QED
  BY <1>5, <1>6, <1>7, <1>8, <1>9

\* The network comes and goes, accounts sign in and out, or nothing happens.
LEMMA OthersFaithful ==
    ASSUME Provenance, Faith, QueueKept,
           UNCHANGED <<server, cache, main, tapVars>>
    PROVE  Faith'
<1> USE DEF Faith
<1>1. UNCHANGED <<phase, tapper, made, calm, before, arrived>>
  BY DEF tapVars, historyVars
<1>2. Forward
  BY <1>1 DEF Forward, Early
<1>3. FaithfulQueues'
  BY <1>2, FaithfulQueuesKept
<1>4. FaithfulBlocks'
  BY <1>2, FaithfulBlocksStep
<1>5. FaithfulMakers'
  BY <1>1, <1>2, FaithfulMakersStep
<1>6. ReadThings'
  BY <1>1 DEF ReadThings
<1>7. ToldAfterArrival'
  BY <1>1, <1>2, ToldStep DEF Provenance, TypeOK
<1> QED
  BY <1>3, <1>4, <1>5, <1>6, <1>7

--------------------------------------------------------------------------------
(* The invariant, and what follows from it.                                *)

FaithInv == ProvenanceInv /\ Faith

LEMMA FaithInit == Init => FaithInv
<1> SUFFICES ASSUME Init PROVE FaithInv
  OBVIOUS
<1>1. ProvenanceInv
  BY ProvenanceInit
<1>2. FaithfulQueues /\ FaithfulBlocks
  BY DEF Init, ClientInit, FaithfulQueues, FaithfulBlocks
<1>3. FaithfulMakers /\ ReadThings /\ ToldAfterArrival
  BY DEF Init, ClientInit, FaithfulMakers, ReadThings, ToldAfterArrival
<1> QED
  BY <1>1, <1>2, <1>3 DEF FaithInv, Faith

LEMMA FaithStep == FaithInv /\ [Next]_vars => FaithInv'
<1> SUFFICES ASSUME FaithInv, [Next]_vars PROVE FaithInv'
  OBVIOUS
<1>1. Provenance /\ Faith /\ ReadersHaveDevices /\ ProvenanceInv
  BY DEF FaithInv, ProvenanceInv, TypeInv
<1>2. ProvenanceInv' /\ TypeOK'
  BY <1>1, ProvenanceStep, TypeStep DEF ProvenanceInv, TypeInv
<1>3. ASSUME NEW t \in Taps, downloadBasketFromFirestore(t)
      PROVE  Faith'
  BY <1>1, <1>2, <1>3, DownloadFaithful DEF ReadersHaveDevices, downloadBasketFromFirestore
<1>4. ASSUME NEW t \in Taps, NEW d \in Devices,
             addToBasketTapped(t, d) \/ addToBasketRefused(t, d)
      PROVE  Faith'
  BY <1>1, <1>4, TappedFaithful
<1>5. ASSUME NEW d \in Devices, MainQueue(d)
      PROVE  Faith'
  BY <1>1, <1>5, MainQueueFaithful
<1>6. ASSUME NEW d \in Devices, Terminate(d) \/ createNewBasketTraps(d)
      PROVE  Faith'
  BY <1>1, <1>6, TerminateFaithful DEF createNewBasketTraps
<1>7. ASSUME NEW d \in Devices, ServerDecides(d)
      PROVE  Faith'
  BY <1>1, <1>7, ServerDecidesFaithful
<1>8. ASSUME NEW d \in Devices, ClientLearns(d)
      PROVE  Faith'
  BY <1>1, <1>8, ClientLearnsFaithful
<1>9. ASSUME NEW d \in Devices, NetworkLost(d) \/ NetworkBack(d) \/ SignInOrOut(d)
      PROVE  Faith'
  <2>1. UNCHANGED <<server, cache, main, tapVars>>
    BY <1>9 DEF NetworkLost, NetworkBack, SignInOrOut, GoOffline, GoOnline, CredentialChange
  <2>2. StreamBreaks(d)
    BY <1>9 DEF NetworkLost, NetworkBack, SignInOrOut, GoOffline, GoOnline, CredentialChange,
                StreamBreaks
  <2>3. QueueKept
    BY <1>1, <2>2, StreamBreaksKeeps DEF Provenance
  <2> QED
    BY <1>1, <2>1, <2>3, OthersFaithful
<1>10. ASSUME UNCHANGED vars
       PROVE  Faith'
  <2>1. UNCHANGED <<server, cache, main, queue, tapVars>>
    BY <1>10 DEF vars, clientVars
  <2>2. QueueKept
    BY <1>1, <2>1, NoQueueChange DEF Provenance
  <2> QED
    BY <1>1, <2>1, <2>2, OthersFaithful
<1>11. Faith'
  BY <1>3, <1>4, <1>5, <1>6, <1>7, <1>8, <1>9, <1>10 DEF Next
<1> QED
  BY <1>2, <1>11 DEF FaithInv

\* "Added to basket!" after an update is true (updateBasket shows it in the block of
\* the write, which the client runs when the server has answered).
THEOREM ToldWhenThere == Spec => []ToldAfterArrival
<1>1. FaithInv => ToldAfterArrival
  BY DEF FaithInv, Faith
<1> QED
  BY <1>1, FaithInit, FaithStep, PTL DEF Spec

\* A second basket of an account is made only by a tap whose read overlapped the first:
\* a tap that was told by the server that there is none makes the only one.
THEOREM SecondBasketByOverlap == Spec => []SecondBasketOnlyByOverlap
<1>1. FaithInv => SecondBasketOnlyByOverlap
  <2> SUFFICES ASSUME Provenance, Faith, NEW j \in Keys, NEW k \in Keys,
                      server[j] # NoDoc, server[k] # NoDoc, calm[made[k].by],
                      server[j].owner = tapper[made[k].by]
               PROVE  before[made[k].by][j] = {}
    BY DEF FaithInv, ProvenanceInv, SecondBasketOnlyByOverlap
  <2>1. made[k] # None /\ server[j].owner = made[j].owner
    BY DEF Provenance, GoodDocs, GoodDoc, GoodLines
  <2>2. NoneOK(made[k].by, calm, before, made, tapper)
    BY <2>1, FaithParts DEF Faith
  <2> QED
    BY <2>1, <2>2 DEF NoneOK
<1> QED
  BY <1>1, FaithInit, FaithStep, PTL DEF Spec

\* The server drops a line only for a write whose list was made from a read that did not
\* see it, or not from the server's own word (updateBasketInFirestore sends whole lists).
THEOREM LinesLostByOverlap == Spec => LostOnlyByOverlap
<1> DEFINE Excused(k, t) ==
               \E d \in Devices : \E i \in DOMAIN pending(d) :
                   LET w == pending(d)[i] IN
                   /\ w.key = k
                   /\ NextAtServer(d, i)
                   /\ calm[Writer(w)] => t \notin before[Writer(w)][k]
<1>1. ASSUME FaithInv, Next, NEW k \in Keys, NEW t \in Lines(server[k]) \ Lines(server'[k])
      PROVE  Excused(k, t)
  <2>1. Provenance /\ Faith
    BY <1>1 DEF FaithInv, ProvenanceInv
  <2>2. server' # server
    BY <1>1
  <2>3. PICK d \in Devices : ServerDecides(d)
    BY <1>1, <2>2 DEF Next, downloadBasketFromFirestore, Read, addToBasketTapped,
          addToBasketRefused, clientVars, MainQueue, createNewBasketTraps, Terminate,
          RestartClient, RestartFrom, ClientLearns, Acknowledge, NetworkLost, GoOffline,
          NetworkBack, GoOnline, SignInOrOut, CredentialChange
  <2>4. PICK i \in DOMAIN pending(d) : CommitWrite(d, i)
    BY <2>2, <2>3 DEF ServerDecides, RefuseWrite
  <2> DEFINE w == pending(d)[i]
  <2>5. /\ w \in Writes /\ w.key \in Keys
        /\ SentOK(w, calm, before, server, arrived)
        /\ server'[w.key] # NoDoc /\ server'[w.key].lines = w.fields.lines
        /\ \A l \in Keys : l # w.key => server'[l] = server[l]
    BY <2>1, <2>4, Committed DEF Faith
  <2>6. NextAtServer(d, i)
    BY <2>4 DEF CommitWrite
  <2> HIDE DEF w
  <2>7. w.key = k
    BY <1>1, <2>5
  <2>8. Lines(server'[k]) = {w.fields.lines[n] : n \in DOMAIN w.fields.lines}
    BY <2>5, <2>7 DEF Lines
  <2>9. calm[Writer(w)] => t \notin before[Writer(w)][k]
    BY <1>1, <2>5, <2>7, <2>8 DEF SentOK, KeepsOK
  <2> QED
    BY <2>6, <2>7, <2>9 DEF w
<1>2. FaithInv /\ [Next]_vars =>
        [\A k \in Keys : \A t \in Lines(server[k]) \ Lines(server'[k]) : Excused(k, t)]_vars
  <2> HIDE DEF Excused
  <2> QED
    BY <1>1
<1> QED
  BY <1>2, FaithInit, FaithStep, PTL DEF Spec, LostOnlyByOverlap

--------------------------------------------------------------------------------
(***************************************************************************)
(* Taps that do not overlap: SerialBasket implements Cart.  Between the    *)
(* steps of a tap that is alone, every answer is what the server has, and  *)
(* every write is the next line of the account's one basket, or is already *)
(* there (Serial).                                                         *)
(***************************************************************************)

(* Steps that leave the server and the accounts of the taps alone.         *)

LEMMA SerialKept ==
    ASSUME Provenance, TypeOK', Serial, QueueKept, UNCHANGED <<server, made, tapper>>,
           \A t \in Taps :
               /\ Busy(t)' => Busy(t)
               /\ Asking(t)' => Asking(t) /\ user'[device'[t]] = user[device[t]]
               /\ phase'[t] = "idle" => phase[t] = "idle",
           \A d \in Devices : \A i \in DOMAIN main'[d] :
               \/ \E j \in DOMAIN main[d] : main'[d][i] = main[d][j]
               \/ UpToDate(main'[d][i], server', tapper')
    PROVE  Serial'
<1> USE DEF Serial
<1>1. \A d \in Devices, u \in Accounts :
        queue'[d][u] \in Seq(Writes) /\ queue[d][u] \in Seq(Writes)
  BY DEF TypeOK, Provenance
<1>2. Alone'
  BY DEF Alone
<1>3. AskingQuietly'
  <2> SUFFICES ASSUME NEW t \in Taps, Asking(t)'
               PROVE  /\ user'[device'[t]] = tapper'[t]
                      /\ \A d \in Devices, u \in Accounts : queue'[d][u] = << >>
    BY DEF AskingQuietly
  <2>1. Asking(t) /\ user'[device'[t]] = tapper'[t]
    BY DEF AskingQuietly
  <2>2. \A d \in Devices, u \in Accounts : queue[d][u] = << >>
    BY <2>1 DEF AskingQuietly
  <2>3. \A d \in Devices, u \in Accounts : DOMAIN queue'[d][u] = {}
    BY <2>2 DEF QueueKept
  <2>4. \A s \in Seq(Writes) : DOMAIN s = {} => s = << >>
    OBVIOUS
  <2>5. \A d \in Devices, u \in Accounts : queue'[d][u] = << >>
    BY <1>1, <2>3, <2>4
  <2> QED
    BY <2>1, <2>5
<1>4. OneWrite'
  BY DEF OneWrite, QueueKept
<1>5. AtomicWrites'
  <2> SUFFICES ASSUME NEW d \in Devices, NEW u \in Accounts, NEW i \in DOMAIN queue'[d][u]
               PROVE  /\ tapper'[Writer(queue'[d][u][i])] = made'[queue'[d][u][i].key].owner
                      /\ \/ Applies(queue'[d][u][i], server')
                         \/ NextLine(queue'[d][u][i], server', made'[queue'[d][u][i].key].owner)
    BY DEF AtomicWrites, Writer
  <2>1. PICK j \in DOMAIN queue[d][u] : Same(queue'[d][u][i], queue[d][u][j])
    BY DEF QueueKept
  <2>2. /\ tapper[Writer(queue[d][u][j])] = made[queue[d][u][j].key].owner
        /\ \/ Applies(queue[d][u][j], server)
           \/ NextLine(queue[d][u][j], server, made[queue[d][u][j].key].owner)
    BY DEF AtomicWrites
  <2> QED
    BY <2>1, <2>2 DEF Same, Writer, Applies, NextLine
<1>6. AnswersUpToDate'
  <2> SUFFICES ASSUME NEW d \in Devices, NEW i \in DOMAIN main'[d]
               PROVE  UpToDate(main'[d][i], server', tapper')
    BY DEF AnswersUpToDate, UpToDate
  <2>1. CASE \E j \in DOMAIN main[d] : main'[d][i] = main[d][j]
    BY <2>1 DEF AnswersUpToDate
  <2> QED
    BY <2>1
<1>7. OneBasketEach'
  BY DEF OneBasketEach
<1>8. Unasked'
  BY DEF Unasked
<1> QED
  BY <1>2, <1>3, <1>4, <1>5, <1>6, <1>7, <1>8

--------------------------------------------------------------------------------
(* The steps of a tap.                                                     *)

LEMMA CalmUpToDate ==
    ASSUME Provenance, ReadThings, NEW t \in Taps, device[t] \in Devices,
           downloadBasketFromServer(t), pending(device[t]) = << >>, TypeOK'
    PROVE  UpToDate(Answer(t, tapper[t], LocalView(device[t], cache'[device[t]])),
                    server, tapper)
<1> DEFINE docs == LocalView(device[t], cache'[device[t]])
           answer == Answer(t, tapper[t], docs)
<1>1. /\ docs \in [Keys -> DocsOrNone]
      /\ BasketsOf(tapper[t], docs) = BasketsOf(tapper[t], server)
      /\ \A k \in BasketsOf(tapper[t], docs) : docs[k] = server[k]
  BY CalmView
<1> HIDE DEF docs
<1>2. CASE answer = Downloaded(t, NoDoc, NoDoc) /\ BasketsOf(tapper[t], docs) = {}
  <2> HIDE DEF answer
  <2>1. answer.key = NoDoc /\ answer.tag = t
    BY <1>2 DEF Downloaded
  <2> QED
    BY <1>1, <1>2, <2>1 DEF UpToDate, answer, docs
<1>3. CASE \E k \in BasketsOf(tapper[t], docs) : answer = Downloaded(t, k, docs[k])
  <2>1. PICK k \in BasketsOf(tapper[t], docs) : answer = Downloaded(t, k, docs[k])
    BY <1>3
  <2> HIDE DEF answer
  <2>2. /\ answer.key = k /\ answer.basket = server[k] /\ k # NoDoc
        /\ server[k] # NoDoc
    BY <1>1, <2>1, BasketAssumption DEF Downloaded, BasketsOf
  <2> QED
    BY <2>2 DEF UpToDate, answer, docs
<1> QED
  BY <1>1, <1>2, <1>3, AnswerIs DEF answer, docs

LEMMA DownloadSerial ==
    ASSUME Provenance, ReadThings, Serial, NEW t \in Taps, device[t] \in Devices,
           downloadBasketFromFirestore(t), OneAtATime, TypeOK'
    PROVE  Serial'
<1> DEFINE d == device[t]
           answer == Answer(t, tapper[t], LocalView(d, cache'[d]))
<1>1. /\ phase[t] = "reading" /\ Read(t) /\ phase' = [phase EXCEPT ![t] = "answered"]
      /\ UNCHANGED <<server, online, user, device, tapper, made, home>>
  BY DEF downloadBasketFromFirestore, Read
<1>2. phase \in [Taps -> Phases] /\ calm \in [Taps -> BOOLEAN] /\ main \in [Devices -> Seq(Blocks)]
  BY DEF Provenance, TypeOK
<1>3. calm'[t] /\ ~ calm[t]
  BY <1>1, <1>2 DEF OneAtATime, ReadThings
<1>4. downloadBasketFromServer(t) /\ pending(d) = << >>
  <2>1. \/ downloadBasketFromServer(t)
        \/ UNCHANGED calm
    BY <1>1 DEF Read, downloadBasketFromCache, downloadBasketError
  <2> QED
    BY <1>2, <1>3, <2>1 DEF downloadBasketFromServer
<1>5. QueueKept
  BY <1>4, FetchKeeps DEF downloadBasketFromServer, Provenance
<1>6. UpToDate(answer, server', tapper')
  BY <1>1, <1>4, CalmUpToDate
<1>7. main' = [main EXCEPT ![d] = Append(@, answer)]
  BY <1>4 DEF downloadBasketFromServer, Deliver
<1> HIDE DEF answer
<1>8. \A e \in Devices : \A i \in DOMAIN main'[e] :
        \/ \E j \in DOMAIN main[e] : main'[e][i] = main[e][j]
        \/ main'[e][i] = answer
  <2> SUFFICES ASSUME NEW e \in Devices, NEW i \in DOMAIN main'[e]
               PROVE  \/ \E j \in DOMAIN main[e] : main'[e][i] = main[e][j]
                      \/ main'[e][i] = answer
    OBVIOUS
  <2>1. main[e] \in Seq(Blocks) /\ main'[e] = IF e = d THEN Append(main[e], answer) ELSE main[e]
    BY <1>2, <1>7
  <2>2. CASE main'[e] = Append(main[e], answer)
    BY <2>1, <2>2
  <2> QED
    BY <2>1, <2>2
<1>9. \A s \in Taps : /\ Busy(s)' => Busy(s)
                      /\ Asking(s)' => Asking(s) /\ user'[device'[s]] = user[device[s]]
                      /\ phase'[s] = "idle" => phase[s] = "idle"
  BY <1>1, <1>2 DEF Busy, Asking
<1> QED
  BY <1>1, <1>5, <1>6, <1>8, <1>9, SerialKept

LEMMA TappedSerial ==
    ASSUME Provenance, Serial, NEW t \in Taps, NEW d \in Devices,
           addToBasketTapped(t, d), OneAtATime
    PROVE  Serial'
<1> USE DEF Serial
<1>1. /\ phase[t] = "idle" /\ phase' = [phase EXCEPT ![t] = "reading"]
      /\ device' = [device EXCEPT ![t] = d] /\ tapper' = [tapper EXCEPT ![t] = user[d]]
      /\ UNCHANGED <<server, queue, user, main, made>>
  BY DEF addToBasketTapped, clientVars
<1>2. /\ phase \in [Taps -> Phases] /\ tapper \in [Taps -> Accounts]
      /\ device \in [Taps -> Devices \cup {None}]
  BY DEF Provenance, TypeOK
<1>3. phase'[t] = "reading" /\ \A s \in Taps : s # t => phase'[s] = phase[s] /\ tapper'[s] = tapper[s]
  BY <1>1, <1>2
<1>4. Quiet
  BY <1>1, <1>3 DEF OneAtATime
<1>5. \A s \in Taps : s # t => ~ Busy(s)'
  BY <1>3, <1>4 DEF Quiet, Busy, Asking
<1>6. Alone'
  BY <1>5 DEF Alone
<1>7. AskingQuietly'
  <2>1. user'[device'[t]] = tapper'[t]
    BY <1>1, <1>2
  <2> QED
    BY <1>1, <1>4, <1>5, <2>1 DEF AskingQuietly, Quiet, Busy
<1>8. \A e \in Devices, u \in Accounts : DOMAIN queue'[e][u] = {}
  BY <1>1, <1>4 DEF Quiet
<1>9. OneWrite' /\ AtomicWrites'
  BY <1>8 DEF OneWrite, AtomicWrites
<1>10. AnswersUpToDate'
  BY <1>1, <1>4 DEF AnswersUpToDate, Quiet
<1>11. OneBasketEach' /\ Unasked'
  BY <1>1, <1>3 DEF OneBasketEach, Unasked
<1> QED
  BY <1>6, <1>7, <1>9, <1>10, <1>11

\* What the main queue's next block leaves in the queue of blocks.
LEMMA BlocksLeft ==
    ASSUME Provenance, NEW d \in Devices, main[d] # << >>, main' = [main EXCEPT ![d] = Tail(@)]
    PROVE  \A e \in Devices : \A i \in DOMAIN main'[e] :
             \E j \in DOMAIN main[e] : main'[e][i] = main[e][j]
<1> SUFFICES ASSUME NEW e \in Devices, NEW i \in DOMAIN main'[e]
             PROVE  \E j \in DOMAIN main[e] : main'[e][i] = main[e][j]
  OBVIOUS
<1>1. main[e] \in Seq(Blocks) /\ main'[e] = IF e = d THEN Tail(main[e]) ELSE main[e]
  BY DEF Provenance, TypeOK
<1>2. CASE e # d
  BY <1>1, <1>2
<1>3. CASE e = d
  <2>1. main[e] \in Seq(Blocks) /\ main[e] # << >> /\ main'[e] = Tail(main[e])
    BY <1>1, <1>3
  <2>2. \A q \in Seq(Blocks) : q # << >> =>
          \A n \in DOMAIN Tail(q) : n + 1 \in DOMAIN q /\ Tail(q)[n] = q[n + 1]
    OBVIOUS
  <2>3. i + 1 \in DOMAIN main[e] /\ main'[e][i] = main[e][i + 1]
    BY <2>1, <2>2
  <2> QED
    BY <2>3
<1> QED
  BY <1>2, <1>3

\* The asking tap t writes w, behind which its account has nothing queued.
LEMMA WriteSerial ==
    ASSUME Provenance, Serial, NEW t \in Taps, NEW d \in Devices, NEW w,
           phase[t] = "answered",
           \A s \in Taps : s # t => phase'[s] = phase[s],
           phase'[t] \in {"writing", "added"},
           WriteMutations(d, w), UNCHANGED <<server, user, device, tapper>>,
           tapper[Writer(w)] = made'[w.key].owner,
           NextLine(w, server, made'[w.key].owner),
           \A e \in Devices : \A i \in DOMAIN main'[e] :
               \E j \in DOMAIN main[e] : main'[e][i] = main[e][j]
    PROVE  Serial'
<1> USE DEF Serial
<1>1. Asking(t) /\ Busy(t) /\ ~ Asking(t)'
  BY DEF Asking, Busy
<1>2. \A s \in Taps : Busy(s)' => s = t
  BY <1>1 DEF Alone, Busy, Asking
<1>3. Alone' /\ AskingQuietly'
  BY <1>1, <1>2 DEF Alone, AskingQuietly, Busy
<1>4. \A e \in Devices, u \in Accounts : queue[e][u] = << >>
  BY <1>1 DEF AskingQuietly
<1>5. \A e \in Devices, u \in Accounts :
        queue'[e][u] = IF e = d /\ u = user[d] THEN <<w>> ELSE << >>
  <2>1. \A e \in Devices, u \in Accounts :
          queue'[e][u] = IF e = d /\ u = user[d] THEN Append(queue[e][u], w) ELSE queue[e][u]
    BY DEF WriteMutations, Provenance, TypeOK
  <2>2. Append(<< >>, w) = <<w>>
    OBVIOUS
  <2>3. ASSUME NEW e \in Devices, NEW u \in Accounts
        PROVE  queue'[e][u] = IF e = d /\ u = user[d] THEN <<w>> ELSE << >>
    <3>1. queue[e][u] = << >>
      BY <1>4
    <3>2. CASE e = d /\ u = user[d]
      <4>1. queue'[e][u] = Append(queue[e][u], w)
        BY <2>1, <3>2
      <4>2. queue'[e][u] = <<w>>
        BY <2>2, <3>1, <4>1, Zenon
      <4> QED
        BY <3>2, <4>2
    <3>3. CASE ~ (e = d /\ u = user[d])
      <4>1. queue'[e][u] = queue[e][u]
        BY <2>1, <3>3
      <4> QED
        BY <3>1, <3>3, <4>1
    <3> QED
      BY <3>2, <3>3
  <2> QED
    BY <2>3
<1>6. \A e \in Devices, u \in Accounts : \A i \in DOMAIN queue'[e][u] :
        e = d /\ u = user[d] /\ i = 1 /\ queue'[e][u][i] = w
  <2> SUFFICES ASSUME NEW e \in Devices, NEW u \in Accounts, NEW i \in DOMAIN queue'[e][u]
               PROVE  e = d /\ u = user[d] /\ i = 1 /\ queue'[e][u][i] = w
    OBVIOUS
  <2>1. CASE e = d /\ u = user[d]
    BY <1>5, <2>1
  <2>2. CASE ~ (e = d /\ u = user[d])
    BY <1>5, <2>2
  <2> QED
    BY <2>1, <2>2
<1>7. OneWrite'
  BY <1>6 DEF OneWrite
<1>8. AtomicWrites'
  <2> SUFFICES ASSUME NEW e \in Devices, NEW u \in Accounts, NEW i \in DOMAIN queue'[e][u]
               PROVE  /\ tapper'[Writer(queue'[e][u][i])] = made'[queue'[e][u][i].key].owner
                      /\ NextLine(queue'[e][u][i], server', made'[queue'[e][u][i].key].owner)
    BY DEF AtomicWrites, Writer
  <2>2. queue'[e][u][i] = w
    BY <1>6
  <2> QED
    BY <2>2
<1>9. AnswersUpToDate'
  <2> SUFFICES ASSUME NEW e \in Devices, NEW i \in DOMAIN main'[e]
               PROVE  UpToDate(main'[e][i], server', tapper')
    BY DEF AnswersUpToDate, UpToDate
  <2> QED
    BY DEF AnswersUpToDate
<1>10. OneBasketEach'
  BY DEF OneBasketEach
<1>11. Unasked'
  BY DEF Unasked
<1> QED
  BY <1>3, <1>7, <1>8, <1>9, <1>10, <1>11

LEMMA MainQueueSerial ==
    ASSUME Provenance, Serial, NEW d \in Devices, MainQueue(d), TypeOK'
    PROVE  Serial'
<1> DEFINE b == Head(main[d])
           t == b.tag
<1>1. /\ main[d] # << >> /\ main' = [main EXCEPT ![d] = Tail(@)]
      /\ UNCHANGED <<server, user, device, tapper>>
  BY DEF MainQueue
<1>2. \A e \in Devices : \A i \in DOMAIN main'[e] :
        \E j \in DOMAIN main[e] : main'[e][i] = main[e][j]
  BY <1>1, BlocksLeft
<1>3. /\ phase \in [Taps -> Phases]
      /\ made \in [Keys -> [by : Taps, owner : Users] \cup {None}]
  BY DEF Provenance, TypeOK
<1>4. 1 \in DOMAIN main[d] /\ main[d][1] = b /\ b \in Blocks /\ t \in Taps
  BY <1>1, Waiting DEF Provenance, TypeOK
<1>5. UpToDate(b, server, tapper)
  BY <1>4 DEF Serial, AnswersUpToDate
<1>6. CASE createNewBasket(d)
  <2>1. b.kind = "basket" /\ b.key = NoDoc /\ phase[t] = "answered" /\ device[t] = d
    BY <1>1, <1>6, HeadAnswer DEF createNewBasket, BasketOK
  <2>2. user[d] = tapper[t]
    BY <1>4, <2>1 DEF Serial, AskingQuietly, Asking
  <2> DEFINE w(k) == SetData(k, [owner |-> user[d], lines |-> <<t>>], None)
  <2>3. PICK k \in Keys :
          /\ made' = [made EXCEPT ![k] = [by |-> t, owner |-> user[d]]]
          /\ WriteMutations(d, w(k))
          /\ phase' = [phase EXCEPT ![t] = "added"]
    BY <1>6 DEF createNewBasket, saveBasketToFirestore
  <2>4. made'[k].owner = tapper[t]
    BY <1>3, <2>2, <2>3
  <2>5. BasketsOf(tapper[t], server) = {}
    BY <1>5, <2>1 DEF UpToDate
  <2>6. w(k).key = k /\ w(k).op = "set" /\ w(k).fields.lines = <<t>> /\ Writer(w(k)) = t
    BY DEF SetData, Writer
  <2>7. phase'[t] = "added" /\ \A s \in Taps : s # t => phase'[s] = phase[s]
    BY <1>3, <1>4, <2>3
  <2> HIDE DEF w
  <2>8. NextLine(w(k), server, made'[k].owner)
    BY <2>4, <2>5, <2>6 DEF NextLine
  <2> QED
    BY <1>1, <1>2, <1>4, <2>1, <2>3, <2>4, <2>6, <2>7, <2>8, WriteSerial
<1>7. CASE updateBasket(d)
  <2>1. /\ b.kind = "basket" /\ b.key # NoDoc /\ phase[t] = "answered"
        /\ BasketOK(d, b, made, home, tapper, phase, device)
    BY <1>1, <1>7, HeadAnswer DEF updateBasket
  <2>2. b.key \in Keys /\ b.basket.lines \in Seq(Taps)
    BY <1>4, <2>1 DEF Blocks, BasketDocs
  <2>3. tapper[t] = made[b.key].owner
    BY <2>1 DEF BasketOK, DocOK
  <2>4. server[b.key] # NoDoc /\ server[b.key].lines = b.basket.lines
    BY <1>5, <2>1 DEF UpToDate
  <2> DEFINE ls == b.basket.lines
             w == UpdateData(b.key, [lines |-> Append(ls, t)], t)
  <2>5. /\ WriteMutations(d, w) /\ made' = made
        /\ phase' = [phase EXCEPT ![t] = "writing"]
    BY <1>7 DEF updateBasket, updateBasketInFirestore
  <2>6. phase'[t] = "writing" /\ \A s \in Taps : s # t => phase'[s] = phase[s]
    BY <1>3, <1>4, <2>5
  <2>7. w.key = b.key /\ w.op = "update" /\ w.fields.lines = Append(ls, t)
    BY DEF UpdateData
  <2>8. \A q \in Seq(Taps), s \in Taps : Append(q, s)[Len(Append(q, s))] = s
    OBVIOUS
  <2> HIDE DEF w, ls
  <2>9. Writer(w) = t
    BY <1>4, <2>2, <2>7, <2>8 DEF Writer, ls
  <2>10. NextLine(w, server, made'[w.key].owner)
    BY <2>4, <2>7, <2>9 DEF NextLine, ls
  <2> QED
    BY <1>1, <1>2, <1>4, <2>1, <2>3, <2>5, <2>6, <2>7, <2>9, <2>10, WriteSerial
<1>8. CASE updateBasketShown(d)
  <2>1. /\ UNCHANGED <<queue, made>>
        /\ phase' = [phase EXCEPT ![t] = IF b.ok THEN "added" ELSE "failed"]
    BY <1>8 DEF updateBasketShown
  <2>2. QueueKept
    BY <2>1, NoQueueChange DEF Provenance
  <2>3. \A s \in Taps : /\ s # t => phase'[s] = phase[s]
                        /\ s = t => phase'[s] \in {"added", "failed"}
    BY <1>3, <2>1
  <2> HIDE DEF b
  <2>4. \A s \in Taps : /\ Busy(s)' => Busy(s)
                        /\ Asking(s)' => Asking(s) /\ user'[device'[s]] = user[device[s]]
                        /\ phase'[s] = "idle" => phase[s] = "idle"
    BY <1>1, <2>3 DEF Busy, Asking
  <2> QED
    BY <1>1, <1>2, <2>1, <2>2, <2>4, SerialKept
<1> QED
  BY <1>6, <1>7, <1>8 DEF MainQueue

--------------------------------------------------------------------------------
(* The server applies a write.                                             *)

\* Either the write was there before, or it is the next line of its basket, which may
\* be the first.
LEMMA CommitCases ==
    ASSUME Provenance, Provenance', made' = made, Serial, NEW d \in Devices,
           NEW i \in DOMAIN pending(d), CommitWrite(d, i)
    PROVE  LET w == pending(d)[i]
               t == Writer(w)
               k == w.key
               u == made[k].owner
           IN
           /\ t \in Taps /\ k \in Keys /\ u \in Users /\ tapper[t] = u
           /\ \/ server' = server
              \/ /\ server[k] # NoDoc /\ server[k].owner = u
                 /\ \A n \in DOMAIN server[k].lines : server[k].lines[n] # t
                 /\ server' = [server EXCEPT ![k] =
                                [owner |-> u, lines |-> Append(server[k].lines, t)]]
              \/ /\ BasketsOf(u, server) = {} /\ server[k] = NoDoc
                 /\ server' = [server EXCEPT ![k] = [owner |-> u, lines |-> <<t>>]]
<1> DEFINE w == pending(d)[i]
           t == Writer(w)
           k == w.key
           u == made[k].owner
<1>1. /\ w \in Writes /\ k \in Keys
      /\ WriteOK(w, made, home, tapper, phase)
      /\ server'[k] # NoDoc /\ server'[k].lines = w.fields.lines
      /\ \A l \in Keys : l # k => server'[l] = server[l]
  BY Committed
<1>2. /\ tapper[t] = u
      /\ Applies(w, server) \/ NextLine(w, server, u)
  BY DEF Serial, AtomicWrites, pending, Provenance, TypeOK
<1>3. t \in Taps
  <2> HIDE DEF w
  <2> QED
    BY <1>1, WriterPast DEF Provenance
<1> HIDE DEF w, t
<1>4. server \in [Keys -> BasketDocs \cup {NoDoc}] /\ server' \in [Keys -> BasketDocs \cup {NoDoc}]
  BY DEF Provenance, TypeOK
<1>5. /\ server'[k].owner = u
      /\ server[k] # NoDoc => server[k].owner = u
  BY <1>1 DEF Provenance, GoodDocs, GoodDoc
<1>6. server'[k] = [owner |-> u, lines |-> w.fields.lines] /\ u \in Users
  BY <1>1, <1>4, <1>5 DEF BasketDocs
<1>7. server' = [server EXCEPT ![k] = [owner |-> u, lines |-> w.fields.lines]]
  BY <1>1, <1>4, <1>6
<1>8. CASE Applies(w, server)
  <2>1. server[k] = [owner |-> u, lines |-> w.fields.lines]
    BY <1>1, <1>4, <1>5, <1>8 DEF Applies, BasketDocs
  <2>2. server' = server
    BY <1>1, <1>4, <1>6, <2>1
  <2> QED
    BY <1>1, <1>2, <1>3, <1>6, <2>2 DEF w, t
<1>9. CASE NextLine(w, server, u) /\ w.op = "update"
  <2> DEFINE ls == server[k].lines
  <2>1. server[k] # NoDoc /\ w.fields.lines = Append(ls, t)
    BY <1>9 DEF NextLine, t
  <2>2. ls \in Seq(Taps)
    BY <1>1, <1>4, <2>1 DEF BasketDocs
  <2>3. \A m, n \in DOMAIN Append(ls, t) : Append(ls, t)[m] = Append(ls, t)[n] => m = n
    BY <1>1, <2>1 DEF WriteOK, LinesOK
  <2> HIDE DEF ls
  <2>4. \A n \in DOMAIN ls : ls[n] # t
    <3>1. /\ DOMAIN ls = 1 .. Len(ls) /\ Len(ls) \in Nat
          /\ DOMAIN Append(ls, t) = 1 .. Len(ls) + 1
          /\ Append(ls, t)[Len(ls) + 1] = t
          /\ \A n \in DOMAIN ls : Append(ls, t)[n] = ls[n]
      BY <1>3, <2>2
    <3> QED
      BY <2>3, <3>1
  <2>5. server' = [server EXCEPT ![k] = [owner |-> u, lines |-> Append(ls, t)]]
    BY <1>7, <2>1
  <2> QED
    BY <1>1, <1>2, <1>3, <1>5, <1>6, <2>1, <2>4, <2>5 DEF w, t, ls
<1>10. CASE NextLine(w, server, u) /\ w.op # "update"
  <2>1. BasketsOf(u, server) = {} /\ w.fields.lines = <<t>>
    BY <1>10 DEF NextLine, t
  <2>2. server[k] = NoDoc
    BY <1>1, <1>5, <2>1 DEF BasketsOf
  <2>3. server' = [server EXCEPT ![k] = [owner |-> u, lines |-> <<t>>]]
    BY <1>7, <2>1
  <2> QED
    BY <1>1, <1>2, <1>3, <1>6, <2>1, <2>2, <2>3 DEF w, t
<1> QED
  BY <1>2, <1>8, <1>9, <1>10

LEMMA CommitSerial ==
    ASSUME Provenance, Provenance', Serial, NEW d \in Devices,
           NEW i \in DOMAIN pending(d), CommitWrite(d, i),
           UNCHANGED <<phase, device, tapper, made>>
    PROVE  Serial'
<1> USE DEF Serial
<1> DEFINE w == pending(d)[i]
<1>1. \A t \in Taps : ~ Asking(t)
  BY DEF AskingQuietly, pending, Provenance, TypeOK
<1>2. Alone' /\ AskingQuietly' /\ Unasked'
  BY <1>1 DEF Alone, AskingQuietly, Busy, Asking, Unasked
<1>3. AnswersUpToDate'
  <2> SUFFICES ASSUME NEW e \in Devices, NEW n \in DOMAIN main[e]
               PROVE  main[e][n].kind # "basket"
    BY DEF AnswersUpToDate, UpToDate, CommitWrite
  <2>1. main[e][n].kind = "basket" => main[e][n].tag \in Taps /\ phase[main[e][n].tag] = "answered"
    BY Waiting DEF Provenance
  <2> QED
    BY <1>1, <2>1 DEF Asking
<1>4. Decide(d, i, "committed") /\ user' = user
  BY DEF CommitWrite
<1>5. \A e \in Devices, u \in Accounts :
        /\ DOMAIN queue'[e][u] \subseteq DOMAIN queue[e][u]
        /\ \A j \in DOMAIN queue'[e][u] :
             \/ \E l \in DOMAIN queue[e][u] : Same(queue'[e][u][j], queue[e][u][l])
             \/ queue'[e][u][j] = [w EXCEPT !.fate = "committed"]
  BY <1>4, CommitQueue DEF Provenance
<1>6. OneWrite'
  BY <1>5 DEF OneWrite
<1>7. \A e \in Devices, u \in Accounts : \A j \in DOMAIN queue[e][u] : queue[e][u][j] = w
  <2> SUFFICES ASSUME NEW e \in Devices, NEW u \in Accounts, NEW j \in DOMAIN queue[e][u]
               PROVE  queue[e][u][j] = w
    OBVIOUS
  <2>1. user[d] \in Accounts /\ i \in DOMAIN queue[d][user[d]] /\ w = queue[d][user[d]][i]
    BY DEF pending, Provenance, TypeOK
  <2>2. e = d /\ u = user[d] /\ j = i
    BY <2>1 DEF OneWrite
  <2> QED
    BY <2>1, <2>2
<1>8. /\ w \in Writes /\ w.key \in Keys
      /\ server'[w.key] # NoDoc /\ server'[w.key].lines = w.fields.lines
  BY Committed
<1>9. tapper[Writer(w)] = made[w.key].owner
  BY DEF AtomicWrites, pending, Provenance, TypeOK
<1> HIDE DEF w
<1>10. [w EXCEPT !.fate = "committed"].key = w.key /\ [w EXCEPT !.fate = "committed"].fields = w.fields
  BY <1>8 DEF Writes
<1>11. AtomicWrites'
  <2> SUFFICES ASSUME NEW e \in Devices, NEW u \in Accounts, NEW j \in DOMAIN queue'[e][u]
               PROVE  /\ tapper'[Writer(queue'[e][u][j])] = made'[queue'[e][u][j].key].owner
                      /\ Applies(queue'[e][u][j], server')
    BY DEF AtomicWrites, Writer, Applies
  <2>1. queue'[e][u][j].key = w.key /\ queue'[e][u][j].fields = w.fields
    <3>1. CASE queue'[e][u][j] = [w EXCEPT !.fate = "committed"]
      BY <1>10, <3>1
    <3>2. CASE \E l \in DOMAIN queue[e][u] : Same(queue'[e][u][j], queue[e][u][l])
      BY <1>7, <3>2 DEF Same
    <3> QED
      BY <1>5, <3>1, <3>2
  <2> QED
    BY <1>8, <1>9, <2>1 DEF Writer, Applies
<1>12. OneBasketEach'
  <2> DEFINE t == Writer(w)
             k == w.key
             u == made[k].owner
  <2>1. /\ k \in Keys
        /\ \/ server' = server
           \/ /\ server[k] # NoDoc /\ server[k].owner = u
              /\ server' = [server EXCEPT ![k] =
                             [owner |-> u, lines |-> Append(server[k].lines, t)]]
           \/ /\ BasketsOf(u, server) = {}
              /\ server' = [server EXCEPT ![k] = [owner |-> u, lines |-> <<t>>]]
    BY CommitCases DEF w
  <2>2. server \in [Keys -> BasketDocs \cup {NoDoc}]
    BY DEF Provenance, TypeOK
  <2> HIDE DEF t, u, k
  <2>3. CASE server' = server
    BY <2>3 DEF OneBasketEach
  <2>4. CASE /\ server[k] # NoDoc /\ server[k].owner = u
             /\ server' = [server EXCEPT ![k] =
                            [owner |-> u, lines |-> Append(server[k].lines, t)]]
    <3>1. \A l \in Keys : server'[l] # NoDoc =>
            server[l] # NoDoc /\ server'[l].owner = server[l].owner
      BY <2>1, <2>2, <2>4
    <3> QED
      BY <3>1 DEF OneBasketEach
  <2>5. CASE /\ BasketsOf(u, server) = {}
             /\ server' = [server EXCEPT ![k] = [owner |-> u, lines |-> <<t>>]]
    <3>1. server'[k].owner = u /\ \A l \in Keys : l # k => server'[l] = server[l]
      BY <2>1, <2>2, <2>5
    <3>2. \A l \in Keys : server[l] # NoDoc => server[l].owner # u
      BY <2>5 DEF BasketsOf
    <3> QED
      BY <3>1, <3>2 DEF OneBasketEach
  <2> QED
    BY <2>1, <2>3, <2>4, <2>5
<1> QED
  BY <1>2, <1>3, <1>6, <1>11, <1>12

--------------------------------------------------------------------------------
(* The invariant.                                                          *)

SerialInv == FaithInv /\ Serial

LEMMA SerialInit == Init => SerialInv
<1> SUFFICES ASSUME Init PROVE SerialInv
  OBVIOUS
<1>1. FaithInv
  BY FaithInit
<1>2. \A t \in Taps : ~ Busy(t) /\ ~ Asking(t)
  BY DEF Init, Busy, Asking
<1>3. Alone /\ AskingQuietly
  BY <1>2 DEF Alone, AskingQuietly
<1>4. OneWrite /\ AtomicWrites /\ AnswersUpToDate
  BY DEF Init, ClientInit, OneWrite, AtomicWrites, AnswersUpToDate
<1>5. OneBasketEach /\ Unasked
  BY DEF Init, OneBasketEach, Unasked
<1> QED
  BY <1>1, <1>3, <1>4, <1>5 DEF SerialInv, Serial

LEMMA SerialStep == SerialInv /\ [Next /\ OneAtATime]_vars => SerialInv'
<1> SUFFICES ASSUME SerialInv, [Next /\ OneAtATime]_vars PROVE SerialInv'
  OBVIOUS
<1>1. /\ FaithInv /\ Serial /\ Provenance /\ ReadThings /\ ReadersHaveDevices
      /\ phase \in [Taps -> Phases] /\ main \in [Devices -> Seq(Blocks)]
  BY DEF SerialInv, FaithInv, ProvenanceInv, Provenance, TypeInv, TypeOK, Faith
<1>2. FaithInv' /\ Provenance' /\ TypeOK'
  <2>1. FaithInv'
    BY <1>1, FaithStep
  <2> QED
    BY <2>1 DEF FaithInv, ProvenanceInv, Provenance
<1>3. ASSUME NEW t \in Taps, downloadBasketFromFirestore(t), OneAtATime
      PROVE  Serial'
  BY <1>1, <1>2, <1>3, DownloadSerial DEF ReadersHaveDevices, downloadBasketFromFirestore
<1>4. ASSUME NEW t \in Taps, NEW d \in Devices, addToBasketTapped(t, d), OneAtATime
      PROVE  Serial'
  BY <1>1, <1>4, TappedSerial
<1>5. ASSUME NEW t \in Taps, NEW d \in Devices, addToBasketRefused(t, d)
      PROVE  Serial'
  <2>1. /\ phase' = [phase EXCEPT ![t] = "refused"]
        /\ UNCHANGED <<server, queue, user, main, device, tapper, made>>
    BY <1>5 DEF addToBasketRefused, clientVars
  <2>2. QueueKept
    BY <1>1, <2>1, NoQueueChange DEF Provenance
  <2>3. \A s \in Taps : phase'[s] = IF s = t THEN "refused" ELSE phase[s]
    BY <1>1, <2>1
  <2> QED
    BY <1>1, <1>2, <2>1, <2>2, <2>3, SerialKept DEF Busy, Asking
<1>6. ASSUME NEW d \in Devices, MainQueue(d)
      PROVE  Serial'
  BY <1>1, <1>2, <1>6, MainQueueSerial
<1>7. ASSUME NEW d \in Devices, Terminate(d) \/ createNewBasketTraps(d)
      PROVE  Serial'
  <2>1. /\ RestartClient(d) /\ main' = [main EXCEPT ![d] = << >>]
        /\ UNCHANGED <<server, user, device, tapper, made>>
        /\ \A s \in Taps : phase'[s] = phase[s] \/ phase'[s] \in {"dropped", "untold"}
    BY <1>7 DEF Terminate, createNewBasketTraps, RestartClient, RestartFrom
  <2>2. QueueKept
    BY <1>1, <2>1, RestartKeeps DEF Provenance
  <2>3. \A e \in Devices : \A i \in DOMAIN main'[e] : i \in DOMAIN main[e] /\ main'[e][i] = main[e][i]
    BY <1>1, <2>1
  <2> QED
    BY <1>1, <1>2, <2>1, <2>2, <2>3, SerialKept DEF Busy, Asking
<1>8. ASSUME NEW d \in Devices, ServerDecides(d)
      PROVE  Serial'
  <2>1. UNCHANGED <<phase, device, tapper, made>>
    BY <1>8 DEF ServerDecides, tapVars
  <2>2. CASE \E i \in DOMAIN pending(d) : CommitWrite(d, i)
    BY <1>1, <1>2, <2>1, <2>2, CommitSerial
  <2>3. CASE \E i \in DOMAIN pending(d) : RefuseWrite(d, i)
    <3>1. PICK i \in DOMAIN pending(d) : RefuseWrite(d, i)
      BY <2>3
    <3>2. UNCHANGED <<server, user, main>> /\ Decide(d, i, "refused")
      BY <3>1 DEF RefuseWrite
    <3>3. QueueKept
      BY <1>1, <3>2, RefuseKeeps DEF Provenance, Fates, Accepted
    <3> QED
      BY <1>1, <1>2, <2>1, <3>2, <3>3, SerialKept DEF Busy, Asking
  <2> QED
    BY <1>8, <2>2, <2>3 DEF ServerDecides
<1>9. ASSUME NEW d \in Devices, ClientLearns(d)
      PROVE  Serial'
  <2>1. /\ Acknowledge(d)
        /\ UNCHANGED <<server, user, phase, device, tapper, made>>
    BY <1>9 DEF ClientLearns, Acknowledge, tapVars
  <2>2. QueueKept
    BY <1>1, <2>1, AcknowledgeKeeps DEF Provenance
  <2>3. ASSUME NEW e \in Devices, NEW i \in DOMAIN main'[e]
        PROVE  \/ \E j \in DOMAIN main[e] : main'[e][i] = main[e][j]
               \/ main'[e][i].kind = "written"
    <3> DEFINE b == Written(Head(pending(d)))
    <3>1. \/ main' = main
          \/ main' = [main EXCEPT ![d] = Append(@, b)]
      BY <2>1 DEF Acknowledge
    <3>2. b.kind = "written"
      BY DEF Written
    <3> HIDE DEF b
    <3>3. CASE main'[e] = main[e]
      BY <3>3
    <3>4. CASE main'[e] = Append(main[e], b) /\ main[e] \in Seq(Blocks)
      <4>1. \/ i \in DOMAIN main[e] /\ main'[e][i] = main[e][i]
            \/ main'[e][i] = b
        BY <3>4
      <4> QED
        BY <3>2, <4>1
    <3> QED
      BY <1>1, <3>1, <3>3, <3>4
  <2> QED
    BY <1>1, <1>2, <2>1, <2>2, <2>3, SerialKept DEF Busy, Asking, UpToDate
<1>10. ASSUME NEW d \in Devices, NetworkLost(d) \/ NetworkBack(d)
       PROVE  Serial'
  <2>1. /\ StreamBreaks(d)
        /\ UNCHANGED <<server, user, main, phase, device, tapper, made>>
    BY <1>10 DEF NetworkLost, NetworkBack, GoOffline, GoOnline, StreamBreaks, tapVars
  <2>2. QueueKept
    BY <1>1, <2>1, StreamBreaksKeeps DEF Provenance
  <2> QED
    BY <1>1, <1>2, <2>1, <2>2, SerialKept DEF Busy, Asking
<1>11. ASSUME NEW d \in Devices, SignInOrOut(d), OneAtATime
       PROVE  Serial'
  <2>1. /\ StreamBreaks(d) /\ user' # user
        /\ UNCHANGED <<server, main, phase, device, tapper, made>>
    BY <1>2, <1>11 DEF SignInOrOut, CredentialChange, tapVars, TypeOK
  <2>2. QueueKept
    BY <1>1, <2>1, StreamBreaksKeeps DEF Provenance
  <2>3. \A s \in Taps : ~ Asking(s)'
    BY <1>11, <2>1 DEF OneAtATime, Quiet, Asking
  <2> QED
    BY <1>1, <1>2, <2>1, <2>2, <2>3, SerialKept DEF Busy, Asking
<1>12. ASSUME UNCHANGED vars
       PROVE  Serial'
  <2>1. UNCHANGED <<server, queue, user, main, phase, device, tapper, made>>
    BY <1>12 DEF vars, clientVars, tapVars
  <2>2. QueueKept
    BY <1>1, <2>1, NoQueueChange DEF Provenance
  <2> QED
    BY <1>1, <1>2, <2>1, <2>2, SerialKept DEF Busy, Asking
<1>13. Serial'
  BY <1>3, <1>4, <1>5, <1>6, <1>7, <1>8, <1>9, <1>10, <1>11, <1>12 DEF Next
<1> QED
  BY <1>2, <1>13 DEF SerialInv

--------------------------------------------------------------------------------
(* The refinement.                                                         *)

\* The one basket of an account is the one that is read.
LEMMA FirstIsOnly ==
    ASSUME NEW docs \in [Keys -> BasketDocs \cup {NoDoc}], NEW v, NEW x \in BasketsOf(v, docs),
           \A y \in BasketsOf(v, docs) : y = x
    PROVE  FirstBasket(v, docs) = x
<1>1. BasketsOf(v, docs) # {} /\ x \in Nat /\ x <= x
  BY BasketAssumption DEF BasketsOf
<1>2. x \in BasketsOf(v, docs) /\ \A j \in BasketsOf(v, docs) : x <= j
  BY <1>1
<1> QED
  BY <1>1, <1>2 DEF FirstBasket

\* The cart of v, when docs are the documents.
CartOf(v, docs) ==
    IF BasketsOf(v, docs) = {} THEN << >> ELSE docs[FirstBasket(v, docs)].lines

OneEach(docs) ==
    \A j, k \in Keys : docs[j] # NoDoc /\ docs[k] # NoDoc /\ docs[j].owner = docs[k].owner => j = k

LEMMA CartOfOnly ==
    ASSUME NEW docs \in [Keys -> BasketDocs \cup {NoDoc}], OneEach(docs),
           NEW v, NEW x \in BasketsOf(v, docs)
    PROVE  CartOf(v, docs) = docs[x].lines
<1>1. \A y \in BasketsOf(v, docs) : y = x
  BY DEF OneEach, BasketsOf
<1> QED
  BY <1>1, FirstIsOnly DEF CartOf

\* Nothing asked and nothing applied is nothing to the cart.
LEMMA CartStays ==
    ASSUME UNCHANGED <<server, tapper>>
    PROVE  [Implements!CartNext]_(Implements!cartVars)
<1>1. cart' = cart
  BY DEF cart, BasketsOf, FirstBasket
<1> QED
  BY <1>1 DEF Implements!cartVars

LEMMA CommitPuts ==
    ASSUME Provenance, Provenance', made' = made, Serial, Serial', NEW d \in Devices,
           NEW i \in DOMAIN pending(d), CommitWrite(d, i), tapper' = tapper
    PROVE  [Implements!CartNext]_(Implements!cartVars)
<1> DEFINE w == pending(d)[i]
           t == Writer(w)
           k == w.key
           u == made[k].owner
           old == server[k].lines
<1>1. /\ t \in Taps /\ k \in Keys /\ u \in Users /\ tapper[t] = u
      /\ \/ server' = server
         \/ /\ server[k] # NoDoc /\ server[k].owner = u
            /\ \A n \in DOMAIN old : old[n] # t
            /\ server' = [server EXCEPT ![k] = [owner |-> u, lines |-> Append(old, t)]]
         \/ /\ BasketsOf(u, server) = {} /\ server[k] = NoDoc
            /\ server' = [server EXCEPT ![k] = [owner |-> u, lines |-> <<t>>]]
  BY CommitCases
<1>2. /\ server \in [Keys -> BasketDocs \cup {NoDoc}]
      /\ server' \in [Keys -> BasketDocs \cup {NoDoc}]
      /\ OneEach(server) /\ OneEach(server')
  BY DEF Provenance, TypeOK, Serial, OneBasketEach, OneEach
<1>3. /\ cart = [v \in Users |-> CartOf(v, server)]
      /\ cart' = [v \in Users |-> CartOf(v, server')]
  BY DEF cart, CartOf
<1>4. server'[k] # NoDoc
  BY Committed
<1> HIDE DEF t, k, u
<1>5. CASE server' = server
  BY <1>5, CartStays
<1>6. ASSUME server[k] # NoDoc => server[k].owner = u,
             NEW ls, server' = [server EXCEPT ![k] = [owner |-> u, lines |-> ls]]
      PROVE  /\ CartOf(u, server') = ls
             /\ \A v \in Users : v # u => CartOf(v, server') = CartOf(v, server)
  <2>1. /\ server'[k] = [owner |-> u, lines |-> ls]
        /\ \A l \in Keys : l # k => server'[l] = server[l]
    BY <1>1, <1>2, <1>6
  <2>2. k \in BasketsOf(u, server')
    BY <1>1, <1>4, <2>1 DEF BasketsOf
  <2>3. CartOf(u, server') = ls
    BY <1>2, <2>1, <2>2, CartOfOnly
  <2>4. ASSUME NEW v \in Users, v # u
        PROVE  CartOf(v, server') = CartOf(v, server)
    <3>1. k \notin BasketsOf(v, server) /\ k \notin BasketsOf(v, server')
      BY <1>6, <2>1, <2>4 DEF BasketsOf
    <3>2. BasketsOf(v, server') = BasketsOf(v, server)
      BY <2>1, <3>1 DEF BasketsOf
    <3>3. CASE BasketsOf(v, server) = {}
      BY <3>2, <3>3 DEF CartOf
    <3>4. CASE \E x \in Keys : x \in BasketsOf(v, server)
      <4>1. PICK x \in Keys : x \in BasketsOf(v, server)
        BY <3>4
      <4>2. CartOf(v, server) = server[x].lines /\ CartOf(v, server') = server'[x].lines
        BY <1>2, <3>2, <4>1, CartOfOnly
      <4> QED
        BY <2>1, <3>1, <4>1, <4>2
    <3> QED
      BY <3>3, <3>4 DEF BasketsOf
  <2> QED
    BY <2>3, <2>4
<1>7. ASSUME CartOf(u, server') = Append(CartOf(u, server), t),
             \A n \in DOMAIN CartOf(u, server) : CartOf(u, server)[n] # t,
             \A v \in Users : v # u => CartOf(v, server') = CartOf(v, server)
      PROVE  Implements!Put(t, u)
  <2>1. cart' = [cart EXCEPT ![u] = Append(@, t)]
    BY <1>1, <1>3, <1>7
  <2>2. \A n \in DOMAIN cart[u] : cart[u][n] # t
    BY <1>1, <1>3, <1>7
  <2> QED
    BY <1>1, <2>1, <2>2 DEF Implements!Put
<1>8. Implements!Put(t, u) => Implements!CartNext
  BY <1>1 DEF Implements!CartNext
<1>9. CASE /\ server[k] # NoDoc /\ server[k].owner = u
           /\ \A n \in DOMAIN old : old[n] # t
           /\ server' = [server EXCEPT ![k] = [owner |-> u, lines |-> Append(old, t)]]
  <2>1. CartOf(u, server) = old
    BY <1>1, <1>2, <1>9, CartOfOnly DEF BasketsOf
  <2> HIDE DEF old
  <2> QED
    BY <1>6, <1>7, <1>8, <1>9, <2>1
<1>10. CASE /\ BasketsOf(u, server) = {} /\ server[k] = NoDoc
           /\ server' = [server EXCEPT ![k] = [owner |-> u, lines |-> <<t>>]]
  <2>1. CartOf(u, server) = << >> /\ Append(<< >>, t) = <<t>> /\ DOMAIN << >> = {}
    BY <1>10 DEF CartOf
  <2>2. \A n \in DOMAIN CartOf(u, server) : CartOf(u, server)[n] # t
    BY <2>1
  <2> QED
    BY <1>6, <1>7, <1>8, <1>10, <2>1, <2>2
<1> QED
  BY <1>1, <1>5, <1>9, <1>10

\* One tap at a time, on fresh reads, the app keeps the promise that "Added to basket!"
\* makes: reading the document and writing it back is one append to the one basket of
\* the account (addToBasketTapped), although the write may be late, repeated, refused, or
\* cut off from its completion block.
THEOREM CartImplemented == SerialSpec => AppendsAtomically
<1>1. Init => Implements!CartInit
  BY DEF Init, Implements!CartInit, cart, BasketsOf
<1>2. ASSUME SerialInv, SerialInv', [Next /\ OneAtATime]_vars
      PROVE  [Implements!CartNext]_(Implements!cartVars)
  <2>1. /\ Provenance /\ Provenance' /\ Serial /\ Serial'
    BY <1>2 DEF SerialInv, FaithInv, ProvenanceInv
  <2>2. CASE UNCHANGED <<server, tapper>>
    BY <2>2, CartStays
  <2>3. ASSUME NEW t \in Taps, NEW d \in Devices, addToBasketTapped(t, d)
        PROVE  [Implements!CartNext]_(Implements!cartVars)
    <3>1. /\ phase[t] = "idle" /\ tapper' = [tapper EXCEPT ![t] = user[d]]
          /\ UNCHANGED server /\ user[d] \in Users /\ tapper[t] = NoUser
      BY <2>1, <2>3 DEF addToBasketTapped, clientVars, Serial, Unasked, Provenance, TypeOK,
                        Accounts
    <3>2. cart' = cart
      BY <3>1 DEF cart, BasketsOf, FirstBasket
    <3>3. Implements!Ask(t, user[d])
      BY <3>1, <3>2 DEF Implements!Ask
    <3> QED
      BY <3>1, <3>3 DEF Implements!CartNext
  <2>4. ASSUME NEW d \in Devices, ServerDecides(d)
        PROVE  [Implements!CartNext]_(Implements!cartVars)
    <3>1. UNCHANGED <<tapper, made>>
      BY <2>4 DEF ServerDecides, tapVars
    <3>2. CASE \E i \in DOMAIN pending(d) : CommitWrite(d, i)
      BY <2>1, <3>1, <3>2, CommitPuts
    <3>3. CASE \E i \in DOMAIN pending(d) : RefuseWrite(d, i)
      BY <3>1, <3>3, CartStays DEF RefuseWrite
    <3> QED
      BY <2>4, <3>2, <3>3 DEF ServerDecides
  <2>5. \/ UNCHANGED <<server, tapper>>
        \/ \E t \in Taps, d \in Devices : addToBasketTapped(t, d)
        \/ \E d \in Devices : ServerDecides(d)
    BY <1>2 DEF Next, downloadBasketFromFirestore, Read, addToBasketRefused, clientVars, tapVars,
          vars, MainQueue, createNewBasketTraps, Terminate, RestartClient, RestartFrom,
          ClientLearns, Acknowledge, NetworkLost, GoOffline, NetworkBack, GoOnline,
          SignInOrOut, CredentialChange
  <2> QED
    BY <2>5, <2>2, <2>3, <2>4
<1> QED
  BY <1>1, <1>2, SerialInit, SerialStep, PTL DEF SerialSpec, AppendsAtomically, Implements!CartSpec

================================================================================
