------------------------- MODULE FirestoreClientProofs -------------------------
(***************************************************************************)
(* Facts about the client alone: the overlay of pending writes, for any    *)
(* queue of writes, and what the client's steps keep, for any documents,   *)
(* writes and completion blocks.                                           *)
(***************************************************************************)
EXTENDS FirestoreClient, Integers, TLAPS, WellFoundedInduction

\* A nonempty set of natural numbers has a least member.
LEMMA LeastMember ==
    \A T \in SUBSET Nat : T # {} => \E x \in T : \A y \in T : ~ (y < x)
<1> DEFINE R == OpToRel(<, Nat)
<1>1. IsWellFoundedOn(R, Nat)
  BY NatLessThanWellFounded
<1>2. \A T : T \subseteq Nat /\ T # {} => \E x \in T : \A y \in T : ~ (<<y, x>> \in R)
  BY <1>1, WFMin
<1> QED
  BY <1>2 DEF OpToRel

\* A nonempty set of positions has a greatest member.
LEMMA GreatestMember ==
    ASSUME NEW n \in Nat, NEW S \in SUBSET (1 .. n), S # {}
    PROVE  \E x \in S : \A y \in S : y <= x
<1> DEFINE T == {n - i : i \in S}
<1>1. \A i \in S : i \in Nat /\ n - i \in Nat
  OBVIOUS
<1>2. T \in SUBSET Nat /\ T # {}
  BY <1>1
<1>3. PICK m \in T : \A y \in T : ~ (y < m)
  BY <1>2, LeastMember
<1>4. PICK i \in S : m = n - i
  OBVIOUS
<1>5. ASSUME NEW j \in S
      PROVE  j <= i
  <2>1. n - j \in T /\ ~ (n - j < n - i)
    BY <1>3, <1>4
  <2> QED
    BY <2>1, <1>1
<1> QED
  BY <1>5

\* Of the pending writes that give a field a value, one is the last
\* (the order in which LocalDocumentsView applies the mutation batches).
LEMMA LastExists ==
    ASSUME NEW S, NEW ws \in Seq(S), NEW k, NEW f,
           NEW i \in DOMAIN ws, Touches(ws[i], k, f)
    PROVE  \E j \in DOMAIN ws : IsLast(ws, k, f, j)
<1> DEFINE T == {j \in DOMAIN ws : Touches(ws[j], k, f)}
<1>1. T \in SUBSET (1 .. Len(ws)) /\ T # {} /\ Len(ws) \in Nat
  OBVIOUS
<1>2. PICK j \in T : \A y \in T : y <= j
  BY <1>1, GreatestMember
<1>3. \A y \in DOMAIN ws : y > j => ~ Touches(ws[y], k, f)
  <2>1. \A y \in T : ~ (y > j)
    BY <1>1, <1>2
  <2> QED
    BY <2>1
<1> QED
  BY <1>2, <1>3 DEF IsLast

\* The local view has the fields of a document; if the base is missing, some
\* pending "set" made it.
LEMMA LocalDocShape ==
    ASSUME NEW ws, NEW k, NEW base, LocalDoc(base, ws, k) # NoDoc
    PROVE  /\ LocalDoc(base, ws, k) = [g \in Fields |-> LocalDoc(base, ws, k)[g]]
           /\ base = NoDoc => \E i \in DOMAIN ws : ws[i].key = k /\ ws[i].op = "set"
  BY DEF LocalDoc, Exists

\* A field of the local view comes from one pending write, or is the base
\* document's and no pending write touches it.
LEMMA LocalDocField ==
    ASSUME NEW S, NEW ws \in Seq(S), NEW k, NEW base, NEW f \in Fields,
           LocalDoc(base, ws, k) # NoDoc
    PROVE  \/ /\ LocalDoc(base, ws, k)[f] = base[f]
              /\ \A i \in DOMAIN ws : ~ Touches(ws[i], k, f)
           \/ \E i \in DOMAIN ws : /\ Touches(ws[i], k, f)
                                   /\ LocalDoc(base, ws, k)[f] = ws[i].fields[f]
<1> DEFINE last == CHOOSE i \in DOMAIN ws : IsLast(ws, k, f, i)
           val(g) == IF \E i \in DOMAIN ws : IsLast(ws, k, g, i)
                     THEN ws[CHOOSE i \in DOMAIN ws : IsLast(ws, k, g, i)].fields[g]
                     ELSE base[g]
<1>1. LocalDoc(base, ws, k) = [g \in Fields |-> val(g)]
  BY DEF LocalDoc
<1>2. LocalDoc(base, ws, k)[f] = val(f)
  BY <1>1
<1>3. CASE \E i \in DOMAIN ws : IsLast(ws, k, f, i)
  <2>1. last \in DOMAIN ws /\ IsLast(ws, k, f, last)
    BY <1>3
  <2>2. Touches(ws[last], k, f) /\ val(f) = ws[last].fields[f]
    BY <1>3, <2>1 DEF IsLast
  <2> QED
    BY <1>2, <2>1, <2>2
<1>4. CASE ~ \E i \in DOMAIN ws : IsLast(ws, k, f, i)
  <2>1. \A i \in DOMAIN ws : ~ Touches(ws[i], k, f)
    BY <1>4, LastExists
  <2> QED
    BY <1>2, <1>4, <2>1
<1> QED
  BY <1>3, <1>4

--------------------------------------------------------------------------------
(* What the client's steps keep.  docs[k] are the documents that may be    *)
(* under name k, ws the writes that may wait, blocks what may wait for a   *)
(* main queue.                                                             *)

Views(docs) == {v \in [Keys -> UNION {docs[k] : k \in Keys}] : \A k \in Keys : v[k] \in docs[k]}

ClientHolds(docs, ws, blocks) ==
    /\ server \in Views(docs)
    /\ cache \in [Devices -> Views(docs)]
    /\ queue \in [Devices -> [Accounts -> Seq(ws)]]
    /\ online \in [Devices -> BOOLEAN]
    /\ user \in [Devices -> Accounts]
    /\ main \in [Devices -> Seq(blocks)]

\* A write stays one whatever is decided about it, makes a good document of a good
\* one, and is answered by a block.
Closed(docs, ws, blocks) ==
    \A w \in ws :
        /\ w.key \in Keys
        /\ \A fate \in {"pending", "committed", "known", "refused"} : [w EXCEPT !.fate = fate] \in ws
        /\ [w EXCEPT !.tag = None] \in ws
        /\ \A doc \in docs[w.key] : Applied(w, doc) \in docs[w.key]
        /\ w.tag # None => Written(w) \in blocks

\* One document of a view changes.
LEMMA ViewChanged ==
    ASSUME NEW docs, NEW v \in Views(docs), NEW k \in Keys, NEW doc \in docs[k]
    PROVE  [v EXCEPT ![k] = doc] \in Views(docs)
BY DEF Views

\* One queue changes.
LEMMA QueueChanged ==
    ASSUME NEW ws, queue \in [Devices -> [Accounts -> Seq(ws)]],
           NEW d \in Devices, user[d] \in Accounts, NEW q \in Seq(ws),
           queue' = [queue EXCEPT ![d][user[d]] = q]
    PROVE  queue' \in [Devices -> [Accounts -> Seq(ws)]]
OBVIOUS

\* What decides, breaks and forgets does to the writes of one queue.
LEMMA QueueMarked ==
    ASSUME NEW docs, NEW ws, NEW blocks, Closed(docs, ws, blocks), NEW q \in Seq(ws)
    PROVE  /\ Unsent(q) \in Seq(ws)
           /\ Untagged(q) \in Seq(ws)
           /\ \A i \in DOMAIN q, fate \in {"committed", "refused"} :
                 [q EXCEPT ![i].fate = fate] \in Seq(ws)
<1> DEFINE With(w, fate) == [w EXCEPT !.fate = fate]
           Without(w) == [w EXCEPT !.tag = None]
<1>1. \A w \in ws : /\ With(w, "pending") \in ws
                    /\ With(w, "committed") \in ws
                    /\ With(w, "refused") \in ws
                    /\ Without(w) \in ws
  BY DEF Closed
<1>2. \A i \in DOMAIN q : q[i] \in ws
  OBVIOUS
<1>3. /\ Unsent(q) = [i \in DOMAIN q |-> With(q[i], "pending")]
      /\ Untagged(q) = [i \in DOMAIN q |-> Without(q[i])]
  BY DEF Unsent, Untagged
<1>4. \A i \in DOMAIN q : \A fate : [q EXCEPT ![i].fate = fate] = [q EXCEPT ![i] = With(q[i], fate)]
  OBVIOUS
<1> HIDE DEF With, Without
<1>5. Unsent(q) \in Seq(ws)
  BY <1>1, <1>2, <1>3
<1>6. Untagged(q) \in Seq(ws)
  BY <1>1, <1>2, <1>3
<1>7. \A i \in DOMAIN q, fate \in {"committed", "refused"} :
         [q EXCEPT ![i] = With(q[i], fate)] \in Seq(ws)
  BY <1>1, <1>2
<1> QED
  BY <1>4, <1>5, <1>6, <1>7

LEMMA WriteHolds ==
    ASSUME NEW docs, NEW ws, NEW blocks, ClientHolds(docs, ws, blocks),
           NEW d \in Devices, NEW w \in ws, WriteMutations(d, w),
           UNCHANGED <<server, cache, online, user>>, main' \in [Devices -> Seq(blocks)]
    PROVE  ClientHolds(docs, ws, blocks)'
<1>1. user[d] \in Accounts /\ queue[d][user[d]] \in Seq(ws)
  BY DEF ClientHolds
<1>2. Append(queue[d][user[d]], w) \in Seq(ws)
  BY <1>1
<1>3. queue' = [queue EXCEPT ![d][user[d]] = Append(queue[d][user[d]], w)]
  BY DEF WriteMutations
<1>4. queue' \in [Devices -> [Accounts -> Seq(ws)]]
  BY <1>1, <1>2, <1>3, QueueChanged DEF ClientHolds
<1> QED
  BY <1>4 DEF ClientHolds

LEMMA TwoWritesHold ==
    ASSUME NEW docs, NEW ws, NEW blocks, ClientHolds(docs, ws, blocks),
           NEW d \in Devices, NEW w1 \in ws, NEW w2 \in ws, WriteTwo(d, w1, w2),
           UNCHANGED <<server, cache, online, user, main>>
    PROVE  ClientHolds(docs, ws, blocks)'
<1>1. user[d] \in Accounts /\ queue[d][user[d]] \in Seq(ws)
  BY DEF ClientHolds
<1>2. queue[d][user[d]] \o <<w1, w2>> \in Seq(ws)
  BY <1>1
<1>3. queue' = [queue EXCEPT ![d][user[d]] = queue[d][user[d]] \o <<w1, w2>>]
  BY DEF WriteTwo
<1>4. queue' \in [Devices -> [Accounts -> Seq(ws)]]
  BY <1>1, <1>2, <1>3, QueueChanged DEF ClientHolds
<1> QED
  BY <1>4 DEF ClientHolds

LEMMA CommitHolds ==
    ASSUME NEW docs, NEW ws, NEW blocks, ClientHolds(docs, ws, blocks),
           Closed(docs, ws, blocks),
           NEW d \in Devices, NEW i \in DOMAIN pending(d), CommitWrite(d, i)
    PROVE  ClientHolds(docs, ws, blocks)'
<1> DEFINE w == pending(d)[i]
<1>1. /\ user[d] \in Accounts /\ pending(d) \in Seq(ws) /\ w \in ws
  BY DEF ClientHolds, pending
<1>2. w.key \in Keys /\ server[w.key] \in docs[w.key]
  BY <1>1 DEF Closed, ClientHolds, Views
<1>3. Applied(w, server[w.key]) \in docs[w.key]
  BY <1>1, <1>2 DEF Closed
<1>4. server' = [server EXCEPT ![w.key] = Applied(w, server[w.key])]
  BY DEF CommitWrite
<1> HIDE DEF w
<1>5. server' \in Views(docs)
  BY <1>2, <1>3, <1>4, ViewChanged DEF ClientHolds
<1>6. [pending(d) EXCEPT ![i].fate = "committed"] \in Seq(ws)
  BY <1>1, QueueMarked
<1>7. queue' = [queue EXCEPT ![d][user[d]] = [pending(d) EXCEPT ![i].fate = "committed"]]
  BY DEF CommitWrite, Decide, pending
<1>8. queue' \in [Devices -> [Accounts -> Seq(ws)]]
  BY <1>1, <1>6, <1>7, QueueChanged DEF ClientHolds
<1> QED
  BY <1>5, <1>8 DEF CommitWrite, ClientHolds

LEMMA RefuseHolds ==
    ASSUME NEW docs, NEW ws, NEW blocks, ClientHolds(docs, ws, blocks),
           Closed(docs, ws, blocks),
           NEW d \in Devices, NEW i \in DOMAIN pending(d), RefuseWrite(d, i)
    PROVE  ClientHolds(docs, ws, blocks)'
<1>1. user[d] \in Accounts /\ pending(d) \in Seq(ws)
  BY DEF ClientHolds, pending
<1>2. [pending(d) EXCEPT ![i].fate = "refused"] \in Seq(ws)
  BY <1>1, QueueMarked
<1>3. queue' = [queue EXCEPT ![d][user[d]] = [pending(d) EXCEPT ![i].fate = "refused"]]
  BY DEF RefuseWrite, Decide, pending
<1>4. queue' \in [Devices -> [Accounts -> Seq(ws)]]
  BY <1>1, <1>2, <1>3, QueueChanged DEF ClientHolds
<1> QED
  BY <1>4 DEF RefuseWrite, ClientHolds

LEMMA AcknowledgeHolds ==
    ASSUME NEW docs, NEW ws, NEW blocks, ClientHolds(docs, ws, blocks),
           Closed(docs, ws, blocks), NEW d \in Devices, Acknowledge(d)
    PROVE  ClientHolds(docs, ws, blocks)'
<1> DEFINE w == Head(pending(d))
<1>1. /\ user[d] \in Accounts /\ pending(d) \in Seq(ws) /\ pending(d) # << >>
      /\ cache[d] \in Views(docs)
  BY DEF ClientHolds, pending, Acknowledge
<1>2. w \in ws /\ Tail(pending(d)) \in Seq(ws)
  BY <1>1
<1>3. /\ w.key \in Keys
      /\ cache[d][w.key] \in docs[w.key]
  BY <1>1, <1>2 DEF Closed, Views
<1>4. /\ Applied(w, cache[d][w.key]) \in docs[w.key]
      /\ w.tag # None => Written(w) \in blocks
  BY <1>2, <1>3 DEF Closed
<1>5. /\ queue' = [queue EXCEPT ![d][user[d]] = Tail(pending(d))]
      /\ cache' = IF w.fate = "committed"
                  THEN [cache EXCEPT ![d] = [cache[d] EXCEPT ![w.key] = Applied(w, cache[d][w.key])]]
                  ELSE cache
      /\ main' = IF w.tag = None THEN main
                 ELSE [main EXCEPT ![d] = Append(main[d], Written(w))]
      /\ UNCHANGED <<server, online, user>>
  BY DEF Acknowledge, pending
<1> HIDE DEF w
<1>6. queue' \in [Devices -> [Accounts -> Seq(ws)]]
  BY <1>1, <1>2, <1>5, QueueChanged DEF ClientHolds
<1>7. [cache[d] EXCEPT ![w.key] = Applied(w, cache[d][w.key])] \in Views(docs)
  BY <1>1, <1>3, <1>4, ViewChanged
<1>8. cache' \in [Devices -> Views(docs)]
  BY <1>5, <1>7 DEF ClientHolds
<1>9. main' \in [Devices -> Seq(blocks)]
  BY <1>4, <1>5 DEF ClientHolds
<1> QED
  BY <1>5, <1>6, <1>8, <1>9 DEF ClientHolds

LEMMA FetchHolds ==
    ASSUME NEW docs, NEW ws, NEW blocks, ClientHolds(docs, ws, blocks),
           Closed(docs, ws, blocks), NEW d \in Devices, NEW K, Fetch(d, K)
    PROVE  /\ cache' \in [Devices -> Views(docs)]
           /\ queue' \in [Devices -> [Accounts -> Seq(ws)]]
           /\ cache'[d] \in Views(docs)
<1> DEFINE marked(w) == IF w.fate = "committed" /\ w.key \in K
                        THEN [w EXCEPT !.fate = "known"] ELSE w
           v == [k \in Keys |-> IF k \in K THEN server[k] ELSE cache[d][k]]
<1>1. server \in Views(docs) /\ cache[d] \in Views(docs)
  BY DEF ClientHolds
<1>2. v \in Views(docs)
  BY <1>1 DEF Views
<1>3. cache' = [cache EXCEPT ![d] = v]
  BY DEF Fetch
<1> HIDE DEF v
<1>4. \A w \in ws : marked(w) \in ws
  BY DEF Closed
<1>5. \A u \in Accounts : [i \in DOMAIN queue[d][u] |-> marked(queue[d][u][i])] \in Seq(ws)
  <2> SUFFICES ASSUME NEW u \in Accounts
               PROVE  [i \in DOMAIN queue[d][u] |-> marked(queue[d][u][i])] \in Seq(ws)
    OBVIOUS
  <2>1. queue[d][u] \in Seq(ws)
    BY DEF ClientHolds
  <2>2. \A i \in DOMAIN queue[d][u] : marked(queue[d][u][i]) \in ws
    BY <2>1, <1>4
  <2> HIDE DEF marked
  <2> QED
    BY <2>1, <2>2
<1>6. queue' = [queue EXCEPT ![d] =
          [u \in Accounts |-> [i \in DOMAIN queue[d][u] |-> marked(queue[d][u][i])]]]
  BY DEF Fetch
<1> HIDE DEF marked
<1>7. queue' \in [Devices -> [Accounts -> Seq(ws)]]
  BY <1>5, <1>6 DEF ClientHolds
<1> QED
  BY <1>2, <1>3, <1>7 DEF ClientHolds

LEMMA BreakHolds ==
    ASSUME NEW docs, NEW ws, NEW blocks, ClientHolds(docs, ws, blocks),
           Closed(docs, ws, blocks), NEW d \in Devices, StreamBreaks(d)
    PROVE  queue' \in [Devices -> [Accounts -> Seq(ws)]]
<1>1. user[d] \in Accounts /\ queue[d][user[d]] \in Seq(ws)
  BY DEF ClientHolds
<1>2. Unsent(queue[d][user[d]]) \in Seq(ws)
  BY <1>1, QueueMarked
<1>3. CASE UNCHANGED queue
  BY <1>3 DEF ClientHolds
<1>4. CASE queue' = [queue EXCEPT ![d][user[d]] = Unsent(queue[d][user[d]])]
  BY <1>1, <1>2, <1>4, QueueChanged DEF ClientHolds
<1> QED
  BY <1>3, <1>4 DEF StreamBreaks

LEMMA NetworkHolds ==
    ASSUME NEW docs, NEW ws, NEW blocks, ClientHolds(docs, ws, blocks),
           Closed(docs, ws, blocks), NEW d \in Devices, GoOffline(d) \/ GoOnline(d)
    PROVE  ClientHolds(docs, ws, blocks)'
<1>1. CASE GoOffline(d)
  <2>1. queue' \in [Devices -> [Accounts -> Seq(ws)]]
    BY <1>1, BreakHolds DEF GoOffline
  <2> QED
    BY <1>1, <2>1 DEF GoOffline, ClientHolds
<1>2. CASE GoOnline(d)
  BY <1>2 DEF GoOnline, ClientHolds
<1> QED
  BY <1>1, <1>2

LEMMA CredentialHolds ==
    ASSUME NEW docs, NEW ws, NEW blocks, ClientHolds(docs, ws, blocks),
           Closed(docs, ws, blocks), NEW d \in Devices, NEW u \in Accounts,
           CredentialChange(d, u)
    PROVE  ClientHolds(docs, ws, blocks)'
<1>1. queue' \in [Devices -> [Accounts -> Seq(ws)]]
  BY BreakHolds DEF CredentialChange
<1>2. user' = [user EXCEPT ![d] = u] /\ UNCHANGED <<server, cache, online, main>>
  BY DEF CredentialChange
<1> QED
  BY <1>1, <1>2 DEF ClientHolds

LEMMA RestartHolds ==
    ASSUME NEW docs, NEW ws, NEW blocks, ClientHolds(docs, ws, blocks),
           Closed(docs, ws, blocks), NEW d \in Devices,
           NEW queues \in [Accounts -> Seq(ws)], RestartFrom(d, queues)
    PROVE  ClientHolds(docs, ws, blocks)'
<1>1. \A u \in Accounts : Unsent(Untagged(queues[u])) \in Seq(ws)
  BY QueueMarked
<1>2. queue' \in [Devices -> [Accounts -> Seq(ws)]]
  BY <1>1 DEF RestartFrom, ClientHolds
<1>3. main' \in [Devices -> Seq(blocks)]
  BY DEF RestartFrom, ClientHolds
<1> QED
  BY <1>2, <1>3 DEF RestartFrom, ClientHolds

================================================================================
