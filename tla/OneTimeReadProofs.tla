--------------------------- MODULE OneTimeReadProofs ---------------------------
(***************************************************************************)
(* Theorems about OneTimeRead, for any calls, queries and bounds: ReadInv  *)
(* is inductive, and the four safety properties follow from it.            *)
(***************************************************************************)
EXTENDS OneTimeRead, TLAPS

USE DEF Events, States

--------------------------------------------------------------------------------
(* One listener.                                                           *)

\* An event that is no error leaves the events clean, and none clean needs an error
\* last.
LEMMA AppendClean ==
    ASSUME NEW events \in Seq(Events), NEW e \in Events, Clean(events), e # "error"
    PROVE  Append(events, e) \in Seq(Events) /\ Clean(Append(events, e))
BY DEF Clean

LEMMA ErrorAppended ==
    ASSUME NEW events \in Seq(Events), Clean(events)
    PROVE  /\ ErrorLast(events)
           /\ Append(events, "error") \in Seq(Events)
           /\ ErrorLast(Append(events, "error"))
BY DEF Clean, ErrorLast

\* What is left of the events when the first has been run.
LEMMA TailOfEvents ==
    ASSUME NEW events \in Seq(Events), events # << >>
    PROVE  /\ Tail(events) \in Seq(Events)
           /\ Head(events) \in Events
           /\ Clean(events) => Clean(Tail(events)) /\ Head(events) # "error"
           /\ ErrorLast(events) => ErrorLast(Tail(events))
           /\ ErrorLast(events) /\ Head(events) = "error" => Tail(events) = << >>
<1>1. /\ Tail(events) \in Seq(Events)
      /\ Head(events) = events[1] /\ Head(events) \in Events
      /\ Len(Tail(events)) = Len(events) - 1
      /\ \A i \in 1 .. Len(Tail(events)) : Tail(events)[i] = events[i + 1]
      /\ Len(events) \in Nat /\ Len(events) >= 1
      /\ DOMAIN Tail(events) = 1 .. (Len(events) - 1)
      /\ DOMAIN events = 1 .. Len(events)
  OBVIOUS
<1>2. Clean(events) => Clean(Tail(events)) /\ Head(events) # "error"
  BY <1>1 DEF Clean
<1>3. ErrorLast(events) => ErrorLast(Tail(events))
  BY <1>1 DEF ErrorLast
<1>4. ErrorLast(events) /\ Head(events) = "error" => Len(events) = 1
  BY <1>1 DEF ErrorLast
<1>5. Len(events) = 1 => Tail(events) = << >>
  BY <1>1
<1> QED
  BY <1>1, <1>2, <1>3, <1>4, <1>5

\* A listener that is told of a snapshot has seen it, and raised it if it should.
LEMMA HearSnapshot ==
    ASSUME NEW l \in QueryListeners, NEW snapshot \in {"cached", "synced"}
    PROVE  LET m == OnViewSnapshot(l, snapshot) IN
           /\ m \in QueryListeners
           /\ m.believed = l.believed
           /\ m.seen = snapshot
           /\ l.raised \/ ShouldRaiseInitialEvent(snapshot, l.believed) => m.raised
           /\ Clean(l.events) => Clean(m.events)
<1> DEFINE raise == l.raised \/ ShouldRaiseInitialEvent(snapshot, l.believed)
           m == OnViewSnapshot(l, snapshot)
<1>1. raise \in BOOLEAN
  BY DEF QueryListeners, ShouldRaiseInitialEvent
<1>2. l.events \in Seq(Events)
  BY DEF QueryListeners
<1>3. Append(l.events, snapshot) \in Seq(Events)
  BY <1>2
<1>4. Clean(l.events) => Clean(Append(l.events, snapshot))
  BY <1>2, AppendClean
<1>5. m = [l EXCEPT !.seen = snapshot, !.raised = raise,
                    !.events = IF raise THEN Append(l.events, snapshot) ELSE l.events]
  BY DEF OnViewSnapshot, QueryListeners
<1>6. /\ m.seen = snapshot /\ m.raised = raise /\ m.believed = l.believed
      /\ m.events = IF raise THEN Append(l.events, snapshot) ELSE l.events
  BY <1>5 DEF QueryListeners
<1>7. m \in QueryListeners
  BY <1>1, <1>2, <1>3, <1>5 DEF QueryListeners
<1> QED
  BY <1>1, <1>4, <1>6, <1>7

\* A listener that is told of a state knows it, and raises what it has seen if it
\* should.
LEMMA HearState ==
    ASSUME NEW l \in QueryListeners, NEW s \in States
    PROVE  LET m == OnOnlineStateChanged(l, s) IN
           /\ m \in QueryListeners
           /\ m.believed = s
           /\ m.seen = l.seen
           /\ l.raised => m.raised
           /\ l.seen # "none" /\ ShouldRaiseInitialEvent(l.seen, s) => m.raised
           /\ Clean(l.events) => Clean(m.events)
<1> DEFINE raise == l.seen # "none" /\ ~ l.raised /\ ShouldRaiseInitialEvent(l.seen, s)
           m == OnOnlineStateChanged(l, s)
<1>1. raise \in BOOLEAN /\ l.raised \in BOOLEAN
  BY DEF QueryListeners, ShouldRaiseInitialEvent
<1>2. l.events \in Seq(Events) /\ l.seen \in {"none", "cached", "synced"}
  BY DEF QueryListeners
<1>3. raise => Append(l.events, l.seen) \in Seq(Events)
  BY <1>2
<1>4. raise /\ Clean(l.events) => Clean(Append(l.events, l.seen))
  BY <1>2, AppendClean
<1>5. m = [l EXCEPT !.believed = s, !.raised = l.raised \/ raise,
                    !.events = IF raise THEN Append(l.events, l.seen) ELSE l.events]
  BY DEF OnOnlineStateChanged, QueryListeners
<1>6. /\ m.seen = l.seen /\ m.raised = (l.raised \/ raise) /\ m.believed = s
      /\ m.events = IF raise THEN Append(l.events, l.seen) ELSE l.events
  BY <1>5 DEF QueryListeners
<1>7. m \in QueryListeners
  BY <1>1, <1>2, <1>3, <1>5 DEF QueryListeners
<1> QED
  BY <1>1, <1>4, <1>6, <1>7

LEMMA HearError ==
    ASSUME NEW l \in QueryListeners, Clean(l.events)
    PROVE  OnError(l) \in QueryListeners /\ ErrorLast(OnError(l).events)
<1>1. l.events \in Seq(Events)
  BY DEF QueryListeners
<1>2. /\ Append(l.events, "error") \in Seq(Events)
      /\ ErrorLast(Append(l.events, "error"))
  BY <1>1, ErrorAppended
<1>3. OnError(l) = [l EXCEPT !.events = Append(l.events, "error")]
  BY DEF OnError, QueryListeners
<1> QED
  BY <1>2, <1>3 DEF QueryListeners

--------------------------------------------------------------------------------
(* All listeners.                                                          *)

\* A call that is registered has asked for something, and a snapshot is of two kinds.
LEMMA Asking ==
    ASSUME ReadInv
    PROVE  \A r \in registered : r \in Reads /\ query[r] \in Queries
BY DEF ReadInv, TypeOK, InPlace

LEMMA SnapshotKinds == \A v : Snapshot(v) \in {"cached", "synced"}
BY DEF Snapshot

\* Whoever is registered knows the new state, and has seen that an offline view is
\* from the cache.
LEMMA BroadcastInforms ==
    ASSUME TypeOK, NEW s \in States,
           NEW ls \in [Reads -> QueryListeners], NEW reg \in SUBSET Reads,
           \A r \in reg : Informed(ls[r], state, Snapshot(view[query[r]]))
    PROVE  /\ Broadcast(ls, reg, s) \in [Reads -> QueryListeners]
           /\ \A r \in reg :
                Informed(Broadcast(ls, reg, s)[r], s,
                         IF s # state /\ s = "Offline" THEN "cached"
                         ELSE Snapshot(view[query[r]]))
           /\ \A r \in Reads \ reg : Broadcast(ls, reg, s)[r] = ls[r]
<1>1. CASE s = state
  BY <1>1 DEF Broadcast
<1>2. CASE s # state
  <2> DEFINE Off(r) == s = "Offline" /\ view[query[r]] = "synced"
             l(r) == IF Off(r) THEN OnViewSnapshot(ls[r], "cached") ELSE ls[r]
             snapshot(r) == IF s = "Offline" THEN "cached" ELSE Snapshot(view[query[r]])
             ms == [r \in Reads |-> IF r \notin reg THEN ls[r]
                                    ELSE OnOnlineStateChanged(l(r), s)]
  <2>1. Broadcast(ls, reg, s) = ms
    BY <1>2 DEF Broadcast
  <2>2. ASSUME NEW r \in reg
        PROVE  ms[r] \in QueryListeners /\ Informed(ms[r], s, snapshot(r))
    <3>1. /\ r \in Reads /\ ls[r] \in QueryListeners
          /\ Clean(ls[r].events)
          /\ ls[r].seen = Snapshot(view[query[r]])
          /\ Snapshot(view[query[r]]) = "synced" => ls[r].raised
      BY DEF Informed
    <3>2. /\ l(r) \in QueryListeners
          /\ Clean(l(r).events)
          /\ l(r).seen = snapshot(r)
          /\ snapshot(r) = "synced" => l(r).raised
      <4>1. CASE Off(r)
        BY <3>1, <4>1, HearSnapshot
      <4>2. CASE ~ Off(r)
        BY <3>1, <4>2 DEF Snapshot
      <4> QED
        BY <4>1, <4>2
    <3>3. snapshot(r) # "none" /\ (s = "Offline" => ShouldRaiseInitialEvent(snapshot(r), s))
      BY SnapshotKinds DEF ShouldRaiseInitialEvent
    <3>4. ms[r] = OnOnlineStateChanged(l(r), s)
      BY <3>1
    <3> HIDE DEF ms, l, snapshot
    <3>5. /\ ms[r] \in QueryListeners
          /\ ms[r].believed = s
          /\ ms[r].seen = snapshot(r)
          /\ l(r).raised => ms[r].raised
          /\ ShouldRaiseInitialEvent(snapshot(r), s) => ms[r].raised
          /\ Clean(ms[r].events)
      BY <3>2, <3>3, <3>4, HearState
    <3> QED
      BY <3>2, <3>3, <3>5 DEF Informed
  <2>3. ms \in [Reads -> QueryListeners] /\ \A r \in Reads \ reg : ms[r] = ls[r]
    BY <2>2
  <2> HIDE DEF ms
  <2> QED
    BY <1>2, <2>1, <2>2, <2>3
<1> QED
  BY <1>1, <1>2

\* The tracker's new state, broadcast with the views.
LEMMA Announced ==
    ASSUME ReadInv, NEW s \in States, SetAndBroadcast(s), UNCHANGED <<query, registered>>
    PROVE  /\ AllInformed'
           /\ listener' \in [Reads -> QueryListeners]
           /\ view' \in [Queries -> {"none"} \cup Views]
           /\ state' = s
           /\ \A q \in Queries : view'[q] = "none" <=> view[q] = "none"
           /\ \A r \in Reads \ registered : listener'[r] = listener[r]
<1>1. /\ TypeOK /\ listener \in [Reads -> QueryListeners]
      /\ registered \in SUBSET Reads
      /\ \A r \in registered : Informed(listener[r], state, Snapshot(view[query[r]]))
  BY DEF ReadInv, TypeOK, AllInformed
<1>2. /\ listener' \in [Reads -> QueryListeners]
      /\ \A r \in registered :
            Informed(listener'[r], s, IF s # state /\ s = "Offline" THEN "cached"
                                      ELSE Snapshot(view[query[r]]))
      /\ \A r \in Reads \ registered : listener'[r] = listener[r]
  BY <1>1, BroadcastInforms DEF SetAndBroadcast
<1>3. /\ view' = [q \in Queries |->
                    IF s # state /\ s = "Offline" /\ view[q] # "none" THEN "local" ELSE view[q]]
      /\ state' = s /\ query' = query /\ registered' = registered
  BY DEF SetAndBroadcast
<1>4. view \in [Queries -> {"none"} \cup Views]
  BY <1>1 DEF TypeOK
<1>5. /\ view' \in [Queries -> {"none"} \cup Views]
      /\ \A q \in Queries : view'[q] = "none" <=> view[q] = "none"
  BY <1>3, <1>4 DEF Views
<1>6. \A r \in registered : Snapshot(view'[query[r]]) =
                                IF s # state /\ s = "Offline" THEN "cached"
                                ELSE Snapshot(view[query[r]])
  BY <1>3, Asking DEF Snapshot
<1>7. AllInformed'
  BY <1>2, <1>3, <1>6 DEF AllInformed
<1> QED
  BY <1>2, <1>3, <1>5, <1>7

\* A step that only tells listeners something keeps the invariant, if the listeners
\* are informed and the timers fit.
LEMMA ToldOnly ==
    ASSUME ReadInv,
           UNCHANGED <<query, delivered, muted, jobs, registered, targets>>,
           AllInformed',
           listener' \in [Reads -> QueryListeners],
           \A r \in Reads \ registered : listener'[r] = listener[r],
           view' \in [Queries -> {"none"} \cup Views],
           \A q \in Queries : view'[q] = "none" <=> view[q] = "none",
           stream' \in {"initial", "error", "backoff", "starting", "open"},
           state' \in States,
           {idle', failed', timer'} \subseteq BOOLEAN,
           timer' => state' = "Unknown" /\ ~ failed' /\ Started',
           state' = "Online" => ~ failed',
           idle' => targets = {} /\ stream' = "open"
    PROVE  ReadInv'
<1>1. TypeOK'
  BY DEF ReadInv, TypeOK
<1>2. AssertionsHold'
  BY DEF ReadInv, AssertionsHold, ListenersOf
<1>3. ASSUME NEW r \in Reads
      PROVE  InPlace(r)'
  <2>1. InPlace(r) /\ TypeOK
    BY DEF ReadInv
  <2>2. CASE r \in registered
    BY <2>1, <2>2 DEF InPlace, Queued
  <2>3. CASE r \notin registered
    BY <2>1, <2>3 DEF InPlace, Queued
  <2> QED
    BY <2>2, <2>3
<1> QED
  BY <1>1, <1>2, <1>3 DEF ReadInv

--------------------------------------------------------------------------------
(* The steps of the tracker and the stream, and new snapshots.             *)

LEMMA TimeoutKeeps == ReadInv /\ onlineStateTimeout => ReadInv'
<1> SUFFICES ASSUME ReadInv, onlineStateTimeout PROVE ReadInv'
  OBVIOUS
<1>1. /\ SetAndBroadcast("Offline") /\ timer' = FALSE
      /\ UNCHANGED <<query, delivered, muted, jobs, registered, stream, idle, targets, failed>>
  BY DEF onlineStateTimeout, ClearOnlineStateTimer, appVars, streamVars
<1>2. /\ AllInformed' /\ listener' \in [Reads -> QueryListeners]
      /\ view' \in [Queries -> {"none"} \cup Views] /\ state' = "Offline"
      /\ \A q \in Queries : view'[q] = "none" <=> view[q] = "none"
      /\ \A r \in Reads \ registered : listener'[r] = listener[r]
  BY <1>1, Announced
<1>3. TypeOK /\ AssertionsHold
  BY DEF ReadInv
<1> QED
  BY <1>1, <1>2, <1>3, ToldOnly DEF TypeOK, AssertionsHold

LEMMA UpdateKeeps ==
    ASSUME ReadInv, NEW s \in {"Unknown", "Online"}, UpdateState(s),
           UNCHANGED <<query, delivered, muted, jobs, registered, targets>>,
           stream' \in {"initial", "error", "backoff", "starting", "open"},
           idle' \in BOOLEAN,
           idle' => targets = {} /\ stream' = "open"
    PROVE  ReadInv'
<1>1. SetAndBroadcast(s) /\ timer' = FALSE /\ failed' = FALSE
  BY DEF UpdateState, ClearOnlineStateTimer
<1>2. /\ AllInformed' /\ listener' \in [Reads -> QueryListeners]
      /\ view' \in [Queries -> {"none"} \cup Views] /\ state' = s
      /\ \A q \in Queries : view'[q] = "none" <=> view[q] = "none"
      /\ \A r \in Reads \ registered : listener'[r] = listener[r]
  BY <1>1, Announced
<1> QED
  BY <1>1, <1>2, ToldOnly

LEMMA IdleKeeps == ReadInv /\ idleTimeout => ReadInv'
BY UpdateKeeps DEF idleTimeout, appVars

LEMMA ChangeKeeps == ReadInv /\ OnWatchStreamChange => ReadInv'
<1> SUFFICES ASSUME ReadInv, OnWatchStreamChange PROVE ReadInv'
  OBVIOUS
<1>1. idle \in BOOLEAN /\ (idle => targets = {} /\ stream = "open")
  BY DEF ReadInv, TypeOK, AssertionsHold
<1> QED
  BY <1>1, UpdateKeeps DEF OnWatchStreamChange, appVars, streamVars

\* Nobody is told anything.
LEMMA StreamMoves ==
    ASSUME ReadInv,
           UNCHANGED <<query, delivered, muted, jobs, registered, targets, listener, view,
                       idle, state, failed, timer>>,
           stream \in {"backoff", "starting"}, stream' \in {"starting", "open"}
    PROVE  ReadInv'
<1>1. TypeOK /\ AssertionsHold /\ AllInformed
  BY DEF ReadInv
<1>2. AllInformed'
  BY <1>1 DEF AllInformed
<1> QED
  BY <1>1, <1>2, ToldOnly DEF TypeOK, AssertionsHold, Started

LEMMA OpenKeeps == ReadInv /\ OnWatchStreamOpen => ReadInv'
BY StreamMoves DEF OnWatchStreamOpen, appVars, trackerVars

LEMMA BackoffKeeps == ReadInv /\ backoffElapses => ReadInv'
BY StreamMoves DEF backoffElapses, appVars, trackerVars

\* An attempt to connect begins: whoever is registered hears that the state is
\* unknown, and the timer runs.
LEMMA UnknownKeeps ==
    ASSUME ReadInv,
           UNCHANGED <<query, delivered, muted, jobs, registered, targets, view>>,
           listener' = Broadcast(listener, registered, "Unknown"),
           state' = "Unknown", failed' = FALSE, idle' = FALSE, timer' \in BOOLEAN,
           stream' \in {"initial", "error", "backoff", "starting", "open"},
           timer' => Started'
    PROVE  ReadInv'
<1>1. /\ TypeOK /\ listener \in [Reads -> QueryListeners]
      /\ registered \in SUBSET Reads
      /\ \A r \in registered : Informed(listener[r], state, Snapshot(view[query[r]]))
  BY DEF ReadInv, TypeOK, AllInformed
<1>2. /\ listener' \in [Reads -> QueryListeners]
      /\ \A r \in registered : Informed(listener'[r], "Unknown", Snapshot(view[query[r]]))
      /\ \A r \in Reads \ registered : listener'[r] = listener[r]
  BY <1>1, BroadcastInforms
<1>3. AllInformed'
  BY <1>2 DEF AllInformed
<1> QED
  BY <1>1, <1>2, <1>3, ToldOnly DEF TypeOK

LEMMA ErrorKeeps == ReadInv /\ OnWatchStreamError => ReadInv'
<1> SUFFICES ASSUME ReadInv, OnWatchStreamError PROVE ReadInv'
  OBVIOUS
<1>1. /\ UNCHANGED <<query, delivered, muted, jobs, registered, targets>>
      /\ idle' = FALSE
  BY DEF OnWatchStreamError, appVars
<1>2. TypeOK /\ AssertionsHold
  BY DEF ReadInv
<1>3. CASE targets = {}
  BY <1>1, <1>3, UpdateKeeps DEF OnWatchStreamError
<1>4. CASE targets # {} /\ state = "Online"
  <2>1. ~ failed
    BY <1>2, <1>4 DEF AssertionsHold
  <2>2. failed \in BOOLEAN
    BY <1>2 DEF TypeOK
  <2>3. /\ stream' = "backoff" /\ view' = view /\ failed' = failed
        /\ state' = "Unknown" /\ timer' = TRUE
        /\ listener' = Broadcast(listener, registered, "Unknown")
    BY <1>4, <2>1 DEF OnWatchStreamError, HandleWatchStreamStart
  <2>4. Started'
    BY <2>3 DEF Started
  <2> QED
    BY <1>1, <2>1, <2>2, <2>3, <2>4, UnknownKeeps
<1>5. CASE targets # {} /\ state # "Online"
  <2>1. /\ stream' = "backoff" /\ failed' = TRUE /\ timer' = FALSE
        /\ SetAndBroadcast("Offline")
    BY <1>5 DEF OnWatchStreamError, ClearOnlineStateTimer
  <2>2. /\ AllInformed' /\ listener' \in [Reads -> QueryListeners]
        /\ view' \in [Queries -> {"none"} \cup Views] /\ state' = "Offline"
        /\ \A q \in Queries : view'[q] = "none" <=> view[q] = "none"
        /\ \A r \in Reads \ registered : listener'[r] = listener[r]
    BY <1>1, <2>1, Announced
  <2> QED
    BY <1>1, <2>1, <2>2, ToldOnly
<1> QED
  BY <1>3, <1>4, <1>5

LEMMA RestartKeeps == ReadInv /\ RestartNetwork => ReadInv'
<1> SUFFICES ASSUME ReadInv, RestartNetwork PROVE ReadInv'
  OBVIOUS
<1>1. timer' \in BOOLEAN /\ (timer' => stream' = "starting")
  BY DEF RestartNetwork
<1>2. timer' => Started'
  BY <1>1 DEF Started
<1> QED
  BY <1>1, <1>2, UnknownKeeps DEF RestartNetwork, appVars

LEMMA EmitKeeps ==
    ASSUME ReadInv, NEW q \in Queries, EmitNewSnapshots(q)
    PROVE  ReadInv'
<1>1. TypeOK /\ AllInformed /\ AssertionsHold
  BY DEF ReadInv
<1>2. /\ UNCHANGED <<query, delivered, muted, jobs, registered, view, stream, idle, targets,
                     state, failed, timer>>
      /\ listener' = [r \in Reads |->
                        IF r \in ListenersOf(q)
                        THEN OnViewSnapshot(listener[r], Snapshot(view[q])) ELSE listener[r]]
  BY DEF EmitNewSnapshots, appVars, streamVars, trackerVars
<1>3. ASSUME NEW r \in Reads
      PROVE  /\ listener'[r] \in QueryListeners
             /\ r \in registered => Informed(listener'[r], state, Snapshot(view[query[r]]))
             /\ r \notin registered => listener'[r] = listener[r]
  <2>1. listener[r] \in QueryListeners
    BY <1>1 DEF TypeOK
  <2>2. CASE r \in ListenersOf(q)
    <3>1. /\ r \in registered /\ query[r] = q
          /\ listener'[r] = OnViewSnapshot(listener[r], Snapshot(view[q]))
          /\ Informed(listener[r], state, Snapshot(view[q]))
      BY <1>1, <1>2, <2>2 DEF ListenersOf, AllInformed
    <3> QED
      BY <2>1, <3>1, HearSnapshot, SnapshotKinds DEF Informed
  <2>3. CASE r \notin ListenersOf(q)
    BY <1>1, <1>2, <2>1, <2>3 DEF AllInformed
  <2> QED
    BY <2>2, <2>3
<1>4. listener' \in [Reads -> QueryListeners]
  BY <1>2, <1>3
<1>5. AllInformed'
  BY <1>1, <1>2, <1>3 DEF AllInformed, TypeOK
<1> QED
  BY <1>1, <1>2, <1>3, <1>4, <1>5, ToldOnly DEF TypeOK, AssertionsHold, Started

LEMMA RaiseKeeps ==
    ASSUME ReadInv, NEW q \in Queries, NEW v \in Views, RaiseWatchSnapshot(q, v)
    PROVE  ReadInv'
<1> DEFINE told == Broadcast(listener, registered, "Online")
<1>1. /\ TypeOK /\ AssertionsHold
      /\ listener \in [Reads -> QueryListeners] /\ registered \in SUBSET Reads
      /\ \A r \in registered : Informed(listener[r], state, Snapshot(view[query[r]]))
      /\ view \in [Queries -> {"none"} \cup Views]
  BY DEF ReadInv, TypeOK, AllInformed
<1>2. /\ told \in [Reads -> QueryListeners]
      /\ \A r \in registered : Informed(told[r], "Online", Snapshot(view[query[r]]))
      /\ \A r \in Reads \ registered : told[r] = listener[r]
  BY <1>1, BroadcastInforms
<1> HIDE DEF told
<1>3. /\ UNCHANGED <<query, delivered, muted, jobs, registered, stream, idle, targets>>
      /\ timer' = FALSE /\ failed' = FALSE /\ state' = "Online"
      /\ view' = [view EXCEPT ![q] = v]
      /\ q \in targets
      /\ \/ Snapshot(v) = Snapshot(view[q]) /\ listener' = told
         \/ listener' = [r \in Reads |->
                            IF r \in ListenersOf(q)
                            THEN OnViewSnapshot(told[r], Snapshot(v)) ELSE told[r]]
  BY DEF RaiseWatchSnapshot, ClearOnlineStateTimer, appVars, streamVars, told
<1>4. ASSUME NEW r \in Reads
      PROVE  /\ listener'[r] \in QueryListeners
             /\ r \in registered => Informed(listener'[r], "Online", Snapshot(view'[query[r]]))
             /\ r \notin registered => listener'[r] = listener[r]
  <2>1. told[r] \in QueryListeners
    BY <1>2
  <2>2. CASE r \in ListenersOf(q)
    <3>1. /\ r \in registered /\ query[r] = q
          /\ Informed(told[r], "Online", Snapshot(view[q]))
          /\ view'[query[r]] = v
      BY <1>1, <1>2, <1>3, <2>2 DEF ListenersOf
    <3>2. CASE Snapshot(v) = Snapshot(view[q]) /\ listener'[r] = told[r]
      BY <2>1, <3>1, <3>2
    <3>3. CASE listener'[r] = OnViewSnapshot(told[r], Snapshot(v))
      BY <2>1, <3>1, <3>3, HearSnapshot, SnapshotKinds DEF Informed, ShouldRaiseInitialEvent
    <3> QED
      BY <1>3, <2>2, <3>2, <3>3
  <2>3. CASE r \notin ListenersOf(q)
    <3>1. listener'[r] = told[r]
      BY <1>3, <2>3
    <3>2. r \in registered => query[r] \in Queries /\ query[r] # q
      BY <2>3, Asking DEF ListenersOf
    <3>3. r \in registered => view'[query[r]] = view[query[r]]
      BY <1>1, <1>3, <3>2
    <3> QED
      BY <1>2, <2>1, <3>1, <3>3
  <2> QED
    BY <2>2, <2>3
<1>5. listener' \in [Reads -> QueryListeners]
  <2>1. \E f : listener' = [r \in Reads |-> f[r]]
    <3>1. told = [r \in Reads |-> told[r]]
      BY <1>2
    <3>2. CASE listener' = told
      BY <3>1, <3>2
    <3>3. CASE listener' = [r \in Reads |->
                              IF r \in ListenersOf(q)
                              THEN OnViewSnapshot(told[r], Snapshot(v)) ELSE told[r]]
      <4>1. listener' = [r \in Reads |-> listener'[r]]
        BY <3>3
      <4> QED
        BY <4>1
    <3> QED
      BY <1>3, <3>2, <3>3
  <2> QED
    BY <1>4, <2>1
<1>6. AllInformed'
  BY <1>1, <1>3, <1>4 DEF AllInformed
<1>7. /\ view' \in [Queries -> {"none"} \cup Views]
      /\ \A p \in Queries : view'[p] = "none" <=> view[p] = "none"
  BY <1>1, <1>3 DEF AssertionsHold, Views
<1> QED
  BY <1>1, <1>3, <1>4, <1>5, <1>6, <1>7, ToldOnly DEF TypeOK, AssertionsHold

--------------------------------------------------------------------------------
(* The steps that change who is registered.                                *)

\* The listeners of a refused target get an error, and are gone.
LEMMA TargetErrorKeeps ==
    ASSUME ReadInv, NEW q \in Queries, ProcessTargetError(q)
    PROVE  ReadInv'
<1> DEFINE told == Broadcast(listener, registered, "Online")
<1>1. /\ TypeOK /\ AssertionsHold
      /\ listener \in [Reads -> QueryListeners] /\ registered \in SUBSET Reads
      /\ \A r \in registered : Informed(listener[r], state, Snapshot(view[query[r]]))
      /\ view \in [Queries -> {"none"} \cup Views]
  BY DEF ReadInv, TypeOK, AllInformed
<1>2. /\ told \in [Reads -> QueryListeners]
      /\ \A r \in registered : Informed(told[r], "Online", Snapshot(view[query[r]]))
      /\ \A r \in Reads \ registered : told[r] = listener[r]
  BY <1>1, BroadcastInforms
<1> HIDE DEF told
<1>3. /\ UNCHANGED <<query, delivered, muted, jobs, stream, idle>>
      /\ timer' = FALSE /\ failed' = FALSE /\ state' = "Online"
      /\ q \in targets /\ targets' = targets \ {q}
      /\ view' = [view EXCEPT ![q] = "none"]
      /\ registered' = registered \ ListenersOf(q)
      /\ listener' = [r \in Reads |->
                        IF r \in ListenersOf(q) THEN OnError(told[r]) ELSE told[r]]
  BY DEF ProcessTargetError, ClearOnlineStateTimer, appVars, told
<1>4. ASSUME NEW r \in ListenersOf(q)
      PROVE  /\ r \in Reads /\ r \in registered /\ r \notin registered'
             /\ listener'[r] \in QueryListeners
             /\ ErrorLast(listener'[r].events)
  BY <1>1, <1>2, <1>3, HearError DEF ListenersOf, Informed
<1>5. ASSUME NEW r \in Reads \ ListenersOf(q)
      PROVE  /\ listener'[r] \in QueryListeners
             /\ r \in registered => /\ r \in registered'
                                   /\ Informed(listener'[r], "Online", Snapshot(view'[query[r]]))
             /\ r \notin registered => r \notin registered' /\ listener'[r] = listener[r]
  <2>1. listener'[r] = told[r]
    BY <1>3
  <2>2. r \in registered => query[r] \in Queries /\ query[r] # q
    BY Asking DEF ListenersOf
  <2>3. r \in registered => view'[query[r]] = view[query[r]]
    BY <1>1, <1>3, <2>2
  <2> QED
    BY <1>2, <1>3, <2>1, <2>3
<1>6. listener' \in [Reads -> QueryListeners]
  BY <1>3, <1>4, <1>5
<1>7. TypeOK'
  BY <1>1, <1>3, <1>6 DEF TypeOK, Views
<1>8. AllInformed'
  BY <1>1, <1>3, <1>5 DEF AllInformed
<1>9. AssertionsHold'
  BY <1>1, <1>3 DEF AssertionsHold, ListenersOf
<1>10. ASSUME NEW r \in Reads
       PROVE  InPlace(r)'
  <2>1. InPlace(r) /\ TypeOK
    BY DEF ReadInv
  <2>2. CASE r \in ListenersOf(q)
    BY <1>3, <1>4, <2>1, <2>2 DEF InPlace, Queued
  <2>3. CASE r \notin ListenersOf(q) /\ r \in registered
    BY <1>3, <1>5, <2>1, <2>3 DEF InPlace, Queued
  <2>4. CASE r \notin registered
    BY <1>3, <1>5, <2>1, <2>4 DEF InPlace, Queued, ListenersOf
  <2> QED
    BY <2>2, <2>3, <2>4
<1> QED
  BY <1>7, <1>8, <1>9, <1>10 DEF ReadInv

\* A task at the end of the queue.
LEMMA Enqueued ==
    ASSUME TypeOK, NEW kind \in {"add", "remove"}, NEW r \in Reads,
           jobs' = Append(jobs, <<kind, r>>)
    PROVE  /\ jobs' \in Seq({"add", "remove"} \X Reads)
           /\ Len(jobs) \in Nat /\ DOMAIN jobs = 1 .. Len(jobs)
           /\ DOMAIN jobs' = 1 .. (Len(jobs) + 1)
           /\ \A i \in DOMAIN jobs : jobs'[i] = jobs[i]
           /\ jobs'[Len(jobs) + 1] = <<kind, r>>
           /\ \A k, x : Queued(k, x)' <=> Queued(k, x) \/ <<k, x>> = <<kind, r>>
<1>1. jobs \in Seq({"add", "remove"} \X Reads)
  BY DEF TypeOK
<1>2. /\ jobs' \in Seq({"add", "remove"} \X Reads)
      /\ Len(jobs) \in Nat /\ DOMAIN jobs = 1 .. Len(jobs)
      /\ DOMAIN jobs' = 1 .. (Len(jobs) + 1)
      /\ \A i \in DOMAIN jobs : jobs'[i] = jobs[i]
      /\ jobs'[Len(jobs) + 1] = <<kind, r>>
  BY <1>1
<1>3. ASSUME NEW k, NEW x
      PROVE  Queued(k, x)' <=> Queued(k, x) \/ <<k, x>> = <<kind, r>>
  <2>1. Queued(k, x) => Queued(k, x)'
    BY <1>2 DEF Queued
  <2>2. <<k, x>> = <<kind, r>> => Queued(k, x)'
    BY <1>2 DEF Queued
  <2>3. ASSUME Queued(k, x)' PROVE Queued(k, x) \/ <<k, x>> = <<kind, r>>
    <3>1. PICK i \in 1 .. (Len(jobs) + 1) : jobs'[i] = <<k, x>>
      BY <1>2, <2>3 DEF Queued
    <3>2. CASE i = Len(jobs) + 1
      BY <1>2, <3>1, <3>2
    <3>3. CASE i # Len(jobs) + 1
      <4>1. i \in DOMAIN jobs
        BY <1>2, <3>3
      <4> QED
        BY <1>2, <3>1, <4>1 DEF Queued
    <3> QED
      BY <3>2, <3>3
  <2> QED
    BY <2>1, <2>2, <2>3
<1> QED
  BY <1>2, <1>3

\* A call is made: its listener is to be added.
LEMMA CallKeeps ==
    ASSUME ReadInv, ReadAssumption, NEW r \in Reads, NEW q \in Queries, getDocuments(r, q)
    PROVE  ReadInv'
<1>1. TypeOK /\ AllInformed /\ AssertionsHold /\ InPlace(r)
  BY DEF ReadInv
<1>2. /\ query[r] = NoQuery /\ query' = [query EXCEPT ![r] = q]
      /\ jobs' = Append(jobs, <<"add", r>>)
      /\ UNCHANGED <<delivered, muted, registered, listener, view, stream, idle, targets,
                     state, failed, timer>>
  BY DEF getDocuments, streamVars, trackerVars
<1>3. /\ r \notin registered /\ ~ Queued("add", r)
      /\ listener[r].events = << >> /\ delivered[r] = << >>
  BY <1>1, <1>2 DEF InPlace
<1>4. /\ jobs' \in Seq({"add", "remove"} \X Reads)
      /\ Len(jobs) \in Nat /\ DOMAIN jobs = 1 .. Len(jobs)
      /\ DOMAIN jobs' = 1 .. (Len(jobs) + 1)
      /\ \A i \in DOMAIN jobs : jobs'[i] = jobs[i]
      /\ jobs'[Len(jobs) + 1] = <<"add", r>>
      /\ \A k, x : Queued(k, x)' <=> Queued(k, x) \/ <<k, x>> = <<"add", r>>
  BY <1>1, <1>2, Enqueued
<1>5. /\ query' \in [Reads -> Queries \cup {NoQuery}] /\ query'[r] = q
      /\ \A x \in Reads : x # r => query'[x] = query[x]
      /\ q # NoQuery
  BY <1>1, <1>2 DEF TypeOK, ReadAssumption
<1>6. TypeOK'
  BY <1>1, <1>2, <1>4, <1>5 DEF TypeOK
<1>7. \A p : ListenersOf(p)' = ListenersOf(p)
  BY <1>1, <1>2, <1>3, <1>5 DEF ListenersOf, TypeOK
<1>8. AllInformed'
  BY <1>1, <1>2, <1>3, <1>5 DEF AllInformed, TypeOK
<1>9. AssertionsHold'
  BY <1>1, <1>2, <1>7 DEF AssertionsHold, Started
<1>10. ASSUME NEW x \in Reads
       PROVE  InPlace(x)'
  <2>1. InPlace(x)
    BY DEF ReadInv
  <2>2. CASE x = r
    <3>1. \A i, j \in DOMAIN jobs' : jobs'[i] = <<"add", r>> /\ jobs'[j] = <<"add", r>> => i = j
      <4>1. \A i \in DOMAIN jobs' : jobs'[i] = <<"add", r>> => i = Len(jobs) + 1
        <5>1. SUFFICES ASSUME NEW i \in DOMAIN jobs', jobs'[i] = <<"add", r>>, i # Len(jobs) + 1
                       PROVE  FALSE
          OBVIOUS
        <5>2. i \in DOMAIN jobs
          BY <1>4, <5>1
        <5> QED
          BY <1>3, <1>4, <5>1, <5>2 DEF Queued
      <4> QED
        BY <4>1
    <3>2. ErrorLast(<< >>)
      BY DEF ErrorLast
    <3>3. /\ query'[r] # NoQuery /\ r \notin registered'
          /\ listener'[r].events = << >> /\ delivered'[r] = << >>
      BY <1>2, <1>3, <1>5
    <3> QED
      BY <2>2, <3>1, <3>2, <3>3 DEF InPlace
  <2>3. CASE x # r
    <3>1. \A i \in DOMAIN jobs' : jobs'[i] = <<"add", x>> => i \in DOMAIN jobs
      BY <1>4, <2>3
    <3>2. \A i, j \in DOMAIN jobs' : jobs'[i] = <<"add", x>> /\ jobs'[j] = <<"add", x>> => i = j
      BY <1>4, <2>1, <3>1 DEF InPlace
    <3>3. \A k : Queued(k, x)' <=> Queued(k, x)
      BY <1>4, <2>3
    <3> QED
      BY <1>2, <1>5, <2>1, <2>3, <3>2, <3>3 DEF InPlace
  <2> QED
    BY <2>2, <2>3
<1> QED
  BY <1>6, <1>8, <1>9, <1>10 DEF ReadInv

\* The main queue runs an event: a first snapshot silences its listener and has it
\* removed, and a first error is the last event of a listener that is gone.
LEMMA EventKeeps ==
    ASSUME ReadInv, NEW r \in Reads, OnEvent(r)
    PROVE  ReadInv'
<1>1. TypeOK /\ AllInformed /\ AssertionsHold /\ InPlace(r)
  BY DEF ReadInv
<1> DEFINE rest == Tail(listener[r].events)
<1>2. /\ listener[r].events # << >>
      /\ listener' = [listener EXCEPT ![r].events = rest]
      /\ UNCHANGED <<query, registered, view, stream, idle, targets, state, failed, timer>>
      /\ \/ r \in muted /\ UNCHANGED <<delivered, muted, jobs>>
         \/ /\ r \notin muted
            /\ delivered' = [delivered EXCEPT ![r] = Append(@, Event(r))]
            /\ \/ Event(r) = "error" /\ UNCHANGED <<muted, jobs>>
               \/ /\ Event(r) # "error"
                  /\ muted' = muted \cup {r}
                  /\ jobs' = Append(jobs, <<"remove", r>>)
  BY DEF OnEvent, Remove, streamVars, trackerVars
<1>3. /\ listener[r] \in QueryListeners /\ listener \in [Reads -> QueryListeners]
      /\ listener[r].events \in Seq(Events)
  BY <1>1 DEF TypeOK, QueryListeners
<1>4. /\ rest \in Seq(Events) /\ Event(r) \in Events
      /\ Clean(listener[r].events) => Clean(rest) /\ Event(r) # "error"
      /\ ErrorLast(listener[r].events) => ErrorLast(rest)
      /\ ErrorLast(listener[r].events) /\ Event(r) = "error" => rest = << >>
  BY <1>2, <1>3, TailOfEvents DEF Event
<1> HIDE DEF rest
<1>5. /\ listener' \in [Reads -> QueryListeners]
      /\ listener'[r] = [listener[r] EXCEPT !.events = rest]
      /\ \A x \in Reads : x # r => listener'[x] = listener[x]
  BY <1>2, <1>3, <1>4 DEF QueryListeners
<1>6. /\ listener'[r].events = rest
      /\ listener'[r].seen = listener[r].seen
      /\ listener'[r].raised = listener[r].raised
      /\ listener'[r].believed = listener[r].believed
  BY <1>3, <1>5 DEF QueryListeners
<1>7. AllInformed'
  BY <1>1, <1>2, <1>4, <1>5, <1>6 DEF AllInformed, Informed, TypeOK
<1>8. AssertionsHold'
  BY <1>1, <1>2 DEF AssertionsHold, ListenersOf, Started
<1>9. query[r] # NoQuery /\ ~ Queued("add", r)
  BY <1>1, <1>2 DEF InPlace
<1>10. r \notin registered => ErrorLast(rest)
  BY <1>1, <1>4 DEF InPlace
<1>11. CASE r \in muted
  <2>1. UNCHANGED <<delivered, muted, jobs>>
    BY <1>2, <1>11
  <2>2. TypeOK'
    BY <1>1, <1>2, <1>5, <2>1 DEF TypeOK
  <2>3. InPlace(r)'
    BY <1>1, <1>2, <1>6, <1>9, <1>10, <1>11, <2>1 DEF InPlace, Queued
  <2>4. ASSUME NEW x \in Reads, x # r PROVE InPlace(x)'
    <3>1. InPlace(x)
      BY DEF ReadInv
    <3> QED
      BY <1>2, <1>5, <2>1, <2>4, <3>1 DEF InPlace, Queued
  <2> QED
    BY <1>7, <1>8, <2>2, <2>3, <2>4 DEF ReadInv
<1>12. CASE r \notin muted
  <2>1. delivered[r] = << >>
    BY <1>1, <1>2, <1>12 DEF InPlace
  <2>2. /\ delivered' \in [Reads -> Seq(Events)]
        /\ delivered'[r] = Append(<< >>, Event(r))
        /\ \A x \in Reads : x # r => delivered'[x] = delivered[x]
    <3>1. delivered' = [delivered EXCEPT ![r] = Append(<< >>, Event(r))]
      BY <1>2, <1>12, <2>1
    <3>2. Append(<< >>, Event(r)) \in Seq(Events)
      BY <1>4
    <3>3. delivered \in [Reads -> Seq(Events)]
      BY <1>1 DEF TypeOK
    <3> QED
      BY <3>1, <3>2, <3>3
  <2>3. Len(delivered'[r]) = 1
    BY <1>4, <2>2
  <2>4. CASE Event(r) = "error"
    <3>1. UNCHANGED <<muted, jobs>>
      BY <1>2, <1>12, <2>4
    <3>2. r \notin registered
      BY <1>1, <1>4, <2>4 DEF AllInformed, Informed
    <3>3. rest = << >>
      BY <1>1, <1>4, <2>4, <3>2 DEF InPlace
    <3>4. TypeOK'
      BY <1>1, <1>2, <1>5, <2>2, <3>1 DEF TypeOK
    <3>5. InPlace(r)'
      BY <1>1, <1>2, <1>6, <1>9, <1>10, <2>3, <3>1, <3>2, <3>3 DEF InPlace, Queued
    <3>6. ASSUME NEW x \in Reads, x # r PROVE InPlace(x)'
      <4>1. InPlace(x)
        BY DEF ReadInv
      <4> QED
        BY <1>2, <1>5, <2>2, <3>1, <3>6, <4>1 DEF InPlace, Queued
    <3> QED
      BY <1>7, <1>8, <3>4, <3>5, <3>6 DEF ReadInv
  <2>5. CASE Event(r) # "error"
    <3>1. muted' = muted \cup {r} /\ jobs' = Append(jobs, <<"remove", r>>)
      BY <1>2, <1>12, <2>5
    <3>2. /\ jobs' \in Seq({"add", "remove"} \X Reads)
          /\ Len(jobs) \in Nat /\ DOMAIN jobs = 1 .. Len(jobs)
          /\ DOMAIN jobs' = 1 .. (Len(jobs) + 1)
          /\ \A i \in DOMAIN jobs : jobs'[i] = jobs[i]
          /\ jobs'[Len(jobs) + 1] = <<"remove", r>>
          /\ \A k, x : Queued(k, x)' <=> Queued(k, x) \/ <<k, x>> = <<"remove", r>>
      BY <1>1, <3>1, Enqueued
    <3>3. TypeOK'
      BY <1>1, <1>2, <1>5, <2>2, <3>1, <3>2 DEF TypeOK
    <3>4. ASSUME NEW x \in Reads
          PROVE  /\ \A i, j \in DOMAIN jobs' :
                      jobs'[i] = <<"add", x>> /\ jobs'[j] = <<"add", x>> => i = j
                 /\ Queued("add", x)' <=> Queued("add", x)
      <4>1. InPlace(x)
        BY DEF ReadInv
      <4>2. \A i \in DOMAIN jobs' : jobs'[i] = <<"add", x>> => i \in DOMAIN jobs
        BY <3>2
      <4>3. \A i, j \in DOMAIN jobs' :
              jobs'[i] = <<"add", x>> /\ jobs'[j] = <<"add", x>> => i = j
        BY <3>2, <4>1, <4>2 DEF InPlace
      <4> QED
        BY <3>2, <4>3
    <3>5. InPlace(r)'
      <4>1. r \in muted' /\ Queued("remove", r)'
        BY <3>1, <3>2
      <4>2. Queued("add", r)' <=> Queued("add", r)
        BY <3>4
      <4> QED
        BY <1>2, <1>6, <1>9, <1>10, <2>3, <3>4, <4>1, <4>2 DEF InPlace
    <3>6. ASSUME NEW x \in Reads, x # r PROVE InPlace(x)'
      <4>1. InPlace(x)
        BY DEF ReadInv
      <4>2. \A k : Queued(k, x)' <=> Queued(k, x)
        BY <3>2, <3>6
      <4>3. x \in muted' <=> x \in muted
        BY <3>1, <3>6
      <4> QED
        BY <1>2, <1>5, <2>2, <3>4, <3>6, <4>1, <4>2, <4>3 DEF InPlace
    <3> QED
      BY <1>7, <1>8, <3>3, <3>5, <3>6 DEF ReadInv
  <2> QED
    BY <2>4, <2>5
<1> QED
  BY <1>11, <1>12

\* The first task is taken from the queue: what else was queued still is.
LEMMA Dequeued ==
    ASSUME TypeOK, NEW kind, NEW r, NextJob(kind, r)
    PROVE  /\ r \in Reads
           /\ Queued(kind, r)
           /\ jobs' \in Seq({"add", "remove"} \X Reads)
           /\ \A k, x : Queued(k, x)' => Queued(k, x)
           /\ \A k, x : Queued(k, x) /\ <<k, x>> # <<kind, r>> => Queued(k, x)'
           /\ \A x : (\A i, j \in DOMAIN jobs :
                        jobs[i] = <<"add", x>> /\ jobs[j] = <<"add", x>> => i = j) =>
                /\ \A i, j \in DOMAIN jobs' :
                        jobs'[i] = <<"add", x>> /\ jobs'[j] = <<"add", x>> => i = j
                /\ <<kind, r>> = <<"add", x>> => ~ Queued("add", x)'
<1>1. /\ jobs \in Seq({"add", "remove"} \X Reads) /\ jobs # << >>
      /\ Head(jobs) = <<kind, r>> /\ jobs' = Tail(jobs)
  BY DEF TypeOK, NextJob
<1>2. /\ jobs' \in Seq({"add", "remove"} \X Reads)
      /\ Len(jobs) \in Nat /\ Len(jobs) >= 1
      /\ DOMAIN jobs = 1 .. Len(jobs)
      /\ DOMAIN jobs' = 1 .. (Len(jobs) - 1)
      /\ \A i \in DOMAIN jobs' : i + 1 \in DOMAIN jobs /\ jobs'[i] = jobs[i + 1]
      /\ 1 \in DOMAIN jobs /\ jobs[1] = <<kind, r>>
      /\ jobs[1] \in {"add", "remove"} \X Reads
  BY <1>1
<1>3. r \in Reads /\ Queued(kind, r)
  BY <1>2 DEF Queued
<1>4. \A k, x : Queued(k, x)' => Queued(k, x)
  BY <1>2 DEF Queued
<1>5. ASSUME NEW k, NEW x, Queued(k, x), <<k, x>> # <<kind, r>>
      PROVE  Queued(k, x)'
  <2>1. PICK i \in DOMAIN jobs : jobs[i] = <<k, x>>
    BY <1>5 DEF Queued
  <2>2. i - 1 \in DOMAIN jobs' /\ (i - 1) + 1 = i
    BY <1>2, <1>5, <2>1
  <2>3. jobs'[i - 1] = <<k, x>>
    BY <1>2, <2>1, <2>2
  <2> QED
    BY <2>2, <2>3 DEF Queued
<1>6. ASSUME NEW x,
             \A i, j \in DOMAIN jobs :
                jobs[i] = <<"add", x>> /\ jobs[j] = <<"add", x>> => i = j
      PROVE  /\ \A i, j \in DOMAIN jobs' :
                    jobs'[i] = <<"add", x>> /\ jobs'[j] = <<"add", x>> => i = j
             /\ <<kind, r>> = <<"add", x>> => ~ Queued("add", x)'
  <2>1. ASSUME NEW i \in DOMAIN jobs', NEW j \in DOMAIN jobs',
               jobs'[i] = <<"add", x>>, jobs'[j] = <<"add", x>>
        PROVE  i = j
    <3>1. i + 1 = j + 1
      BY <1>2, <1>6, <2>1
    <3> QED
      BY <1>2, <3>1
  <2>2. ASSUME <<kind, r>> = <<"add", x>>, Queued("add", x)' PROVE FALSE
    <3>1. PICK i \in DOMAIN jobs' : jobs'[i] = <<"add", x>>
      BY <2>2 DEF Queued
    <3>2. i + 1 = 1
      BY <1>2, <1>6, <2>2, <3>1
    <3> QED
      BY <1>2, <3>1, <3>2
  <2> QED
    BY <2>1, <2>2
<1> QED
  BY <1>2, <1>3, <1>4, <1>5, <1>6

\* A listener leaves, by itself or because an error has taken it already; the last of
\* a query takes view and target along, and the last of all the online state.
LEMMA RemoveKeeps ==
    ASSUME ReadInv, NEW r \in Reads, RemoveQueryListener(r)
    PROVE  ReadInv'
<1>1. TypeOK /\ AllInformed /\ AssertionsHold /\ InPlace(r)
  BY DEF ReadInv
<1>2. /\ NextJob("remove", r)
      /\ registered' = registered \ {r}
      /\ UNCHANGED <<query, delivered, muted>>
  BY DEF RemoveQueryListener, appVars
<1>3. /\ jobs' \in Seq({"add", "remove"} \X Reads)
      /\ \A k, x : Queued(k, x)' => Queued(k, x)
      /\ \A k, x : Queued(k, x) /\ <<k, x>> # <<"remove", r>> => Queued(k, x)'
      /\ \A x : (\A i, j \in DOMAIN jobs :
                   jobs[i] = <<"add", x>> /\ jobs[j] = <<"add", x>> => i = j) =>
           \A i, j \in DOMAIN jobs' :
                   jobs'[i] = <<"add", x>> /\ jobs'[j] = <<"add", x>> => i = j
  BY <1>1, <1>2, Dequeued
<1>4. listener' = listener
  BY DEF RemoveQueryListener, StopListening
<1>5. ASSUME NEW x \in Reads
      PROVE  InPlace(x)'
  <2>1. InPlace(x)
    BY DEF ReadInv
  <2>2. CASE x = r
    <3>1. ErrorLast(listener[r].events)
      <4>1. listener[r].events \in Seq(Events)
        BY <1>1 DEF TypeOK, QueryListeners
      <4>2. r \in registered => Clean(listener[r].events)
        BY <1>1 DEF AllInformed, Informed
      <4> QED
        BY <1>1, <4>1, <4>2, ErrorAppended DEF InPlace
    <3>2. Queued("add", r)' => Queued("add", r)
      BY <1>3
    <3>3. r \notin registered'
      BY <1>2
    <3> QED
      BY <1>2, <1>3, <1>4, <2>1, <2>2, <3>1, <3>2, <3>3 DEF InPlace
  <2>3. CASE x # r
    <3>1. x \in registered' <=> x \in registered
      BY <1>2, <2>3
    <3>2. /\ Queued("add", x)' => Queued("add", x)
          /\ Queued("remove", x) => Queued("remove", x)'
      BY <1>3, <2>3
    <3> QED
      BY <1>2, <1>3, <1>4, <2>1, <3>1, <3>2 DEF InPlace
  <2> QED
    BY <2>2, <2>3
<1>6. CASE ListenersOf(query[r]) # {r}
  <2>1. UNCHANGED <<view, stream, idle, targets, state, failed, timer>>
    BY <1>6 DEF RemoveQueryListener, streamVars, trackerVars
  <2>2. TypeOK'
    BY <1>1, <1>2, <1>3, <1>4, <2>1 DEF TypeOK
  <2>3. AllInformed'
    BY <1>1, <1>2, <1>4, <2>1 DEF AllInformed
  <2>4. ASSUME NEW q \in Queries
        PROVE  ListenersOf(q)' # {} <=> ListenersOf(q) # {}
    <3>1. ListenersOf(q)' = ListenersOf(q) \ {r}
      BY <1>2 DEF ListenersOf
    <3>2. r \in ListenersOf(q) => ListenersOf(q) = ListenersOf(query[r])
      BY DEF ListenersOf
    <3> QED
      BY <1>6, <3>1, <3>2
  <2>5. AssertionsHold'
    BY <1>1, <2>1, <2>4 DEF AssertionsHold, Started
  <2> QED
    BY <1>5, <2>2, <2>3, <2>5 DEF ReadInv
<1>7. CASE ListenersOf(query[r]) = {r}
  <2> DEFINE q == query[r]
  <2>1. r \in registered /\ q \in Queries
    <3>1. r \in registered
      BY <1>7 DEF ListenersOf
    <3> QED
      BY <3>1, Asking
  <2>2. /\ view' = [view EXCEPT ![q] = "none"]
        /\ targets' = targets \ {q}
        /\ stream' = stream
        /\ \/ /\ targets' = {} /\ stream # "open"
              /\ timer' = FALSE /\ failed' = FALSE /\ state' = "Unknown" /\ idle' = idle
           \/ /\ ~ (targets' = {} /\ stream # "open")
              /\ idle' = (targets' = {})
              /\ UNCHANGED <<state, failed, timer>>
    BY <1>7 DEF RemoveQueryListener, StopListening, ClearOnlineStateTimer, trackerVars
  <2>3. ASSUME NEW p \in Queries
        PROVE  /\ p \in targets' <=> view'[p] # "none"
               /\ p \in targets' <=> ListenersOf(p)' # {}
    <3>1. view'[p] = IF p = q THEN "none" ELSE view[p]
      BY <1>1, <2>2 DEF TypeOK
    <3>2. ListenersOf(p)' = ListenersOf(p) \ {r}
      BY <1>2 DEF ListenersOf
    <3>3. p # q => r \notin ListenersOf(p)
      BY DEF ListenersOf
    <3>4. p = q => ListenersOf(p)' = {}
      BY <1>7, <3>2
    <3> QED
      BY <1>1, <2>2, <3>1, <3>2, <3>3, <3>4 DEF AssertionsHold
  <2>4. TypeOK'
    <3>1. view' \in [Queries -> {"none"} \cup Views]
      BY <1>1, <2>2 DEF TypeOK
    <3>2. idle' \in BOOLEAN /\ failed' \in BOOLEAN /\ timer' \in BOOLEAN /\ state' \in States
      BY <1>1, <2>2 DEF TypeOK
    <3> QED
      BY <1>1, <1>2, <1>3, <1>4, <2>2, <3>1, <3>2 DEF TypeOK
  <2>5. AssertionsHold'
    <3>1. CASE targets' = {} /\ stream # "open"
      <4>1. timer' = FALSE /\ state' = "Unknown" /\ idle' = idle /\ stream' = stream
        BY <2>2, <3>1
      <4>2. idle => stream = "open"
        BY <1>1 DEF AssertionsHold
      <4> QED
        BY <2>3, <3>1, <4>1, <4>2 DEF AssertionsHold
    <3>2. CASE ~ (targets' = {} /\ stream # "open")
      <4>1. UNCHANGED <<state, failed, timer, stream>>
        BY <2>2, <3>2
      <4>2. idle' => targets' = {} /\ stream' = "open"
        BY <2>2, <3>2
      <4>3. /\ timer' => state' = "Unknown" /\ ~ failed' /\ Started'
            /\ state' = "Online" => ~ failed'
        BY <1>1, <4>1 DEF AssertionsHold, Started
      <4> QED
        BY <2>3, <4>2, <4>3 DEF AssertionsHold
    <3> QED
      BY <3>1, <3>2
  <2>6. ASSUME NEW x \in registered'
        PROVE  /\ x \in registered /\ query[x] \in Queries
               /\ query[x] # q /\ view'[query[x]] = view[query[x]]
               /\ query[x] \in targets'
    <3>1. x \in registered /\ x # r /\ query[x] \in Queries
      BY <1>2, <2>6, Asking
    <3>2. query[x] # q
      BY <1>7, <3>1 DEF ListenersOf
    <3>3. query[x] \in targets
      BY <1>1, <3>1 DEF AssertionsHold, ListenersOf
    <3> QED
      BY <1>1, <2>2, <3>1, <3>2, <3>3 DEF TypeOK
  <2>7. AllInformed'
    <3>1. CASE targets' = {}
      BY <2>6, <3>1 DEF AllInformed
    <3>2. CASE targets' # {}
      BY <1>1, <1>2, <1>4, <2>2, <2>6, <3>2 DEF AllInformed
    <3> QED
      BY <3>1, <3>2
  <2> QED
    BY <1>5, <2>4, <2>5, <2>7 DEF ReadInv
<1> QED
  BY <1>6, <1>7

\* A listener comes, and hears of the online state before its first snapshot; the
\* first of a query makes its view and its target, and may have to start the stream.
LEMMA AddKeeps ==
    ASSUME ReadInv, NEW r \in Reads, AddQueryListener(r)
    PROVE  ReadInv'
<1> DEFINE q == query[r]
           told == [listener EXCEPT ![r] =
                      OnViewSnapshot(OnOnlineStateChanged(@, state), Snapshot(view[q]))]
<1>1. /\ TypeOK /\ AllInformed /\ AssertionsHold /\ InPlace(r)
      /\ registered \subseteq Reads
      /\ view \in [Queries -> {"none"} \cup Views]
  BY DEF ReadInv, TypeOK
<1>2. /\ NextJob("add", r)
      /\ registered' = registered \cup {r}
      /\ UNCHANGED <<query, delivered, muted>>
      /\ \/ view[q] # "none" /\ listener' = told
            /\ UNCHANGED <<view, stream, idle, targets, state, failed, timer>>
         \/ view[q] = "none" /\ Listen(q, told)
  BY DEF AddQueryListener, appVars, streamVars, trackerVars
<1>3. /\ Queued("add", r) /\ ~ Queued("add", r)'
      /\ jobs' \in Seq({"add", "remove"} \X Reads)
      /\ \A k, x : Queued(k, x)' => Queued(k, x)
      /\ \A k, x : Queued(k, x) /\ <<k, x>> # <<"add", r>> => Queued(k, x)'
      /\ \A x : (\A i, j \in DOMAIN jobs :
                   jobs[i] = <<"add", x>> /\ jobs[j] = <<"add", x>> => i = j) =>
           \A i, j \in DOMAIN jobs' :
                   jobs'[i] = <<"add", x>> /\ jobs'[j] = <<"add", x>> => i = j
  BY <1>1, <1>2, Dequeued DEF InPlace
<1>4. /\ r \notin registered /\ q # NoQuery /\ q \in Queries
      /\ listener[r].events = << >> /\ delivered[r] = << >>
  BY <1>1, <1>3 DEF InPlace, TypeOK
<1>5. /\ told \in [Reads -> QueryListeners]
      /\ Informed(told[r], state, Snapshot(view[q]))
      /\ \A x \in Reads : x # r => told[x] = listener[x]
  <2>1. listener \in [Reads -> QueryListeners] /\ state \in States
    BY <1>1 DEF TypeOK
  <2> DEFINE l == OnOnlineStateChanged(listener[r], state)
             m == OnViewSnapshot(l, Snapshot(view[q]))
  <2>2. Clean(listener[r].events)
    BY <1>4 DEF Clean
  <2>3. l \in QueryListeners /\ l.believed = state /\ Clean(l.events)
    BY <2>1, <2>2, HearState
  <2> HIDE DEF l
  <2>4. /\ m \in QueryListeners /\ m.believed = state /\ Clean(m.events)
        /\ m.seen = Snapshot(view[q])
        /\ ShouldRaiseInitialEvent(Snapshot(view[q]), state) => m.raised
    BY <2>3, HearSnapshot, SnapshotKinds
  <2>5. told = [listener EXCEPT ![r] = m]
    BY DEF l
  <2> HIDE DEF m, told
  <2>6. Informed(m, state, Snapshot(view[q]))
    BY <2>4 DEF Informed, ShouldRaiseInitialEvent
  <2> QED
    BY <2>1, <2>4, <2>5, <2>6
<1> HIDE DEF told
<1>6. \A x \in registered' : x \in Reads /\ query[x] \in Queries
                             /\ Informed(told[x], state, Snapshot(view[query[x]]))
  BY <1>1, <1>2, <1>4, <1>5, Asking DEF AllInformed
<1>7. \A p \in Queries : /\ p = q => ListenersOf(p)' # {}
                         /\ p # q => ListenersOf(p)' = ListenersOf(p)
  BY <1>2, <1>4 DEF ListenersOf
\* What all the cases have in common.
<1>8. ASSUME listener' \in [Reads -> QueryListeners],
             \A x \in Reads : x \notin registered' => listener'[x] = listener[x]
      PROVE  \A x \in Reads : InPlace(x)'
  <2> SUFFICES ASSUME NEW x \in Reads PROVE InPlace(x)'
    OBVIOUS
  <2>1. InPlace(x)
    BY DEF ReadInv
  <2>2. CASE x = r
    <3>1. query'[r] # NoQuery /\ delivered'[r] = << >> /\ r \in registered'
      BY <1>2, <1>4
    <3> QED
      BY <1>3, <2>1, <2>2, <3>1 DEF InPlace
  <2>3. CASE x # r
    <3>1. x \in registered' <=> x \in registered
      BY <1>2, <2>3
    <3>2. /\ Queued("add", x)' => Queued("add", x)
          /\ Queued("remove", x) => Queued("remove", x)'
      BY <1>3, <2>3
    <3>3. x \notin registered => listener'[x] = listener[x]
      BY <1>8, <3>1
    <3>4. x \in registered => ~ Queued("add", x) /\ query[x] # NoQuery
      BY <2>1 DEF InPlace
    <3>5. delivered[x] # << >> => x \in muted \/ x \notin registered
      BY <2>1 DEF InPlace
    <3> QED
      BY <1>2, <1>3, <2>1, <3>1, <3>2, <3>3, <3>4, <3>5 DEF InPlace
  <2> QED
    BY <2>2, <2>3
<1>9. CASE view[q] # "none"
  <2>1. /\ listener' = told
        /\ UNCHANGED <<view, stream, idle, targets, state, failed, timer>>
    BY <1>2, <1>9
  <2>2. TypeOK'
    BY <1>1, <1>2, <1>3, <1>5, <2>1 DEF TypeOK
  <2>3. AllInformed'
    BY <1>2, <1>6, <2>1 DEF AllInformed
  <2>4. AssertionsHold'
    <3>1. q \in targets
      BY <1>1, <1>4, <1>9 DEF AssertionsHold
    <3>2. ASSUME NEW p \in Queries
          PROVE  /\ p \in targets <=> view[p] # "none"
                 /\ p \in targets <=> ListenersOf(p)' # {}
      <4>1. CASE p = q
        BY <1>1, <1>7, <3>1, <4>1 DEF AssertionsHold
      <4>2. CASE p # q
        BY <1>1, <1>7, <4>2 DEF AssertionsHold
      <4> QED
        BY <4>1, <4>2
    <3> QED
      BY <1>1, <2>1, <3>2 DEF AssertionsHold, Started
  <2>5. \A x \in Reads : x \notin registered' => listener'[x] = listener[x]
    BY <1>2, <1>5, <2>1
  <2> QED
    BY <1>5, <1>8, <2>1, <2>2, <2>3, <2>4, <2>5 DEF ReadInv
<1>10. CASE view[q] = "none"
  <2>1. /\ view' = [view EXCEPT ![q] = "local"]
        /\ targets' = targets \cup {q}
        /\ \/ /\ Started
              /\ listener' = told
              /\ idle' = (idle /\ stream # "open")
              /\ UNCHANGED <<stream, state, failed, timer>>
           \/ ~ Started /\ StartWatchStream(told, registered') /\ UNCHANGED idle
    BY <1>2, <1>10 DEF Listen, trackerVars
  <2>2. /\ view' \in [Queries -> {"none"} \cup Views]
        /\ \A p \in Queries : Snapshot(view'[p]) = Snapshot(view[p])
        /\ \A p \in Queries : view'[p] # "none" <=> view[p] # "none" \/ p = q
    BY <1>1, <1>4, <1>10, <2>1 DEF Views, Snapshot
  <2>3. ASSUME NEW p \in Queries
        PROVE  /\ p \in targets' <=> view'[p] # "none"
               /\ p \in targets' <=> ListenersOf(p)' # {}
    <3>1. /\ p \in targets <=> ListenersOf(p) # {}
          /\ p \in targets <=> view[p] # "none"
      BY <1>1 DEF AssertionsHold
    <3>2. p \in targets' <=> p \in targets \/ p = q
      BY <2>1
    <3>3. CASE p = q
      BY <1>7, <2>2, <3>2, <3>3
    <3>4. CASE p # q
      BY <1>7, <2>2, <3>1, <3>2, <3>4
    <3> QED
      BY <3>3, <3>4
  <2>4. targets' \subseteq Queries
    BY <1>1, <1>4, <2>1 DEF TypeOK
  <2>5. /\ idle \in BOOLEAN /\ failed \in BOOLEAN /\ timer \in BOOLEAN /\ state \in States
        /\ stream \in {"initial", "error", "backoff", "starting", "open"}
        /\ idle => stream = "open"
        /\ timer => state = "Unknown" /\ ~ failed /\ Started
        /\ state = "Online" => ~ failed
    BY <1>1 DEF TypeOK, AssertionsHold
  <2>6. ASSUME listener' \in [Reads -> QueryListeners],
               \A x \in Reads : x \notin registered' => listener'[x] = listener[x],
               \A x \in registered' : Informed(listener'[x], state', Snapshot(view[query[x]])),
               idle' = FALSE, failed' = failed, timer' \in BOOLEAN, state' \in States,
               stream' \in {"initial", "error", "backoff", "starting", "open"},
               timer' => state' = "Unknown" /\ ~ failed /\ Started',
               state' = "Online" => ~ failed
        PROVE  ReadInv'
    <3>1. TypeOK'
      BY <1>1, <1>2, <1>3, <2>2, <2>4, <2>5, <2>6 DEF TypeOK
    <3>2. AllInformed'
      BY <1>2, <1>6, <2>2, <2>6 DEF AllInformed
    <3>3. AssertionsHold'
      BY <2>3, <2>6 DEF AssertionsHold
    <3> QED
      BY <1>8, <2>6, <3>1, <3>2, <3>3 DEF ReadInv
  <2>7. CASE Started
    <3>1. /\ listener' = told /\ UNCHANGED <<stream, state, failed, timer>>
          /\ idle' = FALSE
      BY <2>1, <2>5, <2>7
    <3>2. Started'
      BY <2>7, <3>1 DEF Started
    <3>3. \A x \in Reads : x \notin registered' => listener'[x] = listener[x]
      BY <1>2, <1>5, <3>1
    <3> QED
      BY <1>5, <1>6, <2>5, <2>6, <3>1, <3>2, <3>3
  <2>8. CASE ~ Started
    <3>1. /\ HandleWatchStreamStart(told, registered')
          /\ stream' \in {"backoff", "starting"}
          /\ Started' /\ idle' = FALSE /\ ~ timer
      BY <2>1, <2>5, <2>8 DEF StartWatchStream, Started
    <3>2. CASE failed
      <4>1. listener' = told /\ UNCHANGED <<failed, state, timer>>
        BY <3>1, <3>2 DEF HandleWatchStreamStart
      <4>2. \A x \in Reads : x \notin registered' => listener'[x] = listener[x]
        BY <1>2, <1>5, <4>1
      <4> QED
        BY <1>5, <1>6, <2>5, <2>6, <3>1, <4>1, <4>2
    <3>3. CASE ~ failed
      <4>1. /\ listener' = Broadcast(told, registered', "Unknown")
            /\ state' = "Unknown" /\ timer' = TRUE /\ failed' = failed
        BY <3>1, <3>3 DEF HandleWatchStreamStart
      <4>2. registered' \in SUBSET Reads
        BY <1>1, <1>2
      <4>3. /\ listener' \in [Reads -> QueryListeners]
            /\ \A x \in registered' :
                  Informed(listener'[x], "Unknown", Snapshot(view[query[x]]))
            /\ \A x \in Reads \ registered' : listener'[x] = told[x]
        BY <1>1, <1>5, <1>6, <4>1, <4>2, BroadcastInforms
      <4>4. \A x \in Reads : x \notin registered' => listener'[x] = listener[x]
        BY <1>2, <1>5, <4>3
      <4> QED
        BY <2>5, <2>6, <3>1, <3>3, <4>1, <4>3, <4>4
    <3> QED
      BY <2>5, <3>2, <3>3
  <2> QED
    BY <2>7, <2>8
<1> QED
  BY <1>9, <1>10

--------------------------------------------------------------------------------
(* The theorems.                                                           *)

LEMMA InitKeeps == Init => ReadInv
<1> SUFFICES ASSUME Init PROVE ReadInv
  OBVIOUS
<1>1. << >> \in Seq(Events) /\ << >> \in Seq({"add", "remove"} \X Reads)
  OBVIOUS
<1>2. NewListener \in QueryListeners
  BY <1>1 DEF NewListener, QueryListeners
<1>3. TypeOK
  BY <1>1, <1>2 DEF Init, TypeOK, Views
<1>4. AllInformed
  BY DEF Init, AllInformed
<1>5. AssertionsHold
  BY DEF Init, AssertionsHold, ListenersOf
<1>6. ASSUME NEW r \in Reads PROVE InPlace(r)
  <2>1. /\ query[r] = NoQuery /\ r \notin registered /\ delivered[r] = << >>
        /\ listener[r].events = << >> /\ jobs = << >>
    BY DEF Init, NewListener
  <2>2. \A k : ~ Queued(k, r)
    BY <2>1 DEF Queued
  <2>3. ErrorLast(<< >>)
    BY DEF ErrorLast
  <2>4. \A i, j \in DOMAIN jobs : jobs[i] = <<"add", r>> /\ jobs[j] = <<"add", r>> => i = j
    BY <2>1
  <2> QED
    BY <2>1, <2>2, <2>3, <2>4 DEF InPlace
<1> QED
  BY <1>3, <1>4, <1>5, <1>6 DEF ReadInv

\* The new process starts in an initial state.
LEMMA FinishKeeps == ReadInv /\ OnWatchStreamFinish => ReadInv'
<1> SUFFICES ASSUME ReadInv, OnWatchStreamFinish PROVE ReadInv'
  OBVIOUS
<1>1. CASE targets # {}
  <2>1. Init'
    BY <1>1 DEF OnWatchStreamFinish, ProcessEnds, Init
  <2> QED
    BY <2>1, InitKeeps, PTL
<1>2. CASE targets = {}
  BY <1>2, UpdateKeeps DEF OnWatchStreamFinish, appVars
<1> QED
  BY <1>1, <1>2

LEMMA CloseKeeps == ReadInv /\ OnWatchStreamClose => ReadInv'
BY ErrorKeeps, FinishKeeps DEF OnWatchStreamClose

LEMMA StepKeeps == ReadInv /\ [Next]_vars => ReadInv'
<1> SUFFICES ASSUME ReadInv, [Next]_vars PROVE ReadInv'
  OBVIOUS
<1>1. CASE UNCHANGED vars
  <2>1. /\ UNCHANGED <<query, delivered, muted, jobs, registered, listener, view, targets,
                       stream, idle, state, failed, timer>>
    BY <1>1 DEF vars, appVars, streamVars, trackerVars
  <2>2. TypeOK' /\ AllInformed' /\ AssertionsHold'
    BY <2>1 DEF ReadInv, TypeOK, AllInformed, AssertionsHold, ListenersOf, Started
  <2>3. ASSUME NEW r \in Reads PROVE InPlace(r)'
    <3>1. InPlace(r)
      BY DEF ReadInv
    <3> QED
      BY <2>1, <3>1 DEF InPlace, Queued
  <2> QED
    BY <2>2, <2>3 DEF ReadInv
<1>2. ASSUME NEW r \in Reads, OnEvent(r) PROVE ReadInv'
  BY <1>2, EventKeeps
<1>3. ASSUME NEW r \in Reads, NEW q \in Queries, getDocuments(r, q) PROVE ReadInv'
  BY <1>3, CallKeeps, ReadAssumption
<1>4. CASE WorkerQueue
  BY <1>4, AddKeeps, RemoveKeeps DEF WorkerQueue
<1>5. CASE onlineStateTimeout
  BY <1>5, TimeoutKeeps
<1>6. CASE OnWatchStreamOpen \/ OnWatchStreamClose \/ backoffElapses \/ idleTimeout
           \/ OnWatchStreamChange
  BY <1>6, OpenKeeps, CloseKeeps, BackoffKeeps, IdleKeeps, ChangeKeeps
<1>7. ASSUME NEW q \in Queries,
             \/ EmitNewSnapshots(q)
             \/ \E v \in Views : RaiseWatchSnapshot(q, v)
             \/ ProcessTargetError(q)
      PROVE  ReadInv'
  BY <1>7, EmitKeeps, RaiseKeeps, TargetErrorKeeps
<1>8. CASE RestartNetwork
  BY <1>8, RestartKeeps
<1>9. Next \/ UNCHANGED vars
  OBVIOUS
<1> QED
  BY <1>1, <1>2, <1>3, <1>4, <1>5, <1>6, <1>7, <1>8, <1>9 DEF Next

\* ReadInv holds in every state of the read.
THEOREM ReadInvariant == Spec => []ReadInv
<1>1. Init => ReadInv
  BY InitKeeps
<1>2. ReadInv /\ [Next]_vars => ReadInv'
  BY StepKeeps
<1> QED
  BY <1>1, <1>2, PTL DEF Spec

\* The completion block of getDocument or getDocuments runs at most once, however the
\* listener's events, its removal and an error cross each other.
THEOREM AnsweredAtMostOnce == Spec => []AnsweredOnce
<1>1. ReadInv => AnsweredOnce
  <2> SUFFICES ASSUME ReadInv, NEW r \in Reads PROVE Len(delivered[r]) <= 1
    BY DEF AnsweredOnce
  <2>1. CASE delivered[r] = << >>
    BY <2>1
  <2>2. CASE delivered[r] # << >>
    <3>1. Len(delivered[r]) = 1
      BY <2>2 DEF ReadInv, InPlace
    <3> QED
      BY <3>1
  <2> QED
    BY <2>1, <2>2
<1> QED
  BY <1>1, ReadInvariant, PTL

\* The HARD_ASSERTs that AssertionsHold names, of the online state tracker, the remote
\* store and the sync engine, cannot fail, whatever the server does: not even when it
\* finishes the stream and the one it leaves out ends the process.
THEOREM AssertionsNeverFail == Spec => []AssertionsHold
<1>1. ReadInv => AssertionsHold
  BY DEF ReadInv
<1> QED
  BY <1>1, ReadInvariant, PTL

\* A listener that is registered has raised its first snapshot if the client is
\* offline, or the query's view is synced.
THEOREM NobodyWaitsNeedlessly == Spec => []NoNeedlessWait
<1>1. ReadInv => NoNeedlessWait
  BY DEF ReadInv, AllInformed, Informed, NoNeedlessWait, Snapshot
<1> QED
  BY <1>1, ReadInvariant, PTL

\* When every call is answered and its removal has run, neither listeners nor views
\* nor targets are left behind.
THEOREM NothingStays == Spec => []NothingLeft
<1>1. ReadInv => NothingLeft
  <2> SUFFICES ASSUME ReadInv, jobs = << >>,
                      \A r \in Reads : ~ Waiting(r) /\ listener[r].events = << >>
               PROVE  registered = {} /\ targets = {} /\ \A q \in Queries : view[q] = "none"
    BY DEF NothingLeft
  <2>1. ASSUME NEW r \in registered PROVE FALSE
    <3>1. r \in Reads /\ query[r] \in Queries
      BY Asking
    <3>2. InPlace(r) /\ ~ Queued("remove", r)
      BY <3>1 DEF ReadInv, Queued
    <3>3. delivered[r] = << >>
      BY <2>1, <3>2 DEF InPlace
    <3>4. query[r] # NoQuery
      BY <2>1, <3>2 DEF InPlace
    <3> QED
      BY <3>1, <3>3, <3>4 DEF Waiting
  <2>2. registered = {}
    BY <2>1
  <2>3. \A q \in Queries : ListenersOf(q) = {}
    BY <2>2 DEF ListenersOf
  <2> QED
    BY <2>2, <2>3 DEF ReadInv, TypeOK, AssertionsHold
<1> QED
  BY <1>1, ReadInvariant, PTL

================================================================================
