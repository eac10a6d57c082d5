------------------------------ MODULE OneTimeRead ------------------------------
(***************************************************************************)
(* getDocument and getDocuments of the Firestore client: a listener that   *)
(* is removed at its first event.  Three threads share it: the app's main  *)
(* queue asks and gets the answer, the client's worker queue keeps the     *)
(* listeners, views and streams, and the network and the timers report to  *)
(* the worker.  The modules of the app have a read as one step; here is    *)
(* what happens in it.                                                     *)
(*                                                                         *)
(* A view is "none", "local" (nothing from the server yet, or no longer    *)
(* current), "current" (the server has sent all, some cached documents are *)
(* in limbo) or "synced".  A snapshot of it is "cached" or "synced".       *)
(***************************************************************************)
EXTENDS Naturals, Sequences

CONSTANTS
    Reads,        \* calls of getDocuments
    Queries,
    NoQuery,      \* the query of a call that is not made yet
    MaxEvents,    \* bound on a listener's undelivered events
    MaxRestarts   \* bound on restarts of the network

VARIABLES
    query,        \* query[r]: what call r asks for
    delivered,    \* delivered[r]: the events ListenOnce has passed to the app
    muted,        \* AsyncEventListener.muted_: the calls whose listener is silenced
    jobs,         \* the worker queue's tasks from the app
    registered,   \* EventManager.queries_: the calls that have a listener there
    listener,     \* listener[r]: the QueryListener of r and its events on the main queue
    view,         \* view[q]: SyncEngine.query_views_by_query_
    targets,      \* RemoteStore.listen_targets_
    stream,       \* the watch stream's state_
    idle,         \* its idleness_timer_ is on
    state,        \* OnlineStateTracker.state_
    failed,       \* watch_stream_failures_ # 0
    timer,        \* online_state_timer_ is on
    outlived,     \* history: the attempt to connect began for calls that are all answered
    restarts

appVars == <<query, delivered, muted>>
trackerVars == <<state, failed, timer>>
streamVars == <<stream, idle, targets, outlived>>
vars == <<appVars, jobs, registered, listener, view, streamVars, trackerVars, restarts>>

ReadAssumption == NoQuery \notin Queries
ASSUME ReadAssumption

ListenersOf(q) == {r \in registered : query[r] = q}

NewListener == [seen |-> "none", raised |-> FALSE, believed |-> "Unknown", events |-> << >>]

Init ==
    /\ query = [r \in Reads |-> NoQuery]
    /\ delivered = [r \in Reads |-> << >>]
    /\ muted = {}
    /\ jobs = << >>
    /\ registered = {}
    /\ listener = [r \in Reads |-> NewListener]
    /\ view = [q \in Queries |-> "none"]
    /\ targets = {}
    /\ stream = "initial"
    /\ idle = FALSE
    /\ state = "Unknown"
    /\ failed = FALSE
    /\ timer = FALSE
    /\ outlived = FALSE
    /\ restarts = 0

--------------------------------------------------------------------------------
(* QueryListener.                                                          *)

Snapshot(v) == IF v = "synced" THEN "synced" ELSE "cached"

\* With wait_for_sync_when_online.
ShouldRaiseInitialEvent(snapshot, s) == snapshot = "synced" \/ s = "Offline"

OnViewSnapshot(l, snapshot) ==
    LET raise == l.raised \/ ShouldRaiseInitialEvent(snapshot, l.believed) IN
    [l EXCEPT !.seen = snapshot, !.raised = raise,
              !.events = IF raise THEN Append(@, snapshot) ELSE @]

OnOnlineStateChanged(l, s) ==
    LET raise == /\ l.seen # "none"
                 /\ ~ l.raised
                 /\ ShouldRaiseInitialEvent(l.seen, s) IN
    [l EXCEPT !.believed = s, !.raised = @ \/ raise,
              !.events = IF raise THEN Append(@, l.seen) ELSE @]

OnError(l) == [l EXCEPT !.events = Append(@, "error")]

--------------------------------------------------------------------------------
(* OnlineStateTracker.  ls is what the step has made of the listeners so   *)
(* far, of which those of reg are registered.                              *)

\* SyncEngine and EventManager: a view that goes offline is no longer current, and
\* then every listener hears of the new state.
Broadcast(ls, reg, s) ==
    IF s = state THEN ls
    ELSE [r \in Reads |->
            IF r \notin reg THEN ls[r]
            ELSE OnOnlineStateChanged(
                   IF s = "Offline" /\ view[query[r]] = "synced"
                   THEN OnViewSnapshot(ls[r], "cached") ELSE ls[r], s)]

SetAndBroadcast(s) ==
    /\ state' = s
    /\ listener' = Broadcast(listener, registered, s)
    /\ view' = [q \in Queries |->
                  IF s # state /\ s = "Offline" /\ view[q] # "none" THEN "local" ELSE view[q]]

ClearOnlineStateTimer == timer' = FALSE

\* Variant: the timer runs on.
UpdateStateTimed(s) ==
    /\ failed' = FALSE
    /\ SetAndBroadcast(s)
    /\ UNCHANGED timer

UpdateState(s) ==
    /\ ClearOnlineStateTimer
    /\ failed' = FALSE
    /\ SetAndBroadcast(s)

\* Variant: no timer for the attempt.
HandleWatchStreamStartUntimed(ls, reg) ==
    /\ UNCHANGED <<failed, timer>>
    /\ state' = IF failed THEN state ELSE "Unknown"
    /\ listener' = IF failed THEN ls ELSE Broadcast(ls, reg, "Unknown")

HandleWatchStreamStart(ls, reg) ==
    /\ UNCHANGED failed
    /\ IF failed THEN UNCHANGED <<state, timer>> /\ listener' = ls
       ELSE /\ state' = "Unknown"
            /\ listener' = Broadcast(ls, reg, "Unknown")
            /\ timer' = TRUE

onlineStateTimeout ==
    /\ timer
    /\ ClearOnlineStateTimer
    /\ SetAndBroadcast("Offline")
    /\ UNCHANGED <<appVars, jobs, registered, streamVars, failed, restarts>>

--------------------------------------------------------------------------------
(* The app's side, on the main queue.                                      *)

getDocuments(r, q) ==
    /\ query[r] = NoQuery
    /\ query' = [query EXCEPT ![r] = q]
    /\ jobs' = Append(jobs, <<"add", r>>)
    /\ UNCHANGED <<delivered, muted, registered, listener, view, streamVars, trackerVars,
                   restarts>>

Event(r) == Head(listener[r].events)

\* Variant: the listener is removed, but not silenced.
RemoveUnmuted(r) ==
    /\ UNCHANGED muted
    /\ jobs' = Append(jobs, <<"remove", r>>)

Remove(r) ==
    /\ muted' = muted \cup {r}
    /\ jobs' = Append(jobs, <<"remove", r>>)

\* AsyncEventListener and ListenOnce: an error is passed on, a snapshot first removes
\* the listener.
OnEvent(r) ==
    /\ listener[r].events # << >>
    /\ listener' = [listener EXCEPT ![r].events = Tail(@)]
    /\ IF r \in muted THEN UNCHANGED <<delivered, muted, jobs>>
       ELSE /\ delivered' = [delivered EXCEPT ![r] = Append(@, Event(r))]
            /\ IF Event(r) = "error" THEN UNCHANGED <<muted, jobs>> ELSE Remove(r)
    /\ UNCHANGED <<query, registered, view, streamVars, trackerVars, restarts>>

--------------------------------------------------------------------------------
(* EventManager, SyncEngine and RemoteStore, on the worker queue.          *)

Started == stream \in {"backoff", "starting", "open"}

\* RemoteStore.StartWatchStream: after an error the stream waits before it tries.
StartWatchStream(ls, reg) ==
    /\ stream' = IF stream = "error" THEN "backoff" ELSE "starting"
    /\ outlived' = FALSE
    /\ HandleWatchStreamStart(ls, reg)

NextJob(kind, r) ==
    /\ jobs # << >>
    /\ Head(jobs) = <<kind, r>>
    /\ jobs' = Tail(jobs)

\* SyncEngine.Listen and RemoteStore.Listen, with the new listener told of the first
\* snapshot, which is from the cache.  A request on an open stream stops the idle timer.
Listen(q, ls) ==
    /\ view' = [view EXCEPT ![q] = "local"]
    /\ targets' = targets \cup {q}
    /\ IF Started
       THEN /\ listener' = ls
            /\ idle' = (idle /\ stream # "open")
            /\ UNCHANGED <<stream, outlived, trackerVars>>
       ELSE StartWatchStream(ls, registered') /\ UNCHANGED idle

\* Variant: the new listener is not told of the online state.
AddQueryListenerUntold(r) ==
    LET told == [listener EXCEPT ![r] = OnViewSnapshot(@, Snapshot(view[query[r]]))]
    IN
    /\ NextJob("add", r)
    /\ registered' = registered \cup {r}
    /\ IF view[query[r]] # "none"
       THEN listener' = told /\ UNCHANGED <<view, streamVars, trackerVars>>
       ELSE Listen(query[r], told)
    /\ UNCHANGED <<appVars, restarts>>

\* A second listener of a query shares its view and gets the last snapshot.
AddQueryListener(r) ==
    LET told == [listener EXCEPT ![r] =
                   OnViewSnapshot(OnOnlineStateChanged(@, state), Snapshot(view[query[r]]))]
    IN
    /\ NextJob("add", r)
    /\ registered' = registered \cup {r}
    /\ IF view[query[r]] # "none"
       THEN listener' = told /\ UNCHANGED <<view, streamVars, trackerVars>>
       ELSE Listen(query[r], told)
    /\ UNCHANGED <<appVars, restarts>>

\* SyncEngine.StopListening and RemoteStore.StopListening.  An open stream is marked
\* idle; an attempt to connect goes on, with the tracker's state reset.
StopListening(q) ==
    /\ targets' = targets \ {q}
    /\ UNCHANGED stream
    /\ IF targets' = {} /\ stream # "open"
       THEN /\ ClearOnlineStateTimer
            /\ failed' = FALSE
            /\ state' = "Unknown"
            /\ outlived' = Started
            /\ UNCHANGED idle
       ELSE idle' = (targets' = {}) /\ UNCHANGED <<outlived, trackerVars>>
    /\ view' = [view EXCEPT ![q] = "none"]
    /\ UNCHANGED listener

\* Variant: only the last listener of all stops the listen.
RemoveQueryListenerOfAll(r) ==
    /\ NextJob("remove", r)
    /\ registered' = registered \ {r}
    /\ IF registered' = {} /\ r \in registered THEN StopListening(query[r])
       ELSE UNCHANGED <<listener, view, streamVars, trackerVars>>
    /\ UNCHANGED <<appVars, restarts>>

\* The last listener of a query takes its view and its target along.  After an error
\* there is nothing left to remove.
RemoveQueryListener(r) ==
    /\ NextJob("remove", r)
    /\ registered' = registered \ {r}
    /\ IF ListenersOf(query[r]) = {r} THEN StopListening(query[r])
       ELSE UNCHANGED <<listener, view, streamVars, trackerVars>>
    /\ UNCHANGED <<appVars, restarts>>

Room(q) == \A r \in ListenersOf(q) : Len(listener[r].events) < MaxEvents

\* A write of the app changes a document of the query.
EmitNewSnapshots(q) ==
    /\ view[q] # "none" /\ Room(q)
    /\ listener' = [r \in Reads |->
                      IF r \in ListenersOf(q)
                      THEN OnViewSnapshot(listener[r], Snapshot(view[q])) ELSE listener[r]]
    /\ UNCHANGED <<appVars, jobs, registered, view, streamVars, trackerVars, restarts>>

--------------------------------------------------------------------------------
(* The watch stream.                                                       *)

\* The token has come, and the targets are requested; nobody has answered yet.
OnWatchStreamOpen ==
    /\ stream = "starting"
    /\ stream' = "open"
    /\ UNCHANGED <<appVars, jobs, registered, listener, view, idle, targets, outlived, trackerVars,
                   restarts>>

\* HandleWatchStreamFailure and the next attempt, if anybody listens.
OnWatchStreamError ==
    /\ stream \in {"starting", "open"}
    /\ idle' = FALSE
    /\ outlived' = FALSE
    /\ IF targets = {} THEN stream' = "error" /\ UpdateState("Unknown")
       ELSE /\ stream' = "backoff"
            /\ IF state = "Online"
               THEN HandleWatchStreamStart(listener, registered) /\ UNCHANGED view
               ELSE /\ failed' = TRUE
                    /\ ClearOnlineStateTimer
                    /\ SetAndBroadcast("Offline")
    /\ UNCHANGED <<appVars, jobs, registered, targets, restarts>>

\* The process ends, with every call in it, and a new one begins.
ProcessEnds ==
    /\ query' = [r \in Reads |-> NoQuery]
    /\ delivered' = [r \in Reads |-> << >>]
    /\ listener' = [r \in Reads |-> NewListener]
    /\ view' = [q \in Queries |-> "none"]
    /\ muted' = {} /\ jobs' = << >> /\ registered' = {} /\ targets' = {}
    /\ stream' = "initial" /\ state' = "Unknown"
    /\ idle' = FALSE /\ failed' = FALSE /\ timer' = FALSE /\ outlived' = FALSE
    /\ restarts' = 0

\* The server ends the stream and calls it no error, for which there is no other
\* attempt.  That nobody listens is asserted: if somebody does, the process ends.
OnWatchStreamFinish ==
    /\ stream = "open"
    /\ IF targets # {} THEN ProcessEnds
       ELSE /\ stream' = "initial"
            /\ idle' = FALSE
            /\ outlived' = FALSE
            /\ UpdateState("Unknown")
            /\ UNCHANGED <<appVars, jobs, registered, targets, restarts>>

OnWatchStreamClose == OnWatchStreamError \/ OnWatchStreamFinish

backoffElapses ==
    /\ stream = "backoff"
    /\ stream' = "starting"
    /\ UNCHANGED <<appVars, jobs, registered, listener, view, idle, targets, outlived, trackerVars,
                   restarts>>

\* Nobody has listened for a minute.
idleTimeout ==
    /\ idle
    /\ idle' = FALSE
    /\ stream' = "initial"
    /\ UpdateState("Unknown")
    /\ UNCHANGED <<appVars, jobs, registered, targets, outlived, restarts>>

\* A message of the server that changes no view.
OnWatchStreamChange ==
    /\ stream = "open"
    /\ UpdateState("Online")
    /\ UNCHANGED <<appVars, jobs, registered, streamVars, restarts>>

\* The server's message makes the view v, and its listeners get a snapshot, unless
\* there is nothing new in it.
RaiseWatchSnapshot(q, v) ==
    /\ stream = "open" /\ q \in targets /\ Room(q)
    /\ ClearOnlineStateTimer
    /\ failed' = FALSE
    /\ state' = "Online"
    /\ view' = [view EXCEPT ![q] = v]
    /\ LET told == Broadcast(listener, registered, "Online") IN
        \/ /\ Snapshot(v) = Snapshot(view[q])
           /\ listener' = told
        \/ listener' = [r \in Reads |->
                          IF r \in ListenersOf(q)
                          THEN OnViewSnapshot(told[r], Snapshot(v)) ELSE told[r]]
    /\ UNCHANGED <<appVars, jobs, registered, streamVars, restarts>>

\* The server refuses the target.
ProcessTargetError(q) ==
    /\ stream = "open" /\ q \in targets
    /\ ClearOnlineStateTimer
    /\ failed' = FALSE
    /\ state' = "Online"
    /\ targets' = targets \ {q}
    /\ view' = [view EXCEPT ![q] = "none"]
    /\ LET told == Broadcast(listener, registered, "Online") IN
        listener' = [r \in Reads |->
                       IF r \in ListenersOf(q) THEN OnError(told[r]) ELSE told[r]]
    /\ registered' = registered \ ListenersOf(q)
    /\ UNCHANGED <<appVars, jobs, stream, idle, outlived, restarts>>

\* Another network, or another account.  Everything stops, the state is Unknown, and
\* if anybody listens an attempt starts anew.
RestartNetwork ==
    /\ restarts < MaxRestarts
    /\ restarts' = restarts + 1
    /\ idle' = FALSE
    /\ failed' = FALSE
    /\ state' = "Unknown"
    /\ listener' = Broadcast(listener, registered, "Unknown")
    /\ timer' = (targets # {})
    /\ outlived' = FALSE
    /\ stream' = IF targets = {} THEN "initial" ELSE "starting"
    /\ UNCHANGED <<appVars, jobs, registered, view, targets>>

--------------------------------------------------------------------------------
WorkerQueue == \E r \in Reads : AddQueryListener(r) \/ RemoveQueryListener(r)

Views == {"local", "current", "synced"}

Next ==
    \/ \E r \in Reads : OnEvent(r) \/ \E q \in Queries : getDocuments(r, q)
    \/ WorkerQueue \/ onlineStateTimeout
    \/ OnWatchStreamOpen \/ OnWatchStreamClose \/ backoffElapses \/ idleTimeout
    \/ OnWatchStreamChange
    \/ \E q \in Queries :
           \/ EmitNewSnapshots(q)
           \/ \E v \in Views : RaiseWatchSnapshot(q, v)
           \/ ProcessTargetError(q)
    \/ RestartNetwork

Spec == Init /\ [][Next]_vars

\* Queues run and timers go off.  A server that is asked over and over answers, but a
\* token may never come.
Fairness ==
    /\ \A r \in Reads : WF_vars(OnEvent(r))
    /\ WF_vars(WorkerQueue)
    /\ WF_vars(onlineStateTimeout)
    /\ WF_vars(backoffElapses)
    /\ \A q \in Queries : SF_vars(RaiseWatchSnapshot(q, "synced") \/ ProcessTargetError(q))

FairSpec == Spec /\ Fairness

--------------------------------------------------------------------------------
(* Properties                                                              *)

Waiting(r) == query[r] # NoQuery /\ delivered[r] = << >>

\* The app's block runs at most once in a process, although the listener may have
\* raised more events by the time the main queue gets to the first: that one silences
\* it, and an error comes from a listener that is already gone.
AnsweredOnce == \A r \in Reads : Len(delivered[r]) <= 1

\* The HARD_ASSERTs of OnlineStateTracker (lines 62, 68, 88, 90), RemoteStore (173) and
\* SyncEngine (102, 158) hold, and RemoteStore's at 236 when the idle timer stops the
\* stream: they relate the timer to the state, the idle timer to the targets, and the
\* listeners to views and targets.  Line 236 does not hold when the server finishes the
\* stream without an error while somebody listens: OnWatchStreamFinish ends the process.
AssertionsHold ==
    /\ timer => state = "Unknown" /\ ~ failed /\ Started
    /\ state = "Online" => ~ failed
    /\ idle => targets = {} /\ stream = "open"
    /\ \A q \in Queries :
        /\ q \in targets <=> view[q] # "none"
        /\ q \in targets <=> ListenersOf(q) # {}

\* Nobody waits when the client is offline, or for what is synced: whichever of the
\* two a listener heard of first, and however it was told.
NoNeedlessWait ==
    \A r \in registered :
        state = "Offline" \/ view[query[r]] = "synced" => listener[r].raised

\* When every call is answered, nothing of them is left: no listener, view or target.
NothingLeft ==
    jobs = << >> /\ (\A r \in Reads : ~ Waiting(r) /\ listener[r].events = << >>) =>
        registered = {} /\ targets = {} /\ \A q \in Queries : view[q] = "none"

\* A call that is never answered waits behind an attempt to connect that began for
\* earlier calls, has outlived them and never gets its token: RemoteStore.StopListening
\* has stopped the ten-second timer, and RemoteStore.Listen starts none for an attempt
\* that is under way.  (A process that ends takes its calls with it.)
WaitsOnlyBehindOld ==
    \A r \in Reads : <>[]Waiting(r) => <>[](stream = "starting" /\ outlived)

--------------------------------------------------------------------------------
(* The inductive invariant.                                                *)

States == {"Unknown", "Online", "Offline"}
Events == {"cached", "synced", "error"}
QueryListeners ==
    [seen : {"none", "cached", "synced"}, raised : BOOLEAN, believed : States,
     events : Seq(Events)]

\* The values the state is made of.
TypeOK ==
    /\ query \in [Reads -> Queries \cup {NoQuery}]
    /\ delivered \in [Reads -> Seq(Events)]
    /\ muted \subseteq Reads
    /\ jobs \in Seq({"add", "remove"} \X Reads)
    /\ registered \subseteq Reads
    /\ listener \in [Reads -> QueryListeners]
    /\ view \in [Queries -> {"none"} \cup Views]
    /\ targets \subseteq Queries
    /\ stream \in {"initial", "error", "backoff", "starting", "open"}
    /\ state \in States
    /\ {idle, failed, timer} \subseteq BOOLEAN

Clean(events) == \A i \in DOMAIN events : events[i] # "error"

ErrorLast(events) == \A i \in DOMAIN events : events[i] = "error" => i = Len(events)

\* A listener that knows the tracker's state s and has seen the snapshot.
Informed(l, s, snapshot) ==
    /\ Clean(l.events)
    /\ l.believed = s
    /\ l.seen = snapshot
    /\ s = "Offline" \/ snapshot = "synced" => l.raised

AllInformed == \A r \in registered : Informed(listener[r], state, Snapshot(view[query[r]]))

Queued(kind, r) == \E i \in DOMAIN jobs : jobs[i] = <<kind, r>>

\* A call is registered once, and answered by a snapshot that silences its listener or
\* by an error that comes from a listener that is gone.
InPlace(r) ==
    /\ query[r] = NoQuery => r \notin registered /\ ~ Queued("add", r)
                             /\ listener[r].events = << >> /\ delivered[r] = << >>
    /\ \A i, j \in DOMAIN jobs : jobs[i] = <<"add", r>> /\ jobs[j] = <<"add", r>> => i = j
    /\ Queued("add", r) => r \notin registered
                           /\ listener[r].events = << >> /\ delivered[r] = << >>
    /\ r \notin registered => ErrorLast(listener[r].events)
    /\ delivered[r] # << >> =>
        /\ Len(delivered[r]) = 1
        /\ r \in muted \/ (listener[r].events = << >> /\ r \notin registered)
        /\ r \in registered => Queued("remove", r)

ReadInv ==
    /\ TypeOK
    /\ AllInformed
    /\ AssertionsHold
    /\ \A r \in Reads : InPlace(r)

================================================================================
