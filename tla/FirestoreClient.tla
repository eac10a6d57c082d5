---------------------------- MODULE FirestoreClient ----------------------------
(***************************************************************************)
(* The Firestore client the app is linked with, as far as the app can tell *)
(* it apart: a write is applied to the local view at once, waits in a      *)
(* queue that belongs to the signed-in account and survives a restart, is  *)
(* sent in order, and is acknowledged or rejected by the server; its       *)
(* completion block runs on the main queue of the process that issued it.  *)
(* A read is answered by the server when the device is online and by the   *)
(* cache, overlaid with the pending writes, when it is not.                *)
(*                                                                         *)
(* A document is a function from Fields to values, or NoDoc.  A write is a *)
(* record [op, key, fields, tag, fate]: "set" replaces the document,       *)
(* "update" replaces some of its fields and needs the document to exist;   *)
(* tag names the completion block (None: there is none); fate is what the  *)
(* server has decided about it, which the client learns in Acknowledge.    *)
(***************************************************************************)
EXTENDS Naturals, Sequences

CONSTANTS
    Devices,  \* the phones
    Users,    \* the accounts
    NoUser,   \* nobody is signed in
    Keys,     \* document names
    Fields,   \* field names of a document
    NoDoc,    \* there is no document under this name
    None      \* nothing, where there may be something

VARIABLES
    server,  \* server[k]: the document k in the cloud
    cache,   \* cache[d][k]: the last version of k that the server gave to d
    queue,   \* queue[d][u]: the writes that u made on d and are not acknowledged
    online,  \* online[d]: d reaches the server
    user,    \* user[d]: the account signed in on d
    main     \* main[d]: completion blocks waiting for d's main queue

clientVars == <<server, cache, queue, online, user, main>>

Accounts == Users \cup {NoUser}

ASSUME ClientAssumption == NoUser \notin Users

--------------------------------------------------------------------------------
(* Local view: pending writes laid over a base document.                   *)

Touches(w, k, f) == w.key = k /\ f \in DOMAIN w.fields

\* The i-th write of ws is the last one that gives field f of k a value.
IsLast(ws, k, f, i) ==
    /\ i \in DOMAIN ws
    /\ Touches(ws[i], k, f)
    /\ \A j \in DOMAIN ws : j > i => ~ Touches(ws[j], k, f)

Exists(base, ws, k) ==
    base # NoDoc \/ \E i \in DOMAIN ws : ws[i].key = k /\ ws[i].op = "set"

LocalDoc(base, ws, k) ==
    IF ~ Exists(base, ws, k) THEN NoDoc
    ELSE [f \in Fields |->
            IF \E i \in DOMAIN ws : IsLast(ws, k, f, i)
            THEN ws[CHOOSE i \in DOMAIN ws : IsLast(ws, k, f, i)].fields[f]
            ELSE base[f]]

pending(d) == queue[d][user[d]]

\* What a read on d sees, from the documents in base.
LocalView(d, base) == [k \in Keys |-> LocalDoc(base[k], pending(d), k)]

\* One write applied to one document, by the server and by the cache.
Applied(w, doc) ==
    IF w.op = "set" THEN w.fields
    ELSE IF doc = NoDoc THEN NoDoc
    ELSE [f \in DOMAIN doc |-> IF f \in DOMAIN w.fields THEN w.fields[f] ELSE doc[f]]

--------------------------------------------------------------------------------
(* What the app calls.                                                     *)

SetData(k, fields, tag) ==
    [op |-> "set", key |-> k, fields |-> fields, tag |-> tag, fate |-> "pending"]

UpdateData(k, fields, tag) ==
    [op |-> "update", key |-> k, fields |-> fields, tag |-> tag, fate |-> "pending"]

WriteMutations(d, w) ==
    queue' = [queue EXCEPT ![d][user[d]] = Append(@, w)]

\* Two writes from one block.
WriteTwo(d, w1, w2) ==
    queue' = [queue EXCEPT ![d][user[d]] = @ \o <<w1, w2>>]

--------------------------------------------------------------------------------
(* The write pipeline.                                                     *)

\* "known": a read has since brought a version at least as new as the write.
Accepted == {"committed", "known"}

\* Write i is the one the server decides on next: the stream sends the queue in
\* order without waiting for answers, and a refusal closes it.
NextAtServer(d, i) ==
    /\ online[d]
    /\ i \in DOMAIN pending(d)
    /\ pending(d)[i].fate = "pending"
    /\ \A j \in 1 .. i - 1 : pending(d)[j].fate \in Accepted

Decide(d, i, fate) ==
    queue' = [queue EXCEPT ![d][user[d]][i].fate = fate]

CommitWrite(d, i) ==
    /\ NextAtServer(d, i)
    /\ LET w == pending(d)[i] IN
        /\ w.op = "update" => server[w.key] # NoDoc
        /\ server' = [server EXCEPT ![w.key] = Applied(w, @)]
    /\ Decide(d, i, "committed")
    /\ UNCHANGED <<cache, online, user, main>>

\* The server refuses: an update of a missing document, or a security rule.
RefuseWrite(d, i) ==
    /\ NextAtServer(d, i)
    /\ Decide(d, i, "refused")
    /\ UNCHANGED <<server, cache, online, user, main>>

Written(w) ==
    [kind |-> "written", tag |-> w.tag, ok |-> w.fate \in Accepted]

\* The answer reaches the client: the write leaves the queue, the cache takes its
\* result unless it is newer, and the completion block goes to the main queue.
Acknowledge(d) ==
    /\ online[d]
    /\ pending(d) # << >>
    /\ LET w == Head(pending(d)) IN
        /\ w.fate # "pending"
        /\ queue' = [queue EXCEPT ![d][user[d]] = Tail(@)]
        /\ cache' = IF w.fate = "committed"
                    THEN [cache EXCEPT ![d][w.key] = Applied(w, @)]
                    ELSE cache
        /\ main' = IF w.tag = None THEN main
                   ELSE [main EXCEPT ![d] = Append(@, Written(w))]
    /\ UNCHANGED <<server, online, user>>

\* The server answers a read of the documents K on d.
Fetch(d, K) ==
    /\ cache' = [cache EXCEPT ![d] = [k \in Keys |-> IF k \in K THEN server[k] ELSE @[k]]]
    /\ queue' = [queue EXCEPT ![d] = [u \in Accounts |->
                   [i \in DOMAIN queue[d][u] |->
                      IF queue[d][u][i].fate = "committed" /\ queue[d][u][i].key \in K
                      THEN [queue[d][u][i] EXCEPT !.fate = "known"]
                      ELSE queue[d][u][i]]]]

--------------------------------------------------------------------------------
(* The network, the accounts and the process.                              *)

Unsent(ws) ==
    [i \in DOMAIN ws |-> [ws[i] EXCEPT !.fate = "pending"]]

Untagged(ws) ==
    [i \in DOMAIN ws |-> [ws[i] EXCEPT !.tag = None]]

\* The stream breaks.  Writes whose answers were on the way may be sent again over
\* the next one.
StreamBreaks(d) ==
    \/ UNCHANGED queue
    \/ queue' = [queue EXCEPT ![d][user[d]] = Unsent(@)]

GoOffline(d) ==
    /\ online[d]
    /\ online' = [online EXCEPT ![d] = FALSE]
    /\ StreamBreaks(d)
    /\ UNCHANGED <<server, cache, user, main>>

GoOnline(d) ==
    /\ ~ online[d]
    /\ online' = [online EXCEPT ![d] = TRUE]
    /\ UNCHANGED <<server, cache, queue, user, main>>

\* Another account signs in (or nobody): the streams restart, and the queue of
\* that account takes over.
CredentialChange(d, u) ==
    /\ u # user[d]
    /\ user' = [user EXCEPT ![d] = u]
    /\ StreamBreaks(d)
    /\ UNCHANGED <<server, cache, online, main>>

\* The process ends and is started again: queue, cache and account are on disk,
\* the completion blocks are not.
RestartFrom(d, queues) ==
    /\ main' = [main EXCEPT ![d] = << >>]
    /\ queue' = [queue EXCEPT ![d] =
                   [u \in Accounts |-> Unsent(Untagged(queues[u]))]]
    /\ UNCHANGED <<server, cache, online, user>>

RestartClient(d) == RestartFrom(d, queue[d])

ClientInit ==
    /\ cache = [d \in Devices |-> server]
    /\ queue = [d \in Devices |-> [u \in Accounts |-> << >>]]
    /\ online = [d \in Devices |-> TRUE]
    /\ main = [d \in Devices |-> << >>]

================================================================================
