----------------------------- MODULE SerialBasket -----------------------------
(***************************************************************************)
(* Basket with one thing at a time: a button is pressed, and an account    *)
(* changes, only when nothing is under way on any phone, and reads are     *)
(* answered by the server.  Writes may still be refused, the network lost  *)
(* while one is on its way, and the process may end.                       *)
(***************************************************************************)
EXTENDS Basket

OneAtATime ==
    /\ phase' # phase => \A t \in Taps : phase[t] = "idle" /\ phase'[t] # "idle" => Quiet
    /\ user' # user => Quiet
    /\ \A t \in Taps : phase[t] = "reading" /\ phase'[t] = "answered" => calm'[t]

SerialSpec == Init /\ [][Next /\ OneAtATime]_vars

FairSerialSpec == SerialSpec /\ Fairness

--------------------------------------------------------------------------------
(* What holds between the steps, and makes read-and-write-back one step.   *)

Asking(t) == phase[t] \in {"reading", "answered"}

Busy(t) == Asking(t) \/ phase[t] = "writing"

Alone == \A s, t \in Taps : Busy(s) /\ Busy(t) => s = t

\* Behind a tap that is still asking nothing is queued, and its account stays.
AskingQuietly ==
    \A t \in Taps : Asking(t) =>
        /\ user[device[t]] = tapper[t]
        /\ \A d \in Devices, u \in Accounts : queue[d][u] = << >>

OneWrite ==
    \A d, e \in Devices, u, v \in Accounts :
        \A i \in DOMAIN queue[d][u], j \in DOMAIN queue[e][v] : d = e /\ u = v /\ i = j

\* The write is on the server, or is the next line of the account's one basket.
Applies(w, docs) == docs[w.key] # NoDoc /\ docs[w.key].lines = w.fields.lines

NextLine(w, docs, owner) ==
    IF w.op = "update"
    THEN /\ docs[w.key] # NoDoc
         /\ w.fields.lines = Append(docs[w.key].lines, Writer(w))
    ELSE /\ BasketsOf(owner, docs) = {}
         /\ w.fields.lines = <<Writer(w)>>

AtomicWrites ==
    \A d \in Devices, u \in Accounts : \A i \in DOMAIN queue[d][u] :
        LET w == queue[d][u][i] IN
        /\ tapper[Writer(w)] = made[w.key].owner
        /\ Applies(w, server) \/ NextLine(w, server, made[w.key].owner)

\* The answer to a read is what the server has.
UpToDate(b, docs, asker) ==
    b.kind = "basket" =>
        IF b.key = NoDoc THEN BasketsOf(asker[b.tag], docs) = {}
        ELSE docs[b.key] # NoDoc /\ docs[b.key].lines = b.basket.lines

AnswersUpToDate == \A d \in Devices : \A i \in DOMAIN main[d] : UpToDate(main[d][i], server, tapper)

OneBasketEach ==
    \A j, k \in Keys : server[j] # NoDoc /\ server[k] # NoDoc
                       /\ server[j].owner = server[k].owner => j = k

Unasked == \A t \in Taps : phase[t] = "idle" => tapper[t] = NoUser

Serial ==
    /\ Alone
    /\ AskingQuietly
    /\ OneWrite
    /\ AtomicWrites
    /\ AnswersUpToDate
    /\ OneBasketEach
    /\ Unasked

--------------------------------------------------------------------------------
(* The refinement.                                                         *)

cart == [u \in Users |->
            IF BasketsOf(u, server) = {} THEN << >>
            ELSE server[FirstBasket(u, server)].lines]

\* Under SerialSpec, reading and writing back behaves like one atomic append to
\* the first basket document of the account (Cart).
Implements == INSTANCE Cart WITH asker <- tapper
AppendsAtomically == Implements!CartSpec

================================================================================
