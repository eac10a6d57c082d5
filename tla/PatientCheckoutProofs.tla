------------------------- MODULE PatientCheckoutProofs -------------------------
(***************************************************************************)
(* Theorems about PatientCheckout, for any accounts, items and bounds:     *)
(* what the purchase promises a user who waits.                            *)
(*                                                                         *)
(* One invariant gives them.  There are documents that are intended: the   *)
(* server and the cache have them, but for the writes that are pending,    *)
(* which make them so (Coming).  The phone is busy with one thing at most, *)
(* and what waits for it, on the main queue and behind the writes, is      *)
(* known in full (Phase).  And every item that was added is in the         *)
(* intended basket, was deleted from it, or was paid for, and is then in   *)
(* the intended history as often; no history has more than was paid for    *)
(* (Accounted).                                                            *)
(***************************************************************************)
EXTENDS PatientCheckout, CheckoutProofs

--------------------------------------------------------------------------------
(* What the documents are coming to, what the phone is busy with, and      *)
(* where every item is.                                                    *)

\* The documents as they will be when the client has nothing left to send.
Intended(goal) ==
    \A u \in Users :
        /\ goal[BasketKey(u)] \in BasketDocs
        /\ goal[UserKey(u)] \in [items : Seq(Items)]

\* A document is what it will be, on the server and in the cache, or the write that
\* makes it so is pending.
Agrees(goal, ws, srv, copy) ==
    \A k \in Keys :
        /\ srv[k] = NoDoc <=> goal[k] = NoDoc
        /\ copy[k] = NoDoc <=> goal[k] = NoDoc
        /\ (\A i \in DOMAIN ws : ws[i].key # k) => srv[k] = goal[k] /\ copy[k] = goal[k]

\* me writes its own documents, each once, and is not refused.
Sends(goal, ws, srv, me) ==
    \A i \in DOMAIN ws :
        /\ me \in Users /\ ws[i].key \in {BasketKey(me), UserKey(me)}
        /\ ws[i].fields = goal[ws[i].key] /\ goal[ws[i].key] # NoDoc
        /\ ws[i].fate \in {"pending", "committed"}
        /\ ws[i].fate = "committed" => srv[ws[i].key] = goal[ws[i].key]
        /\ \A j \in DOMAIN ws : ws[j].key = ws[i].key => j = i

Me == user[Phone]

Coming(goal) ==
    /\ Intended(goal)
    /\ \A u \in Accounts \ {Me} : queue[Phone][u] = << >>
    /\ Agrees(goal, pending(Phone), server, cache[Phone])
    /\ Sends(goal, pending(Phone), server, Me)

Told(tag) == [kind |-> "written", tag |-> tag, ok |-> TRUE]

\* The blocks that wait, and those that will when their writes are answered.
Tells(ws) == [i \in DOMAIN ws |-> Told(ws[i].tag)]

Agenda == main[Phone] \o Tells(pending(Phone))

\* No block waits for a write.
Untold == main[Phone] = << >> /\ \A i \in DOMAIN pending(Phone) : pending(Phone)[i].tag = None

Has(goal, u) == goal[BasketKey(u)] # NoDoc
Line(goal, u) == goal[BasketKey(u)].items
Past(goal, u) == goal[UserKey(u)].items

\* At most the items in S are being added, and that by the account signed in.
OnlyAdds(S, stage) ==
    \A u \in Users, i \in Items :
        adding[u][i] \in {"reading", "writing"} => u = Me /\ i \in S /\ adding[u][i] = stage

NothingAdded == OnlyAdds({}, "")

RecordOwn == record # NoDoc => Me \in Users /\ record.of = Me

RecordRight(goal) ==
    RecordOwn /\ (record # NoDoc /\ Has(goal, Me) => record.items = Past(goal, Me))

\* The screen shows the basket that will be there.
ScreenRight(goal) ==
    SignedIn /\ appeared =>
        IF Has(goal, Me)
        THEN /\ basket = BasketOf(Me, Line(goal, Me))
             /\ fetches = << >> => rows = Line(goal, Me) /\ (button => rows # {})
        ELSE basket = NoDoc

SheetRight(goal) ==
    sheet # "none" =>
        /\ appeared /\ SignedIn /\ fetches = << >> /\ pending(Phone) = << >>
        /\ offered = rows
        /\ Has(goal, Me) => offered = Line(goal, Me) /\ offered # {}

\* Items are being read, of the basket on the screen.
FetchRight ==
    fetches # << >> =>
        /\ basket # NoDoc /\ fetches = <<basket.items>>
        /\ SignedIn /\ appeared /\ sheet = "none"

Quiet(goal) ==
    /\ reads = << >> /\ Untold /\ NothingAdded
    /\ RecordRight(goal) /\ ScreenRight(goal) /\ SheetRight(goal) /\ FetchRight

\* The one read that was asked for, r, and what the user was doing.
Awaits(goal, r) ==
    /\ sheet = "none" /\ fetches = << >> /\ pending(Phone) = << >> /\ RecordRight(goal)
    /\ \/ /\ r = Asked("loaded", BasketKey(Me), None)
          /\ SignedIn /\ appeared /\ NothingAdded
       \/ /\ r = Asked("user", UserKey(Me), None)
          /\ Me \in Users /\ record = NoDoc /\ ~ appeared /\ NothingAdded
       \/ \E i \in Items :
            /\ r = Asked("add", BasketKey(Me), i)
            /\ SignedIn /\ ~ appeared /\ Has(goal, Me)
            /\ OnlyAdds({i}, "reading") /\ adding[Me][i] = "reading"

Asking(goal) == main[Phone] = << >> /\ \E r : reads = <<r>> /\ Awaits(goal, r)

\* It has its answer.
Answered(goal) ==
    /\ reads = << >>
    /\ \E r : main[Phone] = <<[r EXCEPT !.doc = goal[r.key]]>> /\ Awaits(goal, r)

\* A line is added.
Writing(goal) ==
    /\ reads = << >> /\ fetches = << >> /\ sheet = "none"
    /\ SignedIn /\ ~ appeared /\ RecordRight(goal) /\ Has(goal, Me)
    /\ \E i \in Items :
        /\ Agenda = <<Told([to |-> "added", by |-> Me, item |-> i])>>
        /\ OnlyAdds({i}, "writing") /\ adding[Me][i] = "writing"

\* A purchase is recorded and the basket emptied.
Recording(goal) ==
    /\ reads = << >> /\ fetches = << >> /\ sheet = "none" /\ NothingAdded
    /\ SignedIn /\ appeared /\ RecordOwn
    /\ goal[BasketKey(Me)] = [items |-> {}] /\ basket = BasketOf(Me, {}) /\ rows = {}
    /\ \E done : done = [of |-> Me, items |-> Past(goal, Me)] /\
        \/ Agenda = <<Told([to |-> "history", by |-> Me, record |-> done]),
                      Told([to |-> "emptied"])>>
        \/ Agenda = <<Told([to |-> "emptied"])>> /\ record = done

Phase(goal) ==
    Quiet(goal) \/ Asking(goal) \/ Answered(goal) \/ Writing(goal) \/ Recording(goal)

\* u has paid and has not been recorded yet.
Paid(u) == sheet = "paid" /\ u = Me

\* An item is in the basket, or was deleted or paid for, if it was added; and what is
\* paid for is in the basket only until the sheet is gone.
LinesRight(goal) ==
    \A u \in Users : Has(goal, u) =>
        \A i \in Items :
            /\ payments[u][i] <= 1
            /\ i \in Line(goal, u) => (payments[u][i] = 1 <=> Paid(u))
            /\ i \in deleted[u] => i \notin Line(goal, u)
            /\ adding[u][i] \in {"writing", "added"} <=>
                (i \in Line(goal, u) \/ i \in deleted[u] \/ payments[u][i] = 1)

HistoryRight(goal) ==
    \A u \in Users : Has(goal, u) =>
        \A i \in Items \ dropped :
            payments[u][i] = Count(Past(goal, u), i) + IF Paid(u) THEN Count(toBuy, i) ELSE 0

\* No history has an item more often than its account paid for it, and neither has the
\* record that the next purchase is written from, with what that purchase adds.
NoneUnpaid(goal) ==
    \A i \in Items \ dropped :
        /\ \A u \in Users : Count(Past(goal, u), i) <= payments[u][i]
        /\ record # NoDoc => Count(record.items, i) <= payments[Me][i]
        /\ record # NoDoc /\ sheet = "paid" =>
               Count(record.items, i) + Count(toBuy, i) <= payments[Me][i]

ToBuyRight ==
    \A i \in Items \ dropped :
        Count(toBuy, i) = IF sheet # "none" /\ i \in offered THEN 1 ELSE 0

\* What is on the screen was not deleted, whoever is signed in.
BasketRight ==
    /\ deleted \in [Users -> SUBSET Items]
    /\ basket # NoDoc => basket.items \cap deleted[basket.of] = {}

Accounted(goal) ==
    LinesRight(goal) /\ HistoryRight(goal) /\ NoneUnpaid(goal) /\ ToBuyRight /\ BasketRight

Right(goal) == Coming(goal) /\ Phase(goal) /\ Accounted(goal)

PatientInv == \E goal : Right(goal)

--------------------------------------------------------------------------------
(* The client: the documents go where they are going.                      *)

LEMMA Documented ==
    ASSUME NEW goal, Intended(goal), NEW k \in Keys, goal[k] # NoDoc
    PROVE  \E S : goal[k] \in [items : S]
<1>1. CASE k \in BasketKeys
  BY <1>1, KeyNames DEF Intended, BasketDocs
<1>2. CASE k \in UserKeys
  BY <1>2, KeyNames DEF Intended
<1> QED
  BY <1>1, <1>2, KeyNames

\* A pending write makes of the document what it will be.
LEMMA BecomesIntended ==
    ASSUME NEW goal, Intended(goal), NEW w \in Writes(Everything), w.key \in Keys,
           goal[w.key] # NoDoc, w.fields = goal[w.key],
           NEW docs \in Views(Documents(Everything)), docs[w.key] # NoDoc
    PROVE  Applied(w, docs[w.key]) = goal[w.key]
<1> DEFINE doc == docs[w.key]
           made == goal[w.key]
<1>1. w.op = "update" /\ w.fields = made
  BY WriteTyped
<1>2. PICK S : made \in [items : S]
  BY Documented
<1>3. PICK T : doc \in [items : T]
  <2>1. doc \in Documents(Everything)[w.key] /\ doc # NoDoc
    BY DEF Views
  <2> HIDE DEF doc
  <2>2. CASE w.key \in BasketKeys
    <3>1. doc \in [items : SUBSET Items]
      <4>1. Documents(Everything)[w.key] = BasketDocs
        BY <2>2, DocumentsOf
      <4> QED
        BY <2>1, <4>1 DEF BasketDocs
    <3> QED
      BY <3>1
  <2>3. CASE w.key \in UserKeys
    <3>1. doc \in [items : Seq(Everything[Of(w.key)])]
      BY <2>1, <2>3, DocumentsOf
    <3> QED
      BY <3>1
  <2> QED
    BY <2>2, <2>3, KeyNames
<1> HIDE DEF doc, made
<1>4. DOMAIN doc = {"items"} /\ made = [items |-> made.items]
  BY <1>2, <1>3
<1>5. Applied(w, doc) = [f \in {"items"} |-> made[f]]
  <2>1. doc # NoDoc
    BY DEF doc
  <2>2. DOMAIN w.fields = {"items"}
    BY <1>1, <1>4
  <2> QED
    BY <1>1, <1>4, <2>1, <2>2 DEF Applied
<1>6. Applied(w, doc) = made
  BY <1>4, <1>5
<1> QED
  BY <1>6 DEF doc, made

\* The queue of the account that is signed in changes, and no other.
LEMMA OneQueue ==
    ASSUME Held(Everything), NEW ws, queue' = [queue EXCEPT ![Phone][user[Phone]] = ws],
           user' = user
    PROVE  pending(Phone)' = ws /\ \A u \in Accounts \ {Me} : queue'[Phone][u] = queue[Phone][u]
<1>1. /\ Phone \in Devices /\ user[Phone] \in Accounts
      /\ queue \in [Devices -> [Accounts -> Seq(Writes(Everything))]]
  BY ClientTyped
<1>2. pending(Phone)' = queue'[Phone][user[Phone]]
  BY DEF pending
<1> QED
  BY <1>1, <1>2 DEF Me

LEMMA WritesTyped ==
    ASSUME Held(Everything)
    PROVE  /\ pending(Phone) \in Seq(Writes(Everything)) /\ main[Phone] \in Seq(Blocks(Everything))
           /\ server \in Views(Documents(Everything))
           /\ cache[Phone] \in Views(Documents(Everything))
           /\ \A w \in Writes(Everything) : w.key \in Keys /\ w.op = "update"
<1>1. ClientHolds(Documents(Everything), Writes(Everything), Blocks(Everything))
  BY DEF Held, Sound, ClientOK
<1>2. Phone \in Devices
  BY KeyNames
<1>3. \A w \in Writes(Everything) : w.key \in Keys /\ w.op = "update"
  BY WriteTyped, KeyNames
<1> QED
  BY <1>1, <1>2, <1>3 DEF ClientHolds, pending

\* A write is stored.
LEMMA CommitAgrees ==
    ASSUME NEW goal, Intended(goal), NEW ws \in Seq(Writes(Everything)), NEW me,
           NEW srv \in Views(Documents(Everything)), NEW copy,
           Agrees(goal, ws, srv, copy), Sends(goal, ws, srv, me), NEW i \in DOMAIN ws,
           NEW ws2, SameBut(ws, ws2, i, "committed"),
           NEW srv2, srv2 = [srv EXCEPT ![ws[i].key] = Applied(ws[i], @)]
    PROVE  Agrees(goal, ws2, srv2, copy) /\ Sends(goal, ws2, srv2, me)
<1> DEFINE k == ws[i].key
<1>1. /\ ws[i] \in Writes(Everything) /\ k \in Keys
      /\ srv \in [Keys -> UNION {Documents(Everything)[l] : l \in Keys}]
  BY WriteTyped, KeyNames DEF Views
<1>2. goal[k] # NoDoc /\ srv[k] # NoDoc /\ ws[i].fields = goal[k]
  BY <1>1 DEF Agrees, Sends
<1>3. Applied(ws[i], srv[k]) = goal[k]
  BY <1>1, <1>2, BecomesIntended
<1>4. srv2[k] = goal[k] /\ \A l \in Keys \ {k} : srv2[l] = srv[l]
  BY <1>1, <1>3
<1>5. \A j \in DOMAIN ws : ws[j].key \in Keys
  BY WriteTyped, KeyNames
<1> HIDE DEF k
<1>6. Agrees(goal, ws2, srv2, copy)
  <2>1. DOMAIN ws2 = DOMAIN ws /\ \A j \in DOMAIN ws : ws2[j].key = ws[j].key
    BY DEF SameBut
  <2> QED
    BY <1>2, <1>4, <2>1 DEF Agrees
<1>7. Sends(goal, ws2, srv2, me)
  <2>1. \A j \in DOMAIN ws : ws[j].key = k => srv2[k] = goal[ws[j].key]
    BY <1>4
  <2>2. \A j \in DOMAIN ws : ws[j].key # k => srv2[ws[j].key] = srv[ws[j].key]
    BY <1>4, <1>5
  <2>3. \A j \in DOMAIN ws : ws2[j].fate \in {"pending", "committed"}
                               /\ (ws2[j].fate = "committed" => srv2[ws[j].key] = goal[ws[j].key])
    <3> SUFFICES ASSUME NEW j \in DOMAIN ws
                 PROVE  /\ ws2[j].fate \in {"pending", "committed"}
                        /\ ws2[j].fate = "committed" => srv2[ws[j].key] = goal[ws[j].key]
      OBVIOUS
    <3>1. CASE j = i
      BY <1>4, <2>1, <3>1 DEF SameBut, k
    <3>2. CASE j # i
      <4>1. ws2[j] = ws[j] /\ ws[j].key # k
        BY <3>2 DEF SameBut, Sends, k
      <4> QED
        BY <2>2, <4>1 DEF Sends
    <3> QED
      BY <3>1, <3>2
  <2>4. DOMAIN ws2 = DOMAIN ws
        /\ \A j \in DOMAIN ws : ws2[j].key = ws[j].key /\ ws2[j].fields = ws[j].fields
    BY DEF SameBut
  <2> QED
    BY <2>3, <2>4 DEF Sends
<1> QED
  BY <1>6, <1>7

\* The first write is answered.
LEMMA AnswerAgrees ==
    ASSUME NEW goal, Intended(goal), NEW ws \in Seq(Writes(Everything)), NEW me, ws # << >>,
           NEW copy \in Views(Documents(Everything)), NEW srv,
           Agrees(goal, ws, srv, copy), Sends(goal, ws, srv, me), Head(ws).fate # "pending",
           NEW copy2,
           copy2 = IF Head(ws).fate = "committed"
                   THEN [copy EXCEPT ![Head(ws).key] = Applied(Head(ws), @)] ELSE copy
    PROVE  /\ Agrees(goal, Tail(ws), srv, copy2) /\ Sends(goal, Tail(ws), srv, me)
           /\ Head(ws).fate = "committed"
<1> DEFINE w == Head(ws)
           k == w.key
           rest == Tail(ws)
<1>1. /\ 1 \in DOMAIN ws /\ w = ws[1]
      /\ \A n \in DOMAIN rest : n + 1 \in DOMAIN ws /\ rest[n] = ws[n + 1] /\ n \in Nat \ {0}
      /\ \A n \in DOMAIN ws : n # 1 => n - 1 \in DOMAIN rest /\ rest[n - 1] = ws[n]
  BY TailOf
<1>2. /\ w \in Writes(Everything) /\ k \in Keys
      /\ copy \in [Keys -> UNION {Documents(Everything)[l] : l \in Keys}]
  BY <1>1, WriteTyped, KeyNames DEF Views
<1>3. w.fate = "committed"
  BY <1>1 DEF Sends
<1>4. goal[k] # NoDoc /\ srv[k] = goal[k] /\ copy[k] # NoDoc /\ w.fields = goal[k]
  BY <1>1, <1>2, <1>3 DEF Sends, Agrees
<1>5. Applied(w, copy[k]) = goal[k]
  BY <1>2, <1>4, BecomesIntended
<1>6. copy2[k] = goal[k] /\ \A l \in Keys \ {k} : copy2[l] = copy[l]
  BY <1>2, <1>3, <1>5
<1> HIDE DEF rest, w
<1>7. Sends(goal, rest, srv, me)
  <2>1. ASSUME NEW m \in DOMAIN rest, NEW n \in DOMAIN rest, rest[m].key = rest[n].key
        PROVE  m = n
    <3>1. m + 1 = n + 1
      BY <1>1, <2>1 DEF Sends
    <3> QED
      BY <1>1, <3>1
  <2> QED
    BY <1>1, <2>1 DEF Sends
<1>8. Agrees(goal, rest, srv, copy2)
  <2> SUFFICES ASSUME NEW l \in Keys
               PROVE  /\ srv[l] = NoDoc <=> goal[l] = NoDoc
                      /\ copy2[l] = NoDoc <=> goal[l] = NoDoc
                      /\ (\A i \in DOMAIN rest : rest[i].key # l) => srv[l] = goal[l] /\ copy2[l] = goal[l]
    BY DEF Agrees
  <2>1. CASE l = k
    BY <1>4, <1>6, <2>1
  <2>2. CASE l # k
    <3>1. copy2[l] = copy[l]
      BY <1>6, <2>2
    <3>2. (\A i \in DOMAIN rest : rest[i].key # l) => \A i \in DOMAIN ws : ws[i].key # l
      BY <1>1, <2>2
    <3> QED
      BY <3>1, <3>2 DEF Agrees
  <2> QED
    BY <2>1, <2>2
<1> QED
  BY <1>3, <1>7, <1>8 DEF rest, w

\* Answers get lost with the connection.
LEMMA BreakAgrees ==
    ASSUME NEW goal, NEW ws \in Seq(Writes(Everything)), NEW me, NEW srv, NEW copy,
           Agrees(goal, ws, srv, copy), Sends(goal, ws, srv, me)
    PROVE  /\ Agrees(goal, Unsent(ws), srv, copy) /\ Sends(goal, Unsent(ws), srv, me)
           /\ DOMAIN Unsent(ws) = DOMAIN ws
           /\ \A i \in DOMAIN ws : Unsent(ws)[i].tag = ws[i].tag
<1> DEFINE ws2 == Unsent(ws)
<1>1. /\ DOMAIN ws2 = DOMAIN ws
      /\ \A i \in DOMAIN ws : /\ ws2[i].key = ws[i].key /\ ws2[i].fields = ws[i].fields
                              /\ ws2[i].tag = ws[i].tag /\ ws2[i].fate = "pending"
  BY DEF Unsent, Writes, BasketWrites, HistoryWrites
<1> HIDE DEF ws2
<1>2. Agrees(goal, ws2, srv, copy)
  BY <1>1 DEF Agrees
<1>3. Sends(goal, ws2, srv, me)
  BY <1>1 DEF Sends
<1> QED
  BY <1>1, <1>2, <1>3 DEF ws2

LEMMA AgendaMoves ==
    ASSUME NEW B, NEW blocks \in Seq(B), NEW W, NEW ws \in Seq(W), ws # << >>
    PROVE  Append(blocks, Told(Head(ws).tag)) \o Tells(Tail(ws)) = blocks \o Tells(ws)
<1> DEFINE told == Tells(ws)
           rest == Tells(Tail(ws))
           T == {told[i] : i \in DOMAIN ws}
<1>1. told \in Seq(T) /\ told # << >> /\ Head(told) = Told(Head(ws).tag)
  BY DEF Tells
<1>2. rest = Tail(told)
  BY DEF Tells
<1>3. blocks \in Seq(B \cup T) /\ told \in Seq(B \cup T)
  <2> HIDE DEF T, told
  <2> QED
    BY <1>1
<1>4. Append(blocks, Head(told)) \o Tail(told) = blocks \o told
  <2> HIDE DEF T, told
  <2>1. PICK S : S = B \cup T
    OBVIOUS
  <2>2. blocks \in Seq(S) /\ told \in Seq(S)
    BY <1>3, <2>1
  <2> QED
    BY <1>1, <2>2
<1> HIDE DEF rest, told
<1> QED
  BY <1>1, <1>2, <1>4 DEF rest, told

\* What the network does to the client, and leaves to the app.
Moved(goal) ==
    /\ Coming(goal)' /\ user' = user
    /\ pending(Phone) = << >> => pending(Phone)' = << >> /\ main' = main
    /\ Untold => Untold'
    /\ (\A i \in DOMAIN pending(Phone) : pending(Phone)[i].tag # None) => Agenda' = Agenda

LEMMA CommitMoves ==
    ASSUME Held(Everything), NEW goal, Coming(goal), NEW i \in DOMAIN pending(Phone),
           CommitWrite(Phone, i)
    PROVE  Moved(goal)
<1> DEFINE ws == pending(Phone)
           ws2 == Decided(ws, i, "committed")
<1>1. ws \in Seq(Writes(Everything)) /\ server \in Views(Documents(Everything))
  BY WritesTyped
<1>2. /\ queue' = [queue EXCEPT ![Phone][user[Phone]] = ws2] /\ user' = user
      /\ UNCHANGED <<cache, main>>
      /\ server' = [server EXCEPT ![ws[i].key] = Applied(ws[i], @)]
  BY DEF CommitWrite, Decide, Decided, pending
<1>3. pending(Phone)' = ws2 /\ \A u \in Accounts \ {Me} : queue'[Phone][u] = queue[Phone][u]
  <2> HIDE DEF ws2
  <2> QED
    BY <1>2, OneQueue
<1>4. SameBut(ws, ws2, i, "committed")
  BY <1>1, DecisionMarks
<1> HIDE DEF ws2
<1>5. /\ Agrees(goal, ws, server, cache[Phone]) /\ Sends(goal, ws, server, Me)
      /\ Intended(goal)
  BY DEF Coming
<1>6. Agrees(goal, ws2, server', cache[Phone]) /\ Sends(goal, ws2, server', Me)
  BY <1>1, <1>2, <1>4, <1>5, CommitAgrees
<1>7. Coming(goal)'
  BY <1>2, <1>3, <1>5, <1>6 DEF Coming, Me, Intended
<1>8. DOMAIN ws2 = DOMAIN ws /\ \A j \in DOMAIN ws : ws2[j].tag = ws[j].tag
  BY <1>4 DEF SameBut
<1>9. Agenda' = Agenda /\ (Untold => Untold')
  <2>1. Tells(ws2) = Tells(ws)
    BY <1>8 DEF Tells
  <2> QED
    BY <1>2, <1>3, <1>8, <2>1 DEF Agenda, Untold
<1>10. pending(Phone) # << >>
  BY <1>1
<1> QED
  BY <1>2, <1>7, <1>9, <1>10 DEF Moved

LEMMA AcknowledgeMoves ==
    ASSUME Held(Everything), NEW goal, Coming(goal), Acknowledge(Phone)
    PROVE  Moved(goal)
<1> DEFINE ws == pending(Phone)
           w == Head(ws)
           rest == Tail(ws)
<1>1. /\ ws \in Seq(Writes(Everything)) /\ main[Phone] \in Seq(Blocks(Everything))
      /\ cache[Phone] \in Views(Documents(Everything)) /\ ws # << >>
      /\ main \in [Devices -> Seq(Blocks(Everything))] /\ Phone \in Devices
      /\ cache \in [Devices -> Views(Documents(Everything))]
  BY WritesTyped, ClientTyped DEF Acknowledge
<1>2. /\ queue' = [queue EXCEPT ![Phone][user[Phone]] = rest] /\ user' = user
      /\ server' = server /\ w.fate # "pending"
      /\ cache' = IF w.fate = "committed"
                  THEN [cache EXCEPT ![Phone][w.key] = Applied(w, @)] ELSE cache
      /\ main' = IF w.tag = None THEN main
                 ELSE [main EXCEPT ![Phone] = Append(@, Written(w))]
  BY DEF Acknowledge, pending
<1>3. pending(Phone)' = rest /\ \A u \in Accounts \ {Me} : queue'[Phone][u] = queue[Phone][u]
  <2> HIDE DEF rest
  <2> QED
    BY <1>2, OneQueue
<1>4. cache'[Phone] = IF w.fate = "committed"
                      THEN [cache[Phone] EXCEPT ![w.key] = Applied(w, @)] ELSE cache[Phone]
  BY <1>1, <1>2
<1>5. /\ Agrees(goal, ws, server, cache[Phone]) /\ Sends(goal, ws, server, Me)
      /\ Intended(goal)
  BY DEF Coming
<1>6. /\ Agrees(goal, rest, server, cache'[Phone]) /\ Sends(goal, rest, server, Me)
      /\ w.fate = "committed"
  BY <1>1, <1>2, <1>4, <1>5, AnswerAgrees
<1>7. Coming(goal)'
  <2> HIDE DEF rest
  <2> QED
    BY <1>2, <1>3, <1>5, <1>6 DEF Coming, Me, Intended
<1>8. /\ 1 \in DOMAIN ws /\ w = ws[1]
      /\ \A n \in DOMAIN rest : n + 1 \in DOMAIN ws /\ rest[n] = ws[n + 1]
  BY <1>1, TailOf
<1> HIDE DEF rest, w
<1>9. ASSUME Untold PROVE Untold'
  <2>1. w.tag = None
    BY <1>8, <1>9 DEF Untold
  <2>2. main' = main
    BY <1>2, <2>1
  <2>3. \A n \in DOMAIN rest : rest[n].tag = None
    BY <1>8, <1>9 DEF Untold
  <2> QED
    BY <1>3, <1>9, <2>2, <2>3 DEF Untold
<1>10. ASSUME \A i \in DOMAIN ws : ws[i].tag # None PROVE Agenda' = Agenda
  <2>1. main' = [main EXCEPT ![Phone] = Append(@, Written(w))]
    BY <1>2, <1>8, <1>10
  <2>2. Written(w) = Told(w.tag)
    BY <1>6 DEF Written, Told, Accepted
  <2>3. main'[Phone] = Append(main[Phone], Told(w.tag))
    BY <1>1, <2>1, <2>2
  <2>4. Append(main[Phone], Told(w.tag)) \o Tells(rest) = main[Phone] \o Tells(ws)
    BY <1>1, AgendaMoves DEF rest, w
  <2> QED
    BY <1>3, <2>3, <2>4 DEF Agenda
<1> QED
  BY <1>1, <1>2, <1>7, <1>9, <1>10 DEF Moved

LEMMA BreakMoves ==
    ASSUME Held(Everything), NEW goal, Coming(goal), StreamBreaks(Phone),
           UNCHANGED <<server, cache, user, main>>
    PROVE  Moved(goal)
<1> DEFINE ws == pending(Phone)
           ws2 == Unsent(ws)
<1>1. ws \in Seq(Writes(Everything))
  BY WritesTyped
<1>2. /\ Agrees(goal, ws, server, cache[Phone]) /\ Sends(goal, ws, server, Me)
      /\ Intended(goal)
  BY DEF Coming
<1>3. CASE UNCHANGED queue
  BY <1>2, <1>3 DEF Coming, Me, pending, Untold, Agenda, Moved, Intended
<1>4. CASE queue' = [queue EXCEPT ![Phone][user[Phone]] = Unsent(@)]
  <2>1. queue' = [queue EXCEPT ![Phone][user[Phone]] = ws2]
    BY <1>4 DEF pending
  <2>2. /\ Agrees(goal, ws2, server, cache[Phone]) /\ Sends(goal, ws2, server, Me)
        /\ DOMAIN ws2 = DOMAIN ws /\ \A i \in DOMAIN ws : ws2[i].tag = ws[i].tag
    BY <1>1, <1>2, BreakAgrees
  <2>3. ws = << >> => ws2 = << >>
    BY DEF Unsent
  <2>4. Tells(ws2) = Tells(ws)
    BY <2>2 DEF Tells
  <2> HIDE DEF ws2
  <2>5. pending(Phone)' = ws2 /\ \A u \in Accounts \ {Me} : queue'[Phone][u] = queue[Phone][u]
    BY <2>1, OneQueue
  <2>6. Coming(goal)'
    BY <1>2, <2>2, <2>5 DEF Coming, Me, Intended
  <2>7. Agenda' = Agenda /\ (Untold => Untold')
    BY <2>2, <2>4, <2>5 DEF Agenda, Untold
  <2> QED
    BY <2>3, <2>5, <2>6, <2>7 DEF Moved
<1> QED
  BY <1>3, <1>4 DEF StreamBreaks

\* Nothing is refused to a user whose writes do not fail.
LEMMA NoRefusal ==
    ASSUME Held(Everything), NothingFails, NEW i \in DOMAIN pending(Phone)
    PROVE  ~ RefuseWrite(Phone, i)
<1> SUFFICES ASSUME RefuseWrite(Phone, i) PROVE FALSE
  OBVIOUS
<1> DEFINE ws == pending(Phone)
           ws2 == Decided(ws, i, "refused")
<1>1. ws \in Seq(Writes(Everything))
  BY WritesTyped
<1>2. queue' = [queue EXCEPT ![Phone][user[Phone]] = ws2] /\ user' = user
  BY DEF RefuseWrite, Decide, Decided, pending
<1>3. SameBut(ws, ws2, i, "refused")
  BY <1>1, DecisionMarks
<1> HIDE DEF ws2
<1>4. pending(Phone)' = ws2
  BY <1>2, OneQueue
<1> QED
  BY <1>3, <1>4 DEF NothingFails, SameBut

LEMMA NetworkMoves ==
    ASSUME Held(Everything), NEW goal, Coming(goal), Network \/ NetworkLost, NothingFails
    PROVE  Moved(goal) /\ UNCHANGED appVars
<1>1. CASE ServerDecides
  BY <1>1, NoRefusal, CommitMoves DEF ServerDecides
<1>2. CASE ClientLearns
  BY <1>2, AcknowledgeMoves DEF ClientLearns
<1>3. CASE NetworkBack
  BY <1>3, BreakMoves DEF NetworkBack, GoOnline, StreamBreaks
<1>4. CASE NetworkLost
  BY <1>4, BreakMoves DEF NetworkLost, GoOffline
<1> QED
  BY <1>1, <1>2, <1>3, <1>4 DEF Network

--------------------------------------------------------------------------------
(* What waits.                                                             *)

LEMMA ToldInTurn ==
    ASSUME Held(Everything)
    PROVE  /\ Agenda = << >> <=> main[Phone] = << >> /\ pending(Phone) = << >>
           /\ \A i \in DOMAIN pending(Phone) :
                 \E n \in DOMAIN Agenda : Agenda[n] = Told(pending(Phone)[i].tag)
           /\ main[Phone] # << >> =>
                 /\ Agenda # << >> /\ Head(Agenda) = Head(main[Phone])
                 /\ Tail(Agenda) = Tail(main[Phone]) \o Tells(pending(Phone))
<1> DEFINE ws == pending(Phone)
           told == Tells(ws)
           T == {told[i] : i \in DOMAIN ws}
           blocks == main[Phone]
<1>1. ws \in Seq(Writes(Everything)) /\ blocks \in Seq(Blocks(Everything))
  BY WritesTyped
<1>2. told \in Seq(T) /\ DOMAIN told = DOMAIN ws /\ \A i \in DOMAIN ws : told[i] = Told(ws[i].tag)
  BY <1>1 DEF Tells
<1>3. (ws = << >> <=> told = << >>) /\ Agenda = blocks \o told
  BY <1>1 DEF Tells, Agenda
<1> HIDE DEF T, told, ws, blocks
<1>4. PICK S : blocks \in Seq(S) /\ told \in Seq(S)
  <2>1. blocks \in Seq(Blocks(Everything) \cup T) /\ told \in Seq(Blocks(Everything) \cup T)
    BY <1>1, <1>2
  <2> QED
    BY <2>1
<1>5. blocks \o told = << >> <=> blocks = << >> /\ told = << >>
  BY <1>4
<1>6. \A i \in DOMAIN told : Len(blocks) + i \in DOMAIN (blocks \o told)
                             /\ (blocks \o told)[Len(blocks) + i] = told[i]
  BY <1>4
<1>7. blocks # << >> =>
        /\ blocks \o told # << >> /\ Head(blocks \o told) = Head(blocks)
        /\ Tail(blocks \o told) = Tail(blocks) \o told
  BY <1>4
<1> QED
  BY <1>2, <1>3, <1>5, <1>6, <1>7 DEF told, ws, blocks

LEMMA OneTold ==
    ASSUME Held(Everything), NEW b, Agenda = <<b>>, main[Phone] # << >>
    PROVE  Head(main[Phone]) = b /\ Tail(main[Phone]) = << >> /\ pending(Phone) = << >>
<1> DEFINE rest == Tail(main[Phone])
           ws == pending(Phone)
           told == Tells(ws)
<1>1. Head(main[Phone]) = b /\ rest \o told = << >>
  BY ToldInTurn
<1>2. rest \in Seq(Blocks(Everything)) /\ ws \in Seq(Writes(Everything))
  BY WritesTyped
<1>3. told \in Seq({told[i] : i \in DOMAIN ws}) /\ Len(told) = Len(ws)
  BY <1>2 DEF Tells
<1> HIDE DEF rest, ws, told
<1>4. PICK S : rest \in Seq(S) /\ told \in Seq(S)
  <2>1. /\ rest \in Seq(Blocks(Everything) \cup {told[i] : i \in DOMAIN ws})
        /\ told \in Seq(Blocks(Everything) \cup {told[i] : i \in DOMAIN ws})
    BY <1>2, <1>3
  <2> QED
    BY <2>1
<1>5. rest = << >> /\ told = << >>
  BY <1>1, <1>4
<1>6. ws = << >>
  BY <1>2, <1>3, <1>5
<1> QED
  BY <1>1, <1>5, <1>6 DEF rest, ws

\* The network leaves the app where it was.
LEMMA MovedStays ==
    ASSUME Held(Everything), NEW goal, Moved(goal), UNCHANGED appVars, Phase(goal)
    PROVE  Phase(goal)'
<1> USE DEF appVars, view, list, past
<1>1. user' = user /\ Me' = Me /\ (SignedIn' <=> SignedIn)
  BY DEF Moved, Me, SignedIn
<1>2. CASE Quiet(goal)
  <2>1. NothingAdded' /\ RecordRight(goal)' /\ ScreenRight(goal)' /\ FetchRight'
    BY <1>1, <1>2 DEF Quiet, NothingAdded, OnlyAdds, RecordRight, RecordOwn, ScreenRight, FetchRight
  <2>2. SheetRight(goal)'
    BY <1>1, <1>2 DEF Quiet, SheetRight, Moved
  <2> QED
    BY <1>2, <2>1, <2>2 DEF Phase, Quiet, Moved
<1>3. ASSUME NEW r, Awaits(goal, r)
      PROVE  Awaits(goal, r)' /\ main' = main
  BY <1>1, <1>3 DEF Awaits, OnlyAdds, NothingAdded, RecordRight, RecordOwn, Moved
<1>4. CASE Asking(goal)
  BY <1>3, <1>4 DEF Asking, Phase
<1>5. CASE Answered(goal)
  BY <1>3, <1>5 DEF Answered, Phase
<1>6. CASE Writing(goal)
  <2>1. PICK i \in Items :
          /\ Agenda = <<Told([to |-> "added", by |-> Me, item |-> i])>>
          /\ OnlyAdds({i}, "writing") /\ adding[Me][i] = "writing"
    BY <1>6 DEF Writing
  <2>2. Me \in Users
    BY <1>6 DEF Writing, RecordRight, RecordOwn, SignedIn
  <2>3. \A j \in DOMAIN pending(Phone) : pending(Phone)[j].tag # None
    <3> SUFFICES ASSUME NEW j \in DOMAIN pending(Phone) PROVE pending(Phone)[j].tag # None
      OBVIOUS
    <3>1. Told(pending(Phone)[j].tag) = Told([to |-> "added", by |-> Me, item |-> i])
      BY <2>1, ToldInTurn
    <3>2. pending(Phone)[j].tag = [to |-> "added", by |-> Me, item |-> i]
      BY <3>1 DEF Told
    <3> QED
      BY <2>2, <3>2, CheckoutAssumption
  <2>4. Agenda' = Agenda
    BY <2>3 DEF Moved
  <2>5. OnlyAdds({i}, "writing")' /\ adding'[Me'][i] = "writing"
    BY <1>1, <2>1 DEF OnlyAdds
  <2>6. RecordRight(goal)'
    BY <1>1, <1>6 DEF Writing, RecordRight, RecordOwn
  <2>7. Agenda' = <<Told([to |-> "added", by |-> Me', item |-> i])>>
    BY <1>1, <2>1, <2>4
  <2>8. Writing(goal)'
    BY <1>1, <1>6, <2>5, <2>6, <2>7 DEF Writing
  <2> QED
    BY <2>8 DEF Phase
<1>7. CASE Recording(goal)
  <2> DEFINE done == [of |-> Me, items |-> Past(goal, Me)]
             first == [to |-> "history", by |-> Me, record |-> done]
             last == [to |-> "emptied"]
  <2>1. \/ Agenda = <<Told(first), Told(last)>>
        \/ Agenda = <<Told(last)>> /\ record = done
    BY <1>7 DEF Recording
  <2>2. Me \in Users /\ Past(goal, Me) \in Seq(Items)
    BY <1>1, <1>7 DEF Recording, RecordOwn, SignedIn, Moved, Coming, Intended, Past
  <2>3. first # None /\ last # None
    BY <2>2, CheckoutAssumption
  <2> HIDE DEF first, last
  <2>4. \A j \in DOMAIN pending(Phone) : pending(Phone)[j].tag # None
    <3> SUFFICES ASSUME NEW j \in DOMAIN pending(Phone) PROVE pending(Phone)[j].tag # None
      OBVIOUS
    <3>1. Told(pending(Phone)[j].tag) = Told(first) \/ Told(pending(Phone)[j].tag) = Told(last)
      BY <2>1, ToldInTurn
    <3> QED
      BY <2>3, <3>1 DEF Told
  <2>5. Agenda' = Agenda
    BY <2>4 DEF Moved
  <2>6. Me' = Me /\ NothingAdded' /\ RecordOwn'
    BY <1>1, <1>7 DEF Recording, NothingAdded, OnlyAdds, RecordOwn
  <2>7. \E d : d = [of |-> Me', items |-> Past(goal, Me')] /\
           \/ Agenda' = <<Told([to |-> "history", by |-> Me', record |-> d]),
                          Told([to |-> "emptied"])>>
           \/ Agenda' = <<Told([to |-> "emptied"])>> /\ record' = d
    BY <1>1, <2>1, <2>5 DEF first, last
  <2>8. Recording(goal)'
    BY <1>1, <1>7, <2>6, <2>7 DEF Recording
  <2> QED
    BY <2>8 DEF Phase
<1> QED
  BY <1>2, <1>4, <1>5, <1>6, <1>7 DEF Phase

LEMMA NetworkRight ==
    ASSUME Held(Everything), NEW goal, Right(goal), Network \/ NetworkLost, NothingFails
    PROVE  Right(goal)'
<1>1. Moved(goal) /\ UNCHANGED appVars
  BY NetworkMoves DEF Right
<1>2. Coming(goal)' /\ Phase(goal)' /\ user' = user
  BY <1>1, MovedStays DEF Right, Moved
<1>3. Accounted(goal)'
  BY <1>1, <1>2 DEF Right, Accounted, appVars, view, list, past, LinesRight, HistoryRight, NoneUnpaid,
                    ToBuyRight, BasketRight, Paid, Me
<1> QED
  BY <1>2, <1>3 DEF Right

LEMMA StutterRight ==
    ASSUME Held(Everything), NEW goal, Right(goal), UNCHANGED vars
    PROVE  Right(goal)'
<1>1. UNCHANGED clientVars /\ UNCHANGED appVars
  BY DEF vars, appVars
<1>2. pending(Phone)' = pending(Phone) /\ Me' = Me
  BY <1>1 DEF clientVars, pending, Me
<1>3. Moved(goal)
  BY <1>1, <1>2 DEF Moved, Right, Coming, Untold, Agenda, clientVars, Intended
<1>4. Phase(goal)'
  BY <1>1, <1>3, MovedStays DEF Right
<1>5. Accounted(goal)'
  BY <1>1, <1>2 DEF Right, Accounted, appVars, view, list, past, LinesRight, HistoryRight, NoneUnpaid,
                    ToBuyRight, BasketRight, Paid
<1> QED
  BY <1>3, <1>4, <1>5 DEF Right, Moved

--------------------------------------------------------------------------------
(* What the user does, when there is nothing left to do.                   *)

LEMMA SettledIsQuiet ==
    ASSUME Held(Everything), NEW goal, Right(goal), Settled
    PROVE  /\ Quiet(goal) /\ fetches = << >> /\ sheet \in {"none", "up"}
           /\ main[Phone] = << >> /\ pending(Phone) = << >> /\ Agenda = << >>
           /\ \A u \in Accounts : queue[Phone][u] = << >>
           /\ \A k \in Keys : server[k] = goal[k]
<1>1. main[Phone] = << >> /\ pending(Phone) = << >> /\ reads = << >> /\ fetches = << >>
  BY DEF Settled
<1>2. Agenda = << >>
  BY <1>1, ToldInTurn
<1>3. Quiet(goal)
  <2>1. \A a, b : <<a>> # << >> /\ <<a, b>> # << >>
    OBVIOUS
  <2> QED
    BY <1>1, <1>2, <2>1 DEF Right, Phase, Asking, Answered, Writing, Recording
<1>4. \A u \in Accounts : queue[Phone][u] = << >>
  BY <1>1 DEF Right, Coming, pending, Me
<1>5. \A k \in Keys : server[k] = goal[k]
  <2>1. \A k \in Keys : \A i \in DOMAIN pending(Phone) : pending(Phone)[i].key # k
    BY <1>1
  <2> QED
    BY <2>1 DEF Right, Coming, Agrees
<1> QED
  BY <1>1, <1>2, <1>3, <1>4, <1>5 DEF Settled, Held, ScreenTyped

\* Nothing is written and nobody comes or goes.
LEMMA ComingStays ==
    ASSUME NEW goal, Coming(goal), UNCHANGED <<server, cache, queue, user>>
    PROVE  Coming(goal)' /\ Me' = Me /\ pending(Phone)' = pending(Phone)
BY DEF Coming, Me, pending, Intended

\* The numbers change with what they are about only, and a record is a copy of the
\* history.
LEMMA AccountedStays ==
    ASSUME NEW goal, Accounted(goal), Me' = Me, sheet # "paid", sheet' = sheet,
           record' = record \/ (Me \in Users /\ record'.items = Past(goal, Me)),
           UNCHANGED <<payments, deleted, adding, dropped, toBuy, basket, offered>>
    PROVE  Accounted(goal)'
<1>1. LinesRight(goal)' /\ HistoryRight(goal)' /\ ToBuyRight' /\ BasketRight'
  BY DEF Accounted, LinesRight, HistoryRight, ToBuyRight, BasketRight, Paid
<1>2. NoneUnpaid(goal)'
  BY DEF Accounted, NoneUnpaid
<1> QED
  BY <1>1, <1>2 DEF Accounted

LEMMA AppearsRight ==
    ASSUME Held(Everything), NEW goal, Right(goal), Settled, viewDidAppear
    PROVE  Right(goal)'
<1>1. Quiet(goal) /\ fetches = << >> /\ sheet = "none" /\ main[Phone] = << >> /\ pending(Phone) = << >>
  BY SettledIsQuiet DEF viewDidAppear
<1>2. UNCHANGED clientVars /\ UNCHANGED <<server, cache, queue, user, main>>
  BY DEF viewDidAppear, clientVars
<1>3. Coming(goal)' /\ Me' = Me /\ pending(Phone)' = << >>
  BY <1>1, <1>2, ComingStays DEF Right
<1>4. Accounted(goal)'
  BY <1>1, <1>3, AccountedStays DEF Right, viewDidAppear, past
<1>5. NothingAdded' /\ RecordRight(goal)' /\ (SignedIn' <=> SignedIn)
  BY <1>1, <1>2, <1>3 DEF viewDidAppear, Quiet, NothingAdded, OnlyAdds, RecordRight, RecordOwn, SignedIn
<1>6. CASE SignedIn
  <2>0. PICK r : r = Asked("loaded", BasketKey(Me), None)
    OBVIOUS
  <2>1. reads' = <<r>> /\ appeared' /\ sheet' = "none" /\ fetches' = << >>
    BY <1>1, <1>6, <2>0 DEF viewDidAppear, Quiet, Me
  <2>2. Awaits(goal, r)'
    BY <1>3, <1>5, <1>6, <2>0, <2>1 DEF Awaits
  <2>3. Asking(goal)'
    BY <1>1, <1>2, <2>1, <2>2 DEF Asking
  <2> QED
    BY <1>3, <1>4, <2>3 DEF Right, Phase
<1>7. CASE ~ SignedIn
  <2>1. ScreenRight(goal)' /\ SheetRight(goal)' /\ FetchRight' /\ Untold' /\ reads' = << >>
    BY <1>1, <1>2, <1>3, <1>5, <1>7 DEF viewDidAppear, Quiet, ScreenRight, SheetRight, FetchRight, Untold
  <2>2. Quiet(goal)'
    BY <1>5, <2>1 DEF Quiet
  <2> QED
    BY <1>3, <1>4, <2>2 DEF Right, Phase
<1> QED
  BY <1>6, <1>7

LEMMA AddTappedRight ==
    ASSUME Held(Everything), NEW goal, Right(goal), Settled, NEW i \in Items, addToBasketTapped(i)
    PROVE  Right(goal)'
<1>1. /\ Quiet(goal) /\ fetches = << >> /\ sheet = "none" /\ main[Phone] = << >>
      /\ pending(Phone) = << >> /\ SignedIn /\ \A k \in Keys : server[k] = goal[k]
  BY SettledIsQuiet DEF addToBasketTapped
<1>2. UNCHANGED clientVars /\ UNCHANGED <<server, cache, queue, user, main>>
  BY DEF addToBasketTapped, clientVars
<1>3. Coming(goal)' /\ Me' = Me /\ pending(Phone)' = << >>
  BY <1>1, <1>2, ComingStays DEF Right
<1>4. Me \in Users /\ BasketKey(Me) \in Keys
  BY <1>1, KeyNames DEF Quiet, RecordRight, RecordOwn, SignedIn
<1>5. /\ Has(goal, Me) /\ adding[Me][i] = "idle"
      /\ adding' = [adding EXCEPT ![Me][i] = "reading"]
      /\ adding \in [Users -> [Items -> Progress]]
  BY <1>1, <1>4 DEF addToBasketTapped, HasBasket, Has, Me, Held, ScreenTyped
<1>6. adding'[Me][i] = "reading" /\ \A u \in Users, j \in Items :
                                       u # Me \/ j # i => adding'[u][j] = adding[u][j]
  BY <1>4, <1>5
<1>7. LinesRight(goal)'
  <2> SUFFICES ASSUME NEW u \in Users, Has(goal, u), NEW j \in Items
               PROVE  adding'[u][j] \in {"writing", "added"} <=> adding[u][j] \in {"writing", "added"}
    BY <1>1, <1>3 DEF Right, Accounted, LinesRight, Paid, addToBasketTapped, past
  <2> QED
    BY <1>5, <1>6
<1>8. Accounted(goal)'
  BY <1>1, <1>3, <1>7 DEF Right, Accounted, HistoryRight, NoneUnpaid, ToBuyRight, BasketRight, Paid,
                         addToBasketTapped, past
<1>9. OnlyAdds({i}, "reading")'
  <2> SUFFICES ASSUME NEW u \in Users, NEW j \in Items, adding'[u][j] \in {"reading", "writing"}
               PROVE  u = Me /\ j = i
    BY <1>3, <1>6 DEF OnlyAdds
  <2> QED
    BY <1>1, <1>6 DEF Quiet, NothingAdded, OnlyAdds
<1>10. RecordRight(goal)' /\ SignedIn'
  BY <1>1, <1>2, <1>3 DEF addToBasketTapped, Quiet, RecordRight, RecordOwn, SignedIn
<1>0. PICK r : r = Asked("add", BasketKey(Me), i)
  OBVIOUS
<1>11. reads' = <<r>> /\ ~ appeared' /\ sheet' = "none" /\ fetches' = << >>
  <2>1. reads' = Append(reads, r) /\ reads = << >>
    BY <1>0, <1>1 DEF addToBasketTapped, Quiet, Me
  <2> QED
    BY <1>1, <2>1 DEF addToBasketTapped, list
<1>12. Awaits(goal, r)'
  <2>1. RecordRight(goal)' /\ Me' = Me
    BY <1>3, <1>10
  <2>2. \E j \in Items : /\ r = Asked("add", BasketKey(Me'), j)
                         /\ SignedIn' /\ ~ appeared' /\ Has(goal, Me')
                         /\ OnlyAdds({j}, "reading")' /\ adding'[Me'][j] = "reading"
    <3>1. r = Asked("add", BasketKey(Me'), i)
      BY <1>0, <1>3
    <3> QED
      BY <1>3, <1>5, <1>6, <1>9, <1>10, <1>11, <3>1
  <2> QED
    BY <1>3, <1>11, <2>1, <2>2 DEF Awaits
<1>13. Asking(goal)'
  BY <1>1, <1>2, <1>11, <1>12 DEF Asking
<1> QED
  BY <1>3, <1>8, <1>13 DEF Right, Phase

\* How often an item is on the list of an empty basket, of rows, of two lists.
LEMMA CountOfNone == \A i : Count(<< >>, i) = 0
<1> SUFFICES ASSUME NEW i PROVE Count(<< >>, i) = 0
  OBVIOUS
<1>1. {n \in DOMAIN << >> : << >>[n] = i} = {}
  OBVIOUS
<1> QED
  BY <1>1, FS_EmptySet DEF Count

LEMMA CountOfRows ==
    ASSUME NEW S \in SUBSET Items, NEW i
    PROVE  Count(SetToSeq(S), i) = IF i \in S THEN 1 ELSE 0
<1> DEFINE s == SetToSeq(S)
           at == {n \in DOMAIN s : s[n] = i}
           N == Cardinality(S)
<1>1. IsFiniteSet(S)
  BY CheckoutAssumption, FS_Subset
<1>2. N \in Nat /\ \E f \in [1 .. N -> S] : IsInjective(f)
  BY <1>1, FS_CardinalityType DEF ExistsBijection, Bijection, Injection
<1>3. s \in [1 .. N -> S] /\ IsInjective(s)
  BY <1>2 DEF SetToSeq
<1> HIDE DEF s, N
<1>4. \A a, b \in 1 .. N : s[a] = s[b] => a = b
  BY <1>3 DEF IsInjective
<1>5. S \subseteq {s[n] : n \in 1 .. N}
  <2>1. s \in Injection(1 .. N, S)
    BY <1>3, <1>4 DEF Injection
  <2>2. IsFiniteSet(1 .. N) /\ Cardinality(1 .. N) = N
    BY <1>2, FS_Interval
  <2>3. s \in Surjection(1 .. N, S)
    BY <1>1, <2>1, <2>2, FS_Injection DEF N
  <2> QED
    BY <2>3 DEF Surjection
<1>6. CASE i \in S
  <2>1. PICK n \in 1 .. N : s[n] = i
    BY <1>5, <1>6
  <2>2. at = {n}
    BY <1>3, <1>4, <2>1
  <2> QED
    BY <1>6, <2>2, FS_Singleton DEF Count, s
<1>7. CASE i \notin S
  <2>1. at = {}
    BY <1>3, <1>7
  <2> QED
    BY <1>7, <2>1, FS_EmptySet DEF Count, s
<1> QED
  BY <1>6, <1>7

LEMMA CountOfBoth ==
    ASSUME NEW a \in Seq(Items), NEW b \in Seq(Items), NEW i
    PROVE  Count(a \o b, i) = Count(a, i) + Count(b, i)
<1> DEFINE c == a \o b
           ina == {n \in DOMAIN a : a[n] = i}
           inb == {n \in DOMAIN b : b[n] = i}
           inc == {n \in DOMAIN c : c[n] = i}
           L == Len(a)
           shift == [n \in inb |-> L + n]
           shifted == {L + n : n \in inb}
<1>1. /\ L \in Nat /\ DOMAIN a = 1 .. L /\ Len(b) \in Nat /\ DOMAIN b = 1 .. Len(b)
      /\ DOMAIN c = 1 .. L + Len(b)
      /\ \A n \in 1 .. L + Len(b) : c[n] = IF n <= L THEN a[n] ELSE b[n - L]
  OBVIOUS
<1> HIDE DEF L, c
<1>2. IsFiniteSet(ina) /\ IsFiniteSet(inb)
  BY CountIsNat
<1>3. inc = ina \cup shifted
  <2>1. ASSUME NEW n \in inc PROVE n \in ina \cup shifted
    <3>1. n \in 1 .. L + Len(b)
      BY <1>1
    <3>2. CASE n <= L
      BY <1>1, <3>1, <3>2
    <3>3. CASE ~ (n <= L)
      <4>1. n - L \in 1 .. Len(b) /\ b[n - L] = i /\ n = L + (n - L)
        BY <1>1, <3>1, <3>3
      <4> QED
        BY <1>1, <4>1
    <3> QED
      BY <3>2, <3>3
  <2>2. ina \subseteq inc
    BY <1>1
  <2>3. ASSUME NEW n \in inb PROVE L + n \in inc
    <3>1. n \in 1 .. Len(b) /\ b[n] = i
      BY <1>1
    <3>2. L + n \in 1 .. L + Len(b) /\ ~ (L + n <= L) /\ (L + n) - L = n
      BY <1>1, <3>1
    <3> QED
      BY <1>1, <3>1, <3>2
  <2> QED
    BY <2>1, <2>2, <2>3
<1>4. ina \cap shifted = {}
  BY <1>1
<1>5. IsFiniteSet(shifted) /\ Cardinality(shifted) = Cardinality(inb)
  <2>1. \A m, n \in inb : L + m = L + n => m = n
    BY <1>1
  <2> HIDE DEF inb
  <2>2. shift \in Bijection(inb, shifted)
    <3>1. shift \in [inb -> shifted] /\ \A n \in inb : shift[n] = L + n
      OBVIOUS
    <3>2. \A m, n \in inb : shift[m] = shift[n] => m = n
      BY <2>1, <3>1
    <3>3. \A t \in shifted : \E n \in inb : shift[n] = t
      BY <3>1
    <3> HIDE DEF shift, shifted
    <3> QED
      BY <3>1, <3>2, <3>3 DEF Bijection, Injection, Surjection, IsInjective
  <2> QED
    BY <1>2, <2>2, FS_Bijection DEF ExistsBijection
<1>6. Cardinality(inc) = Cardinality(ina) + Cardinality(shifted)
  <2>1. /\ Cardinality(ina) \in Nat /\ Cardinality(shifted) \in Nat
    BY <1>2, <1>5, FS_CardinalityType
  <2> HIDE DEF ina, shifted, inc
  <2>2. Cardinality(inc) = Cardinality(ina) + Cardinality(shifted) - Cardinality(ina \cap shifted)
    BY <1>2, <1>3, <1>5, FS_Union
  <2>3. Cardinality(ina \cap shifted) = 0
    BY <1>4, FS_EmptySet
  <2> QED
    BY <2>1, <2>2, <2>3
<1> QED
  BY <1>5, <1>6 DEF Count, c

LEMMA CheckOutRight ==
    ASSUME Held(Everything), NEW goal, Right(goal), Settled, checkOutButtonWasTapped
    PROVE  Right(goal)'
<1>1. /\ Quiet(goal) /\ fetches = << >> /\ sheet = "none" /\ pending(Phone) = << >>
      /\ SignedIn /\ appeared /\ button
  BY SettledIsQuiet DEF checkOutButtonWasTapped, OnScreen
<1>2. UNCHANGED clientVars /\ UNCHANGED <<server, cache, queue, user, main>>
      /\ UNCHANGED <<appeared, basket, reads, rows, button, fetches, record, adding, payments, deleted>>
  BY DEF checkOutButtonWasTapped, clientVars, list
<1>3. Coming(goal)' /\ Me' = Me /\ pending(Phone)' = << >>
  BY <1>1, <1>2, ComingStays DEF Right
<1>4. /\ toBuy' = toBuy \o SetToSeq(rows)
      /\ \/ sheet' = "up" /\ offered' = rows /\ dropped' = dropped
         \/ sheet' = "none" /\ offered' = offered /\ dropped' = dropped \cup rows
  BY <1>1 DEF checkOutButtonWasTapped, payButtonPressed
<1>5. rows \subseteq Items /\ toBuy \in Seq(Items) /\ SetToSeq(rows) \in Seq(Items)
  <2>1. rows \subseteq Items /\ toBuy \in Seq(Items)
    BY DEF Held, ScreenTyped, Sound, ListGood
  <2>2. SetToSeq(rows) \in Seq(rows)
    BY <2>1, RowsListed
  <2> QED
    BY <2>1, <2>2
<1>6. ToBuyRight'
  <2> SUFFICES ASSUME NEW i \in Items \ dropped'
               PROVE  Count(toBuy', i) = IF sheet' # "none" /\ i \in offered' THEN 1 ELSE 0
    BY DEF ToBuyRight
  <2>1. Count(toBuy', i) = Count(toBuy, i) + Count(SetToSeq(rows), i)
    BY <1>4, <1>5, CountOfBoth
  <2>2. Count(SetToSeq(rows), i) = IF i \in rows THEN 1 ELSE 0
    BY <1>5, CountOfRows
  <2>3. Count(toBuy, i) = 0
    BY <1>1, <1>4 DEF Right, Accounted, ToBuyRight
  <2> QED
    BY <1>4, <2>1, <2>2, <2>3
<1>7. LinesRight(goal)' /\ HistoryRight(goal)' /\ NoneUnpaid(goal)' /\ BasketRight'
  <2>1. \A u : ~ Paid(u) /\ ~ Paid(u)'
    BY <1>1, <1>4 DEF Paid
  <2>2. LinesRight(goal)' /\ BasketRight'
    BY <1>2, <2>1 DEF Right, Accounted, LinesRight, BasketRight
  <2>3. HistoryRight(goal)'
    BY <1>2, <1>4, <2>1 DEF Right, Accounted, HistoryRight
  <2>4. NoneUnpaid(goal)'
    BY <1>2, <1>3, <1>4 DEF Right, Accounted, NoneUnpaid
  <2> QED
    BY <2>2, <2>3, <2>4
<1>8. SignedIn' /\ NothingAdded' /\ RecordRight(goal)' /\ Untold' /\ reads' = << >>
  BY <1>1, <1>2, <1>3 DEF Quiet, NothingAdded, OnlyAdds, RecordRight, RecordOwn, SignedIn, Untold
<1>9. ScreenRight(goal)' /\ FetchRight'
  BY <1>1, <1>2, <1>3 DEF Quiet, ScreenRight, FetchRight
<1>10. SheetRight(goal)'
  BY <1>1, <1>2, <1>3, <1>4, <1>8 DEF Quiet, ScreenRight, SheetRight
<1>11. Quiet(goal)'
  BY <1>8, <1>9, <1>10 DEF Quiet
<1> QED
  BY <1>3, <1>6, <1>7, <1>11 DEF Right, Phase, Accounted

LEMMA CancelRight ==
    ASSUME Held(Everything), NEW goal, Right(goal), Settled, payPalPaymentDidCancel
    PROVE  Right(goal)'
<1>1. Quiet(goal) /\ fetches = << >> /\ sheet = "up" /\ pending(Phone) = << >>
  BY SettledIsQuiet DEF payPalPaymentDidCancel
<1>2. UNCHANGED clientVars /\ UNCHANGED <<server, cache, queue, user, main>>
      /\ UNCHANGED <<appeared, basket, toBuy, reads, rows, button, fetches, record, adding, payments,
                     deleted>>
      /\ sheet' = "none" /\ dropped' = dropped \cup offered
  BY DEF payPalPaymentDidCancel, clientVars, list
<1>3. Coming(goal)' /\ Me' = Me /\ pending(Phone)' = << >>
  BY <1>1, <1>2, ComingStays DEF Right
<1>4. ToBuyRight'
  BY <1>1, <1>2 DEF Right, Accounted, ToBuyRight
<1>5. LinesRight(goal)' /\ HistoryRight(goal)' /\ NoneUnpaid(goal)' /\ BasketRight'
  <2>1. \A u : ~ Paid(u) /\ ~ Paid(u)'
    BY <1>1, <1>2 DEF Paid
  <2>2. LinesRight(goal)' /\ BasketRight'
    BY <1>2, <2>1 DEF Right, Accounted, LinesRight, BasketRight
  <2>3. HistoryRight(goal)'
    BY <1>2, <2>1 DEF Right, Accounted, HistoryRight
  <2>4. NoneUnpaid(goal)'
    BY <1>2, <1>3 DEF Right, Accounted, NoneUnpaid
  <2> QED
    BY <2>2, <2>3, <2>4
<1>6. NothingAdded' /\ RecordRight(goal)' /\ Untold' /\ reads' = << >> /\ (SignedIn' <=> SignedIn)
  BY <1>1, <1>2, <1>3 DEF Quiet, NothingAdded, OnlyAdds, RecordRight, RecordOwn, SignedIn, Untold
<1>7. Quiet(goal)'
  BY <1>1, <1>2, <1>3, <1>6 DEF Quiet, ScreenRight, FetchRight, SheetRight
<1> QED
  BY <1>3, <1>4, <1>5, <1>7 DEF Right, Phase, Accounted

LEMMA PaymentRight ==
    ASSUME Held(Everything), NEW goal, Right(goal), Settled, didCompletePayment
    PROVE  Right(goal)'
<1>1. Quiet(goal) /\ fetches = << >> /\ sheet = "up" /\ pending(Phone) = << >>
  BY SettledIsQuiet DEF didCompletePayment
<1>2. UNCHANGED clientVars /\ UNCHANGED <<server, cache, queue, user, main>>
      /\ UNCHANGED <<appeared, basket, toBuy, reads, rows, button, fetches, record, adding, offered,
                     deleted, dropped>>
      /\ sheet' = "paid"
  BY DEF didCompletePayment, clientVars, list
<1>3. Coming(goal)' /\ Me' = Me /\ pending(Phone)' = << >>
  BY <1>1, <1>2, ComingStays DEF Right
<1>4. SignedIn /\ Me \in Users /\ payments \in [Users -> [Items -> Nat]]
  BY <1>1 DEF Quiet, SheetRight, RecordRight, RecordOwn, SignedIn, Held, ScreenTyped
<1>5. \A u \in Users, i \in Items :
        payments'[u][i] = payments[u][i] + IF u = Me /\ i \in offered THEN 1 ELSE 0
  <2>1. payments' = [payments EXCEPT ![Me] =
                        [i \in Items |-> payments[Me][i] + IF i \in offered THEN 1 ELSE 0]]
    BY <1>4 DEF didCompletePayment, Me
  <2> QED
    BY <1>4, <2>1
<1>6. (\A u : ~ Paid(u)) /\ \A u : Paid(u)' <=> u = Me
  BY <1>1, <1>2, <1>3 DEF Paid
<1>7. LinesRight(goal)'
  <2> SUFFICES ASSUME NEW u \in Users, Has(goal, u), NEW i \in Items
               PROVE  /\ payments'[u][i] <= 1
                      /\ i \in Line(goal, u) => (payments'[u][i] = 1 <=> Paid(u)')
                      /\ i \in deleted'[u] => i \notin Line(goal, u)
                      /\ adding'[u][i] \in {"writing", "added"} <=>
                            (i \in Line(goal, u) \/ i \in deleted'[u] \/ payments'[u][i] = 1)
    BY DEF LinesRight
  <2>1. /\ payments[u][i] <= 1 /\ payments[u][i] \in Nat
        /\ i \in Line(goal, u) => payments[u][i] # 1
        /\ i \in deleted[u] => i \notin Line(goal, u)
        /\ adding[u][i] \in {"writing", "added"} <=>
              (i \in Line(goal, u) \/ i \in deleted[u] \/ payments[u][i] = 1)
    BY <1>4, <1>6 DEF Right, Accounted, LinesRight
  <2>2. payments'[u][i] = payments[u][i] + IF u = Me /\ i \in Line(goal, u) THEN 1 ELSE 0
    BY <1>1, <1>5 DEF Quiet, SheetRight
  <2>3. deleted' = deleted /\ adding' = adding /\ (Paid(u)' <=> u = Me)
    BY <1>2, <1>6
  <2> QED
    BY <2>1, <2>2, <2>3
<1>8. HistoryRight(goal)'
  <2> SUFFICES ASSUME NEW u \in Users, Has(goal, u), NEW i \in Items \ dropped
               PROVE  payments'[u][i] = Count(Past(goal, u), i) + IF Paid(u)' THEN Count(toBuy, i) ELSE 0
    BY <1>2 DEF HistoryRight
  <2>1. payments[u][i] = Count(Past(goal, u), i) /\ payments[u][i] \in Nat
    <3>1. Past(goal, u) \in Seq(Items)
      BY DEF Right, Coming, Intended, Past
    <3>2. Count(Past(goal, u), i) \in Nat
      BY <3>1, CountIsNat
    <3>3. payments[u][i] = Count(Past(goal, u), i) + 0
      BY <1>6 DEF Right, Accounted, HistoryRight
    <3> QED
      BY <3>2, <3>3
  <2>2. Count(toBuy, i) = IF i \in offered THEN 1 ELSE 0
    BY <1>1 DEF Right, Accounted, ToBuyRight
  <2>3. payments'[u][i] = payments[u][i] + IF u = Me /\ i \in offered THEN 1 ELSE 0
    BY <1>5
  <2> QED
    BY <1>6, <2>1, <2>2, <2>3
<1>9. ToBuyRight' /\ BasketRight'
  BY <1>1, <1>2 DEF Right, Accounted, ToBuyRight, BasketRight
<1>10. NoneUnpaid(goal)'
  <2> SUFFICES ASSUME NEW i \in Items \ dropped
               PROVE  /\ \A u \in Users : Count(Past(goal, u), i) <= payments'[u][i]
                      /\ Count(record.items, i) <= payments'[Me][i]
                      /\ Count(record.items, i) + Count(toBuy, i) <= payments'[Me][i]
    BY <1>2, <1>3 DEF NoneUnpaid
  <2>1. /\ \A u \in Users : Count(Past(goal, u), i) <= payments[u][i]
        /\ Count(record.items, i) <= payments[Me][i]
    BY <1>4 DEF SignedIn, Right, Accounted, NoneUnpaid
  <2>2. Count(toBuy, i) = IF i \in offered THEN 1 ELSE 0
    BY <1>1 DEF Right, Accounted, ToBuyRight
  <2>3. /\ \A u \in Users : payments[u][i] \in Nat /\ Count(Past(goal, u), i) \in Nat
        /\ Count(record.items, i) \in Nat
    <3>1. \A u \in Users : Past(goal, u) \in Seq(Items)
      BY DEF Right, Coming, Intended, Past
    <3>2. record \in Records
      BY <1>4 DEF SignedIn, Held, Sound, GoodRecords
    <3>3. record.items \in Seq(Items)
      BY <3>2 DEF Records
    <3> QED
      BY <1>4, <3>1, <3>3, CountIsNat
  <2>4. \A u \in Users : payments'[u][i] = payments[u][i] + IF u = Me /\ i \in offered THEN 1 ELSE 0
    BY <1>5
  <2>5. ASSUME NEW u \in Users PROVE Count(Past(goal, u), i) <= payments'[u][i]
    BY <2>1, <2>3, <2>4
  <2> QED
    BY <1>4, <2>1, <2>2, <2>3, <2>4, <2>5
<1>11. NothingAdded' /\ RecordRight(goal)' /\ Untold' /\ reads' = << >> /\ (SignedIn' <=> SignedIn)
  BY <1>1, <1>2, <1>3 DEF Quiet, NothingAdded, OnlyAdds, RecordRight, RecordOwn, SignedIn, Untold
<1>12. ScreenRight(goal)' /\ SheetRight(goal)' /\ FetchRight'
  BY <1>1, <1>2, <1>3, <1>11 DEF Quiet, ScreenRight, SheetRight, FetchRight
<1>13. Quiet(goal)'
  BY <1>11, <1>12 DEF Quiet
<1> QED
  BY <1>3, <1>7, <1>8, <1>9, <1>10, <1>13 DEF Right, Phase, Accounted

\* The account changes, with nothing under way.
LEMMA NobodyWrites ==
    ASSUME Held(Everything), NEW goal, Coming(goal), pending(Phone) = << >>,
           NEW u \in Accounts, CredentialChange(Phone, u)
    PROVE  Coming(goal)' /\ Me' = u /\ pending(Phone)' = << >>
<1>1. /\ Phone \in Devices /\ user \in [Devices -> Accounts] /\ user[Phone] \in Accounts
      /\ queue \in [Devices -> [Accounts -> Seq(Writes(Everything))]]
  BY ClientTyped
<1>2. Me' = u /\ UNCHANGED <<server, cache>>
  BY <1>1 DEF CredentialChange, Me
<1>3. \A v \in Accounts : queue[Phone][v] = << >>
  BY DEF Coming, pending, Me
<1>4. Unsent(<< >>) = << >>
  BY DEF Unsent
<1>5. \A v \in Accounts : queue'[Phone][v] = << >>
  <2>1. CASE UNCHANGED queue
    BY <1>3, <2>1
  <2>2. CASE queue' = [queue EXCEPT ![Phone][user[Phone]] = Unsent(@)]
    <3>1. queue' = [queue EXCEPT ![Phone][user[Phone]] = << >>]
      BY <1>1, <1>3, <1>4, <2>2
    <3> QED
      BY <1>1, <1>3, <3>1
  <2> QED
    BY <2>1, <2>2 DEF CredentialChange, StreamBreaks
<1>6. pending(Phone)' = << >>
  BY <1>2, <1>5 DEF pending, Me
<1>7. Agrees(goal, << >>, server, cache[Phone]) /\ Intended(goal) /\ Sends(goal, << >>, server, u)
  BY DEF Coming, Sends
<1>8. Coming(goal)'
  BY <1>2, <1>5, <1>6, <1>7 DEF Coming, Intended
<1> QED
  BY <1>2, <1>6, <1>8

LEMMA LogOutRight ==
    ASSUME Held(Everything), NEW goal, Right(goal), Settled, logOutCurrentUser
    PROVE  Right(goal)'
<1>1. Quiet(goal) /\ fetches = << >> /\ sheet = "none" /\ pending(Phone) = << >>
  BY SettledIsQuiet DEF logOutCurrentUser
<1>2. Coming(goal)' /\ Me' = NoUser /\ pending(Phone)' = << >>
  BY <1>1, NobodyWrites DEF Right, logOutCurrentUser, Accounts
<1>3. UNCHANGED <<main, basket, toBuy, sheet, offered, reads, rows, button, fetches, adding, payments,
                  dropped, deleted>>
      /\ record' = NoDoc
  BY DEF logOutCurrentUser, list, past, CredentialChange
<1>4. \A u : ~ Paid(u) /\ ~ Paid(u)'
  BY <1>1, <1>3 DEF Paid
<1>5. Accounted(goal)'
  BY <1>1, <1>3, <1>4 DEF Right, Accounted, LinesRight, HistoryRight, NoneUnpaid, ToBuyRight, BasketRight
<1>6. Quiet(goal)'
  BY <1>1, <1>2, <1>3 DEF Quiet, NothingAdded, OnlyAdds, RecordRight, RecordOwn, SignedIn, ScreenRight,
                          SheetRight, FetchRight, Untold
<1> QED
  BY <1>2, <1>5, <1>6 DEF Right, Phase

LEMMA LogInRight ==
    ASSUME Held(Everything), NEW goal, Right(goal), Settled, NEW u \in Users, loginUserWith(u)
    PROVE  Right(goal)'
<1>1. /\ Quiet(goal) /\ fetches = << >> /\ sheet = "none" /\ main[Phone] = << >>
      /\ pending(Phone) = << >> /\ ~ SignedIn
  BY SettledIsQuiet DEF loginUserWith
<1>2. Coming(goal)' /\ Me' = u /\ pending(Phone)' = << >> /\ main' = main
  <2>1. CASE CredentialChange(Phone, u)
    BY <1>1, <2>1, NobodyWrites DEF Right, Accounts, CredentialChange
  <2>2. CASE u = user[Phone] /\ UNCHANGED clientVars
    BY <1>1, <2>2, ComingStays DEF Right, clientVars, Me
  <2> QED
    BY <2>1, <2>2 DEF loginUserWith
<1>3. UNCHANGED <<basket, toBuy, sheet, offered, rows, button, fetches, record, adding, payments,
                  dropped, deleted>>
      /\ ~ appeared'
  BY DEF loginUserWith, list, past
<1>4. \A v : ~ Paid(v) /\ ~ Paid(v)'
  BY <1>1, <1>3 DEF Paid
<1>6. record = NoDoc
  BY <1>1, ClientAssumption DEF Quiet, RecordRight, RecordOwn, SignedIn, Me
<1>5. Accounted(goal)'
  BY <1>3, <1>4, <1>6 DEF Right, Accounted, LinesRight, HistoryRight, NoneUnpaid, ToBuyRight, BasketRight
<1>7. PICK r : r = Asked("user", UserKey(u), None)
  OBVIOUS
<1>8. reads' = <<r>>
  <2>1. reads' = Append(reads, r) /\ reads = << >>
    BY <1>1, <1>7 DEF loginUserWith, Quiet
  <2> QED
    BY <2>1
<1>9. NothingAdded' /\ RecordRight(goal)'
  BY <1>1, <1>2, <1>3, <1>6 DEF Quiet, NothingAdded, OnlyAdds, RecordRight, RecordOwn
<1>10. Awaits(goal, r)'
  BY <1>1, <1>2, <1>3, <1>6, <1>7, <1>9 DEF Awaits
<1>11. Asking(goal)'
  BY <1>1, <1>2, <1>8, <1>10 DEF Asking
<1> QED
  BY <1>2, <1>5, <1>11 DEF Right, Phase

\* Writes that were just handed to the client, where none was pending.
LEMMA JustSent ==
    ASSUME NEW goal, NEW srv, NEW copy, Agrees(goal, << >>, srv, copy), NEW goal2, NEW me \in Users,
           NEW W, NEW ws \in Seq(W),
           \A i \in DOMAIN ws :
              /\ ws[i].key \in {BasketKey(me), UserKey(me)} /\ ws[i].fate = "pending"
              /\ ws[i].fields = goal2[ws[i].key]
              /\ goal[ws[i].key] # NoDoc /\ goal2[ws[i].key] # NoDoc
              /\ \A j \in DOMAIN ws : ws[j].key = ws[i].key => j = i,
           \A k \in Keys : (\A i \in DOMAIN ws : ws[i].key # k) => goal2[k] = goal[k]
    PROVE  Agrees(goal2, ws, srv, copy) /\ Sends(goal2, ws, srv, me)
<1>1. \A k \in Keys : srv[k] = goal[k] /\ copy[k] = goal[k]
  BY DEF Agrees
<1>2. \A k \in Keys : goal2[k] = NoDoc <=> goal[k] = NoDoc
  OBVIOUS
<1>3. Agrees(goal2, ws, srv, copy)
  BY <1>1, <1>2 DEF Agrees
<1>4. Sends(goal2, ws, srv, me)
  BY DEF Sends
<1> QED
  BY <1>3, <1>4

\* The intended documents, with one changed.
With(goal, key, doc) == [k \in Keys |-> IF k = key THEN doc ELSE goal[k]]

LEMMA KeysDiffer ==
    /\ \A u \in Users : BasketKey(u) \in Keys /\ UserKey(u) \in Keys
    /\ \A u, v : BasketKey(u) # UserKey(v)
    /\ \A u, v : BasketKey(u) = BasketKey(v) => u = v
    /\ \A u, v : UserKey(u) = UserKey(v) => u = v
BY KeyNames DEF BasketKey, UserKey

\* One write, where none was pending.
LEMMA OneSent ==
    ASSUME Held(Everything), NEW goal, Coming(goal), pending(Phone) = << >>, Me \in Users,
           NEW key \in {BasketKey(Me), UserKey(Me)}, goal[key] # NoDoc, NEW doc, doc # NoDoc,
           Intended(With(goal, key, doc)), NEW tag,
           WriteMutations(Phone, UpdateData(key, doc, tag)), UNCHANGED <<server, cache, user>>
    PROVE  /\ Coming(With(goal, key, doc))' /\ Me' = Me
           /\ pending(Phone)' = <<UpdateData(key, doc, tag)>>
<1> DEFINE w == UpdateData(key, doc, tag)
           goal2 == With(goal, key, doc)
<1>1. w.key = key /\ w.fields = doc /\ w.fate = "pending"
  BY DEF UpdateData
<1>2. key \in Keys /\ goal2[key] = doc /\ \A k \in Keys : k # key => goal2[k] = goal[k]
  BY KeysDiffer DEF With
<1> HIDE DEF w, goal2
<1>3. queue' = [queue EXCEPT ![Phone][user[Phone]] = <<w>>]
  <2>1. queue' = [queue EXCEPT ![Phone][user[Phone]] = Append(queue[Phone][user[Phone]], w)]
    BY DEF WriteMutations, w
  <2>2. queue[Phone][user[Phone]] = << >>
    BY DEF pending
  <2>3. Append(<< >>, w) = <<w>>
    OBVIOUS
  <2> QED
    BY <2>1, <2>2, <2>3
<1>4. pending(Phone)' = <<w>> /\ \A u \in Accounts \ {Me} : queue'[Phone][u] = queue[Phone][u]
  BY <1>3, OneQueue
<1>5. Agrees(goal, << >>, server, cache[Phone])
  BY DEF Coming
<1>6. Agrees(goal2, <<w>>, server, cache[Phone]) /\ Sends(goal2, <<w>>, server, Me)
  <2> DEFINE ws == <<w>>
  <2>1. ws \in Seq({w}) /\ DOMAIN ws = {1} /\ ws[1] = w
    OBVIOUS
  <2> HIDE DEF ws
  <2>2. \A i \in DOMAIN ws :
          /\ ws[i].key \in {BasketKey(Me), UserKey(Me)} /\ ws[i].fate = "pending"
          /\ ws[i].fields = goal2[ws[i].key]
          /\ goal[ws[i].key] # NoDoc /\ goal2[ws[i].key] # NoDoc
          /\ \A j \in DOMAIN ws : ws[j].key = ws[i].key => j = i
    BY <1>1, <1>2, <2>1
  <2>3. \A k \in Keys : (\A i \in DOMAIN ws : ws[i].key # k) => goal2[k] = goal[k]
    BY <1>1, <1>2, <2>1
  <2>4. Agrees(goal2, ws, server, cache[Phone]) /\ Sends(goal2, ws, server, Me)
    BY <1>5, <2>1, <2>2, <2>3, JustSent
  <2> QED
    BY <2>4 DEF ws
<1>7. Intended(goal2)
  BY DEF goal2
<1>8. \A g : g = goal2 => Coming(g)'
  BY <1>4, <1>6, <1>7 DEF Coming, Me, Intended
<1> QED
  BY <1>4, <1>8 DEF Me, w, goal2

\* A line more or less is still a basket.
LEMMA BasketChanged ==
    ASSUME NEW goal, Intended(goal), NEW me \in Users, NEW S \in SUBSET Items
    PROVE  /\ Intended(With(goal, BasketKey(me), [items |-> S]))
           /\ [items |-> S] # NoDoc
           /\ \A u \in Users :
                /\ Line(With(goal, BasketKey(me), [items |-> S]), u) = IF u = me THEN S ELSE Line(goal, u)
                /\ Has(With(goal, BasketKey(me), [items |-> S]), u) <=> u = me \/ Has(goal, u)
                /\ Past(With(goal, BasketKey(me), [items |-> S]), u) = Past(goal, u)
<1> DEFINE doc == [items |-> S]
           goal2 == With(goal, BasketKey(me), doc)
<1>1. doc # NoDoc /\ doc \in BasketDocs /\ doc.items = S
  <2>1. doc \in [items : SUBSET Items]
    OBVIOUS
  <2> QED
    BY <2>1, CheckoutAssumption DEF BasketDocs
<1> HIDE DEF doc
<1>2. \A u \in Users : /\ goal2[BasketKey(u)] = IF u = me THEN doc ELSE goal[BasketKey(u)]
                       /\ goal2[UserKey(u)] = goal[UserKey(u)]
  BY KeysDiffer DEF With
<1> HIDE DEF goal2
<1>3. Intended(goal2)
  BY <1>1, <1>2 DEF Intended
<1>4. \A u \in Users : /\ Line(goal2, u) = IF u = me THEN S ELSE Line(goal, u)
                       /\ Has(goal2, u) <=> u = me \/ Has(goal, u)
                       /\ Past(goal2, u) = Past(goal, u)
  BY <1>1, <1>2 DEF Line, Has, Past
<1> QED
  BY <1>1, <1>3, <1>4 DEF goal2, doc

LEMMA DeleteRight ==
    ASSUME Held(Everything), NEW goal, Right(goal), Settled, NEW i \in Items, deleteRow(i),
           SignedIn \/ UNCHANGED deleted
    PROVE  PatientInv'
<1>1. /\ Quiet(goal) /\ fetches = << >> /\ sheet = "none" /\ main[Phone] = << >>
      /\ pending(Phone) = << >> /\ appeared /\ basket # NoDoc /\ i \in basket.items
  BY SettledIsQuiet DEF deleteRow, OnScreen, Holds
<1>2. basket.of \in Users /\ deleted \in [Users -> SUBSET Items]
  BY <1>1 DEF Held, ScreenTyped, Right, Accounted, BasketRight
<1>3. deleted' = [deleted EXCEPT ![basket.of] = @ \cup {i}]
  BY DEF deleteRow, BasketOf
<1>4. SignedIn
  <2> SUFFICES ASSUME deleted' = deleted PROVE FALSE
    OBVIOUS
  <2>1. i \in deleted[basket.of]
    BY <1>2, <1>3
  <2> QED
    BY <1>1, <2>1 DEF Right, Accounted, BasketRight
<1>5. Me \in Users /\ Has(goal, Me) /\ basket = BasketOf(Me, Line(goal, Me)) /\ i \in Line(goal, Me)
  BY <1>1, <1>4 DEF Quiet, ScreenRight, RecordRight, RecordOwn, SignedIn, BasketOf
<1>6. PICK key, S, goal2 : /\ key = BasketKey(Me) /\ S = Line(goal, Me) \ {i}
                           /\ goal2 = With(goal, key, [items |-> S])
  OBVIOUS
<1>7. Intended(goal) /\ Line(goal, Me) \subseteq Items
  BY <1>5 DEF Right, Coming, Intended, Line, Has, BasketDocs
<1>8. /\ Intended(goal2) /\ [items |-> S] # NoDoc
      /\ \A u \in Users : /\ Line(goal2, u) = IF u = Me THEN S ELSE Line(goal, u)
                          /\ Has(goal2, u) <=> Has(goal, u)
                          /\ Past(goal2, u) = Past(goal, u)
  <2>1. S \in SUBSET Items /\ goal2 = With(goal, BasketKey(Me), [items |-> S])
    BY <1>6, <1>7
  <2>2. /\ Intended(With(goal, BasketKey(Me), [items |-> S])) /\ [items |-> S] # NoDoc
        /\ \A u \in Users :
             /\ Line(With(goal, BasketKey(Me), [items |-> S]), u) = IF u = Me THEN S ELSE Line(goal, u)
             /\ Has(With(goal, BasketKey(Me), [items |-> S]), u) <=> u = Me \/ Has(goal, u)
             /\ Past(With(goal, BasketKey(Me), [items |-> S]), u) = Past(goal, u)
    BY <1>5, <1>7, <2>1, BasketChanged
  <2> QED
    BY <1>5, <2>1, <2>2
<1>9. /\ basket' = BasketOf(Me, S)
      /\ WriteMutations(Phone, UpdateData(key, [items |-> S], None))
      /\ getBasketItems(BasketOf(Me, S), rows \ {i})
      /\ UNCHANGED <<server, cache, user, main, appeared, toBuy, sheet, offered, reads, record, adding,
                     payments, dropped>>
  BY <1>5, <1>6 DEF deleteRow, saveBasket, BasketOf
<1>10. /\ Coming(goal2)' /\ Me' = Me
       /\ pending(Phone)' = <<UpdateData(key, [items |-> S], None)>>
  <2>1. key \in {BasketKey(Me), UserKey(Me)} /\ goal[key] # NoDoc
    BY <1>5, <1>6 DEF Has
  <2> QED
    BY <1>1, <1>5, <1>6, <1>8, <1>9, <2>1, OneSent DEF Right
<1>11. Untold' /\ reads' = << >>
  BY <1>1, <1>9, <1>10 DEF Untold, UpdateData, Quiet
<1>12. BasketOf(Me, S) # NoDoc
  BY <1>1, <1>5, <1>6, <1>7, CheckoutAssumption DEF BasketOf
<1>13. \/ S = {} /\ rows' = {} /\ ~ button' /\ fetches' = << >>
       \/ S # {} /\ fetches' = <<S>>
  BY <1>1, <1>9, <1>12 DEF getBasketItems, BasketOf
<1>14. SignedIn' /\ appeared' /\ sheet' = "none" /\ NothingAdded' /\ RecordRight(goal2)'
  BY <1>1, <1>4, <1>5, <1>8, <1>9, <1>10 DEF Quiet, NothingAdded, OnlyAdds, RecordRight, RecordOwn,
                                            SignedIn, Me
<1>15. ScreenRight(goal2)'
  <2>1. <<S>> # << >>
    OBVIOUS
  <2> QED
    BY <1>5, <1>8, <1>9, <1>10, <1>13, <2>1 DEF ScreenRight
<1>16. FetchRight' /\ SheetRight(goal2)'
  BY <1>9, <1>12, <1>13, <1>14 DEF FetchRight, SheetRight, BasketOf
<1>17. Quiet(goal2)'
  BY <1>11, <1>14, <1>15, <1>16 DEF Quiet
<1>18. LinesRight(goal2)'
  <2> SUFFICES ASSUME NEW u \in Users, Has(goal2, u), NEW j \in Items
               PROVE  /\ payments'[u][j] <= 1
                      /\ j \in Line(goal2, u) => (payments'[u][j] = 1 <=> Paid(u)')
                      /\ j \in deleted'[u] => j \notin Line(goal2, u)
                      /\ adding'[u][j] \in {"writing", "added"} <=>
                            (j \in Line(goal2, u) \/ j \in deleted'[u] \/ payments'[u][j] = 1)
    BY DEF LinesRight
  <2>1. /\ payments[u][j] <= 1
        /\ j \in Line(goal, u) => (payments[u][j] = 1 <=> Paid(u))
        /\ j \in deleted[u] => j \notin Line(goal, u)
        /\ adding[u][j] \in {"writing", "added"} <=>
              (j \in Line(goal, u) \/ j \in deleted[u] \/ payments[u][j] = 1)
    BY <1>8 DEF Right, Accounted, LinesRight
  <2>2. ~ Paid(u) /\ ~ Paid(u)' /\ payments' = payments /\ adding' = adding
    BY <1>1, <1>9, <1>14 DEF Paid
  <2>3. deleted'[u] = IF u = Me THEN deleted[u] \cup {i} ELSE deleted[u]
    BY <1>2, <1>3, <1>5 DEF BasketOf
  <2>4. Line(goal2, u) = IF u = Me THEN Line(goal, u) \ {i} ELSE Line(goal, u)
    BY <1>6, <1>8
  <2> QED
    BY <1>5, <2>1, <2>2, <2>3, <2>4
<1>19. HistoryRight(goal2)' /\ NoneUnpaid(goal2)' /\ ToBuyRight'
  <2>1. \A u : ~ Paid(u) /\ ~ Paid(u)'
    BY <1>1, <1>14 DEF Paid
  <2>2. UNCHANGED <<payments, dropped, toBuy, sheet, offered>>
    BY <1>9
  <2>3. HistoryRight(goal2)'
    BY <1>8, <2>1, <2>2 DEF Right, Accounted, HistoryRight
  <2>4. NoneUnpaid(goal2)'
    BY <1>8, <1>9, <1>10, <2>2 DEF Right, Accounted, NoneUnpaid
  <2> QED
    BY <2>2, <2>3, <2>4 DEF Right, Accounted, ToBuyRight
<1>20. BasketRight'
  BY <1>1, <1>2, <1>3, <1>5, <1>6, <1>7, <1>9 DEF Right, Accounted, BasketRight, BasketOf
<1>21. \A g : g = goal2 => Right(g)'
  BY <1>10, <1>17, <1>18, <1>19, <1>20 DEF Right, Phase, Accounted
<1> QED
  BY <1>21 DEF PatientInv

\* What the end of the process leaves.
LEMMA AfterRestart ==
    ASSUME Held(Everything), NEW queues, Restart(queues), NothingAdded
    PROVE  /\ Me' = Me /\ main'[Phone] = << >> /\ UNCHANGED <<server, cache, user, record>>
           /\ UNCHANGED <<payments, deleted, dropped, adding>>
           /\ ~ appeared' /\ basket' = NoDoc /\ toBuy' = << >> /\ sheet' = "none"
           /\ reads' = << >> /\ fetches' = << >> /\ (SignedIn' <=> SignedIn)
           /\ \A u \in Accounts : queue'[Phone][u] = Unsent(Untagged(queues[u]))
<1>1. /\ Phone \in Devices /\ main \in [Devices -> Seq(Blocks(Everything))]
      /\ queue \in [Devices -> [Accounts -> Seq(Writes(Everything))]]
  BY ClientTyped
<1>2. /\ main' = [main EXCEPT ![Phone] = << >>] /\ UNCHANGED <<server, cache, user>>
      /\ queue' = [queue EXCEPT ![Phone] = [u \in Accounts |-> Unsent(Untagged(queues[u]))]]
  BY DEF Restart, RestartFrom
<1>3. \A u \in Accounts : queue'[Phone][u] = Unsent(Untagged(queues[u]))
  BY <1>1, <1>2
<1>4. adding' = adding
  <2>1. adding \in [Users -> [Items -> Progress]]
    BY DEF Held, ScreenTyped
  <2>2. adding' = [u \in Users |-> [i \in Items |->
                     IF adding[u][i] \in {"reading", "writing"} THEN "untold" ELSE adding[u][i]]]
    BY DEF Restart
  <2>3. \A u \in Users, i \in Items : adding'[u][i] = adding[u][i]
    BY <2>2 DEF NothingAdded, OnlyAdds
  <2>4. \A u \in Users : adding'[u] = [i \in Items |-> adding[u][i]]
    BY <2>2, <2>3
  <2>5. \A u \in Users : adding'[u] = adding[u]
    BY <2>1, <2>4
  <2> QED
    BY <2>1, <2>2, <2>5
<1> QED
  BY <1>1, <1>2, <1>3, <1>4 DEF Restart, Me, SignedIn

LEMMA RestartedRight ==
    ASSUME NEW goal, Right(goal), NothingAdded, RecordRight(goal), sheet = "paid" => ~ Has(goal, Me),
           NEW goal2, Coming(goal2)', Untold',
           \A u \in Users : /\ Has(goal2, u) <=> Has(goal, u)
                            /\ Line(goal2, u) = Line(goal, u)
                            /\ Has(goal, u) => Past(goal2, u) = Past(goal, u),
           \A u \in Users, i \in Items \ dropped : Count(Past(goal2, u), i) <= payments[u][i],
           Me' = Me, UNCHANGED <<record, payments, deleted, dropped, adding>>,
           ~ appeared', basket' = NoDoc, toBuy' = << >>, sheet' = "none",
           reads' = << >>, fetches' = << >>
    PROVE  Right(goal2)'
<1>1. NothingAdded' /\ RecordRight(goal2)'
  BY DEF NothingAdded, OnlyAdds, RecordRight, RecordOwn
<1>2. ScreenRight(goal2)' /\ FetchRight' /\ SheetRight(goal2)'
  BY DEF ScreenRight, FetchRight, SheetRight
<1>3. Quiet(goal2)'
  BY <1>1, <1>2 DEF Quiet
<1>4. (\A u : Has(goal, u) => ~ Paid(u)) /\ \A u : ~ Paid(u)'
  BY DEF Paid
<1>5. LinesRight(goal2)'
  BY <1>4 DEF Right, Accounted, LinesRight
<1>6. HistoryRight(goal2)'
  BY <1>4 DEF Right, Accounted, HistoryRight
<1>7. ToBuyRight' /\ BasketRight'
  BY CountOfNone DEF Right, Accounted, ToBuyRight, BasketRight
<1>8. NoneUnpaid(goal2)'
  BY DEF Right, Accounted, NoneUnpaid
<1> QED
  BY <1>3, <1>5, <1>6, <1>7, <1>8 DEF Right, Phase, Accounted

LEMMA TerminateRight ==
    ASSUME Held(Everything), NEW goal, Right(goal), Settled, Terminate
    PROVE  Right(goal)'
<1>1. /\ Quiet(goal) /\ pending(Phone) = << >> /\ sheet # "paid"
      /\ \A u \in Accounts : queue[Phone][u] = << >>
  BY SettledIsQuiet
<1>2. /\ Me' = Me /\ main'[Phone] = << >> /\ UNCHANGED <<server, cache, user, record>>
      /\ UNCHANGED <<payments, deleted, dropped, adding>>
      /\ ~ appeared' /\ basket' = NoDoc /\ toBuy' = << >> /\ sheet' = "none"
      /\ reads' = << >> /\ fetches' = << >>
      /\ \A u \in Accounts : queue'[Phone][u] = Unsent(Untagged(queue[Phone][u]))
  BY <1>1, AfterRestart DEF Terminate, Quiet
<1>3. \A u \in Accounts : queue'[Phone][u] = << >>
  <2>1. Unsent(Untagged(<< >>)) = << >>
    BY DEF Unsent, Untagged
  <2> QED
    BY <1>1, <1>2, <2>1
<1>4. user[Phone] \in Accounts
  BY ClientTyped
<1>5. pending(Phone)' = << >>
  BY <1>2, <1>3, <1>4 DEF pending
<1>6. Coming(goal)' /\ Untold'
  BY <1>1, <1>2, <1>3, <1>5 DEF Right, Coming, Untold, Intended, Sends
<1>7. \A u \in Users, i \in Items \ dropped : Count(Past(goal, u), i) <= payments[u][i]
  BY DEF Right, Accounted, NoneUnpaid
<1> QED
  BY <1>1, <1>2, <1>6, <1>7, RestartedRight DEF Quiet

LEMMA DismissTrapRight ==
    ASSUME Held(Everything), NEW goal, Right(goal), paymentDismissedTraps
    PROVE  PatientInv'
<1>1. sheet = "paid" /\ basket = NoDoc
  BY DEF paymentDismissedTraps
<1>2. /\ Quiet(goal) /\ pending(Phone) = << >> /\ SignedIn /\ appeared
      /\ Me \in Users
  BY <1>1 DEF Right, Phase, Quiet, Asking, Answered, Awaits, Writing, Recording, SheetRight,
              RecordRight, RecordOwn, SignedIn
<1>3. Intended(goal)
  BY DEF Right, Coming
<1>4. ~ Has(goal, Me)
  <2> SUFFICES ASSUME Has(goal, Me) PROVE FALSE
    OBVIOUS
  <2>1. basket = BasketOf(Me, Line(goal, Me))
    BY <1>2 DEF Quiet, ScreenRight
  <2>2. Line(goal, Me) \subseteq Items
    BY <1>2, <1>3 DEF Intended, Line, Has, BasketDocs
  <2> QED
    BY <1>1, <1>2, <2>1, <2>2, CheckoutAssumption DEF BasketOf
<1>5. PICK key, doc, goal2 : /\ key = UserKey(Me) /\ doc = [items |-> record.items \o toBuy]
                             /\ goal2 = With(goal, key, doc)
  OBVIOUS
<1>6. doc \in [items : Seq(Items)] /\ doc # NoDoc
  <2>1. record \in Records /\ toBuy \in Seq(Items)
    BY <1>2 DEF Held, Sound, GoodRecords, ListGood, SignedIn
  <2>2. record.items \o toBuy \in Seq(Items)
    BY <2>1 DEF Records
  <2>3. doc \in [items : Seq(Items)]
    BY <1>5, <2>2
  <2>4. NoDoc \notin [items : Seq(Items)]
    BY CheckoutAssumption
  <2> QED
    BY <2>3, <2>4
<1>7. /\ Intended(goal2) /\ goal2[key] = doc
      /\ \A u \in Users : /\ Has(goal2, u) <=> Has(goal, u)
                          /\ Line(goal2, u) = Line(goal, u)
                          /\ Has(goal, u) => Past(goal2, u) = Past(goal, u)
  <2>1. \A u \in Users : /\ goal2[BasketKey(u)] = goal[BasketKey(u)]
                         /\ goal2[UserKey(u)] = IF u = Me THEN doc ELSE goal[UserKey(u)]
    BY <1>5, KeysDiffer DEF With
  <2> QED
    BY <1>2, <1>3, <1>4, <1>5, <1>6, <2>1 DEF Intended, Has, Line, Past
<1>8. PICK queues : /\ Restart(queues)
                    /\ \/ queues = queue[Phone]
                       \/ queues = [queue[Phone] EXCEPT ![user[Phone]] = Append(@, HistoryWrite)]
  BY DEF paymentDismissedTraps
<1>9. /\ Me' = Me /\ main'[Phone] = << >> /\ UNCHANGED <<server, cache, user, record>>
      /\ UNCHANGED <<payments, deleted, dropped, adding>>
      /\ ~ appeared' /\ basket' = NoDoc /\ toBuy' = << >> /\ sheet' = "none"
      /\ reads' = << >> /\ fetches' = << >>
      /\ \A u \in Accounts : queue'[Phone][u] = Unsent(Untagged(queues[u]))
  BY <1>2, <1>8, AfterRestart DEF Quiet
<1>10. /\ \A u \in Accounts : queue[Phone][u] = << >>
       /\ Agrees(goal, << >>, server, cache[Phone])
  BY <1>2 DEF Right, Coming, pending, Me
<1>11. /\ Phone \in Devices /\ user[Phone] \in Accounts
       /\ queue \in [Devices -> [Accounts -> Seq(Writes(Everything))]]
  BY ClientTyped
<1>12. Unsent(Untagged(<< >>)) = << >>
  BY DEF Unsent, Untagged
<1>13. CASE queues = queue[Phone]
  <2>1. \A u \in Accounts : queue'[Phone][u] = << >>
    BY <1>9, <1>10, <1>12, <1>13
  <2>2. pending(Phone)' = << >>
    BY <1>9, <1>11, <2>1 DEF pending
  <2>3. Coming(goal)' /\ Untold'
    BY <1>3, <1>9, <1>10, <2>1, <2>2 DEF Coming, Untold, Intended, Sends
  <2>4. \A u \in Users, i \in Items \ dropped : Count(Past(goal, u), i) <= payments[u][i]
    BY DEF Right, Accounted, NoneUnpaid
  <2>5. Right(goal)'
    BY <1>2, <1>4, <1>9, <2>3, <2>4, RestartedRight DEF Quiet
  <2> QED
    BY <2>5 DEF PatientInv
<1>14. CASE queues = [queue[Phone] EXCEPT ![user[Phone]] = Append(@, HistoryWrite)]
  <2>1. PICK w : w = UpdateData(key, doc, None)
    OBVIOUS
  <2>2. Unsent(Untagged(<<HistoryWrite>>)) = <<w>>
    <3>1. PICK tag : HistoryWrite = UpdateData(key, doc, tag)
      BY <1>5 DEF HistoryWrite, HistoryUpdate, Me
    <3>2. [[UpdateData(key, doc, tag) EXCEPT !.tag = None] EXCEPT !.fate = "pending"] = w
      <4>1. [UpdateData(key, doc, tag) EXCEPT !.tag = None] = w
        BY <2>1 DEF UpdateData
      <4>2. [w EXCEPT !.fate = "pending"] = w
        BY <2>1 DEF UpdateData
      <4> QED
        BY <4>1, <4>2
    <3>3. ASSUME NEW h
          PROVE  Unsent(Untagged(<<h>>)) = <<[[h EXCEPT !.tag = None] EXCEPT !.fate = "pending"]>>
      <4>1. Untagged(<<h>>) = <<[h EXCEPT !.tag = None]>>
        BY DEF Untagged
      <4>2. ASSUME NEW g PROVE Unsent(<<g>>) = <<[g EXCEPT !.fate = "pending"]>>
        BY DEF Unsent
      <4> QED
        BY <4>1, <4>2
    <3> QED
      BY <3>1, <3>2, <3>3
  <2>3. queues[user[Phone]] = <<HistoryWrite>> /\ \A u \in Accounts \ {Me} : queues[u] = << >>
    <3>1. DOMAIN queue[Phone] = Accounts /\ Me \in Accounts /\ queue[Phone][Me] = << >>
      BY <1>10, <1>11 DEF Me
    <3>2. queues[Me] = Append(<< >>, HistoryWrite) /\ \A u \in Accounts \ {Me} : queues[u] = queue[Phone][u]
      BY <1>14, <3>1 DEF Me
    <3>3. \A h : Append(<< >>, h) = <<h>>
      OBVIOUS
    <3> QED
      BY <1>10, <3>2, <3>3 DEF Me
  <2>4. /\ \A u \in Accounts \ {Me} : queue'[Phone][u] = << >>
        /\ pending(Phone)' = <<w>>
    BY <1>9, <1>11, <1>12, <2>2, <2>3 DEF pending, Me
  <2>5. w.key = key /\ w.fields = doc /\ w.fate = "pending" /\ w.tag = None
    BY <2>1 DEF UpdateData
  <2>6. /\ key \in Keys /\ goal[key] # NoDoc
        /\ \A k \in Keys : k # key => goal2[k] = goal[k]
    <3>1. key \in Keys /\ goal[key] \in [items : Seq(Items)]
      BY <1>2, <1>3, <1>5, KeysDiffer DEF Intended
    <3> QED
      BY <1>5, <3>1, CheckoutAssumption DEF With
  <2>7. Agrees(goal2, <<w>>, server, cache[Phone]) /\ Sends(goal2, <<w>>, server, Me)
    <3>1. PICK ws : ws = <<w>>
      OBVIOUS
    <3>2. ws \in Seq({w}) /\ DOMAIN ws = {1} /\ ws[1] = w
      BY <3>1
    <3>3. \A i \in DOMAIN ws :
            /\ ws[i].key \in {BasketKey(Me), UserKey(Me)} /\ ws[i].fate = "pending"
            /\ ws[i].fields = goal2[ws[i].key]
            /\ goal[ws[i].key] # NoDoc /\ goal2[ws[i].key] # NoDoc
            /\ \A j \in DOMAIN ws : ws[j].key = ws[i].key => j = i
      BY <1>5, <1>6, <1>7, <2>5, <2>6, <3>2
    <3>4. \A k \in Keys : (\A i \in DOMAIN ws : ws[i].key # k) => goal2[k] = goal[k]
      BY <2>5, <2>6, <3>2
    <3>5. Agrees(goal2, ws, server, cache[Phone]) /\ Sends(goal2, ws, server, Me)
      <4>1. PICK me \in Users : me = Me
        BY <1>2
      <4>2. \A i \in DOMAIN ws :
              /\ ws[i].key \in {BasketKey(me), UserKey(me)} /\ ws[i].fate = "pending"
              /\ ws[i].fields = goal2[ws[i].key]
              /\ goal[ws[i].key] # NoDoc /\ goal2[ws[i].key] # NoDoc
              /\ \A j \in DOMAIN ws : ws[j].key = ws[i].key => j = i
        BY <3>3, <4>1
      <4>3. Agrees(goal, << >>, server, cache[Phone])
        BY <1>10
      <4>4. Agrees(goal2, ws, server, cache[Phone]) /\ Sends(goal2, ws, server, me)
        BY <3>2, <3>4, <4>2, <4>3, JustSent
      <4> QED
        BY <4>1, <4>4
    <3> QED
      BY <3>1, <3>5
  <2>8. \A g : g = goal2 => Coming(g)'
    BY <1>7, <1>9, <2>4, <2>7 DEF Coming, Intended
  <2>9. Untold'
    BY <1>9, <2>4, <2>5 DEF Untold
  <2>10. \A u \in Users, i \in Items \ dropped : Count(Past(goal2, u), i) <= payments[u][i]
    <3> SUFFICES ASSUME NEW u \in Users, NEW i \in Items \ dropped
                 PROVE  Count(Past(goal2, u), i) <= payments[u][i]
      OBVIOUS
    <3>1. CASE u = Me
      <4>1. Count(record.items, i) + Count(toBuy, i) <= payments[Me][i]
        BY <1>1, <1>2 DEF SignedIn, Right, Accounted, NoneUnpaid
      <4>2. record \in Records /\ toBuy \in Seq(Items)
        BY <1>2 DEF Held, Sound, GoodRecords, ListGood, SignedIn
      <4>3. record.items \in Seq(Items)
        BY <4>2 DEF Records
      <4>4. goal2[UserKey(Me)] = [items |-> record.items \o toBuy]
        BY <1>5, <1>7
      <4>5. Past(goal2, Me) = record.items \o toBuy
        BY <4>4 DEF Past
      <4> QED
        BY <3>1, <4>1, <4>2, <4>3, <4>5, CountOfBoth
    <3>2. CASE u # Me
      <4>1. Past(goal2, u) = Past(goal, u)
        BY <1>2, <1>5, <3>2, KeysDiffer DEF With, Past
      <4> QED
        BY <4>1 DEF Right, Accounted, NoneUnpaid
    <3> QED
      BY <3>1, <3>2
  <2>11. Right(goal2)'
    BY <1>2, <1>4, <1>7, <1>9, <2>8, <2>9, <2>10, RestartedRight DEF Quiet
  <2> QED
    BY <2>11 DEF PatientInv
<1> QED
  BY <1>8, <1>13, <1>14

--------------------------------------------------------------------------------
(* What the app does by itself.                                            *)

\* What the app waits for tells what the user was doing.
LEMMA NotQuiet ==
    ASSUME NEW goal, Phase(goal)
    PROVE  /\ fetches # << >> \/ sheet # "none" => Quiet(goal)
           /\ reads # << >> => Asking(goal)
BY DEF Phase, Quiet, Asking, Answered, Awaits, Writing, Recording

LEMMA OnlyOne ==
    /\ \A x : RemoveAt(<<x>>, 1) = << >> /\ DOMAIN <<x>> = {1} /\ <<x>>[1] = x
    /\ \A x : Append(<< >>, x) = <<x>> /\ Head(<<x>>) = x /\ Tail(<<x>>) = << >>
BY DEF RemoveAt

LEMMA ItemsRight ==
    ASSUME Held(Everything), NEW goal, Right(goal), NEW n \in DOMAIN fetches, itemsArrived(n)
    PROVE  Right(goal)'
<1>1. Quiet(goal) /\ fetches # << >>
  BY NotQuiet DEF Right
<1>2. /\ basket # NoDoc /\ fetches = <<basket.items>> /\ SignedIn /\ appeared /\ sheet = "none"
  BY <1>1 DEF Quiet, FetchRight
<1>3. n = 1 /\ fetches[n] = basket.items /\ RemoveAt(fetches, n) = << >>
  BY <1>2, OnlyOne
<1>4. rows' = basket.items /\ (button' => rows' # {}) /\ fetches' = << >>
  BY <1>3 DEF itemsArrived
<1>5. UNCHANGED clientVars /\ UNCHANGED <<server, cache, queue, user, main>>
      /\ UNCHANGED <<appeared, basket, toBuy, sheet, offered, reads, record, adding, payments, deleted,
                     dropped>>
  BY DEF itemsArrived, clientVars, view, past
<1>6. Coming(goal)' /\ Me' = Me /\ pending(Phone)' = pending(Phone)
  BY <1>5, ComingStays DEF Right
<1>7. Accounted(goal)'
  BY <1>2, <1>5, <1>6, AccountedStays DEF Right
<1>8. NothingAdded' /\ RecordRight(goal)' /\ Untold' /\ reads' = << >> /\ (SignedIn' <=> SignedIn)
  BY <1>1, <1>5, <1>6 DEF Quiet, NothingAdded, OnlyAdds, RecordRight, RecordOwn, SignedIn, Untold
<1>9. Has(goal, Me) /\ basket = BasketOf(Me, Line(goal, Me)) /\ basket.items = Line(goal, Me)
  <2>1. Has(goal, Me) /\ basket = BasketOf(Me, Line(goal, Me))
    BY <1>1, <1>2 DEF Quiet, ScreenRight
  <2> QED
    BY <2>1 DEF BasketOf
<1>10. ScreenRight(goal)'
  BY <1>2, <1>4, <1>5, <1>6, <1>9 DEF ScreenRight
<1>11. FetchRight' /\ SheetRight(goal)'
  BY <1>2, <1>4, <1>5 DEF FetchRight, SheetRight
<1>12. Quiet(goal)'
  BY <1>8, <1>10, <1>11 DEF Quiet
<1> QED
  BY <1>6, <1>7, <1>12 DEF Right, Phase

\* With nothing pending, a read sees the document as it is.
LEMMA LocalIsBase ==
    ASSUME NEW doc, NEW k, NEW S, doc = NoDoc \/ doc \in [items : S]
    PROVE  LocalDoc(doc, << >>, k) = doc
<1>1. DOMAIN << >> = {}
  OBVIOUS
<1>2. (Exists(doc, << >>, k) <=> doc # NoDoc) /\ \A f : ~ \E i \in DOMAIN << >> : IsLast(<< >>, k, f, i)
  BY <1>1 DEF Exists
<1>3. doc # NoDoc => LocalDoc(doc, << >>, k) = [f \in Fields |-> doc[f]]
  BY <1>2 DEF LocalDoc
<1>4. doc # NoDoc => doc = [f \in Fields |-> doc[f]]
  BY CheckoutAssumption
<1> QED
  BY <1>2, <1>3, <1>4 DEF LocalDoc

\* The server answers a read.
LEMMA FetchComes ==
    ASSUME Held(Everything), NEW goal, Coming(goal), pending(Phone) = << >>, NEW k \in Keys,
           Fetch(Phone, {k}), UNCHANGED <<server, user>>
    PROVE  Coming(goal)' /\ Me' = Me /\ pending(Phone)' = << >> /\ cache'[Phone][k] = goal[k]
<1>1. /\ Phone \in Devices /\ user[Phone] \in Accounts
      /\ queue \in [Devices -> [Accounts -> Seq(Writes(Everything))]]
      /\ cache \in [Devices -> Views(Documents(Everything))]
  BY ClientTyped
<1>2. \A u \in Accounts : queue[Phone][u] = << >>
  BY DEF Coming, pending, Me
<1>3. \A l \in Keys : server[l] = goal[l] /\ cache[Phone][l] = goal[l]
  BY DEF Coming, Agrees
<1>4. \A u \in Accounts : queue'[Phone][u] = << >>
  <2>1. \A u \in Accounts : DOMAIN queue'[Phone][u] = DOMAIN queue[Phone][u]
                            /\ queue'[Phone][u] = [i \in DOMAIN queue[Phone][u] |-> queue'[Phone][u][i]]
    BY <1>1 DEF Fetch
  <2>2. \A q : q = [i \in DOMAIN << >> |-> q[i]] => q = << >>
    OBVIOUS
  <2> QED
    BY <1>2, <2>1, <2>2
<1>5. \A l \in Keys : cache'[Phone][l] = goal[l]
  <2>1. cache'[Phone] = [l \in Keys |-> IF l \in {k} THEN server[l] ELSE cache[Phone][l]]
    BY <1>1 DEF Fetch
  <2> QED
    BY <1>3, <2>1
<1>6. pending(Phone)' = << >> /\ Me' = Me
  BY <1>1, <1>4 DEF pending, Me
<1>7. Agrees(goal, << >>, server, cache'[Phone]) /\ Sends(goal, << >>, server, Me)
  BY <1>3, <1>5 DEF Agrees, Sends
<1>8. Coming(goal)'
  BY <1>4, <1>6, <1>7 DEF Coming, Intended
<1> QED
  BY <1>5, <1>6, <1>8

\* A read gets the document as it will be.
LEMMA ReadRight ==
    ASSUME Held(Everything), NEW goal, Right(goal), NEW n \in DOMAIN reads, docRead(n), NothingFails
    PROVE  Right(goal)'
<1>1. Asking(goal)
  BY NotQuiet DEF Right
<1>2. main[Phone] = << >>
  BY <1>1 DEF Asking
<1>3. PICK r : reads = <<r>> /\ Awaits(goal, r)
  BY <1>1 DEF Asking
<1>4. n = 1 /\ reads[n] = r /\ RemoveAt(reads, n) = << >>
  BY <1>3, OnlyOne
<1>5. pending(Phone) = << >> /\ sheet = "none" /\ fetches = << >>
  BY <1>3 DEF Awaits
<1>6. Me \in Users /\ r.key \in Keys /\ r.doc = NoDoc /\ r.kind # "written" /\ [r EXCEPT !.doc = NoDoc] = r
  <2>1. Me \in Users
    BY <1>3 DEF Awaits, RecordRight, RecordOwn, SignedIn
  <2>2. PICK kind, key, item : r = Asked(kind, key, item) /\ key \in {BasketKey(Me), UserKey(Me)}
                               /\ kind # "written"
    BY <1>3 DEF Awaits
  <2> QED
    BY <2>1, <2>2, KeysDiffer DEF Asked
<1>7. UNCHANGED <<server, user, appeared, basket, toBuy, sheet, offered, rows, button, fetches, record,
                  adding, payments, deleted, dropped>> /\ reads' = << >>
  BY <1>4 DEF docRead, list, past
<1>8. /\ Phone \in Devices /\ main \in [Devices -> Seq(Blocks(Everything))]
  BY ClientTyped
<1>9. ASSUME NEW b, Reply(b) PROVE main'[Phone] = <<b>>
  BY <1>2, <1>8, <1>9, OnlyOne DEF Reply
<1>10. \A l \in Keys : server[l] = goal[l] /\ cache[Phone][l] = goal[l]
  BY <1>5 DEF Right, Coming, Agrees
<1>11. ASSUME NEW base, base[r.key] = goal[r.key]
       PROVE  LocalView(Phone, base)[r.key] = goal[r.key]
  <2>1. PICK S : goal[r.key] = NoDoc \/ goal[r.key] \in [items : S]
    BY <1>6, Documented DEF Right, Coming
  <2>2. LocalView(Phone, base)[r.key] = LocalDoc(goal[r.key], << >>, r.key)
    BY <1>5, <1>6, <1>11 DEF LocalView
  <2> QED
    BY <2>1, <2>2, LocalIsBase
<1>12. /\ Coming(goal)' /\ Me' = Me /\ pending(Phone)' = << >>
       /\ main'[Phone] = <<[r EXCEPT !.doc = goal[r.key]]>>
  <2>1. CASE /\ Fetch(Phone, {r.key})
             /\ Reply([r EXCEPT !.doc = LocalView(Phone, cache'[Phone])[r.key]])
    <3>1. Coming(goal)' /\ Me' = Me /\ pending(Phone)' = << >> /\ cache'[Phone][r.key] = goal[r.key]
      BY <1>5, <1>6, <1>7, <2>1, FetchComes DEF Right
    <3>2. LocalView(Phone, cache'[Phone])[r.key] = goal[r.key]
      BY <1>11, <3>1
    <3> QED
      BY <1>9, <2>1, <3>1, <3>2
  <2>2. CASE /\ UNCHANGED <<cache, queue>>
             /\ Reply([r EXCEPT !.doc = LocalView(Phone, cache[Phone])[r.key]])
    <3>1. Coming(goal)' /\ Me' = Me /\ pending(Phone)' = << >>
      BY <1>5, <1>7, <2>2, ComingStays DEF Right
    <3>2. LocalView(Phone, cache[Phone])[r.key] = goal[r.key]
      BY <1>6, <1>10, <1>11
    <3> QED
      BY <1>9, <2>2, <3>1, <3>2
  <2>3. CASE UNCHANGED <<cache, queue>> /\ Reply(r)
    <3>1. Coming(goal)' /\ Me' = Me /\ pending(Phone)' = << >>
      BY <1>5, <1>7, <2>3, ComingStays DEF Right
    <3>2. main'[Phone] = <<r>>
      BY <1>9, <2>3
    <3>3. server[r.key] = NoDoc
      <4>1. 1 \in DOMAIN main'[Phone] /\ main'[Phone][1] = r
        BY <3>2, OnlyOne
      <4> QED
        BY <1>6, <4>1 DEF NothingFails
    <3>4. goal[r.key] = NoDoc
      BY <1>6, <1>10, <3>3
    <3> QED
      BY <1>6, <3>1, <3>2, <3>4
  <2> QED
    BY <1>4, <2>1, <2>2, <2>3 DEF docRead
<1>13. Awaits(goal, r)'
  BY <1>3, <1>7, <1>12 DEF Awaits, RecordRight, RecordOwn, NothingAdded, OnlyAdds, SignedIn
<1>14. Answered(goal)'
  BY <1>7, <1>12, <1>13 DEF Answered
<1>15. Accounted(goal)'
  BY <1>5, <1>7, <1>12, AccountedStays DEF Right
<1> QED
  BY <1>12, <1>14, <1>15 DEF Right, Phase

LEMMA PastChanged ==
    ASSUME NEW goal, Intended(goal), NEW me \in Users, NEW s \in Seq(Items)
    PROVE  /\ Intended(With(goal, UserKey(me), [items |-> s]))
           /\ [items |-> s] # NoDoc
           /\ \A u \in Users :
                /\ Line(With(goal, UserKey(me), [items |-> s]), u) = Line(goal, u)
                /\ Has(With(goal, UserKey(me), [items |-> s]), u) <=> Has(goal, u)
                /\ Past(With(goal, UserKey(me), [items |-> s]), u) = IF u = me THEN s ELSE Past(goal, u)
<1> DEFINE doc == [items |-> s]
           goal2 == With(goal, UserKey(me), doc)
<1>1. doc # NoDoc /\ doc \in [items : Seq(Items)] /\ doc.items = s
  <2>1. doc \in [items : Seq(Items)]
    OBVIOUS
  <2>2. NoDoc \notin [items : Seq(Items)]
    BY CheckoutAssumption
  <2> QED
    BY <2>1, <2>2
<1> HIDE DEF doc
<1>2. \A u \in Users : /\ goal2[UserKey(u)] = IF u = me THEN doc ELSE goal[UserKey(u)]
                       /\ goal2[BasketKey(u)] = goal[BasketKey(u)]
  BY KeysDiffer DEF With
<1> HIDE DEF goal2
<1>3. Intended(goal2)
  BY <1>1, <1>2 DEF Intended
<1>4. \A u \in Users : /\ Line(goal2, u) = Line(goal, u)
                       /\ Has(goal2, u) <=> Has(goal, u)
                       /\ Past(goal2, u) = IF u = me THEN s ELSE Past(goal, u)
  BY <1>1, <1>2 DEF Line, Has, Past
<1> QED
  BY <1>1, <1>3, <1>4 DEF goal2, doc

\* The purchase and the empty basket, where no write was pending.
LEMMA BothSent ==
    ASSUME Held(Everything), NEW goal, Coming(goal), pending(Phone) = << >>, Me \in Users,
           NEW h, NEW e, h.key = UserKey(Me), e.key = BasketKey(Me),
           h.fate = "pending", e.fate = "pending",
           goal[h.key] # NoDoc, goal[e.key] # NoDoc, h.fields # NoDoc, e.fields # NoDoc,
           NEW goal2, Intended(goal2),
           \A k \in Keys : goal2[k] = IF k = e.key THEN e.fields ELSE IF k = h.key THEN h.fields ELSE goal[k],
           WriteTwo(Phone, h, e), UNCHANGED <<server, cache, user>>
    PROVE  Coming(goal2)' /\ Me' = Me /\ pending(Phone)' = <<h, e>>
<1>1. h.key \in Keys /\ e.key \in Keys /\ h.key # e.key
  BY KeysDiffer
<1>2. queue' = [queue EXCEPT ![Phone][user[Phone]] = <<h, e>>]
  <2>1. queue' = [queue EXCEPT ![Phone][user[Phone]] = queue[Phone][user[Phone]] \o <<h, e>>]
    BY DEF WriteTwo
  <2>2. queue[Phone][user[Phone]] = << >>
    BY DEF pending
  <2>3. << >> \o <<h, e>> = <<h, e>>
    OBVIOUS
  <2> QED
    BY <2>1, <2>2, <2>3
<1>3. pending(Phone)' = <<h, e>> /\ \A u \in Accounts \ {Me} : queue'[Phone][u] = queue[Phone][u]
  BY <1>2, OneQueue
<1>0. PICK ws : ws = <<h, e>>
  OBVIOUS
<1>4. PICK me \in Users : me = Me
  OBVIOUS
<1>5. ws \in Seq({h, e}) /\ DOMAIN ws = {1, 2} /\ ws[1] = h /\ ws[2] = e
  BY <1>0
<1>6. \A i \in DOMAIN ws :
        /\ ws[i].key \in {BasketKey(me), UserKey(me)} /\ ws[i].fate = "pending"
        /\ ws[i].fields = goal2[ws[i].key]
        /\ goal[ws[i].key] # NoDoc /\ goal2[ws[i].key] # NoDoc
        /\ \A j \in DOMAIN ws : ws[j].key = ws[i].key => j = i
  BY <1>1, <1>4, <1>5
<1>7. \A k \in Keys : (\A i \in DOMAIN ws : ws[i].key # k) => goal2[k] = goal[k]
  BY <1>5
<1>8. Agrees(goal, << >>, server, cache[Phone])
  BY DEF Coming
<1>9. Agrees(goal2, ws, server, cache[Phone]) /\ Sends(goal2, ws, server, me)
  <2>1. PICK W : ws \in Seq(W)
    BY <1>5
  <2> QED
    BY ONLY <1>6, <1>7, <1>8, <2>1, JustSent, Zenon
<1>10. \A g : g = goal2 => Coming(g)'
  BY <1>0, <1>3, <1>4, <1>9 DEF Coming, Me, Intended
<1> QED
  BY <1>3, <1>10 DEF Me

LEMMA DismissRight ==
    ASSUME Held(Everything), NEW goal, Right(goal), paymentDismissed
    PROVE  PatientInv'
<1>1. Quiet(goal) /\ sheet = "paid" /\ basket # NoDoc
  BY NotQuiet DEF Right, paymentDismissed
<1>2. appeared /\ SignedIn /\ fetches = << >> /\ pending(Phone) = << >> /\ main[Phone] = << >>
  BY <1>1 DEF Quiet, SheetRight, Untold
<1>3. /\ Me \in Users /\ record.of = Me /\ Has(goal, Me) /\ record.items = Past(goal, Me)
      /\ basket = BasketOf(Me, Line(goal, Me)) /\ rows = Line(goal, Me) /\ record # NoDoc
  BY <1>1, <1>2 DEF Quiet, RecordRight, RecordOwn, ScreenRight, SignedIn
<1>4. Intended(goal) /\ Past(goal, Me) \in Seq(Items) /\ toBuy \in Seq(Items)
  BY <1>3 DEF Right, Coming, Intended, Past, Held, Sound, ListGood
<1>5. PICK s, tag, done : /\ s = Past(goal, Me) \o toBuy
                          /\ done = [of |-> Me, items |-> s]
                          /\ tag = [to |-> "history", by |-> Me, record |-> done]
  OBVIOUS
<1>6. s \in Seq(Items)
  BY <1>4, <1>5
<1>7. PICK h, e : /\ h = UpdateData(UserKey(Me), [items |-> s], tag)
                  /\ e = UpdateData(BasketKey(Me), [items |-> {}], [to |-> "emptied"])
  OBVIOUS
<1>8. HistoryWrite = h /\ EmptyingWrite = e
  BY <1>3, <1>5, <1>7 DEF HistoryWrite, HistoryUpdate, EmptyingWrite, BasketOf, Me
<1>9. /\ h.key = UserKey(Me) /\ h.fields = [items |-> s] /\ h.fate = "pending" /\ h.tag = tag
      /\ e.key = BasketKey(Me) /\ e.fields = [items |-> {}] /\ e.fate = "pending"
      /\ e.tag = [to |-> "emptied"]
  BY <1>7 DEF UpdateData
<1>10. PICK goal1, goal2 : /\ goal1 = With(goal, UserKey(Me), [items |-> s])
                           /\ goal2 = With(goal1, BasketKey(Me), [items |-> {}])
  OBVIOUS
<1>11. /\ Intended(goal1) /\ [items |-> s] # NoDoc
       /\ \A u \in Users : /\ Line(goal1, u) = Line(goal, u)
                           /\ Has(goal1, u) <=> Has(goal, u)
                           /\ Past(goal1, u) = IF u = Me THEN s ELSE Past(goal, u)
  BY <1>3, <1>4, <1>6, <1>10, PastChanged
<1>12. /\ Intended(goal2) /\ [items |-> {}] # NoDoc
       /\ \A u \in Users : /\ Line(goal2, u) = IF u = Me THEN {} ELSE Line(goal1, u)
                           /\ Has(goal2, u) <=> u = Me \/ Has(goal1, u)
                           /\ Past(goal2, u) = Past(goal1, u)
  <2>1. PICK S : S = {}
    OBVIOUS
  <2>2. S \in SUBSET Items /\ goal2 = With(goal1, BasketKey(Me), [items |-> S])
    BY <1>10, <2>1
  <2>3. /\ Intended(With(goal1, BasketKey(Me), [items |-> S])) /\ [items |-> S] # NoDoc
        /\ \A u \in Users :
             /\ Line(With(goal1, BasketKey(Me), [items |-> S]), u) = IF u = Me THEN S ELSE Line(goal1, u)
             /\ Has(With(goal1, BasketKey(Me), [items |-> S]), u) <=> u = Me \/ Has(goal1, u)
             /\ Past(With(goal1, BasketKey(Me), [items |-> S]), u) = Past(goal1, u)
    BY <1>3, <1>11, <2>2, BasketChanged
  <2> QED
    BY <2>1, <2>2, <2>3
<1>13. Coming(goal2)' /\ Me' = Me /\ pending(Phone)' = <<h, e>>
  <2>1. goal[h.key] # NoDoc /\ goal[e.key] # NoDoc
    <3>1. goal[UserKey(Me)] \in [items : Seq(Items)] /\ NoDoc \notin [items : Seq(Items)]
      BY <1>3, <1>4, CheckoutAssumption DEF Intended
    <3> QED
      BY <1>3, <1>9, <3>1 DEF Has
  <2>2. \A k \in Keys : goal2[k] = IF k = e.key THEN e.fields ELSE IF k = h.key THEN h.fields ELSE goal[k]
    BY <1>9, <1>10 DEF With
  <2>3. WriteTwo(Phone, h, e) /\ UNCHANGED <<server, cache, user>>
    BY <1>8 DEF paymentDismissed
  <2>4. h.fields # NoDoc /\ e.fields # NoDoc
    BY <1>9, <1>11, <1>12
  <2>5. Coming(goal)
    BY DEF Right
  <2> QED
    BY <1>2, <1>3, <1>9, <1>12, <2>1, <2>2, <2>3, <2>4, <2>5, BothSent
<1>14. /\ UNCHANGED <<main, appeared, reads, button, fetches, record, adding, payments, deleted, dropped>>
       /\ sheet' = "none" /\ toBuy' = << >> /\ rows' = {} /\ basket' = BasketOf(Me, {}) /\ user' = user
  BY <1>3 DEF paymentDismissed, emptyTheBasket, BasketOf
<1>15. Agenda' = <<Told(tag), Told([to |-> "emptied"])>>
  <2>1. \A a, b : << >> \o Tells(<<a, b>>) = <<Told(a.tag), Told(b.tag)>>
    BY DEF Tells
  <2>2. Agenda' = << >> \o Tells(<<h, e>>)
    BY <1>2, <1>13, <1>14 DEF Agenda
  <2> QED
    BY <1>9, <2>1, <2>2
<1>16. Recording(goal2)'
  <2>1. reads' = << >> /\ fetches' = << >> /\ sheet' = "none" /\ NothingAdded' /\ SignedIn' /\ appeared'
    BY <1>1, <1>2, <1>13, <1>14 DEF Quiet, NothingAdded, OnlyAdds, SignedIn
  <2>2. RecordOwn'
    BY <1>3, <1>13, <1>14 DEF RecordOwn
  <2>3. goal2[BasketKey(Me')] = [items |-> {}] /\ basket' = BasketOf(Me', {}) /\ rows' = {}
    BY <1>3, <1>10, <1>13, <1>14, KeysDiffer DEF With
  <2>4. done = [of |-> Me', items |-> Past(goal2, Me')]
    BY <1>3, <1>5, <1>11, <1>12, <1>13
  <2>5. \E d : d = [of |-> Me', items |-> Past(goal2, Me')] /\
           \/ Agenda' = <<Told([to |-> "history", by |-> Me', record |-> d]),
                          Told([to |-> "emptied"])>>
           \/ Agenda' = <<Told([to |-> "emptied"])>> /\ record' = d
    BY <1>5, <1>13, <1>15, <2>4
  <2>6. \A g : g = goal2 => Recording(g)'
    BY <2>1, <2>2, <2>3, <2>5 DEF Recording
  <2> QED
    BY <2>6
<1>17. \A u : (Paid(u) <=> u = Me) /\ ~ Paid(u)'
  BY <1>1, <1>14 DEF Paid
<1>18. LinesRight(goal2)'
  <2> SUFFICES ASSUME NEW u \in Users, Has(goal2, u), NEW i \in Items
               PROVE  /\ payments[u][i] <= 1
                      /\ i \in Line(goal2, u) => payments[u][i] # 1
                      /\ i \in deleted[u] => i \notin Line(goal2, u)
                      /\ adding[u][i] \in {"writing", "added"} <=>
                            (i \in Line(goal2, u) \/ i \in deleted[u] \/ payments[u][i] = 1)
    BY <1>14, <1>17 DEF LinesRight
  <2>1. /\ payments[u][i] <= 1
        /\ i \in Line(goal, u) => (payments[u][i] = 1 <=> u = Me)
        /\ i \in deleted[u] => i \notin Line(goal, u)
        /\ adding[u][i] \in {"writing", "added"} <=>
              (i \in Line(goal, u) \/ i \in deleted[u] \/ payments[u][i] = 1)
    BY <1>3, <1>11, <1>12, <1>17 DEF Right, Accounted, LinesRight
  <2>2. Line(goal2, u) = IF u = Me THEN {} ELSE Line(goal, u)
    BY <1>11, <1>12
  <2> QED
    BY <2>1, <2>2
<1>19. HistoryRight(goal2)'
  <2> SUFFICES ASSUME NEW u \in Users, Has(goal2, u), NEW i \in Items \ dropped
               PROVE  payments[u][i] = Count(Past(goal2, u), i) + 0
    BY <1>14, <1>17 DEF HistoryRight
  <2>1. payments[u][i] = Count(Past(goal, u), i) + IF u = Me THEN Count(toBuy, i) ELSE 0
    BY <1>3, <1>11, <1>12, <1>17 DEF Right, Accounted, HistoryRight
  <2>2. Count(Past(goal2, u), i) \in Nat
    <3>1. Past(goal2, u) \in Seq(Items)
      BY <1>12 DEF Intended, Past
    <3> QED
      BY <3>1, CountIsNat
  <2>3. CASE u = Me
    <3>1. Count(s, i) = Count(Past(goal, Me), i) + Count(toBuy, i)
      BY <1>4, <1>5, CountOfBoth
    <3> QED
      BY <1>3, <1>11, <1>12, <2>1, <2>2, <2>3, <3>1
  <2>4. CASE u # Me
    BY <1>11, <1>12, <2>1, <2>4
  <2> QED
    BY <2>3, <2>4
<1>20. ToBuyRight' /\ BasketRight'
  BY <1>14, CountOfNone DEF Right, Accounted, ToBuyRight, BasketRight, BasketOf
<1>21. NoneUnpaid(goal2)'
  <2> SUFFICES ASSUME NEW i \in Items \ dropped
               PROVE  /\ \A u \in Users : Count(Past(goal2, u), i) <= payments[u][i]
                      /\ Count(record.items, i) <= payments[Me][i]
    BY <1>13, <1>14 DEF NoneUnpaid
  <2>1. /\ \A u \in Users : Count(Past(goal, u), i) <= payments[u][i]
        /\ Count(record.items, i) <= payments[Me][i]
        /\ Count(record.items, i) + Count(toBuy, i) <= payments[Me][i]
    BY <1>1, <1>3 DEF Right, Accounted, NoneUnpaid
  <2>2. Count(s, i) = Count(record.items, i) + Count(toBuy, i)
    BY <1>3, <1>4, <1>5, CountOfBoth
  <2>3. \A u \in Users : Past(goal2, u) = IF u = Me THEN s ELSE Past(goal, u)
    BY <1>11, <1>12
  <2> QED
    BY <2>1, <2>2, <2>3
<1>22. \A g : g = goal2 => Right(g)'
  BY <1>13, <1>16, <1>18, <1>19, <1>20, <1>21 DEF Right, Phase, Accounted
<1> QED
  BY <1>22 DEF PatientInv

--------------------------------------------------------------------------------
(* The blocks run.                                                         *)

\* One block runs, and which is told by what it is.
LEMMA BlockRuns ==
    ASSUME Held(Everything), MainQueue
    PROVE  /\ main[Phone] # << >> /\ main'[Phone] = Tail(main[Phone])
           /\ UNCHANGED <<server, cache, user>>
           /\ Block.kind = "loaded" => loaded
           /\ Block.kind = "user" => userArrived
           /\ Block.kind = "add" => addAnswered
           /\ Block.kind = "written" /\ Block.tag.to = "added" => addWritten
           /\ Block.kind = "written" /\ Block.tag.to = "history" => historyWritten
           /\ Block.kind = "written" /\ Block.tag.to = "emptied" => basketEmptied
<1>1. Phone \in Devices /\ main \in [Devices -> Seq(Blocks(Everything))]
  BY ClientTyped
<1>2. /\ main[Phone] # << >> /\ main'[Phone] = Tail(main[Phone])
      /\ UNCHANGED <<server, cache, user>>
  BY <1>1 DEF MainQueue
<1>3. loaded \/ userArrived \/ addAnswered \/ addWritten \/ historyWritten \/ basketEmptied
  BY DEF MainQueue
<1>4. /\ loaded => Block.kind = "loaded"
      /\ userArrived => Block.kind = "user"
      /\ addAnswered => Block.kind = "add"
      /\ addWritten => Block.kind = "written" /\ Block.tag.to = "added"
      /\ historyWritten => Block.kind = "written" /\ Block.tag.to = "history"
      /\ basketEmptied => Block.kind = "written" /\ Block.tag.to = "emptied"
  BY DEF loaded, userArrived, addAnswered, addWritten, historyWritten, basketEmptied, WrittenTo
<1> HIDE DEF Block
<1>5. /\ Block.kind = "loaded" => loaded
      /\ Block.kind = "user" => userArrived
      /\ Block.kind = "add" => addAnswered
      /\ Block.kind = "written" /\ Block.tag.to = "added" => addWritten
      /\ Block.kind = "written" /\ Block.tag.to = "history" => historyWritten
      /\ Block.kind = "written" /\ Block.tag.to = "emptied" => basketEmptied
  BY <1>3, <1>4
<1> QED
  BY <1>2, <1>5

LEMMA LoadedRight ==
    ASSUME Held(Everything), NEW goal, Right(goal), pending(Phone) = << >>,
           UNCHANGED <<server, cache, user>>, main'[Phone] = << >>, loaded,
           Block.key = BasketKey(Me), Block.doc = goal[BasketKey(Me)],
           reads = << >>, fetches = << >>, sheet = "none", SignedIn, appeared,
           NothingAdded, RecordRight(goal)
    PROVE  Right(goal)'
<1>1. UNCHANGED <<queue, appeared, toBuy, sheet, offered, reads, record, adding, payments, deleted, dropped>>
  BY DEF loaded, past
<1>2. Coming(goal)' /\ Me' = Me /\ pending(Phone)' = << >>
  BY <1>1, ComingStays DEF Right
<1>3. Me \in Users /\ Of(BasketKey(Me)) = Me
  BY KeyNames DEF RecordRight, RecordOwn, SignedIn
<1>4. Has(goal, Me) => Line(goal, Me) \subseteq Items
  BY <1>3 DEF Right, Coming, Intended, Has, Line, BasketDocs
<1>5. PICK b : b = IF Has(goal, Me) THEN BasketOf(Me, Line(goal, Me)) ELSE NoDoc
  OBVIOUS
<1>6. basket' = b /\ getBasketItems(b, rows)
  BY <1>3, <1>5 DEF loaded, Has, Line
<1>7. /\ Has(goal, Me) => b # NoDoc /\ b = BasketOf(Me, Line(goal, Me))
      /\ b # NoDoc => Has(goal, Me) /\ b.items = Line(goal, Me) /\ b.of = Me
  BY <1>3, <1>4, <1>5, CheckoutAssumption DEF BasketOf
<1>8. \/ b = NoDoc /\ fetches' = << >>
      \/ b # NoDoc /\ b.items = {} /\ rows' = {} /\ ~ button' /\ fetches' = << >>
      \/ b # NoDoc /\ fetches' = <<b.items>>
  BY <1>6 DEF getBasketItems
<1>9. NothingAdded' /\ RecordRight(goal)' /\ SignedIn' /\ Untold' /\ reads' = << >>
  BY <1>1, <1>2 DEF NothingAdded, OnlyAdds, RecordRight, RecordOwn, SignedIn, Untold
<1>10. ScreenRight(goal)'
  <2>1. \A x : <<x>> # << >>
    OBVIOUS
  <2> QED
    BY <1>2, <1>6, <1>7, <1>8, <2>1 DEF ScreenRight
<1>11. FetchRight' /\ SheetRight(goal)'
  BY <1>1, <1>6, <1>8, <1>9 DEF FetchRight, SheetRight
<1>12. Quiet(goal)'
  BY <1>9, <1>10, <1>11 DEF Quiet
<1>13. LinesRight(goal)' /\ HistoryRight(goal)' /\ NoneUnpaid(goal)' /\ ToBuyRight'
  BY <1>1, <1>2 DEF Right, Accounted, LinesRight, HistoryRight, NoneUnpaid, ToBuyRight, Paid
<1>14. BasketRight'
  <2>1. Has(goal, Me) => Line(goal, Me) \cap deleted[Me] = {}
    BY <1>3, <1>4 DEF Right, Accounted, LinesRight
  <2> QED
    BY <1>1, <1>6, <1>7, <2>1 DEF Right, Accounted, BasketRight
<1> QED
  BY <1>2, <1>12, <1>13, <1>14 DEF Right, Phase, Accounted

LEMMA UserRight ==
    ASSUME Held(Everything), NEW goal, Right(goal), pending(Phone) = << >>,
           UNCHANGED <<server, cache, user>>, main'[Phone] = << >>, userArrived,
           Block.key = UserKey(Me), Block.doc = goal[UserKey(Me)],
           reads = << >>, fetches = << >>, sheet = "none", ~ appeared,
           Me \in Users, NothingAdded
    PROVE  Right(goal)'
<1>1. UNCHANGED <<queue, appeared, basket, toBuy, sheet, offered, reads, rows, button, fetches, adding,
                  payments, deleted, dropped>>
  BY DEF userArrived, view, list, past
<1>2. Coming(goal)' /\ Me' = Me /\ pending(Phone)' = << >>
  BY <1>1, ComingStays DEF Right
<1>3. Of(UserKey(Me)) = Me /\ goal[UserKey(Me)] # NoDoc
  <2>1. goal[UserKey(Me)] \in [items : Seq(Items)] /\ NoDoc \notin [items : Seq(Items)]
    BY CheckoutAssumption DEF Right, Coming, Intended
  <2> QED
    BY <2>1, KeyNames
<1>4. record' = [of |-> Me, items |-> Past(goal, Me)]
  BY <1>3 DEF userArrived, Past
<1>5. NothingAdded' /\ RecordRight(goal)' /\ Untold' /\ reads' = << >>
  BY <1>1, <1>2, <1>4 DEF NothingAdded, OnlyAdds, RecordRight, RecordOwn, Untold
<1>6. ScreenRight(goal)' /\ FetchRight' /\ SheetRight(goal)'
  BY <1>1 DEF ScreenRight, FetchRight, SheetRight
<1>7. Quiet(goal)'
  BY <1>5, <1>6 DEF Quiet
<1>8. Accounted(goal)'
  BY <1>1, <1>2, <1>4, AccountedStays DEF Right
<1> QED
  BY <1>2, <1>7, <1>8 DEF Right, Phase

LEMMA AddRight ==
    ASSUME Held(Everything), NEW goal, Right(goal), pending(Phone) = << >>,
           UNCHANGED <<server, cache, user>>, main'[Phone] = << >>, addAnswered, NEW i \in Items,
           Block.key = BasketKey(Me), Block.doc = goal[BasketKey(Me)], Block.item = i,
           reads = << >>, fetches = << >>, sheet = "none", ~ appeared, SignedIn, RecordRight(goal),
           Has(goal, Me), OnlyAdds({i}, "reading"), adding[Me][i] = "reading"
    PROVE  PatientInv'
<1>1. Me \in Users /\ Of(BasketKey(Me)) = Me
  BY KeyNames DEF RecordRight, RecordOwn, SignedIn
<1>2. Intended(goal) /\ Line(goal, Me) \subseteq Items
  BY <1>1 DEF Right, Coming, Intended, Line, Has, BasketDocs
<1>3. PICK key, S, goal2, tag : /\ key = BasketKey(Me) /\ S = Line(goal, Me) \cup {i}
                                /\ goal2 = With(goal, key, [items |-> S])
                                /\ tag = [to |-> "added", by |-> Me, item |-> i]
  OBVIOUS
<1>4. /\ adding' = [adding EXCEPT ![Me][i] = "writing"]
      /\ WriteMutations(Phone, UpdateData(key, [items |-> S], tag))
      /\ UNCHANGED <<appeared, basket, toBuy, sheet, offered, reads, rows, button, fetches, record,
                     payments, deleted, dropped>>
  BY <1>1, <1>3 DEF addAnswered, Has, Line, view, list, past
<1>5. /\ Intended(goal2) /\ [items |-> S] # NoDoc
      /\ \A u \in Users : /\ Line(goal2, u) = IF u = Me THEN S ELSE Line(goal, u)
                          /\ Has(goal2, u) <=> Has(goal, u)
                          /\ Past(goal2, u) = Past(goal, u)
  <2>1. S \in SUBSET Items /\ goal2 = With(goal, BasketKey(Me), [items |-> S])
    BY <1>2, <1>3
  <2>2. /\ Intended(With(goal, BasketKey(Me), [items |-> S])) /\ [items |-> S] # NoDoc
        /\ \A u \in Users :
             /\ Line(With(goal, BasketKey(Me), [items |-> S]), u) = IF u = Me THEN S ELSE Line(goal, u)
             /\ Has(With(goal, BasketKey(Me), [items |-> S]), u) <=> u = Me \/ Has(goal, u)
             /\ Past(With(goal, BasketKey(Me), [items |-> S]), u) = Past(goal, u)
    BY <1>1, <1>2, <2>1, BasketChanged
  <2> QED
    BY <2>1, <2>2
<1>6. /\ Coming(goal2)' /\ Me' = Me
      /\ pending(Phone)' = <<UpdateData(key, [items |-> S], tag)>>
  <2>1. key \in {BasketKey(Me), UserKey(Me)} /\ goal[key] # NoDoc
    BY <1>3 DEF Has
  <2> QED
    BY <1>1, <1>3, <1>4, <1>5, <2>1, OneSent DEF Right
<1>7. Agenda' = <<Told(tag)>>
  <2>1. \A w : << >> \o Tells(<<w>>) = <<Told(w.tag)>>
    BY DEF Tells
  <2>2. UpdateData(key, [items |-> S], tag).tag = tag
    BY DEF UpdateData
  <2>3. Agenda' = << >> \o Tells(<<UpdateData(key, [items |-> S], tag)>>)
    BY <1>6 DEF Agenda
  <2> QED
    BY <2>1, <2>2, <2>3
<1>8. adding'[Me][i] = "writing" /\ \A u \in Users, j \in Items :
                                       u # Me \/ j # i => adding'[u][j] = adding[u][j]
  <2>1. adding \in [Users -> [Items -> Progress]]
    BY DEF Held, ScreenTyped
  <2> QED
    BY <1>1, <1>4, <2>1
<1>9. OnlyAdds({i}, "writing")'
  <2> SUFFICES ASSUME NEW u \in Users, NEW j \in Items, adding'[u][j] \in {"reading", "writing"}
               PROVE  u = Me /\ j = i
    BY <1>6, <1>8 DEF OnlyAdds
  <2> QED
    BY <1>8 DEF OnlyAdds
<1>10. Writing(goal2)'
  <2>1. RecordRight(goal2)' /\ SignedIn'
    BY <1>1, <1>4, <1>5, <1>6 DEF RecordRight, RecordOwn, SignedIn
  <2>2. \E j \in Items :
          /\ Agenda' = <<Told([to |-> "added", by |-> Me', item |-> j])>>
          /\ OnlyAdds({j}, "writing")' /\ adding'[Me'][j] = "writing"
    BY <1>3, <1>6, <1>7, <1>8, <1>9
  <2>3. Has(goal2, Me')
    BY <1>1, <1>5, <1>6
  <2>4. \A g : g = goal2 => Writing(g)'
    BY <1>4, <2>1, <2>2, <2>3 DEF Writing
  <2> QED
    BY <2>4
<1>11. \A u : ~ Paid(u) /\ ~ Paid(u)'
  BY <1>4 DEF Paid
<1>12. LinesRight(goal2)'
  <2> SUFFICES ASSUME NEW u \in Users, Has(goal2, u), NEW j \in Items
               PROVE  /\ payments[u][j] <= 1
                      /\ j \in Line(goal2, u) => payments[u][j] # 1
                      /\ j \in deleted[u] => j \notin Line(goal2, u)
                      /\ adding'[u][j] \in {"writing", "added"} <=>
                            (j \in Line(goal2, u) \/ j \in deleted[u] \/ payments[u][j] = 1)
    BY <1>4, <1>11 DEF LinesRight
  <2>1. /\ payments[u][j] <= 1
        /\ j \in Line(goal, u) => payments[u][j] # 1
        /\ j \in deleted[u] => j \notin Line(goal, u)
        /\ adding[u][j] \in {"writing", "added"} <=>
              (j \in Line(goal, u) \/ j \in deleted[u] \/ payments[u][j] = 1)
    BY <1>5, <1>11 DEF Right, Accounted, LinesRight
  <2>2. Line(goal2, u) = IF u = Me THEN Line(goal, u) \cup {i} ELSE Line(goal, u)
    BY <1>3, <1>5
  <2>3. CASE u = Me /\ j = i
    BY <1>8, <2>1, <2>2, <2>3
  <2>4. CASE u # Me \/ j # i
    BY <1>8, <2>1, <2>2, <2>4
  <2> QED
    BY <2>3, <2>4
<1>13. HistoryRight(goal2)' /\ NoneUnpaid(goal2)'
  BY <1>4, <1>5, <1>6, <1>11 DEF Right, Accounted, HistoryRight, NoneUnpaid
<1>14. ToBuyRight' /\ BasketRight'
  BY <1>4 DEF Right, Accounted, ToBuyRight, BasketRight
<1>15. \A g : g = goal2 => Right(g)'
  BY <1>6, <1>10, <1>12, <1>13, <1>14 DEF Right, Phase, Accounted
<1> QED
  BY <1>15 DEF PatientInv

LEMMA AnsweredRight ==
    ASSUME Held(Everything), NEW goal, Right(goal), Answered(goal), MainQueue
    PROVE  PatientInv'
<1>1. PICK r : main[Phone] = <<[r EXCEPT !.doc = goal[r.key]]>> /\ Awaits(goal, r)
  BY DEF Answered
<1>2. /\ main'[Phone] = << >> /\ UNCHANGED <<server, cache, user>>
      /\ Block = [r EXCEPT !.doc = goal[r.key]]
  BY <1>1, BlockRuns, OnlyOne DEF Block
<1>3. reads = << >> /\ sheet = "none" /\ fetches = << >> /\ pending(Phone) = << >> /\ RecordRight(goal)
  BY <1>1 DEF Answered, Awaits
<1>4. ASSUME NEW kind, NEW key, NEW item, r = Asked(kind, key, item)
      PROVE  Block.kind = kind /\ Block.key = key /\ Block.item = item /\ Block.doc = goal[key]
  BY <1>2, <1>4 DEF Asked
<1>5. CASE /\ r = Asked("loaded", BasketKey(Me), None)
           /\ SignedIn /\ appeared /\ NothingAdded
  <2>1. Block.kind = "loaded" /\ Block.key = BasketKey(Me) /\ Block.doc = goal[BasketKey(Me)]
    BY <1>4, <1>5
  <2>2. loaded
    BY <2>1, BlockRuns
  <2>3. Right(goal)'
    BY <1>2, <1>3, <1>5, <2>1, <2>2, LoadedRight
  <2> QED
    BY <2>3 DEF PatientInv
<1>6. CASE /\ r = Asked("user", UserKey(Me), None)
           /\ Me \in Users /\ record = NoDoc /\ ~ appeared /\ NothingAdded
  <2>1. Block.kind = "user" /\ Block.key = UserKey(Me) /\ Block.doc = goal[UserKey(Me)]
    BY <1>4, <1>6
  <2>2. userArrived
    BY <2>1, BlockRuns
  <2>3. Right(goal)'
    BY <1>2, <1>3, <1>6, <2>1, <2>2, UserRight
  <2> QED
    BY <2>3 DEF PatientInv
<1>7. ASSUME NEW i \in Items, r = Asked("add", BasketKey(Me), i), SignedIn, ~ appeared, Has(goal, Me),
             OnlyAdds({i}, "reading"), adding[Me][i] = "reading"
      PROVE  PatientInv'
  <2>1. /\ Block.kind = "add" /\ Block.key = BasketKey(Me) /\ Block.doc = goal[BasketKey(Me)]
        /\ Block.item = i
    BY <1>4, <1>7
  <2>2. addAnswered
    BY <2>1, BlockRuns
  <2> QED
    BY <1>2, <1>3, <1>7, <2>1, <2>2, AddRight
<1> QED
  BY <1>1, <1>5, <1>6, <1>7 DEF Awaits

LEMMA AddedRight ==
    ASSUME Held(Everything), NEW goal, Right(goal), Writing(goal), MainQueue
    PROVE  Right(goal)'
<1>1. PICK i \in Items : /\ Agenda = <<Told([to |-> "added", by |-> Me, item |-> i])>>
                         /\ OnlyAdds({i}, "writing") /\ adding[Me][i] = "writing"
  BY DEF Writing
<1>2. /\ main[Phone] # << >> /\ main'[Phone] = Tail(main[Phone])
      /\ UNCHANGED <<server, cache, user>>
  BY BlockRuns
<1>3. /\ Block = Told([to |-> "added", by |-> Me, item |-> i])
      /\ Tail(main[Phone]) = << >> /\ pending(Phone) = << >>
  BY <1>1, <1>2, OneTold DEF Block
<1>4. /\ Block.kind = "written" /\ Block.tag.to = "added" /\ Block.tag.by = Me /\ Block.tag.item = i
      /\ Block.ok
  BY <1>3 DEF Told
<1>5. addWritten
  BY <1>4, BlockRuns
<1>6. /\ adding' = [adding EXCEPT ![Me][i] = "added"]
      /\ UNCHANGED <<queue, appeared, basket, toBuy, sheet, offered, reads, rows, button, fetches, record,
                     payments, deleted, dropped>>
  BY <1>4, <1>5 DEF addWritten, view, list, past
<1>7. reads = << >> /\ fetches = << >> /\ sheet = "none" /\ SignedIn /\ ~ appeared /\ RecordRight(goal)
  BY DEF Writing
<1>8. Coming(goal)' /\ Me' = Me /\ pending(Phone)' = << >>
  BY <1>2, <1>3, <1>6, ComingStays DEF Right
<1>9. Me \in Users
  BY <1>7 DEF RecordRight, RecordOwn, SignedIn
<1>10. adding'[Me][i] = "added" /\ \A u \in Users, j \in Items :
                                      u # Me \/ j # i => adding'[u][j] = adding[u][j]
  <2>1. adding \in [Users -> [Items -> Progress]]
    BY DEF Held, ScreenTyped
  <2> QED
    BY <1>6, <1>9, <2>1
<1>11. NothingAdded'
  <2> SUFFICES ASSUME NEW u \in Users, NEW j \in Items, adding'[u][j] \in {"reading", "writing"}
               PROVE  FALSE
    BY DEF NothingAdded, OnlyAdds
  <2> QED
    BY <1>1, <1>10 DEF OnlyAdds
<1>12. RecordRight(goal)' /\ Untold' /\ reads' = << >>
  BY <1>2, <1>3, <1>6, <1>7, <1>8 DEF RecordRight, RecordOwn, Untold
<1>13. ScreenRight(goal)' /\ FetchRight' /\ SheetRight(goal)'
  BY <1>6, <1>7 DEF ScreenRight, FetchRight, SheetRight
<1>14. Quiet(goal)'
  BY <1>11, <1>12, <1>13 DEF Quiet
<1>15. \A u : ~ Paid(u) /\ ~ Paid(u)'
  BY <1>6, <1>7 DEF Paid
<1>16. LinesRight(goal)'
  <2>1. \A u \in Users, j \in Items :
          adding'[u][j] \in {"writing", "added"} <=> adding[u][j] \in {"writing", "added"}
    BY <1>1, <1>10
  <2> QED
    BY <1>6, <1>15, <2>1 DEF Right, Accounted, LinesRight
<1>17. HistoryRight(goal)' /\ NoneUnpaid(goal)' /\ ToBuyRight' /\ BasketRight'
  BY <1>6, <1>8, <1>15 DEF Right, Accounted, HistoryRight, NoneUnpaid, ToBuyRight, BasketRight
<1> QED
  BY <1>8, <1>14, <1>16, <1>17 DEF Right, Phase, Accounted

\* The phone takes a purchase in, and then shows the empty basket.
LEMMA RecordedRight ==
    ASSUME Held(Everything), NEW goal, Right(goal), Recording(goal), MainQueue
    PROVE  Right(goal)'
<1>1. PICK done : /\ done = [of |-> Me, items |-> Past(goal, Me)]
                  /\ \/ Agenda = <<Told([to |-> "history", by |-> Me, record |-> done]),
                                   Told([to |-> "emptied"])>>
                     \/ Agenda = <<Told([to |-> "emptied"])>> /\ record = done
  BY DEF Recording
<1>2. /\ main[Phone] # << >> /\ main'[Phone] = Tail(main[Phone])
      /\ UNCHANGED <<server, cache, user>>
  BY BlockRuns
<1>3. /\ reads = << >> /\ fetches = << >> /\ sheet = "none" /\ NothingAdded /\ SignedIn /\ appeared
      /\ RecordOwn /\ goal[BasketKey(Me)] = [items |-> {}] /\ basket = BasketOf(Me, {}) /\ rows = {}
  BY DEF Recording
<1>4. Me \in Users /\ record.of = Me /\ Past(goal, Me) \in Seq(Items)
  BY <1>3 DEF RecordOwn, SignedIn, Right, Coming, Intended, Past
<1>5. CASE Agenda = <<Told([to |-> "history", by |-> Me, record |-> done]), Told([to |-> "emptied"])>>
  <2>1. /\ Block = Told([to |-> "history", by |-> Me, record |-> done])
        /\ Tail(main[Phone]) \o Tells(pending(Phone)) = <<Told([to |-> "emptied"])>>
    <3>1. \A a, b : Head(<<a, b>>) = a /\ Tail(<<a, b>>) = <<b>>
      OBVIOUS
    <3> QED
      BY <1>2, <1>5, <3>1, ToldInTurn DEF Block
  <2>2. /\ Block.kind = "written" /\ Block.tag.to = "history" /\ Block.tag.record = done /\ Block.ok
    BY <2>1 DEF Told
  <2>3. historyWritten
    BY <2>2, BlockRuns
  <2>4. /\ record' = done
        /\ UNCHANGED <<queue, appeared, basket, toBuy, sheet, offered, reads, rows, button, fetches,
                       adding, payments, deleted, dropped>>
    BY <2>2, <2>3 DEF historyWritten, view, list
  <2>5. Coming(goal)' /\ Me' = Me /\ pending(Phone)' = pending(Phone)
    BY <1>2, <2>4, ComingStays DEF Right
  <2>6. Agenda' = <<Told([to |-> "emptied"])>>
    BY <1>2, <2>1, <2>5 DEF Agenda
  <2>7. NothingAdded' /\ SignedIn' /\ RecordOwn'
    <3>1. done \in Records /\ done.of = Me
      BY <1>1, <1>4 DEF Records
    <3>2. done # NoDoc
      BY <3>1, CheckoutAssumption DEF Records
    <3> QED
      BY <1>2, <1>3, <1>4, <2>4, <2>5, <3>1, <3>2 DEF NothingAdded, OnlyAdds, SignedIn, RecordOwn
  <2>8. \E d : d = [of |-> Me', items |-> Past(goal, Me')] /\
           \/ Agenda' = <<Told([to |-> "history", by |-> Me', record |-> d]),
                          Told([to |-> "emptied"])>>
           \/ Agenda' = <<Told([to |-> "emptied"])>> /\ record' = d
    BY <1>1, <2>4, <2>5, <2>6
  <2>9. Recording(goal)'
    BY <1>3, <2>4, <2>5, <2>7, <2>8 DEF Recording
  <2>10. Accounted(goal)'
    BY <1>1, <1>3, <1>4, <2>4, <2>5, AccountedStays DEF Right
  <2> QED
    BY <2>5, <2>9, <2>10 DEF Right, Phase
<1>6. CASE Agenda = <<Told([to |-> "emptied"])>> /\ record = done
  <2>1. Block = Told([to |-> "emptied"]) /\ Tail(main[Phone]) = << >> /\ pending(Phone) = << >>
    BY <1>2, <1>6, OneTold DEF Block
  <2>2. Block.kind = "written" /\ Block.tag.to = "emptied"
    BY <2>1 DEF Told
  <2>3. basketEmptied
    BY <2>2, BlockRuns
  <2>4. /\ getBasketItems(basket, rows)
        /\ UNCHANGED <<queue, appeared, basket, toBuy, sheet, offered, reads, record,
                       adding, payments, deleted, dropped>>
    BY <2>3 DEF basketEmptied, view, past
  <2>5. basket # NoDoc /\ basket.items = {}
    BY <1>3, <1>4, CheckoutAssumption DEF BasketOf
  <2>6. rows' = {} /\ ~ button' /\ fetches' = << >>
    BY <1>3, <2>4, <2>5 DEF getBasketItems
  <2>7. Coming(goal)' /\ Me' = Me /\ pending(Phone)' = << >>
    BY <1>2, <2>1, <2>4, ComingStays DEF Right
  <2>8. NothingAdded' /\ SignedIn' /\ RecordRight(goal)' /\ Untold' /\ reads' = << >>
    BY <1>1, <1>2, <1>3, <1>4, <1>6, <2>1, <2>4, <2>7
    DEF NothingAdded, OnlyAdds, SignedIn, RecordRight, RecordOwn, Untold
  <2>9. ScreenRight(goal)' /\ FetchRight' /\ SheetRight(goal)'
    <3>1. Line(goal, Me) = {} /\ Has(goal, Me)
      <4>1. [items |-> {}] \in [items : SUBSET Items]
        OBVIOUS
      <4>2. [items |-> {}] # NoDoc
        BY <4>1, CheckoutAssumption
      <4> QED
        BY <1>3, <4>2 DEF Line, Has
    <3> QED
      BY <1>3, <2>4, <2>6, <2>7, <3>1 DEF ScreenRight, FetchRight, SheetRight
  <2>10. Quiet(goal)'
    BY <2>8, <2>9 DEF Quiet
  <2>11. Accounted(goal)'
    BY <1>3, <2>4, <2>7, AccountedStays DEF Right
  <2> QED
    BY <2>7, <2>10, <2>11 DEF Right, Phase
<1> QED
  BY <1>1, <1>5, <1>6

LEMMA MainQueueRight ==
    ASSUME Held(Everything), NEW goal, Right(goal), MainQueue
    PROVE  PatientInv'
<1>1. main[Phone] # << >>
  BY DEF MainQueue
<1>2. Answered(goal) \/ Writing(goal) \/ Recording(goal)
  BY <1>1 DEF Right, Phase, Quiet, Asking, Untold
<1>3. Right(goal)' => PatientInv'
  BY DEF PatientInv
<1> QED
  BY <1>2, <1>3, AnsweredRight, AddedRight, RecordedRight

LEMMA StepRight ==
    ASSUME Held(Everything), NEW goal, Right(goal), [PatientNext]_vars
    PROVE  PatientInv'
<1>1. Right(goal)' => PatientInv'
  BY DEF PatientInv
<1>2. ASSUME Settled, UserActs \/ Terminate, SignedIn \/ UNCHANGED deleted PROVE PatientInv'
  <2>1. ASSUME Terminate PROVE PatientInv'
    BY <1>1, <1>2, <2>1, TerminateRight
  <2>2. ASSUME NEW i \in Items, deleteRow(i) \/ deleteRowTraps(i) \/ addToBasketTapped(i)
        PROVE  PatientInv'
    BY <1>1, <1>2, <2>1, <2>2, DeleteRight, AddTappedRight DEF deleteRowTraps
  <2>3. ASSUME NEW u \in Users, loginUserWith(u) PROVE PatientInv'
    BY <1>1, <1>2, <2>3, LogInRight
  <2> QED
    BY <1>1, <1>2, <2>1, <2>2, <2>3, AppearsRight, CheckOutRight, CancelRight, PaymentRight, LogOutRight
    DEF UserActs, checkOutTraps
<1>3. ASSUME AppRuns, NothingFails PROVE PatientInv'
  BY <1>1, <1>3, ReadRight, ItemsRight, DismissRight, DismissTrapRight, MainQueueRight DEF AppRuns
<1>4. ASSUME Network \/ NetworkLost, NothingFails PROVE PatientInv'
  BY <1>1, <1>4, NetworkRight
<1>5. CASE UNCHANGED vars
  BY <1>1, <1>5, StutterRight
<1> QED
  BY <1>2, <1>3, <1>4, <1>5 DEF PatientNext

\* Nothing has been added, paid for or asked for, and the documents are as they are.
LEMMA InitRight == Init => PatientInv
<1> SUFFICES ASSUME Init PROVE PatientInv
  OBVIOUS
<1>1. PICK holders \in SUBSET Users : \E held \in [holders -> SUBSET Items] :
        /\ server = [k \in Keys |->
                        IF k[1] = "user" THEN [items |-> << >>]
                        ELSE IF Of(k) \in holders THEN [items |-> held[Of(k)]] ELSE NoDoc]
        /\ adding = [u \in Users |-> [i \in Items |->
                        IF u \in holders /\ i \in held[u] THEN "added" ELSE "idle"]]
  BY DEF Init
<1>2. PICK held \in [holders -> SUBSET Items] :
        /\ server = [k \in Keys |->
                        IF k[1] = "user" THEN [items |-> << >>]
                        ELSE IF Of(k) \in holders THEN [items |-> held[Of(k)]] ELSE NoDoc]
        /\ adding = [u \in Users |-> [i \in Items |->
                        IF u \in holders /\ i \in held[u] THEN "added" ELSE "idle"]]
  BY <1>1
<1>3. ASSUME NEW u \in Users
      PROVE  /\ server[UserKey(u)] = [items |-> << >>]
             /\ server[BasketKey(u)] = IF u \in holders THEN [items |-> held[u]] ELSE NoDoc
  <2>1. UserKey(u) \in Keys /\ BasketKey(u) \in Keys /\ UserKey(u)[1] = "user"
        /\ BasketKey(u)[1] # "user" /\ Of(BasketKey(u)) = u
    BY KeysDiffer, KeyNames DEF UserKey, BasketKey
  <2> QED
    BY <1>2, <2>1
<1>4. ASSUME NEW u \in holders
      PROVE  [items |-> held[u]] \in [items : SUBSET Items] /\ [items |-> held[u]] # NoDoc
  <2>1. [items |-> held[u]] \in [items : SUBSET Items]
    BY <1>2
  <2> QED
    BY <2>1, CheckoutAssumption
<1>5. /\ Phone \in Devices /\ user[Phone] \in Accounts
      /\ cache[Phone] = server /\ main[Phone] = << >>
      /\ \A u \in Accounts : queue[Phone][u] = << >>
  BY KeyNames DEF Init, ClientInit
<1>6. pending(Phone) = << >>
  BY <1>5 DEF pending
<1>7. PICK goal : goal = server
  OBVIOUS
<1>8. Intended(goal)
  <2> SUFFICES ASSUME NEW u \in Users
               PROVE  /\ goal[BasketKey(u)] \in BasketDocs
                      /\ goal[UserKey(u)] \in [items : Seq(Items)]
    BY DEF Intended
  <2>1. << >> \in Seq(Items)
    OBVIOUS
  <2>2. goal[UserKey(u)] \in [items : Seq(Items)]
    <3>1. goal[UserKey(u)] = [items |-> << >>]
      BY <1>3, <1>7
    <3> QED
      BY <2>1, <3>1
  <2>3. goal[BasketKey(u)] \in BasketDocs
    BY <1>3, <1>4, <1>7 DEF BasketDocs
  <2> QED
    BY <2>2, <2>3
<1>9. Coming(goal)
  BY <1>5, <1>6, <1>7, <1>8 DEF Coming, Agrees, Sends
<1>10. \A u \in Users : /\ Has(goal, u) <=> u \in holders
                        /\ Has(goal, u) => Line(goal, u) = held[u]
                        /\ Past(goal, u) = << >>
  <2> SUFFICES ASSUME NEW u \in Users
               PROVE  /\ Has(goal, u) <=> u \in holders
                      /\ Has(goal, u) => Line(goal, u) = held[u]
                      /\ Past(goal, u) = << >>
    OBVIOUS
  <2>1. Past(goal, u) = << >>
    <3>1. goal[UserKey(u)] = [items |-> << >>]
      BY <1>3, <1>7
    <3> QED
      BY <3>1 DEF Past
  <2>2. CASE u \in holders
    <3>1. goal[BasketKey(u)] = [items |-> held[u]] /\ goal[BasketKey(u)] # NoDoc
      BY <1>3, <1>4, <1>7, <2>2
    <3> QED
      BY <2>1, <2>2, <3>1 DEF Has, Line
  <2>3. CASE u \notin holders
    BY <1>3, <1>7, <2>1, <2>3 DEF Has
  <2> QED
    BY <2>2, <2>3
<1>11. NothingAdded
  <2>1. \A u \in Users, i \in Items : adding[u][i] \in {"added", "idle"}
    BY <1>2
  <2> QED
    BY <2>1 DEF NothingAdded, OnlyAdds
<1>12. RecordRight(goal)
  BY <1>5, <1>10 DEF Init, RecordRight, RecordOwn, Me, Accounts
<1>13. Quiet(goal)
  BY <1>5, <1>6, <1>11, <1>12 DEF Init, Quiet, Untold, ScreenRight, SheetRight, FetchRight
<1>14. \A u : ~ Paid(u)
  BY DEF Init, Paid
<1>15. LinesRight(goal)
  <2> SUFFICES ASSUME NEW u \in Users, Has(goal, u), NEW i \in Items
               PROVE  /\ payments[u][i] = 0 /\ deleted[u] = {}
                      /\ adding[u][i] \in {"writing", "added"} <=> i \in Line(goal, u)
    BY <1>14 DEF LinesRight
  <2> QED
    BY <1>2, <1>10 DEF Init
<1>16. HistoryRight(goal) /\ ToBuyRight /\ BasketRight
  BY <1>10, <1>14, CountOfNone DEF Init, HistoryRight, ToBuyRight, BasketRight
<1>17. NoneUnpaid(goal)
  <2> SUFFICES ASSUME NEW i \in Items
               PROVE  /\ \A u \in Users : Count(Past(goal, u), i) <= payments[u][i]
                      /\ record # NoDoc => Count(record.items, i) <= payments[Me][i]
    BY DEF Init, NoneUnpaid
  <2>1. \A u \in Users : Count(Past(goal, u), i) = 0 /\ payments[u][i] = 0
    BY <1>10, CountOfNone DEF Init
  <2>2. record # NoDoc => Me \in Users /\ record.items = << >>
    BY <1>5 DEF Init, Me, Accounts
  <2> QED
    BY <2>1, <2>2, CountOfNone DEF Init
<1> QED
  BY <1>9, <1>13, <1>15, <1>16, <1>17 DEF PatientInv, Right, Phase, Accounted

--------------------------------------------------------------------------------
(* What the purchase promises a user who waits.                            *)

LEMMA PatientIsASpec == PatientSpec => Spec
<1>1. [PatientNext]_vars => [Next]_vars
  BY DEF PatientNext, Next, Breaks
<1> QED
  BY <1>1, PTL DEF PatientSpec, Spec

LEMMA PatientInvariant == PatientSpec => [](CheckoutInv /\ PatientInv)
<1>1. CheckoutInv /\ PatientInv /\ [PatientNext]_vars => PatientInv'
  <2> SUFFICES ASSUME CheckoutInv, PatientInv, [PatientNext]_vars PROVE PatientInv'
    OBVIOUS
  <2>1. PICK goal : Right(goal)
    BY DEF PatientInv
  <2> QED
    BY <2>1, HeldThroughout, StepRight
<1> QED
  BY <1>1, InitRight, PatientIsASpec, CheckoutInvariant, PTL DEF PatientSpec

\* The server has the documents that are intended, whose contents it is still to get.
LEMMA BasketsAreThere ==
    ASSUME NEW goal, Right(goal), NEW u \in Users
    PROVE  HasBasket(u) <=> Has(goal, u)
BY KeysDiffer DEF Right, Coming, Agrees, HasBasket, Has

\* Somebody with a basket is signed in: it is theirs that is on the screen.
LEMMA AtHomeRight ==
    ASSUME NEW goal, Right(goal), AtHome, Quiet(goal)
    PROVE  /\ SignedIn /\ Me \in Users /\ Has(goal, Me)
           /\ appeared => /\ basket = BasketOf(Me, Line(goal, Me)) /\ basket # NoDoc
                          /\ basket.items = Line(goal, Me)
                          /\ fetches = << >> => rows = Line(goal, Me)
           /\ pending(Phone) = << >> => Own = Line(goal, Me)
<1>1. SignedIn /\ Me \in Users
  BY DEF AtHome, Quiet, RecordRight, RecordOwn, SignedIn
<1>2. Has(goal, Me)
  BY <1>1, BasketsAreThere DEF AtHome, Me
<1>3. appeared => /\ basket = BasketOf(Me, Line(goal, Me))
                  /\ fetches = << >> => rows = Line(goal, Me)
  BY <1>1, <1>2 DEF Quiet, ScreenRight
<1>4. BasketOf(Me, Line(goal, Me)) # NoDoc /\ BasketOf(Me, Line(goal, Me)).items = Line(goal, Me)
  <2>1. Line(goal, Me) \subseteq Items
    BY <1>1, <1>2 DEF Right, Coming, Intended, Has, Line, BasketDocs
  <2> QED
    BY <1>1, <2>1, CheckoutAssumption DEF BasketOf
<1>5. pending(Phone) = << >> => Own = Line(goal, Me)
  BY <1>1, KeysDiffer DEF Right, Coming, Agrees, Own, Line, Me
<1> QED
  BY <1>1, <1>2, <1>3, <1>4, <1>5

\* What a user with a basket who waits can delete and pay for is what the basket on the
\* server holds, whatever accounts there are, whoever had the screen before and whatever
\* got lost on the way: rows and basket, which the handlers keep in step by hand, agree
\* with it.  An account without a basket has no former user's basket behind the rows.
THEOREM RowsAreTheBasket == PatientSpec => []RowsAreBasket
<1>1. CheckoutInv /\ PatientInv => RowsAreBasket
  <2> SUFFICES ASSUME CheckoutInv, PatientInv, Settled, appeared, SignedIn
               PROVE  IF AtHome THEN rows = Own /\ basket = BasketOf(user[Phone], Own)
                      ELSE basket = NoDoc
    BY DEF RowsAreBasket
  <2>1. PICK goal : Right(goal)
    BY DEF PatientInv
  <2>2. Quiet(goal) /\ fetches = << >> /\ pending(Phone) = << >>
    BY <2>1, HeldThroughout, SettledIsQuiet
  <2>3. CASE AtHome
    <3>1. Own = Line(goal, Me) /\ basket = BasketOf(Me, Line(goal, Me)) /\ rows = Line(goal, Me)
      BY <2>1, <2>2, <2>3, AtHomeRight
    <3> QED
      BY <2>3, <3>1 DEF Me
  <2>4. CASE ~ AtHome
    <3>1. Me \in Users
      BY <2>2 DEF Quiet, RecordRight, RecordOwn, SignedIn
    <3>2. ~ Has(goal, Me)
      BY <2>1, <2>4, <3>1, BasketsAreThere DEF AtHome, Me
    <3> QED
      BY <2>2, <2>4, <3>2 DEF Quiet, ScreenRight
  <2> QED
    BY <2>3, <2>4
<1> QED
  BY <1>1, PatientInvariant, PTL

\* An item that a user who waits has added is in the basket, or was deleted from it, or
\* was paid for, and that once: no restart and no lost answer loses or doubles it.
THEOREM NoLineIsLost == PatientSpec => []LinesAccounted
<1>1. CheckoutInv /\ PatientInv => LinesAccounted
  <2> SUFFICES ASSUME CheckoutInv, PatientInv, NEW u \in Users, HasBasket(u), NEW i \in Items
               PROVE  /\ payments[u][i] <= 1
                      /\ Settled => (adding[u][i] = "added" <=>
                                        \/ i \in server[BasketKey(u)].items
                                        \/ i \in deleted[u]
                                        \/ payments[u][i] = 1)
    BY DEF LinesAccounted
  <2>1. PICK goal : Right(goal)
    BY DEF PatientInv
  <2>2. /\ payments[u][i] <= 1
        /\ adding[u][i] \in {"writing", "added"} <=>
              (i \in Line(goal, u) \/ i \in deleted[u] \/ payments[u][i] = 1)
    BY <2>1, BasketsAreThere DEF Right, Accounted, LinesRight
  <2>3. ASSUME Settled PROVE server[BasketKey(u)].items = Line(goal, u) /\ adding[u][i] # "writing"
    BY <2>1, <2>3, HeldThroughout, SettledIsQuiet, KeysDiffer DEF Settled, Line
  <2> QED
    BY <2>2, <2>3
<1> QED
  BY <1>1, PatientInvariant, PTL

\* The app of a user with a basket who waits does not end at emptyTheBasket's forced
\* unwrap or at removeItemFromBasket's index.
THEOREM PatientNeverTraps == PatientSpec => []NeverTraps
<1>1. CheckoutInv /\ PatientInv => NeverTraps
  <2> SUFFICES ASSUME CheckoutInv, PatientInv, AtHome
               PROVE  /\ sheet = "paid" => basket # NoDoc
                      /\ Settled /\ OnScreen => \A i \in rows : Holds(i)
    BY DEF NeverTraps
  <2>1. PICK goal : Right(goal)
    BY DEF PatientInv
  <2>2. ASSUME sheet = "paid" PROVE basket # NoDoc
    <3>1. Quiet(goal) /\ appeared
      BY <2>1, <2>2, NotQuiet DEF Right, Quiet, SheetRight
    <3> QED
      BY <2>1, <3>1, AtHomeRight
  <2>3. ASSUME Settled, OnScreen, NEW i \in rows PROVE Holds(i)
    <3>1. Quiet(goal) /\ fetches = << >> /\ appeared
      BY <2>1, <2>3, HeldThroughout, SettledIsQuiet DEF OnScreen
    <3> QED
      BY <2>1, <2>3, <3>1, AtHomeRight DEF Holds
  <2> QED
    BY <2>2, <2>3
<1> QED
  BY <1>1, PatientInvariant, PTL

\* Nothing that a user who waits does is written to somebody else's documents, although
\* rows and basket stay on the screen when the account changes.
THEOREM OwnDocumentsOnly == PatientSpec => []OnlyOwnDocuments
<1>1. CheckoutInv /\ PatientInv => OnlyOwnDocuments
  <2> SUFFICES ASSUME CheckoutInv, PatientInv, NEW u \in Users, NEW n \in DOMAIN queue[Phone][u]
               PROVE  Of(queue[Phone][u][n].key) = u
    BY DEF OnlyOwnDocuments
  <2>1. PICK goal : Right(goal)
    BY DEF PatientInv
  <2>2. u = Me
    BY <2>1 DEF Right, Coming, Accounts
  <2>3. queue[Phone][u][n].key \in {BasketKey(Me), UserKey(Me)}
    BY <2>1, <2>2 DEF Right, Coming, Sends, pending, Me
  <2> QED
    BY <2>2, <2>3, KeyNames
<1> QED
  BY <1>1, PatientInvariant, PTL

\* The sheet asks a user who waits for the rows on the screen, and one with a basket for
\* what is in it, and for something.
THEOREM SheetShowsTheBasket == PatientSpec => []PaidFromOwnBasket
<1>1. CheckoutInv /\ PatientInv => PaidFromOwnBasket
  <2> SUFFICES ASSUME CheckoutInv, PatientInv, sheet = "up"
               PROVE  offered = rows /\ (AtHome => offered = Own /\ Own # {})
    BY DEF PaidFromOwnBasket
  <2>1. PICK goal : Right(goal)
    BY DEF PatientInv
  <2>2. Quiet(goal)
    BY <2>1, NotQuiet DEF Right
  <2>3. SheetRight(goal) /\ pending(Phone) = << >>
    BY <2>2 DEF Quiet, SheetRight
  <2> QED
    BY <2>1, <2>2, <2>3, AtHomeRight DEF SheetRight
<1> QED
  BY <1>1, PatientInvariant, PTL

\* When everything is settled, no account that waits has a purchase in its history more
\* often than it paid for it, and one with a basket has it as often, unless it was on a
\* sheet that was cancelled or never presented.  An account without a basket may have
\* lost one at emptyTheBasket's forced unwrap.
THEOREM PatientIsRecorded == PatientSpec => []RecordedAsPaid
<1>1. CheckoutInv /\ PatientInv => RecordedAsPaid
  <2> SUFFICES ASSUME CheckoutInv, PatientInv, Settled, NEW u \in Users, NEW i \in Items \ dropped
               PROVE  /\ Count(history(u), i) <= payments[u][i]
                      /\ HasBasket(u) => Count(history(u), i) = payments[u][i]
    BY DEF RecordedAsPaid
  <2>1. PICK goal : Right(goal)
    BY DEF PatientInv
  <2>2. history(u) = Past(goal, u)
    BY <2>1, HeldThroughout, SettledIsQuiet, KeysDiffer DEF history, Past
  <2>3. Count(Past(goal, u), i) <= payments[u][i]
    BY <2>1 DEF Right, Accounted, NoneUnpaid
  <2>4. HasBasket(u) => payments[u][i] = Count(Past(goal, u), i) + 0
    BY <2>1, BasketsAreThere DEF Right, Accounted, HistoryRight, Paid, Settled
  <2>5. Count(Past(goal, u), i) \in Nat
    <3>1. Past(goal, u) \in Seq(Items)
      BY <2>1 DEF Right, Coming, Intended, Past
    <3> QED
      BY <3>1, CountIsNat
  <2> QED
    BY <2>2, <2>3, <2>4, <2>5
<1> QED
  BY <1>1, PatientInvariant, PTL

================================================================================
