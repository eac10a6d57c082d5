----------------------------- MODULE CheckoutProofs ----------------------------
(***************************************************************************)
(* Theorems about Checkout, for any accounts, items and bounds: its types, *)
(* what can be in a purchase history, and that it only grows.              *)
(*                                                                         *)
(* The first two come from one invariant.  good[u] is any collection of    *)
(* items that has all that u paid for and all that was on a sheet without  *)
(* a payment; every copy of u's history there is has only items of good[u].*)
(* For the last, every copy of a history on the phone is what the server   *)
(* has, or one purchase is on its way, made from what the server has.      *)
(***************************************************************************)
EXTENDS Checkout, FirestoreClientProofs, FiniteSetTheorems, SequenceTheorems

--------------------------------------------------------------------------------
(* What is in the documents, the writes and the blocks.                    *)

Collections == [Users -> SUBSET Items]

Everything == [u \in Users |-> Items]

BasketDocs == [items : SUBSET Items] \cup {NoDoc}

\* An account's history has only its good items.
Documents(good) ==
    [k \in Keys |-> IF k[1] = "user" THEN [items : Seq(good[Of(k)])] ELSE BasketDocs]

BasketKeys == {"basket"} \X Users
UserKeys == {"user"} \X Users

\* A record has only good items of the account whose record it is.
GoodRecords(good) == {r \in Records : r.items \in Seq(good[r.of])}

\* What a write is for, if a block waits for it.
Purposes(good) ==
    [to : {"added"}, by : Users, item : Items] \cup [to : {"emptied"}]
        \cup [to : {"history"}, by : Users, record : GoodRecords(good)]

Tags(good) == {None} \cup Purposes(good)

Fates == {"pending", "committed", "known", "refused"}

BasketWrites(good) ==
    [op : {"update"}, key : BasketKeys, fields : [items : SUBSET Items],
     tag : Tags(good), fate : Fates]

HistoryWrites(good) ==
    {w \in [op : {"update"}, key : UserKeys, fields : [items : Seq(Items)],
            tag : Tags(good), fate : Fates] : w.fields.items \in Seq(good[Of(w.key)])}

Writes(good) == BasketWrites(good) \cup HistoryWrites(good)

\* Blocks that a document read answers.
Replies(good) ==
    [kind : {"loaded"}, key : BasketKeys, item : {None}, doc : BasketDocs]
        \cup [kind : {"add"}, key : BasketKeys, item : Items, doc : BasketDocs]
        \cup {b \in [kind : {"user"}, key : UserKeys, item : {None},
                     doc : [items : Seq(Items)] \cup {NoDoc}] :
                b.doc # NoDoc => b.doc.items \in Seq(good[Of(b.key)])}

Blocks(good) == Replies(good) \cup [kind : {"written"}, tag : Purposes(good), ok : BOOLEAN]

Asks ==
    [kind : {"loaded"}, key : BasketKeys, item : {None}, doc : {NoDoc}]
        \cup [kind : {"add"}, key : BasketKeys, item : Items, doc : {NoDoc}]
        \cup [kind : {"user"}, key : UserKeys, item : {None}, doc : {NoDoc}]

ClientOK(good) == ClientHolds(Documents(good), Writes(good), Blocks(good))

--------------------------------------------------------------------------------
(* The invariant.                                                          *)

Progress == {"idle", "reading", "writing", "added", "failed", "untold", "elsewhere"}

ScreenTyped ==
    /\ appeared \in BOOLEAN /\ button \in BOOLEAN
    /\ basket \in [of : Users, items : SUBSET Items] \cup {NoDoc}
    /\ rows \subseteq Items /\ offered \subseteq Items
    /\ sheet \in {"none", "up", "paid"}
    /\ sheet # "none" => SignedIn
    /\ reads \in Seq(Asks) /\ Len(reads) <= MaxUnder
    /\ presses \in 0 .. MaxSheets
    /\ fetches \in Seq((SUBSET Items) \ {{}})
    /\ adding \in [Users -> [Items -> Progress]]
    /\ payments \in [Users -> [Items -> Nat]]
    /\ dropped \subseteq Items

\* What waits to be recorded is good for everybody, but for what is on the sheet now
\* and, once that is paid, good for the account that paid.
ListGood(good) ==
    /\ toBuy \in Seq(Items)
    /\ \A n \in DOMAIN toBuy, u \in Users :
        \/ toBuy[n] \in good[u]
        \/ sheet = "up" /\ toBuy[n] \in offered
        \/ sheet = "paid" /\ u # user[Phone]

Sound(good) ==
    /\ ClientOK(good)
    /\ record \in GoodRecords(good) \cup {NoDoc}
    /\ ListGood(good)

\* Whatever was paid for or dropped is good; after a purchase that was made from
\* somebody else's record, everything is.
Backed(good) ==
    /\ good \in Collections
    /\ mixed => good = Everything
    /\ \A u \in Users, i \in Items : payments[u][i] > 0 \/ i \in dropped => i \in good[u]

CheckoutInv == ScreenTyped /\ \A good : Backed(good) => Sound(good)

--------------------------------------------------------------------------------
(* Keys, writes and reads.                                                 *)

LEMMA KeyNames ==
    /\ Phone \in Devices
    /\ \A k : k \in Keys <=> k \in BasketKeys \cup UserKeys
    /\ \A u \in Users : /\ BasketKey(u) \in BasketKeys /\ UserKey(u) \in UserKeys
                        /\ Of(BasketKey(u)) = u /\ Of(UserKey(u)) = u
    /\ \A k \in BasketKeys : Of(k) \in Users /\ k[1] = "basket" /\ k = BasketKey(Of(k))
    /\ \A k \in UserKeys : Of(k) \in Users /\ k[1] = "user" /\ k = UserKey(Of(k))
BY CheckoutAssumption DEF BasketKeys, UserKeys, BasketKey, UserKey, Of

LEMMA DocumentsOf ==
    ASSUME NEW good
    PROVE  /\ \A k \in BasketKeys : Documents(good)[k] = BasketDocs
           /\ \A k \in UserKeys : Documents(good)[k] = [items : Seq(good[Of(k)])]
BY KeyNames DEF Documents

LEMMA EverythingIsGood ==
    /\ Everything \in Collections
    /\ \A good \in Collections, u \in Users : \A s : s \in Seq(good[u]) => s \in Seq(Items)
<1>1. ASSUME NEW good \in Collections, NEW u \in Users, NEW s \in Seq(good[u])
      PROVE  s \in Seq(Items)
  <2>1. good[u] \subseteq Items
    BY DEF Collections
  <2> QED
    BY <2>1
<1> QED
  BY <1>1 DEF Everything, Collections

\* An update replaces the one field there is.
LEMMA UpdateApplied ==
    ASSUME NEW w, w.op = "update", NEW S, w.fields \in [items : S], NEW T,
           NEW doc \in [items : T] \cup {NoDoc}
    PROVE  (Applied(w, doc) = NoDoc /\ doc = NoDoc) \/ Applied(w, doc) \in [items : S]
<1>1. CASE doc = NoDoc
  BY <1>1 DEF Applied
<1>2. CASE doc # NoDoc
  <2>1. DOMAIN doc = {"items"} /\ DOMAIN w.fields = {"items"} /\ w.fields.items \in S
    BY <1>2
  <2>2. Applied(w, doc) = [f \in {"items"} |-> w.fields[f]]
    BY <1>2, <2>1 DEF Applied
  <2>3. Applied(w, doc) = [items |-> w.fields.items]
    BY <2>2
  <2> QED
    BY <2>1, <2>3
<1> QED
  BY <1>1, <1>2

LEMMA WritesClosed ==
    ASSUME NEW good \in Collections
    PROVE  Closed(Documents(good), Writes(good), Blocks(good))
<1> SUFFICES ASSUME NEW w \in Writes(good)
             PROVE  /\ w.key \in Keys
                    /\ \A fate \in Fates : [w EXCEPT !.fate = fate] \in Writes(good)
                    /\ [w EXCEPT !.tag = None] \in Writes(good)
                    /\ \A doc \in Documents(good)[w.key] :
                          Applied(w, doc) \in Documents(good)[w.key]
                    /\ w.tag # None => Written(w) \in Blocks(good)
  BY DEF Closed, Fates
<1>1. w.tag # None => Written(w) \in Blocks(good)
  BY DEF Written, Blocks, Writes, BasketWrites, HistoryWrites, Tags, Accepted
<1>2. None \in Tags(good)
  BY DEF Tags
<1>3. CASE w \in BasketWrites(good)
  <2>1. \A fate \in Fates : [w EXCEPT !.fate = fate] \in BasketWrites(good)
    BY <1>3 DEF BasketWrites
  <2>2. [w EXCEPT !.tag = None] \in BasketWrites(good)
    BY <1>2, <1>3 DEF BasketWrites
  <2>3. w.key \in BasketKeys /\ w.op = "update" /\ w.fields \in [items : SUBSET Items]
    BY <1>3 DEF BasketWrites
  <2>4. \A doc \in BasketDocs : Applied(w, doc) \in BasketDocs
    BY <2>3, UpdateApplied DEF BasketDocs
  <2>5. Documents(good)[w.key] = BasketDocs
    BY <2>3, DocumentsOf
  <2>6. \A doc \in Documents(good)[w.key] : Applied(w, doc) \in Documents(good)[w.key]
    BY <2>4, <2>5
  <2>7. w.key \in Keys
    BY <2>3, KeyNames
  <2> QED
    BY <1>1, <2>1, <2>2, <2>6, <2>7 DEF Writes
<1>4. CASE w \in HistoryWrites(good)
  <2>1. \A fate \in Fates : [w EXCEPT !.fate = fate] \in HistoryWrites(good)
    BY <1>4 DEF HistoryWrites
  <2>2. [w EXCEPT !.tag = None] \in HistoryWrites(good)
    BY <1>2, <1>4 DEF HistoryWrites
  <2> DEFINE S == Seq(good[Of(w.key)])
  <2>3. w.key \in UserKeys /\ w.op = "update" /\ w.fields \in [items : S]
    BY <1>4 DEF HistoryWrites
  <2>4. Documents(good)[w.key] = [items : S]
    BY <2>3, DocumentsOf
  <2> HIDE DEF S
  <2>5. \A doc \in [items : S] : Applied(w, doc) \in [items : S]
    BY <2>3, UpdateApplied
  <2> QED
    BY <1>1, <2>1, <2>2, <2>3, <2>4, <2>5, KeyNames DEF Writes
<1> QED
  BY <1>3, <1>4 DEF Writes

\* Pending writes laid over a good document make a good document.
LEMMA LocalDocGood ==
    ASSUME NEW good \in Collections, NEW k \in Keys, NEW base \in Documents(good)[k],
           NEW ws \in Seq(Writes(good))
    PROVE  LocalDoc(base, ws, k) \in Documents(good)[k] \cup {NoDoc}
<1> DEFINE doc == LocalDoc(base, ws, k)
<1> SUFFICES ASSUME doc # NoDoc PROVE doc \in Documents(good)[k]
  OBVIOUS
<1>1. \A i \in DOMAIN ws : ws[i] \in Writes(good) /\ ws[i].op = "update"
  BY DEF Writes, BasketWrites, HistoryWrites
<1>2. base # NoDoc
  BY <1>1, LocalDocShape
<1>3. "items" \in Fields /\ Fields = {"items"}
  BY CheckoutAssumption
<1>4. \/ doc["items"] = base["items"]
      \/ \E i \in DOMAIN ws : Touches(ws[i], k, "items") /\ doc["items"] = ws[i].fields["items"]
  BY <1>3, LocalDocField
<1>5. doc = [g \in Fields |-> doc[g]]
  BY LocalDocShape
<1> HIDE DEF doc
<1>6. doc = [items |-> doc["items"]]
  BY <1>3, <1>5
<1>7. CASE k \in UserKeys
  <2> DEFINE S == Seq(good[Of(k)])
  <2>1. Documents(good)[k] = [items : S]
    BY <1>7, DocumentsOf
  <2>2. \A i \in DOMAIN ws : Touches(ws[i], k, "items") => ws[i].fields["items"] \in S
    BY <1>1, <1>7, KeyNames DEF Touches, Writes, BasketWrites, HistoryWrites
  <2> HIDE DEF S
  <2>3. base["items"] \in S
    BY <2>1
  <2>4. doc["items"] \in S
    BY <1>4, <2>2, <2>3
  <2> QED
    BY <1>6, <2>1, <2>4
<1>8. CASE k \in BasketKeys
  <2>1. Documents(good)[k] = BasketDocs
    BY <1>8, DocumentsOf
  <2>2. \A i \in DOMAIN ws :
           Touches(ws[i], k, "items") => ws[i].fields["items"] \in SUBSET Items
    BY <1>1, <1>8, KeyNames DEF Touches, Writes, BasketWrites, HistoryWrites
  <2>3. base["items"] \in SUBSET Items
    BY <1>2, <2>1 DEF BasketDocs
  <2>4. doc["items"] \in SUBSET Items
    BY <1>4, <2>2, <2>3
  <2> QED
    BY <1>6, <2>1, <2>4 DEF BasketDocs
<1> QED
  BY <1>7, <1>8, KeyNames

LEMMA ViewGood ==
    ASSUME NEW good \in Collections, pending(Phone) \in Seq(Writes(good)),
           NEW base \in Views(Documents(good)), NEW k \in Keys
    PROVE  LocalView(Phone, base)[k] \in Documents(good)[k] \cup {NoDoc}
<1>1. base[k] \in Documents(good)[k]
  BY DEF Views
<1>2. LocalView(Phone, base)[k] = LocalDoc(base[k], pending(Phone), k)
  BY DEF LocalView
<1> QED
  BY <1>1, <1>2, LocalDocGood

\* What a read asked for, and the document it gets.
LEMMA Replied ==
    ASSUME NEW good \in Collections, NEW ask \in Asks,
           NEW doc \in Documents(good)[ask.key] \cup {NoDoc}
    PROVE  ask.key \in Keys /\ [ask EXCEPT !.doc = doc] \in Blocks(good)
<1>1. CASE ask.kind = "user"
  <2>1. ask \in [kind : {"user"}, key : UserKeys, item : {None}, doc : {NoDoc}]
    BY <1>1 DEF Asks
  <2> DEFINE S == good[Of(ask.key)]
  <2>2. ask.key \in UserKeys /\ S \subseteq Items
    BY <2>1, KeyNames DEF Collections
  <2>3. Documents(good)[ask.key] = [items : Seq(S)]
    BY <2>2, DocumentsOf
  <2> HIDE DEF S
  <2>4. doc # NoDoc => doc \in [items : Seq(S)] /\ doc.items \in Seq(Items)
    BY <2>2, <2>3
  <2> USE DEF S
  <2>5. doc # NoDoc => doc.items \in Seq(good[Of(ask.key)]) /\ doc \in [items : Seq(Items)]
    <3>1. SUFFICES ASSUME doc # NoDoc
                   PROVE  doc.items \in Seq(good[Of(ask.key)]) /\ doc \in [items : Seq(Items)]
      OBVIOUS
    <3>2. doc = [items |-> doc.items]
      BY <2>4, <3>1
    <3> QED
      BY <2>4, <3>1, <3>2
  <2> QED
    BY <2>1, <2>5, KeyNames DEF Blocks, Replies
<1>2. CASE ask.kind # "user"
  <2>1. \/ ask \in [kind : {"loaded"}, key : BasketKeys, item : {None}, doc : {NoDoc}]
        \/ ask \in [kind : {"add"}, key : BasketKeys, item : Items, doc : {NoDoc}]
    BY <1>2 DEF Asks
  <2>2. doc \in BasketDocs
    BY <2>1, DocumentsOf DEF BasketDocs
  <2> QED
    BY <2>1, <2>2, KeyNames DEF Blocks, Replies
<1> QED
  BY <1>1, <1>2

--------------------------------------------------------------------------------
(* Sequences.                                                              *)

LEMMA OneLess ==
    ASSUME NEW S, NEW s \in Seq(S), NEW n \in DOMAIN s
    PROVE  RemoveAt(s, n) \in Seq(S) /\ Len(RemoveAt(s, n)) <= Len(s)
<1>1. Len(s) \in Nat /\ n \in 1 .. Len(s) /\ \A i \in 1 .. Len(s) : s[i] \in S
  OBVIOUS
<1>2. /\ SubSeq(s, 1, n - 1) \in Seq(S)
      /\ Len(SubSeq(s, 1, n - 1)) = IF 1 <= n - 1 THEN n - 1 - 1 + 1 ELSE 0
  BY <1>1, SubSeqProperties
<1>3. /\ SubSeq(s, n + 1, Len(s)) \in Seq(S)
      /\ Len(SubSeq(s, n + 1, Len(s))) = IF n + 1 <= Len(s) THEN Len(s) - (n + 1) + 1 ELSE 0
  BY <1>1, SubSeqProperties
<1> QED
  BY <1>1, <1>2, <1>3, ConcatProperties DEF RemoveAt

\* The rows, made into a list.
LEMMA RowsListed ==
    ASSUME NEW S \in SUBSET Items
    PROVE  SetToSeq(S) \in Seq(S)
<1>1. IsFiniteSet(S)
  BY CheckoutAssumption, FS_Subset
<1>2. Cardinality(S) \in Nat /\ \E f \in [1 .. Cardinality(S) -> S] : IsInjective(f)
  BY <1>1, FS_CardinalityType DEF ExistsBijection, Bijection, Injection
<1>3. SetToSeq(S) \in [1 .. Cardinality(S) -> S]
  BY <1>2 DEF SetToSeq
<1> QED
  BY <1>2, <1>3

--------------------------------------------------------------------------------
(* The steps.                                                              *)

Held(good) == ScreenTyped /\ Sound(good)

LEMMA ClientKept ==
    ASSUME NEW good, ClientOK(good), UNCHANGED clientVars
    PROVE  ClientOK(good)'
BY DEF ClientOK, ClientHolds, clientVars

LEMMA ListKept ==
    ASSUME NEW good, ListGood(good), UNCHANGED toBuy,
           (sheet = "none" /\ sheet' = "none") \/ UNCHANGED <<sheet, offered, user>>
    PROVE  ListGood(good)'
BY DEF ListGood

LEMMA ItemsAsked ==
    ASSUME NEW b \in [of : Users, items : SUBSET Items] \cup {NoDoc},
           NEW shown \in SUBSET Items, getBasketItems(b, shown),
           fetches \in Seq((SUBSET Items) \ {{}}), button \in BOOLEAN
    PROVE  /\ rows' \subseteq Items /\ button' \in BOOLEAN
           /\ fetches' \in Seq((SUBSET Items) \ {{}})
<1>1. CASE b # NoDoc /\ b.items # {} /\ fetches' = Append(fetches, b.items)
  <2>1. b.items \in (SUBSET Items) \ {{}}
    BY <1>1
  <2> QED
    BY <1>1, <2>1 DEF getBasketItems
<1>2. CASE UNCHANGED fetches
  BY <1>2 DEF getBasketItems
<1> QED
  BY <1>1, <1>2 DEF getBasketItems

LEMMA ProgressMade ==
    ASSUME adding \in [Users -> [Items -> Progress]], NEW u \in Users, NEW i \in Items,
           NEW p \in Progress, adding' = [adding EXCEPT ![u][i] = p]
    PROVE  adding' \in [Users -> [Items -> Progress]]
<1>1. adding[u] \in [Items -> Progress]
  OBVIOUS
<1>2. [adding[u] EXCEPT ![i] = p] \in [Items -> Progress]
  BY <1>1
<1>3. adding' = [adding EXCEPT ![u] = [adding[u] EXCEPT ![i] = p]]
  OBVIOUS
<1> QED
  BY <1>2, <1>3

\* A record is not the absence of one.
LEMMA RecordIsThere == \A good, r : r \in GoodRecords(good) => r # NoDoc
BY CheckoutAssumption DEF GoodRecords, Records

\* Another document is asked for, while there is room.
LEMMA OneMoreAsked ==
    ASSUME ScreenTyped, NEW good, ClientOK(good), Room, NEW ask \in Asks,
           reads' = Append(reads, ask)
    PROVE  reads' \in Seq(Asks) /\ Len(reads') <= MaxUnder
<1>1. /\ reads \in Seq(Asks) /\ Len(reads) \in Nat /\ Len(fetches) \in Nat
      /\ main[Phone] \in Seq(Blocks(good))
  BY KeyNames DEF ScreenTyped, ClientOK, ClientHolds
<1>2. Len(main[Phone]) \in Nat
  BY <1>1
<1>3. Len(reads) + 1 <= MaxUnder
  <2>1. MaxUnder \in Nat
    BY CheckoutAssumption
  <2>2. \A k, m, n \in Nat : k + m + n < MaxUnder => k + 1 <= MaxUnder
    BY <2>1
  <2>3. Len(reads) + Len(fetches) + Len(main[Phone]) < MaxUnder
    BY DEF Room
  <2> QED
    BY <1>1, <1>2, <2>2, <2>3
<1>4. Append(reads, ask) \in Seq(Asks) /\ Len(Append(reads, ask)) = Len(reads) + 1
  BY <1>1
<1> QED
  BY <1>3, <1>4

LEMMA AppearsHolds ==
    ASSUME NEW good \in Collections, Held(good), viewDidAppear
    PROVE  Held(good)'
<1>1. ScreenTyped /\ ClientOK(good) /\ ListGood(good) /\ record \in GoodRecords(good) \cup {NoDoc}
  BY DEF Held, Sound
<1>2. ClientOK(good)'
  BY <1>1, ClientKept DEF viewDidAppear
<1>3. ListGood(good)'
  BY <1>1, ListKept DEF viewDidAppear, clientVars
<1>4. Sound(good)'
  BY <1>1, <1>2, <1>3 DEF Sound, viewDidAppear
<1>5. CASE /\ SignedIn /\ Room
           /\ reads' = Append(reads, Asked("loaded", BasketKey(user[Phone]), None))
           /\ UNCHANGED button
  <2>1. user[Phone] \in Users
    BY <1>1, <1>5, KeyNames DEF SignedIn, ClientOK, ClientHolds, Accounts
  <2>2. Asked("loaded", BasketKey(user[Phone]), None) \in Asks
    BY <2>1, KeyNames DEF Asks, Asked
  <2>3. reads' \in Seq(Asks) /\ Len(reads') <= MaxUnder
    BY <1>1, <1>5, <2>2, OneMoreAsked
  <2>4. ScreenTyped'
    BY <1>1, <1>5, <2>3 DEF ScreenTyped, viewDidAppear, past, SignedIn, clientVars
  <2> QED
    BY <1>4, <2>4 DEF Held
<1>6. CASE button' = (rows # {}) /\ UNCHANGED reads
  <2>1. ScreenTyped'
    BY <1>1, <1>6 DEF ScreenTyped, viewDidAppear, past, SignedIn, clientVars
  <2> QED
    BY <1>4, <2>1 DEF Held
<1> QED
  BY <1>5, <1>6 DEF viewDidAppear

\* A read is answered: the block that asked waits, with a document that may be under
\* its name or with none.
LEMMA ReadHolds ==
    ASSUME NEW good \in Collections, Held(good), NEW n \in DOMAIN reads, docRead(n)
    PROVE  Held(good)'
<1> DEFINE ask == reads[n]
           docs == Documents(good)
           ws == Writes(good)
           blocks == Blocks(good)
           Answer(doc) == main' = [main EXCEPT ![Phone] = Append(main[Phone], [ask EXCEPT !.doc = doc])]
<1>1. ScreenTyped /\ ListGood(good) /\ record \in GoodRecords(good) \cup {NoDoc}
  BY DEF Held, Sound
<1>2. ClientHolds(docs, ws, blocks) /\ Closed(docs, ws, blocks) /\ Phone \in Devices
  BY WritesClosed, KeyNames DEF Held, Sound, ClientOK
<1>3. reads \in Seq(Asks) /\ ask \in Asks
  BY <1>1 DEF ScreenTyped
<1>4. /\ UNCHANGED <<server, online, user, appeared, basket, toBuy, sheet, offered, list,
                     record, adding, past>>
      /\ reads' = RemoveAt(reads, n)
      /\ \/ Fetch(Phone, {ask.key}) /\ Answer(LocalView(Phone, cache'[Phone])[ask.key])
         \/ Answer(LocalView(Phone, cache[Phone])[ask.key]) /\ UNCHANGED <<cache, queue>>
         \/ main' = [main EXCEPT ![Phone] = Append(main[Phone], ask)] /\ UNCHANGED <<cache, queue>>
  BY DEF docRead, Reply
<1>5. ask.key \in Keys /\ ask = [ask EXCEPT !.doc = NoDoc]
  BY <1>3, KeyNames DEF Asks
<1>6. /\ pending(Phone) \in Seq(ws) /\ cache[Phone] \in Views(docs)
      /\ main \in [Devices -> Seq(blocks)] /\ cache \in [Devices -> Views(docs)]
      /\ queue \in [Devices -> [Accounts -> Seq(ws)]]
  BY <1>2 DEF ClientHolds, pending
<1>7. ASSUME NEW doc \in docs[ask.key] \cup {NoDoc}, Answer(doc)
      PROVE  main' \in [Devices -> Seq(blocks)]
  <2> DEFINE block == [ask EXCEPT !.doc = doc]
  <2>1. block \in blocks
    BY <1>3, <1>7, Replied
  <2>2. main' = [main EXCEPT ![Phone] = Append(main[Phone], block)]
    BY <1>7
  <2> HIDE DEF block, blocks
  <2>3. Append(main[Phone], block) \in Seq(blocks)
    BY <1>2, <1>6, <2>1
  <2> QED
    BY <1>6, <2>2, <2>3
<1> HIDE DEF ask, docs, ws, blocks, Answer
<1>8. /\ cache' \in [Devices -> Views(docs)]
      /\ queue' \in [Devices -> [Accounts -> Seq(ws)]]
      /\ main' \in [Devices -> Seq(blocks)]
  <2>1. CASE Fetch(Phone, {ask.key}) /\ Answer(LocalView(Phone, cache'[Phone])[ask.key])
    <3>1. /\ cache' \in [Devices -> Views(docs)]
          /\ queue' \in [Devices -> [Accounts -> Seq(ws)]]
          /\ cache'[Phone] \in Views(docs)
      BY <1>2, <2>1, FetchHolds
    <3>2. LocalView(Phone, cache'[Phone])[ask.key] \in docs[ask.key] \cup {NoDoc}
      BY <1>5, <1>6, <3>1, ViewGood DEF docs, ws
    <3> QED
      BY <1>7, <2>1, <3>1, <3>2
  <2>2. CASE Answer(LocalView(Phone, cache[Phone])[ask.key]) /\ UNCHANGED <<cache, queue>>
    <3>1. LocalView(Phone, cache[Phone])[ask.key] \in docs[ask.key] \cup {NoDoc}
      BY <1>5, <1>6, ViewGood DEF docs, ws
    <3> QED
      BY <1>6, <1>7, <2>2, <3>1
  <2>3. CASE /\ main' = [main EXCEPT ![Phone] = Append(main[Phone], ask)]
             /\ UNCHANGED <<cache, queue>>
    <3>1. Answer(NoDoc)
      BY <1>5, <2>3 DEF Answer
    <3> QED
      BY <1>6, <1>7, <2>3, <3>1
  <2> QED
    BY <1>4, <2>1, <2>2, <2>3
<1>9. ClientOK(good)'
  BY <1>2, <1>4, <1>8 DEF ClientHolds, ClientOK, docs, ws, blocks
<1>10. Sound(good)'
  BY <1>1, <1>4, <1>9, ListKept DEF Sound
<1>11. reads' \in Seq(Asks) /\ Len(reads') <= MaxUnder
  <2>1. RemoveAt(reads, n) \in Seq(Asks) /\ Len(RemoveAt(reads, n)) <= Len(reads)
    BY <1>3, OneLess
  <2>2. Len(reads) \in Nat /\ Len(reads) <= MaxUnder /\ MaxUnder \in Nat
    BY <1>1, CheckoutAssumption DEF ScreenTyped
  <2>3. Len(RemoveAt(reads, n)) \in Nat
    BY <2>1
  <2> QED
    BY <1>4, <2>1, <2>2, <2>3
<1>12. ScreenTyped'
  BY <1>1, <1>4, <1>11 DEF ScreenTyped, list, past, SignedIn
<1> QED
  BY <1>10, <1>12 DEF Held

LEMMA ItemsHold ==
    ASSUME NEW good \in Collections, Held(good), NEW n \in DOMAIN fetches, itemsArrived(n)
    PROVE  Held(good)'
<1>1. ScreenTyped /\ ClientOK(good) /\ ListGood(good) /\ record \in GoodRecords(good) \cup {NoDoc}
  BY DEF Held, Sound
<1>2. UNCHANGED <<clientVars, view, record, adding, past>>
  BY DEF itemsArrived
<1>3. Sound(good)'
  BY <1>1, <1>2, ClientKept, ListKept DEF Sound, view, clientVars
<1>4. fetches \in Seq((SUBSET Items) \ {{}}) /\ fetches[n] \subseteq Items
  BY <1>1 DEF ScreenTyped
<1>5. fetches' \in Seq((SUBSET Items) \ {{}})
  BY <1>4, OneLess DEF itemsArrived
<1>6. ScreenTyped'
  BY <1>1, <1>2, <1>4, <1>5 DEF ScreenTyped, view, past, itemsArrived, clientVars, SignedIn
<1> QED
  BY <1>3, <1>6 DEF Held

\* The process ends, and what its queue had on disk may include one write more.
LEMMA RestartIsSound ==
    ASSUME NEW good \in Collections, Held(good),
           NEW queues \in [Accounts -> Seq(Writes(good))], Restart(queues)
    PROVE  Held(good)'
<1>1. ScreenTyped /\ ClientOK(good) /\ ListGood(good) /\ record \in GoodRecords(good) \cup {NoDoc}
  BY DEF Held, Sound
<1>2. ClientOK(good)'
  BY <1>1, KeyNames, WritesClosed, RestartHolds DEF Restart, ClientOK
<1>3. ListGood(good)'
  BY DEF Restart, ListGood
<1>4. Sound(good)'
  BY <1>1, <1>2, <1>3 DEF Sound, Restart
<1>5. adding' \in [Users -> [Items -> Progress]]
  BY <1>1 DEF Restart, ScreenTyped, Progress
<1>6. reads' \in Seq(Asks) /\ Len(reads') <= MaxUnder /\ fetches' \in Seq((SUBSET Items) \ {{}})
  <2>1. reads' = << >> /\ fetches' = << >>
    BY DEF Restart
  <2>2. MaxUnder \in Nat /\ Len(reads') = 0
    BY <2>1, CheckoutAssumption
  <2> QED
    BY <2>1, <2>2
<1>7. UNCHANGED <<presses, payments, dropped>> /\ sheet' = "none"
  BY DEF Restart
<1>8. appeared' \in BOOLEAN /\ button' \in BOOLEAN /\ rows' = {} /\ offered' = {} /\ basket' = NoDoc
  BY DEF Restart
<1>9. ScreenTyped'
  BY <1>1, <1>5, <1>6, <1>7, <1>8 DEF ScreenTyped
<1> QED
  BY <1>4, <1>9 DEF Held

LEMMA TerminateHolds ==
    ASSUME NEW good \in Collections, Held(good), Terminate
    PROVE  Held(good)'
<1>1. queue[Phone] \in [Accounts -> Seq(Writes(good))]
  BY KeyNames DEF Held, Sound, ClientOK, ClientHolds
<1> QED
  BY <1>1, RestartIsSound DEF Terminate

LEMMA DeleteHolds ==
    ASSUME NEW good \in Collections, Held(good), NEW i \in Items, deleteRow(i)
    PROVE  Held(good)'
<1> DEFINE b == BasketOf(basket.of, basket.items \ {i})
           w == UpdateData(BasketKey(b.of), [items |-> b.items], None)
<1>1. ScreenTyped /\ ClientOK(good) /\ ListGood(good) /\ record \in GoodRecords(good) \cup {NoDoc}
  BY DEF Held, Sound
<1>2. basket # NoDoc /\ basket \in [of : Users, items : SUBSET Items]
  BY <1>1 DEF ScreenTyped, deleteRow, Holds
<1>3. b \in [of : Users, items : SUBSET Items]
  BY <1>2 DEF BasketOf
<1>4. BasketKey(b.of) \in BasketKeys /\ [items |-> b.items] \in [items : SUBSET Items]
  BY <1>3, KeyNames
<1> HIDE DEF b
<1>5. w \in Writes(good)
  BY <1>4 DEF UpdateData, Writes, BasketWrites, Tags, Fates
<1> HIDE DEF w
<1>6. /\ WriteMutations(Phone, w) /\ basket' = b /\ getBasketItems(b, rows \ {i})
      /\ UNCHANGED <<server, cache, online, user, main, appeared, toBuy, sheet, offered,
                     reads, record, adding, presses, payments, dropped>>
  BY DEF deleteRow, saveBasket, b, w
<1>7. ClientOK(good)'
  <2>1. main' \in [Devices -> Seq(Blocks(good))]
    BY <1>1, <1>6 DEF ClientOK, ClientHolds
  <2> QED
    BY <1>1, <1>5, <1>6, <2>1, WriteHolds, KeyNames DEF ClientOK
<1>8. Sound(good)'
  BY <1>1, <1>6, <1>7, ListKept DEF Sound
<1>9. /\ rows' \subseteq Items /\ button' \in BOOLEAN
      /\ fetches' \in Seq((SUBSET Items) \ {{}})
  <2>1. rows \ {i} \in SUBSET Items
    BY <1>1 DEF ScreenTyped
  <2> QED
    BY <1>1, <1>3, <1>6, <2>1, ItemsAsked DEF ScreenTyped
<1>10. ScreenTyped'
  BY <1>1, <1>3, <1>6, <1>9 DEF ScreenTyped, SignedIn
<1> QED
  BY <1>8, <1>10 DEF Held

--------------------------------------------------------------------------------
(* Paying.                                                                 *)

\* The rows join what is to be recorded.  They are on the sheet, or they are dropped.
LEMMA CheckOutHolds ==
    ASSUME NEW good \in Collections, Held(good), checkOutButtonWasTapped, Backed(good)'
    PROVE  Held(good)'
<1>1. ScreenTyped /\ ClientOK(good) /\ ListGood(good) /\ record \in GoodRecords(good) \cup {NoDoc}
  BY DEF Held, Sound
<1>2. /\ sheet = "none" /\ SignedIn /\ presses < MaxSheets /\ presses' = presses + 1
      /\ toBuy' = toBuy \o SetToSeq(rows)
      /\ \/ sheet' = "up" /\ offered' = rows /\ UNCHANGED dropped
         \/ dropped' = dropped \cup rows /\ UNCHANGED <<sheet, offered>>
      /\ UNCHANGED <<clientVars, appeared, basket, reads, list, record, adding, payments>>
  BY DEF checkOutButtonWasTapped, payButtonPressed, OnScreen
<1>3. rows \subseteq Items /\ SetToSeq(rows) \in Seq(rows) /\ toBuy \in Seq(Items)
  BY <1>1, RowsListed DEF ScreenTyped, ListGood
<1>4. toBuy \o SetToSeq(rows) \in Seq(Items)
  BY <1>3
<1>5. \A n \in DOMAIN toBuy' :
         (\E m \in DOMAIN toBuy : toBuy'[n] = toBuy[m]) \/ toBuy'[n] \in rows
  <2> DEFINE more == SetToSeq(rows)
  <2>1. more \in Seq(rows)
    BY <1>3
  <2> HIDE DEF more
  <2>2. \A n \in DOMAIN (toBuy \o more) :
           \/ n \in DOMAIN toBuy /\ (toBuy \o more)[n] = toBuy[n]
           \/ n - Len(toBuy) \in DOMAIN more /\ (toBuy \o more)[n] = more[n - Len(toBuy)]
    BY <1>3, <2>1
  <2>3. \A n \in DOMAIN more : more[n] \in rows
    BY <2>1
  <2> QED
    BY <1>2, <2>2, <2>3 DEF more
<1>6. \A m \in DOMAIN toBuy, u \in Users : toBuy[m] \in good[u]
  BY <1>1, <1>2 DEF ListGood
<1>7. ListGood(good)'
  <2>1. CASE sheet' = "up" /\ offered' = rows
    BY <1>2, <1>4, <1>5, <1>6, <2>1 DEF ListGood
  <2>2. CASE dropped' = dropped \cup rows
    <3>1. \A i \in rows, u \in Users : i \in good[u]
      BY <1>3, <2>2 DEF Backed
    <3> QED
      BY <1>2, <1>4, <1>5, <1>6, <3>1 DEF ListGood
  <2> QED
    BY <1>2, <2>1, <2>2
<1>8. Sound(good)'
  BY <1>1, <1>2, <1>7, ClientKept DEF Sound
<1>9. presses' \in 0 .. MaxSheets
  BY <1>1, <1>2, CheckoutAssumption DEF ScreenTyped
<1>10. SignedIn'
  BY <1>2 DEF SignedIn, clientVars
<1>11. ScreenTyped'
  BY <1>1, <1>2, <1>3, <1>9, <1>10 DEF ScreenTyped, list
<1> QED
  BY <1>8, <1>11 DEF Held

LEMMA CancelHolds ==
    ASSUME NEW good \in Collections, Held(good), payPalPaymentDidCancel, Backed(good)'
    PROVE  Held(good)'
<1>1. ScreenTyped /\ ClientOK(good) /\ ListGood(good) /\ record \in GoodRecords(good) \cup {NoDoc}
  BY DEF Held, Sound
<1>2. \A i \in offered, u \in Users : i \in good[u]
  BY <1>1 DEF payPalPaymentDidCancel, Backed, ScreenTyped
<1>3. ListGood(good)'
  BY <1>1, <1>2 DEF payPalPaymentDidCancel, ListGood
<1>4. Sound(good)'
  BY <1>1, <1>3, ClientKept DEF Sound, payPalPaymentDidCancel
<1>5. ScreenTyped'
  BY <1>1 DEF ScreenTyped, payPalPaymentDidCancel, list
<1> QED
  BY <1>4, <1>5 DEF Held

LEMMA PaymentHolds ==
    ASSUME NEW good \in Collections, Held(good), didCompletePayment, Backed(good)'
    PROVE  Held(good)'
<1>1. ScreenTyped /\ ClientOK(good) /\ ListGood(good) /\ record \in GoodRecords(good) \cup {NoDoc}
  BY DEF Held, Sound
<1> DEFINE paid(p) == [i \in Items |-> p[i] + IF i \in offered THEN 1 ELSE 0]
<1>2. /\ sheet = "up" /\ sheet' = "paid"
      /\ payments' = [payments EXCEPT ![user[Phone]] = paid(payments[user[Phone]])]
      /\ UNCHANGED <<clientVars, appeared, basket, toBuy, offered, reads, list, record,
                     adding, presses, dropped>>
  BY DEF didCompletePayment
<1>3. user[Phone] \in Users /\ SignedIn /\ user' = user
  BY <1>1, <1>2, KeyNames DEF ScreenTyped, SignedIn, ClientOK, ClientHolds, Accounts, clientVars
<1>4. payments[user[Phone]] \in [Items -> Nat]
  BY <1>1, <1>3 DEF ScreenTyped
<1>5. /\ paid(payments[user[Phone]]) \in [Items -> Nat]
      /\ \A i \in offered : i \in Items => paid(payments[user[Phone]])[i] > 0
  BY <1>4
<1> HIDE DEF paid
<1>6. payments' \in [Users -> [Items -> Nat]]
  BY <1>1, <1>2, <1>5 DEF ScreenTyped
<1>7. \A i \in offered : i \in good[user[Phone]]
  <2>1. \A i \in offered : i \in Items /\ payments'[user[Phone]][i] > 0
    BY <1>1, <1>2, <1>3, <1>5 DEF ScreenTyped
  <2> QED
    BY <1>3, <2>1 DEF Backed
<1>8. ListGood(good)'
  <2>1. toBuy' \in Seq(Items) /\ toBuy' = toBuy
    BY <1>1, <1>2 DEF ListGood
  <2>2. ASSUME NEW n \in DOMAIN toBuy, NEW u \in Users, u = user[Phone]
        PROVE  toBuy[n] \in good[u]
    BY <1>1, <1>2, <1>7, <2>2 DEF ListGood
  <2> QED
    BY <1>2, <1>3, <2>1, <2>2 DEF ListGood
<1>9. Sound(good)'
  BY <1>1, <1>2, <1>8, ClientKept DEF Sound
<1>10. SignedIn'
  BY <1>2, <1>3 DEF SignedIn
<1>11. ScreenTyped'
  BY <1>1, <1>2, <1>6, <1>10 DEF ScreenTyped, list
<1> QED
  BY <1>9, <1>11 DEF Held

\* The list sent after a payment is good: the record is the account's own, or else
\* everything is good.
LEMMA HistoryWriteGood ==
    ASSUME NEW good \in Collections, Held(good), sheet = "paid",
           addItemsToPurchaseHistory, Backed(good)'
    PROVE  HistoryWrite \in Writes(good) /\ user[Phone] \in Users
<1> DEFINE u == user[Phone]
           sent == record.items \o toBuy
<1>1. ScreenTyped /\ ClientOK(good) /\ ListGood(good) /\ record \in GoodRecords(good) \cup {NoDoc}
  BY DEF Held, Sound
<1>2. u \in Users /\ record \in GoodRecords(good)
  BY <1>1, KeyNames
  DEF addItemsToPurchaseHistory, SignedIn, ClientOK, ClientHolds, Accounts
<1>3. record.of \in Users /\ record.items \in Seq(good[record.of]) /\ toBuy \in Seq(Items)
  BY <1>1, <1>2 DEF GoodRecords, Records, ListGood
<1>4. \A n \in DOMAIN toBuy : toBuy[n] \in good[u]
  BY <1>1, <1>2 DEF ListGood
<1>5. toBuy \in Seq(good[u])
  BY <1>3, <1>4
<1>6. good[record.of] = good[u]
  <2>1. CASE record.of = u
    BY <2>1
  <2>2. CASE record.of # u
    <3>1. good = Everything
      BY <2>2 DEF addItemsToPurchaseHistory, Backed
    <3> QED
      BY <1>2, <1>3, <3>1 DEF Everything
  <2> QED
    BY <2>1, <2>2
<1>7. sent \in Seq(good[u]) /\ sent \in Seq(good[record.of])
  <2>1. record.items \in Seq(good[u])
    BY <1>3, <1>6
  <2>2. sent \in Seq(good[u])
    BY <1>5, <2>1, ConcatProperties
  <2> QED
    BY <1>6, <2>2
<1>8. sent \in Seq(Items)
  BY <1>2, <1>7, EverythingIsGood
<1> HIDE DEF sent
<1> DEFINE r == [of |-> record.of, items |-> sent]
           tag == [to |-> "history", by |-> u, record |-> r]
<1>9. r \in GoodRecords(good)
  BY <1>3, <1>7, <1>8 DEF GoodRecords, Records
<1>10. tag \in Tags(good)
  <2> HIDE DEF r
  <2> QED
    BY <1>2, <1>9 DEF Tags, Purposes
<1>11. UserKey(u) \in UserKeys /\ Of(UserKey(u)) = u
  BY <1>2, KeyNames
<1>12. HistoryWrite = UpdateData(UserKey(u), [items |-> sent], tag)
  BY DEF HistoryWrite, HistoryUpdate, sent
<1> HIDE DEF tag, u
<1>13. UpdateData(UserKey(u), [items |-> sent], tag) \in HistoryWrites(good)
  BY <1>7, <1>8, <1>10, <1>11 DEF UpdateData, HistoryWrites, Fates
<1> QED
  BY <1>2, <1>12, <1>13 DEF Writes, u

LEMMA DismissHolds ==
    ASSUME NEW good \in Collections, Held(good), paymentDismissed, Backed(good)'
    PROVE  Held(good)'
<1>1. ScreenTyped /\ ClientOK(good) /\ ListGood(good) /\ record \in GoodRecords(good) \cup {NoDoc}
  BY DEF Held, Sound
<1>2. HistoryWrite \in Writes(good)
  BY HistoryWriteGood DEF paymentDismissed
<1>3. basket \in [of : Users, items : SUBSET Items]
  BY <1>1 DEF ScreenTyped, paymentDismissed
<1>4. EmptyingWrite \in Writes(good)
  <2>1. BasketKey(basket.of) \in BasketKeys
    BY <1>3, KeyNames
  <2> QED
    BY <2>1 DEF EmptyingWrite, UpdateData, Writes, BasketWrites, Tags, Purposes, Fates
<1>5. ClientOK(good)'
  BY <1>1, <1>2, <1>4, TwoWritesHold, KeyNames DEF ClientOK, paymentDismissed
<1>6. ListGood(good)'
  BY DEF ListGood, paymentDismissed, emptyTheBasket
<1>7. Sound(good)'
  BY <1>1, <1>5, <1>6 DEF Sound, paymentDismissed
<1>8. basket' \in [of : Users, items : SUBSET Items]
  BY <1>3 DEF paymentDismissed, emptyTheBasket, BasketOf
<1>9. ScreenTyped'
  BY <1>1, <1>8 DEF ScreenTyped, paymentDismissed, emptyTheBasket, SignedIn
<1> QED
  BY <1>7, <1>9 DEF Held

LEMMA DismissTrapHolds ==
    ASSUME NEW good \in Collections, Held(good), paymentDismissedTraps, Backed(good)'
    PROVE  Held(good)'
<1>1. HistoryWrite \in Writes(good)
  BY HistoryWriteGood DEF paymentDismissedTraps
<1>2. queue[Phone] \in [Accounts -> Seq(Writes(good))]
  BY KeyNames DEF Held, Sound, ClientOK, ClientHolds
<1>3. [queue[Phone] EXCEPT ![user[Phone]] = Append(@, HistoryWrite)]
         \in [Accounts -> Seq(Writes(good))]
  <2>1. user[Phone] \in Accounts
    BY KeyNames DEF Held, Sound, ClientOK, ClientHolds
  <2>2. Append(queue[Phone][user[Phone]], HistoryWrite) \in Seq(Writes(good))
    BY <1>1, <1>2, <2>1
  <2> QED
    BY <1>2, <2>2
<1> QED
  BY <1>2, <1>3, RestartIsSound DEF paymentDismissedTraps

--------------------------------------------------------------------------------
(* Accounts, and the item screen.                                          *)

LEMMA LogOutHolds ==
    ASSUME NEW good \in Collections, Held(good), logOutCurrentUser
    PROVE  Held(good)'
<1>1. ScreenTyped /\ ClientOK(good) /\ ListGood(good)
  BY DEF Held, Sound
<1>2. ClientOK(good)'
  BY <1>1, WritesClosed, CredentialHolds, KeyNames DEF ClientOK, logOutCurrentUser, Accounts
<1>3. Sound(good)'
  BY <1>1, <1>2, ListKept DEF Sound, logOutCurrentUser
<1>4. ScreenTyped'
  BY <1>1 DEF ScreenTyped, logOutCurrentUser, list, past
<1> QED
  BY <1>3, <1>4 DEF Held

LEMMA LogInHolds ==
    ASSUME NEW good \in Collections, Held(good), NEW u \in Users, loginUserWith(u)
    PROVE  Held(good)'
<1>1. ScreenTyped /\ ClientOK(good) /\ ListGood(good) /\ record \in GoodRecords(good) \cup {NoDoc}
  BY DEF Held, Sound
<1>2. ClientOK(good)'
  <2>1. CASE CredentialChange(Phone, u)
    BY <1>1, <2>1, WritesClosed, CredentialHolds, KeyNames DEF ClientOK, Accounts
  <2>2. CASE UNCHANGED clientVars
    BY <1>1, <2>2, ClientKept
  <2> QED
    BY <2>1, <2>2 DEF loginUserWith
<1>3. Sound(good)'
  BY <1>1, <1>2, ListKept DEF Sound, loginUserWith
<1>4. Asked("user", UserKey(u), None) \in Asks
  BY KeyNames DEF Asks, Asked
<1>5. reads' \in Seq(Asks) /\ Len(reads') <= MaxUnder
  BY <1>1, <1>4, OneMoreAsked DEF loginUserWith
<1>6. ScreenTyped'
  BY <1>1, <1>5 DEF ScreenTyped, loginUserWith, list, past
<1> QED
  BY <1>3, <1>6 DEF Held

LEMMA AddTappedHolds ==
    ASSUME NEW good \in Collections, Held(good), NEW i \in Items, addToBasketTapped(i)
    PROVE  Held(good)'
<1> DEFINE u == user[Phone]
<1>1. ScreenTyped /\ ClientOK(good) /\ ListGood(good) /\ record \in GoodRecords(good) \cup {NoDoc}
  BY DEF Held, Sound
<1>2. u \in Users
  BY <1>1, KeyNames DEF addToBasketTapped, SignedIn, ClientOK, ClientHolds, Accounts
<1>3. Sound(good)'
  BY <1>1, ClientKept, ListKept DEF Sound, addToBasketTapped
<1>4. Asked("add", BasketKey(u), i) \in Asks
  BY <1>2, KeyNames DEF Asks, Asked
<1>5. reads' \in Seq(Asks) /\ Len(reads') <= MaxUnder
  BY <1>1, <1>4, OneMoreAsked DEF addToBasketTapped
<1>6. adding' \in [Users -> [Items -> Progress]]
  BY <1>1, <1>2 DEF ScreenTyped, addToBasketTapped, Progress
<1>7. ScreenTyped'
  BY <1>1, <1>5, <1>6 DEF ScreenTyped, addToBasketTapped, list, past
<1> QED
  BY <1>3, <1>7 DEF Held

--------------------------------------------------------------------------------
(* The main queue, the network, and the whole.                             *)

LEMMA MainQueueHolds ==
    ASSUME NEW good \in Collections, Held(good), MainQueue
    PROVE  Held(good)'
<1>1. ScreenTyped /\ ClientOK(good) /\ ListGood(good) /\ record \in GoodRecords(good) \cup {NoDoc}
  BY DEF Held, Sound
<1>2. /\ main[Phone] \in Seq(Blocks(good)) /\ main[Phone] # << >> /\ Phone \in Devices
      /\ main' = [main EXCEPT ![Phone] = Tail(main[Phone])]
      /\ UNCHANGED <<server, cache, online, user>>
  BY <1>1, KeyNames DEF MainQueue, ClientOK, ClientHolds
<1>3. Block \in Blocks(good) /\ Tail(main[Phone]) \in Seq(Blocks(good))
  BY <1>2 DEF Block
<1>4. main' \in [Devices -> Seq(Blocks(good))]
  BY <1>1, <1>2, <1>3 DEF ClientOK, ClientHolds
<1>5. ASSUME UNCHANGED queue PROVE ClientOK(good)'
  BY <1>1, <1>2, <1>4, <1>5 DEF ClientOK, ClientHolds
<1>6. ASSUME UNCHANGED <<view, payments, dropped, presses, adding>>, ClientOK(good)',
             record' \in GoodRecords(good) \cup {NoDoc}, SignedIn => SignedIn',
             rows' \subseteq Items, button' \in BOOLEAN,
             fetches' \in Seq((SUBSET Items) \ {{}})
      PROVE  Held(good)'
  <2>1. Sound(good)'
    BY <1>1, <1>2, <1>6, ListKept DEF Sound, view
  <2>2. ScreenTyped'
    BY <1>1, <1>6 DEF ScreenTyped, view
  <2> QED
    BY <2>1, <2>2 DEF Held
<1>7. CASE loaded
  <2> DEFINE b == IF Block.doc = NoDoc THEN NoDoc
                  ELSE BasketOf(Of(Block.key), Block.doc.items)
  <2>1. Block.key \in BasketKeys /\ Block.doc \in BasketDocs
    BY <1>3, <1>7 DEF loaded, Blocks, Replies
  <2>2. b \in [of : Users, items : SUBSET Items] \cup {NoDoc}
    BY <2>1, KeyNames DEF BasketDocs, BasketOf
  <2>3. basket' = b /\ getBasketItems(b, rows)
    BY <1>7 DEF loaded
  <2> HIDE DEF b
  <2>4. /\ rows' \subseteq Items /\ button' \in BOOLEAN
        /\ fetches' \in Seq((SUBSET Items) \ {{}})
    BY <1>1, <2>2, <2>3, ItemsAsked DEF ScreenTyped
  <2>5. UNCHANGED <<queue, appeared, toBuy, sheet, offered, reads, record, adding, past>>
    BY <1>7 DEF loaded
  <2>6. Sound(good)'
    BY <1>1, <1>2, <1>5, <2>5, ListKept DEF Sound
  <2>7. ScreenTyped'
    BY <1>1, <1>2, <2>2, <2>3, <2>4, <2>5 DEF ScreenTyped, past, SignedIn
  <2> QED
    BY <2>6, <2>7 DEF Held
<1>8. CASE userArrived
  <2>1. /\ Block.key \in UserKeys
        /\ Block.doc # NoDoc =>
             /\ Block.doc.items \in Seq(Items)
             /\ Block.doc.items \in Seq(good[Of(Block.key)])
    BY <1>3, <1>8 DEF userArrived, Blocks, Replies
  <2>2. Of(Block.key) \in Users
    BY <2>1, KeyNames
  <2> DEFINE r == [of |-> Of(Block.key), items |-> Block.doc.items]
  <2>3. Block.doc # NoDoc => r \in GoodRecords(good)
    BY <2>1, <2>2 DEF GoodRecords, Records
  <2>4. record' = IF Block.doc = NoDoc THEN record ELSE r
    BY <1>8 DEF userArrived
  <2>5. UNCHANGED <<queue, view, list, adding, past>>
    BY <1>8 DEF userArrived
  <2> HIDE DEF r
  <2>6. record' \in GoodRecords(good) \cup {NoDoc} /\ (SignedIn => SignedIn')
    BY <1>1, <1>2, <2>3, <2>4, RecordIsThere DEF SignedIn
  <2> QED
    BY <1>1, <1>5, <1>6, <2>5, <2>6 DEF list, past, ScreenTyped
<1>9. CASE addAnswered
  <2> DEFINE u == Of(Block.key)
             i == Block.item
  <2>1. Block.key \in BasketKeys /\ i \in Items /\ Block.doc \in BasketDocs
    BY <1>3, <1>9 DEF addAnswered, Blocks, Replies
  <2>2. u \in Users
    BY <2>1, KeyNames
  <2>3. UNCHANGED <<view, list, record, past>>
    BY <1>9 DEF addAnswered
  <2>4. adding' \in [Users -> [Items -> Progress]]
    <3>1. \/ adding' = [adding EXCEPT ![u][i] = "writing"]
          \/ adding' = [adding EXCEPT ![u][i] = "elsewhere"]
      BY <1>9 DEF addAnswered
    <3>2. {"writing", "elsewhere"} \subseteq Progress
      BY DEF Progress
    <3> HIDE DEF u, i
    <3> QED
      BY <1>1, <2>1, <2>2, <3>1, <3>2, ProgressMade DEF ScreenTyped
  <2>5. ClientOK(good)'
    <3> DEFINE items == Block.doc.items \cup {i}
               w == UpdateData(Block.key, [items |-> items], [to |-> "added", by |-> u, item |-> i])
    <3>1. CASE Block.doc # NoDoc /\ WriteMutations(Phone, w)
      <4>1. items \subseteq Items
        BY <2>1, <3>1 DEF BasketDocs
      <4> HIDE DEF items
      <4>2. w \in BasketWrites(good)
        BY <2>1, <2>2, <4>1 DEF UpdateData, BasketWrites, Tags, Purposes, Fates
      <4>3. w \in Writes(good)
        BY <4>2 DEF Writes
      <4> HIDE DEF w
      <4> QED
        BY <1>1, <1>2, <1>4, <3>1, <4>3, WriteHolds DEF ClientOK
    <3>2. CASE UNCHANGED queue
      BY <1>5, <3>2
    <3> QED
      BY <1>9, <3>1, <3>2 DEF addAnswered
  <2>6. Sound(good)'
    BY <1>1, <1>2, <2>3, <2>5, ListKept DEF Sound, view
  <2>7. ScreenTyped'
    BY <1>1, <1>2, <2>3, <2>4 DEF ScreenTyped, view, list, past, SignedIn
  <2> QED
    BY <2>6, <2>7 DEF Held
<1>10. ASSUME NEW target, WrittenTo(target)
       PROVE  Block.tag \in Purposes(good) /\ Block.tag.to = target
  BY <1>3, <1>10 DEF WrittenTo, Blocks, Replies
<1>11. CASE addWritten
  <2>1. Block.tag.by \in Users /\ Block.tag.item \in Items
    BY <1>10, <1>11 DEF addWritten, Purposes
  <2>2. UNCHANGED <<queue, view, list, record, past>>
    BY <1>11 DEF addWritten
  <2>3. adding' \in [Users -> [Items -> Progress]]
    <3>1. \/ adding' = [adding EXCEPT ![Block.tag.by][Block.tag.item] = "added"]
          \/ adding' = [adding EXCEPT ![Block.tag.by][Block.tag.item] = "failed"]
      BY <1>11 DEF addWritten
    <3>2. {"added", "failed"} \subseteq Progress
      BY DEF Progress
    <3> QED
      BY <1>1, <2>1, <3>1, <3>2, ProgressMade DEF ScreenTyped
  <2>4. Sound(good)'
    BY <1>1, <1>2, <1>5, <2>2, ListKept DEF Sound, view
  <2>5. ScreenTyped'
    BY <1>1, <1>2, <2>2, <2>3 DEF ScreenTyped, view, list, past, SignedIn
  <2> QED
    BY <2>4, <2>5 DEF Held
<1>12. CASE historyWritten
  <2>1. Block.tag.record \in GoodRecords(good)
    BY <1>10, <1>12 DEF historyWritten, Purposes
  <2>2. UNCHANGED <<queue, view, list, adding, presses, payments, dropped>>
        /\ record' = IF Block.ok THEN Block.tag.record ELSE record
    BY <1>12 DEF historyWritten
  <2>3. record' \in GoodRecords(good) \cup {NoDoc} /\ (SignedIn => SignedIn')
    BY <1>1, <1>2, <2>1, <2>2, RecordIsThere DEF SignedIn
  <2> QED
    BY <1>1, <1>5, <1>6, <2>2, <2>3 DEF list, ScreenTyped
<1>13. CASE basketEmptied
  <2>1. UNCHANGED <<queue, view, record, adding, past>> /\ getBasketItems(basket, rows)
    BY <1>13 DEF basketEmptied
  <2>2. /\ rows' \subseteq Items /\ button' \in BOOLEAN
        /\ fetches' \in Seq((SUBSET Items) \ {{}})
    BY <1>1, <2>1, ItemsAsked DEF ScreenTyped
  <2> QED
    BY <1>1, <1>2, <1>5, <1>6, <2>1, <2>2 DEF past, SignedIn
<1> QED
  BY <1>7, <1>8, <1>9, <1>11, <1>12, <1>13 DEF MainQueue

LEMMA NetworkHoldsAll ==
    ASSUME NEW good \in Collections, Held(good), Network \/ NetworkLost
    PROVE  Held(good)'
<1>1. /\ ScreenTyped /\ ClientOK(good) /\ ListGood(good)
      /\ record \in GoodRecords(good) \cup {NoDoc} /\ Phone \in Devices
      /\ Closed(Documents(good), Writes(good), Blocks(good))
  BY WritesClosed, KeyNames DEF Held, Sound
<1>2. ClientOK(good)' /\ UNCHANGED <<appVars, user>>
  <2>1. CASE ServerDecides
    <3>1. PICK i \in DOMAIN pending(Phone) : CommitWrite(Phone, i) \/ RefuseWrite(Phone, i)
      BY <2>1 DEF ServerDecides
    <3>2. ClientOK(good)'
      BY <1>1, <3>1, CommitHolds, RefuseHolds DEF ClientOK
    <3> QED
      BY <2>1, <3>1, <3>2 DEF ServerDecides, CommitWrite, RefuseWrite
  <2>2. CASE ClientLearns
    BY <1>1, <2>2, AcknowledgeHolds DEF ClientLearns, ClientOK, Acknowledge
  <2>3. CASE NetworkLost
    BY <1>1, <2>3, NetworkHolds DEF NetworkLost, ClientOK, GoOffline
  <2>4. CASE NetworkBack
    BY <1>1, <2>4, NetworkHolds DEF NetworkBack, ClientOK, GoOnline
  <2> QED
    BY <2>1, <2>2, <2>3, <2>4 DEF Network
<1>3. Sound(good)'
  BY <1>1, <1>2, ListKept DEF Sound, appVars, view
<1>4. ScreenTyped'
  BY <1>1, <1>2 DEF ScreenTyped, appVars, view, list, past, SignedIn
<1> QED
  BY <1>3, <1>4 DEF Held

LEMMA StepHolds ==
    ASSUME NEW good \in Collections, Held(good), [Next]_vars, Backed(good)'
    PROVE  Held(good)'
<1>1. CASE UserActs
  <2>1. ASSUME NEW i \in Items, deleteRow(i) \/ deleteRowTraps(i) \/ addToBasketTapped(i)
        PROVE  Held(good)'
    BY <2>1, DeleteHolds, TerminateHolds, AddTappedHolds DEF deleteRowTraps
  <2> QED
    BY <1>1, <2>1, AppearsHolds, CheckOutHolds, TerminateHolds, CancelHolds, PaymentHolds,
       LogOutHolds, LogInHolds DEF UserActs, checkOutTraps
<1>2. CASE AppRuns
  BY <1>2, ReadHolds, ItemsHold, DismissHolds, DismissTrapHolds, MainQueueHolds DEF AppRuns
<1>3. CASE Network \/ Breaks
  BY <1>3, NetworkHoldsAll, TerminateHolds DEF Breaks
<1>4. CASE UNCHANGED vars
  <2>1. ScreenTyped /\ ClientOK(good) /\ ListGood(good)
        /\ record \in GoodRecords(good) \cup {NoDoc}
    BY DEF Held, Sound
  <2>2. UNCHANGED <<clientVars, view, list, record, adding, past>>
    BY <1>4 DEF vars
  <2>3. ClientOK(good)'
    BY <2>1, <2>2, ClientKept
  <2>4. ListGood(good)'
    BY <2>1, <2>2, ListKept DEF view, clientVars
  <2>5. ScreenTyped'
    BY <2>1, <2>2 DEF ScreenTyped, view, list, past, SignedIn, clientVars
  <2> QED
    BY <2>5, <2>1, <2>2, <2>3, <2>4 DEF Held, Sound
<1> QED
  BY <1>1, <1>2, <1>3, <1>4 DEF Next

\* Nothing is taken back: what is good after a step was good before it.
LEMMA StillBacked ==
    ASSUME ScreenTyped, [Next]_vars, NEW good, Backed(good)'
    PROVE  Backed(good)
<1>1. good \in Collections
  BY DEF Backed
<1> DEFINE Grows ==
             /\ mixed => mixed'
             /\ \A u \in Users, i \in Items : payments[u][i] > 0 => payments'[u][i] > 0
             /\ dropped \subseteq dropped'
<1> SUFFICES Grows
  BY <1>1 DEF Backed
<1>2. ASSUME UNCHANGED <<payments, dropped>>, mixed => mixed' PROVE Grows
  BY <1>2
<1>3. ASSUME UNCHANGED <<payments, mixed>>, dropped \subseteq dropped' PROVE Grows
  BY <1>3
<1>4. ASSUME didCompletePayment PROVE Grows
  <2>1. \A u \in Users, i \in Items : payments[u][i] > 0 => payments'[u][i] > 0
    <3> SUFFICES ASSUME NEW u \in Users, NEW i \in Items, payments[u][i] > 0
                 PROVE  payments'[u][i] > 0
      OBVIOUS
    <3>1. payments \in [Users -> [Items -> Nat]] /\ payments[u] \in [Items -> Nat]
      BY DEF ScreenTyped
    <3>2. CASE user[Phone] = u
      <4>1. payments'[u] = [j \in Items |-> payments[u][j] + IF j \in offered THEN 1 ELSE 0]
        BY <1>4, <3>1, <3>2 DEF didCompletePayment
      <4>2. payments'[u][i] = payments[u][i] + IF i \in offered THEN 1 ELSE 0
        BY <4>1
      <4> QED
        BY <3>1, <4>2
    <3>3. CASE user[Phone] # u
      BY <1>4, <3>1, <3>3 DEF didCompletePayment
    <3> QED
      BY <3>2, <3>3
  <2> QED
    BY <1>4, <2>1 DEF didCompletePayment
<1>5. ASSUME NEW queues, Restart(queues) PROVE UNCHANGED <<payments, dropped>>
  BY <1>5 DEF Restart
<1>6. ASSUME Terminate PROVE Grows
  BY <1>2, <1>5, <1>6 DEF Terminate
<1>7. CASE UserActs
  <2>1. ASSUME NEW i \in Items, deleteRow(i) \/ deleteRowTraps(i) \/ addToBasketTapped(i)
        PROVE  Grows
    BY <1>2, <1>6, <2>1 DEF deleteRow, deleteRowTraps, addToBasketTapped, past
  <2>2. ASSUME viewDidAppear \/ logOutCurrentUser \/ \E u \in Users : loginUserWith(u)
        PROVE  Grows
    BY <1>2, <2>2 DEF viewDidAppear, logOutCurrentUser, loginUserWith, past
  <2>3. ASSUME checkOutButtonWasTapped \/ payPalPaymentDidCancel
        PROVE  Grows
    BY <1>3, <2>3 DEF checkOutButtonWasTapped, payButtonPressed, payPalPaymentDidCancel
  <2> HIDE DEF Grows
  <2> QED
    BY <1>4, <1>6, <1>7, <2>1, <2>2, <2>3 DEF UserActs, checkOutTraps
<1>8. CASE AppRuns
  <2>1. CASE paymentDismissed \/ paymentDismissedTraps
    BY <1>2, <1>5, <2>1
    DEF paymentDismissed, paymentDismissedTraps, addItemsToPurchaseHistory
  <2>2. CASE (\E n \in DOMAIN reads : docRead(n)) \/ (\E n \in DOMAIN fetches : itemsArrived(n))
    BY <1>2, <2>2 DEF docRead, itemsArrived, past
  <2>3. CASE MainQueue
    BY <1>2, <2>3 DEF MainQueue, loaded, userArrived, addAnswered, addWritten,
                      historyWritten, basketEmptied, past
  <2> HIDE DEF Grows
  <2> QED
    BY <1>8, <2>1, <2>2, <2>3 DEF AppRuns
<1>9. CASE Network \/ Breaks
  <2>1. CASE Network \/ NetworkLost
    BY <1>2, <2>1 DEF Network, ServerDecides, ClientLearns, NetworkLost, NetworkBack,
                      appVars, past
  <2> HIDE DEF Grows
  <2> QED
    BY <1>6, <1>9, <2>1 DEF Breaks
<1>10. CASE UNCHANGED vars
  BY <1>2, <1>10 DEF vars, past
<1> QED
  BY <1>7, <1>8, <1>9, <1>10 DEF Next

LEMMA InitHolds == Init => CheckoutInv
<1> SUFFICES ASSUME Init PROVE CheckoutInv
  OBVIOUS
<1>1. PICK holders \in SUBSET Users : \E held \in [holders -> SUBSET Items] :
        /\ server = [k \in Keys |->
                        IF k[1] = "user" THEN [items |-> << >>]
                        ELSE IF Of(k) \in holders THEN [items |-> held[Of(k)]] ELSE NoDoc]
        /\ adding = [u \in Users |-> [i \in Items |->
                        IF u \in holders /\ i \in held[u] THEN "added" ELSE "idle"]]
  BY DEF Init
<1>2. PICK held \in [holders -> SUBSET Items] :
        /\ server = [k \in Keys |->
                        IF k[1] = "user" THEN [items |-> << >>]
                        ELSE IF Of(k) \in holders THEN [items |-> held[Of(k)]] ELSE NoDoc]
        /\ adding = [u \in Users |-> [i \in Items |->
                        IF u \in holders /\ i \in held[u] THEN "added" ELSE "idle"]]
  BY <1>1
<1>3. ScreenTyped
  <2>1. adding \in [Users -> [Items -> Progress]]
    BY <1>2 DEF Progress
  <2>2. reads \in Seq(Asks) /\ Len(reads) <= MaxUnder /\ fetches \in Seq((SUBSET Items) \ {{}})
    <3>1. reads = << >> /\ fetches = << >>
      BY DEF Init
    <3>2. MaxUnder \in Nat /\ Len(reads) = 0
      BY <3>1, CheckoutAssumption
    <3> QED
      BY <3>1, <3>2
  <2>3. presses \in 0 .. MaxSheets /\ payments \in [Users -> [Items -> Nat]]
    BY CheckoutAssumption DEF Init
  <2> QED
    BY <2>1, <2>2, <2>3 DEF Init, ScreenTyped
<1>4. ASSUME NEW good \in Collections PROVE Sound(good)
  <2>1. \A k \in Keys : server[k] \in Documents(good)[k]
    <3> SUFFICES ASSUME NEW k \in Keys PROVE server[k] \in Documents(good)[k]
      OBVIOUS
    <3>1. CASE k \in UserKeys
      <4> DEFINE S == good[Of(k)]
      <4>1. server[k] = [items |-> << >>]
        BY <1>2, <3>1, KeyNames
      <4>2. Documents(good)[k] = [items : Seq(S)]
        BY <3>1, DocumentsOf
      <4> HIDE DEF S
      <4>3. << >> \in Seq(S)
        OBVIOUS
      <4> QED
        BY <4>1, <4>2, <4>3
    <3>2. CASE k \in BasketKeys
      <4>1. server[k] = NoDoc \/ (Of(k) \in holders /\ server[k] = [items |-> held[Of(k)]])
        <5>1. k[1] # "user"
          BY <3>2, KeyNames
        <5>2. server[k] = IF Of(k) \in holders THEN [items |-> held[Of(k)]] ELSE NoDoc
          BY <1>2, <5>1
        <5> QED
          BY <5>2
      <4>2. Documents(good)[k] = BasketDocs
        BY <3>2, DocumentsOf
      <4> QED
        BY <4>1, <4>2 DEF BasketDocs
    <3> QED
      BY <3>1, <3>2, KeyNames
  <2>2. server \in Views(Documents(good))
    <3>1. server = [k \in Keys |-> server[k]]
      BY <1>2
    <3> QED
      BY <2>1, <3>1 DEF Views
  <2>3. ClientOK(good)
    <3> DEFINE docs == Documents(good)
               ws == Writes(good)
               blocks == Blocks(good)
    <3> HIDE DEF docs, ws, blocks
    <3>1. << >> \in Seq(ws) /\ << >> \in Seq(blocks)
      OBVIOUS
    <3>2. server \in Views(docs)
      BY <2>2 DEF docs
    <3>3. ClientHolds(docs, ws, blocks)
      BY <3>1, <3>2 DEF Init, ClientInit, ClientHolds
    <3> QED
      BY <3>3 DEF ClientOK, docs, ws, blocks
  <2>4. record \in GoodRecords(good) \cup {NoDoc}
    <3>1. user[Phone] \in Accounts
      BY KeyNames DEF Init
    <3>2. \A u \in Users : [of |-> u, items |-> << >>] \in GoodRecords(good)
      <4>1. << >> \in Seq(Items) /\ \A u \in Users : << >> \in Seq(good[u])
        OBVIOUS
      <4> QED
        BY <4>1 DEF GoodRecords, Records
    <3> QED
      BY <3>1, <3>2 DEF Init, Accounts
  <2>5. ListGood(good)
    BY DEF Init, ListGood
  <2> QED
    BY <2>3, <2>4, <2>5 DEF Sound
<1> QED
  BY <1>3, <1>4 DEF CheckoutInv, Backed

LEMMA EverythingBacked == Backed(Everything)
BY EverythingIsGood DEF Backed, Everything

LEMMA InvHolds == CheckoutInv /\ [Next]_vars => CheckoutInv'
<1> SUFFICES ASSUME CheckoutInv, [Next]_vars PROVE CheckoutInv'
  OBVIOUS
<1>1. ScreenTyped
  BY DEF CheckoutInv
<1>2. ASSUME NEW good, Backed(good)' PROVE Held(good)'
  <2>1. Backed(good)
    BY <1>1, <1>2, StillBacked
  <2>2. good \in Collections /\ Held(good)
    BY <2>1 DEF Backed, CheckoutInv, Held
  <2> QED
    BY <1>2, <2>2, StepHolds
<1>3. ScreenTyped'
  <2>1. \A good : good = Everything => Backed(good)'
    BY EverythingIsGood DEF Backed, Everything
  <2> QED
    BY <1>2, <2>1 DEF Held
<1> QED
  BY <1>2, <1>3 DEF CheckoutInv, Held

--------------------------------------------------------------------------------
(* The theorems.                                                           *)

LEMMA CheckoutInvariant == Spec => []CheckoutInv
BY InitHolds, InvHolds, PTL DEF Spec

LEMMA HistoryIsGood ==
    ASSUME NEW good \in Collections, Sound(good), NEW u \in Users
    PROVE  /\ server[BasketKey(u)] \in BasketDocs
           /\ server[UserKey(u)] \in [items : Seq(good[u])]
<1>1. server \in Views(Documents(good))
  BY DEF Sound, ClientOK, ClientHolds
<1>2. BasketKey(u) \in Keys /\ UserKey(u) \in Keys
  BY KeyNames
<1>3. /\ server[BasketKey(u)] \in Documents(good)[BasketKey(u)]
      /\ server[UserKey(u)] \in Documents(good)[UserKey(u)]
  BY <1>1, <1>2 DEF Views
<1>4. Documents(good)[BasketKey(u)] = BasketDocs
  BY KeyNames, DocumentsOf
<1>5. Documents(good)[UserKey(u)] = [items : Seq(good[u])]
  <2>1. UserKey(u) \in UserKeys /\ Of(UserKey(u)) = u
    BY KeyNames
  <2>2. Documents(good)[UserKey(u)] = [items : Seq(good[Of(UserKey(u))])]
    BY <2>1, DocumentsOf
  <2> QED
    BY <2>1, <2>2
<1> QED
  BY <1>3, <1>4, <1>5

\* The screen, the phone's record and the documents keep to their types, and a sheet
\* is only ever over a user who is signed in: nothing can be signed out under it.
THEOREM CheckoutTypeCorrect == Spec => []TypeOK
<1>1. CheckoutInv => TypeOK
  <2> SUFFICES ASSUME CheckoutInv PROVE TypeOK
    OBVIOUS
  <2>1. ScreenTyped /\ Sound(Everything) /\ Everything \in Collections
    BY EverythingBacked, EverythingIsGood DEF CheckoutInv
  <2>2. \A u \in Users : /\ server[BasketKey(u)] \in [items : SUBSET Items] \cup {NoDoc}
                         /\ server[UserKey(u)] \in [items : Seq(Items)]
    BY <2>1, HistoryIsGood DEF BasketDocs, Everything
  <2>3. toBuy \in Seq(Items) /\ record \in Records \cup {NoDoc}
    BY <2>1 DEF Sound, ListGood, GoodRecords
  <2>4. Len(reads) \in 0 .. MaxUnder
    <3>1. Len(reads) \in Nat /\ Len(reads) <= MaxUnder /\ MaxUnder \in Nat
      BY <2>1, CheckoutAssumption DEF ScreenTyped
    <3> QED
      BY <3>1
  <2>5. \A n \in DOMAIN fetches : fetches[n] \in (SUBSET Items) \ {{}}
    BY <2>1 DEF ScreenTyped
  <2> QED
    BY <2>5, <2>1, <2>2, <2>3, <2>4 DEF ScreenTyped, TypeOK, Progress
<1> QED
  BY <1>1, CheckoutInvariant, PTL

\* Whatever accounts, baskets, failures and restarts there are: an entry of a purchase
\* history that its account never paid for was on a sheet that was cancelled or never
\* shown, unless a purchase was made from somebody else's record.
THEOREM UnpaidWasDropped == Spec => []UnpaidOnlyFromDropped
<1>1. CheckoutInv => UnpaidOnlyFromDropped
  <2> SUFFICES ASSUME CheckoutInv, ~ mixed, NEW u \in Users, NEW n \in DOMAIN history(u)
               PROVE  payments[u][history(u)[n]] > 0 \/ history(u)[n] \in dropped
    BY DEF UnpaidOnlyFromDropped
  <2> DEFINE good == [v \in Users |-> {i \in Items : payments[v][i] > 0 \/ i \in dropped}]
  <2>1. good \in Collections
    BY DEF Collections
  <2>2. Backed(good)
    BY <2>1 DEF Backed
  <2>3. Sound(good)
    BY <2>2 DEF CheckoutInv
  <2>4. server[UserKey(u)] \in [items : Seq(good[u])]
    BY <2>1, <2>3, HistoryIsGood
  <2>5. history(u) \in Seq(good[u])
    BY <2>4 DEF history
  <2>6. history(u)[n] \in good[u]
    BY <2>5
  <2> QED
    BY <2>6
<1> QED
  BY <1>1, CheckoutInvariant, PTL

--------------------------------------------------------------------------------
(* When a purchase history forgets: every purchase is taken up or on its   *)
(* way.                                                                    *)

\* The positions of the writes to u's user document.
Ours(q, u) == {n \in DOMAIN q : q[n].key = UserKey(u)}

\* Every item is on a at least as often as on b.
Covers(a, b) == \A i \in Items : Count(b, i) <= Count(a, i)

IsHistory(tag) == IF tag = None THEN FALSE ELSE tag.to = "history"

\* The answer to a purchase of u, and a document of u that is handed to the app.
Answers(b, u) == b.kind = "written" /\ IsHistory(b.tag) /\ b.tag.by = u
Brings(b, u) == b.kind = "user" /\ b.key = UserKey(u) /\ b.doc # NoDoc

\* An account's queue has no write to another account's user document, and a block
\* waits for a purchase only with the account's own, which was made from the account's
\* own record unless any could be.
OwnWrites(q, u, any) ==
    \A n \in DOMAIN q :
        /\ q[n].key \in UserKeys => q[n].key = UserKey(u)
        /\ IsHistory(q[n].tag) =>
            q[n].key = UserKey(u) /\ q[n].tag.by = u /\ (any \/ q[n].tag.record.of = u)

\* An answered purchase was made from the account's own record.
OwnAnswer(b) ==
    b.kind = "written" => b.tag # None /\ (IsHistory(b.tag) => b.tag.record.of = b.tag.by)

OwnAnswers(blocks) == \A n \in DOMAIN blocks : OwnAnswer(blocks[n])

\* Every purchase of u is in all that the phone knows: it is what the server has.
TakenUp(u, q, doc, copy, blocks, rec) ==
    /\ Ours(q, u) = {}
    /\ copy = doc
    /\ rec # NoDoc => (rec.of = u => rec.items = doc.items)
    /\ \A n \in DOMAIN blocks :
        /\ ~ Answers(blocks[n], u)
        /\ Brings(blocks[n], u) => blocks[n].doc = doc

\* Whoever waits for the answer has what the server has, if it took the list, and
\* nobody else waits; so does whatever is handed to the app later.
AnswerWaits(n, u, q, doc, copy, blocks) ==
    /\ Ours(q, u) = {}
    /\ \A m \in DOMAIN blocks : Answers(blocks[m], u) => m = n
    /\ blocks[n].ok =>
        /\ blocks[n].tag.record = [of |-> u, items |-> doc.items]
        /\ copy = doc
        /\ \A m \in DOMAIN blocks : m > n /\ Brings(blocks[m], u) => blocks[m].doc = doc

\* One purchase of u is on its way, with a list that was made from the server's.
OnItsWay(u, q, doc, copy, blocks) ==
    /\ \A m, n \in Ours(q, u) : m = n
    /\ \A n \in Ours(q, u) :
        /\ Covers(q[n].fields.items, doc.items)
        /\ IsHistory(q[n].tag) => q[n].tag.record = [of |-> u, items |-> q[n].fields.items]
        /\ q[n].fate \in Accepted => q[n].fields.items = doc.items
        /\ q[n].fate = "known" => copy = doc
    /\ \A n \in DOMAIN blocks :
        Answers(blocks[n], u) => AnswerWaits(n, u, q, doc, copy, blocks)

Standing(u, open, q, doc, copy, blocks, rec) ==
    IF open THEN OnItsWay(u, q, doc, copy, blocks) ELSE TakenUp(u, q, doc, copy, blocks, rec)

Copy(u) == cache[Phone][UserKey(u)]

StandingOf(u) ==
    Standing(u, u \in unsaved, queue[Phone][u], server[UserKey(u)], Copy(u), main[Phone], record)

HistoryInv ==
    /\ \A u \in Accounts : OwnWrites(queue[Phone][u], u, mixed)
    /\ ~ mixed => OwnAnswers(main[Phone]) /\ \A u \in Users \ hasty : StandingOf(u)

--------------------------------------------------------------------------------
(* How often an item is on a list.                                         *)

LEMMA CountIsNat ==
    ASSUME NEW S, NEW s \in Seq(S), NEW i
    PROVE  /\ IsFiniteSet({n \in DOMAIN s : s[n] = i})
           /\ Count(s, i) \in Nat
<1>1. DOMAIN s = 1 .. Len(s) /\ Len(s) \in Nat
  OBVIOUS
<1>2. IsFiniteSet(1 .. Len(s))
  BY <1>1, FS_Interval
<1>3. IsFiniteSet({n \in DOMAIN s : s[n] = i})
  BY <1>1, <1>2, FS_Subset
<1> QED
  BY <1>3, FS_CardinalityType DEF Count

LEMMA CoversItself == \A s \in Seq(Items) : Covers(s, s)
<1> SUFFICES ASSUME NEW s \in Seq(Items), NEW i \in Items PROVE Count(s, i) <= Count(s, i)
  BY DEF Covers
<1>1. Count(s, i) \in Nat
  BY CountIsNat
<1> QED
  BY <1>1

\* What is added to a list takes nothing from it.
LEMMA CoversWithMore ==
    ASSUME NEW a \in Seq(Items), NEW b \in Seq(Items)
    PROVE  Covers(a \o b, a)
<1> SUFFICES ASSUME NEW i \in Items PROVE Count(a, i) <= Count(a \o b, i)
  BY DEF Covers
<1>1. a \o b \in Seq(Items) /\ \A n \in DOMAIN a : n \in DOMAIN (a \o b) /\ (a \o b)[n] = a[n]
  OBVIOUS
<1>2. {n \in DOMAIN a : a[n] = i} \subseteq {n \in DOMAIN (a \o b) : (a \o b)[n] = i}
  BY <1>1
<1>3. IsFiniteSet({n \in DOMAIN (a \o b) : (a \o b)[n] = i})
  BY <1>1, CountIsNat
<1> QED
  BY <1>2, <1>3, FS_Subset DEF Count

--------------------------------------------------------------------------------
(* Queues.                                                                 *)

\* The writes to u's user document are the same, or have lost their answer or their
\* block, or the phone has come to know what the server has.
LEMMA WritesKept ==
    ASSUME NEW u, NEW open, NEW q, NEW q2, NEW doc, NEW copy, NEW copy2, NEW blocks, NEW rec,
           Standing(u, open, q, doc, copy, blocks, rec),
           copy2 \in {copy, doc}, Ours(q2, u) = Ours(q, u),
           \A n \in Ours(q, u) :
              /\ q2[n].fields = q[n].fields
              /\ q2[n].tag \in {q[n].tag, None}
              /\ q2[n].fate \in Accepted => q[n].fate \in Accepted
              /\ q2[n].fate = "known" => q[n].fate = "known" \/ copy2 = doc
    PROVE  Standing(u, open, q2, doc, copy2, blocks, rec)
<1>1. CASE ~ open
  BY <1>1 DEF Standing, TakenUp
<1>2. CASE open
  <2>1. OnItsWay(u, q, doc, copy, blocks)
    BY <1>2 DEF Standing
  <2>2. \A n \in DOMAIN blocks : AnswerWaits(n, u, q, doc, copy, blocks) =>
                                 AnswerWaits(n, u, q2, doc, copy2, blocks)
    BY DEF AnswerWaits
  <2>3. ~ IsHistory(None)
    BY DEF IsHistory
  <2>4. OnItsWay(u, q2, doc, copy2, blocks)
    BY <2>1, <2>2, <2>3 DEF OnItsWay
  <2> QED
    BY <1>2, <2>4 DEF Standing
<1> QED
  BY <1>1, <1>2

LEMMA BlocksLost ==
    ASSUME NEW u, NEW open, NEW q, NEW doc, NEW copy, NEW blocks, NEW rec,
           Standing(u, open, q, doc, copy, blocks, rec)
    PROVE  Standing(u, open, q, doc, copy, << >>, rec)
BY DEF Standing, TakenUp, OnItsWay

LEMMA RecordLost ==
    ASSUME NEW u, NEW open, NEW q, NEW doc, NEW copy, NEW blocks, NEW rec,
           Standing(u, open, q, doc, copy, blocks, rec)
    PROVE  Standing(u, open, q, doc, copy, blocks, NoDoc)
BY DEF Standing, TakenUp, OnItsWay

\* What the process leaves in a queue when it ends.
LEMMA QueueRestarted ==
    ASSUME NEW W, NEW q \in Seq(W)
    PROVE  LET q2 == Unsent(Untagged(q)) IN
           /\ DOMAIN q2 = DOMAIN q
           /\ \A n \in DOMAIN q : q[n] \in Writes(Everything) =>
                 /\ q2[n].key = q[n].key /\ q2[n].fields = q[n].fields
                 /\ q2[n].tag = None /\ q2[n].fate = "pending"
<1> QED
  BY DEF Unsent, Untagged, Writes, BasketWrites, HistoryWrites

LEMMA Restarted ==
    ASSUME NEW u \in Accounts, NEW open, NEW q \in Seq(Writes(Everything)), NEW doc, NEW copy,
           NEW blocks, NEW rec, Standing(u, open, q, doc, copy, blocks, rec)
    PROVE  Standing(u, open, Unsent(Untagged(q)), doc, copy, << >>, rec)
<1> DEFINE q2 == Unsent(Untagged(q))
<1>1. DOMAIN q2 = DOMAIN q
      /\ \A n \in DOMAIN q : /\ q2[n].key = q[n].key /\ q2[n].fields = q[n].fields
                             /\ q2[n].tag = None /\ q2[n].fate = "pending"
  BY QueueRestarted
<1> HIDE DEF q2
<1>2. Ours(q2, u) = Ours(q, u) /\ Ours(q, u) \subseteq DOMAIN q
  BY <1>1 DEF Ours
<1>3. \A n \in Ours(q, u) :
         /\ q2[n].fields = q[n].fields
         /\ q2[n].tag \in {q[n].tag, None}
         /\ q2[n].fate \notin Accepted /\ q2[n].fate # "known"
  BY <1>1, <1>2 DEF Accepted
<1>4. Standing(u, open, q2, doc, copy, blocks, rec)
  BY <1>2, <1>3, WritesKept
<1> QED
  BY <1>4, BlocksLost DEF q2

LEMMA SentAgain ==
    ASSUME NEW u \in Accounts, NEW open, NEW q \in Seq(Writes(Everything)), NEW doc, NEW copy,
           NEW blocks, NEW rec, Standing(u, open, q, doc, copy, blocks, rec)
    PROVE  Standing(u, open, Unsent(q), doc, copy, blocks, rec)
<1> DEFINE q2 == Unsent(q)
<1>1. DOMAIN q2 = DOMAIN q
      /\ \A n \in DOMAIN q : /\ q2[n].key = q[n].key /\ q2[n].fields = q[n].fields
                             /\ q2[n].tag = q[n].tag /\ q2[n].fate = "pending"
  BY DEF Unsent, Writes, BasketWrites, HistoryWrites
<1> HIDE DEF q2
<1>2. Ours(q2, u) = Ours(q, u) /\ Ours(q, u) \subseteq DOMAIN q
  BY <1>1 DEF Ours
<1>3. \A n \in Ours(q, u) :
         /\ q2[n].fields = q[n].fields
         /\ q2[n].tag \in {q[n].tag, None}
         /\ q2[n].fate \notin Accepted /\ q2[n].fate # "known"
  BY <1>1, <1>2 DEF Accepted
<1>4. Standing(u, open, q2, doc, copy, blocks, rec)
  BY <1>2, <1>3, WritesKept
<1> QED
  BY <1>4 DEF q2

\* A write to another document joins the queue.
LEMMA OtherAdded ==
    ASSUME NEW u, NEW open, NEW W, NEW q \in Seq(W), NEW w \in W, w.key # UserKey(u),
           NEW doc, NEW copy, NEW blocks, NEW rec, Standing(u, open, q, doc, copy, blocks, rec)
    PROVE  Standing(u, open, Append(q, w), doc, copy, blocks, rec)
<1> DEFINE q2 == Append(q, w)
<1>1. /\ DOMAIN q2 = DOMAIN q \cup {Len(q) + 1} /\ \A n \in DOMAIN q : q2[n] = q[n]
      /\ q2[Len(q) + 1] = w
  OBVIOUS
<1> HIDE DEF q2
<1>2. Ours(q2, u) = Ours(q, u) /\ Ours(q, u) \subseteq DOMAIN q
  BY <1>1 DEF Ours
<1>3. \A n \in Ours(q, u) : q2[n] = q[n]
  BY <1>1, <1>2
<1>4. Standing(u, open, q2, doc, copy, blocks, rec)
  BY <1>2, <1>3, WritesKept
<1> QED
  BY <1>4 DEF q2

\* A purchase is sent from a record that has all the purchases before it.
LEMMA PurchaseSent ==
    ASSUME NEW u \in Users, NEW W, NEW q \in Seq(W), NEW w \in W,
           NEW doc \in [items : Seq(Items)], NEW copy, NEW blocks,
           NEW rec, rec # NoDoc, rec.of = u, NEW more \in Seq(Items),
           TakenUp(u, q, doc, copy, blocks, rec),
           w = UpdateData(UserKey(u), [items |-> rec.items \o more],
                          [to |-> "history", by |-> u,
                           record |-> [of |-> u, items |-> rec.items \o more]])
    PROVE  /\ OnItsWay(u, Append(q, w), doc, copy, blocks)
           /\ OnItsWay(u, q, doc, copy, blocks)
<1> DEFINE q2 == Append(q, w)
<1>1. /\ DOMAIN q2 = DOMAIN q \cup {Len(q) + 1} /\ \A n \in DOMAIN q : q2[n] = q[n]
      /\ q2[Len(q) + 1] = w
  OBVIOUS
<1> HIDE DEF q2
<1>2. Ours(q, u) = {} /\ rec.items = doc.items /\ \A n \in DOMAIN blocks : ~ Answers(blocks[n], u)
  BY DEF TakenUp
<1>3. Ours(q2, u) \subseteq {Len(q) + 1}
  BY <1>1, <1>2 DEF Ours
<1>4. /\ w.fate = "pending" /\ w.fields.items = doc.items \o more
      /\ w.tag.record = [of |-> u, items |-> w.fields.items]
  BY <1>2 DEF UpdateData
<1>5. Covers(doc.items \o more, doc.items)
  BY CoversWithMore
<1>6. OnItsWay(u, q2, doc, copy, blocks)
  BY <1>1, <1>2, <1>3, <1>4, <1>5 DEF OnItsWay, Accepted
<1>7. OnItsWay(u, q, doc, copy, blocks)
  BY <1>2 DEF OnItsWay
<1> QED
  BY <1>6, <1>7 DEF q2

--------------------------------------------------------------------------------
(* The main queue.                                                         *)

LEMMA Joined ==
    ASSUME NEW B, NEW blocks \in Seq(B), NEW b
    PROVE  /\ DOMAIN Append(blocks, b) = DOMAIN blocks \cup {Len(blocks) + 1}
           /\ \A n \in DOMAIN blocks : Append(blocks, b)[n] = blocks[n]
           /\ Append(blocks, b)[Len(blocks) + 1] = b
<1>1. blocks \in Seq(B \cup {b}) /\ b \in B \cup {b}
  OBVIOUS
<1> QED
  BY <1>1

\* A block joins that nobody waits for as an answer to a purchase; a document it
\* brings is what the phone knows, if no write to it is pending.
LEMMA BlockAdded ==
    ASSUME NEW u, NEW open, NEW q, NEW doc, NEW copy, NEW B, NEW blocks \in Seq(B), NEW rec,
           NEW b, ~ Answers(b, u),
           Brings(b, u) /\ copy = doc /\ Ours(q, u) = {} => b.doc = doc,
           Standing(u, open, q, doc, copy, blocks, rec)
    PROVE  Standing(u, open, q, doc, copy, Append(blocks, b), rec)
<1> DEFINE blocks2 == Append(blocks, b)
<1> SUFFICES Standing(u, open, q, doc, copy, blocks2, rec)
  OBVIOUS
<1>1. /\ DOMAIN blocks2 = DOMAIN blocks \cup {Len(blocks) + 1}
      /\ \A n \in DOMAIN blocks : blocks2[n] = blocks[n]
      /\ blocks2[Len(blocks) + 1] = b
  BY Joined
<1> HIDE DEF blocks2
<1>2. CASE ~ open
  <2>1. TakenUp(u, q, doc, copy, blocks, rec)
    BY <1>2 DEF Standing
  <2>2. Brings(b, u) => b.doc = doc
    BY <2>1 DEF TakenUp
  <2>3. \A n \in DOMAIN blocks2 :
           ~ Answers(blocks2[n], u) /\ (Brings(blocks2[n], u) => blocks2[n].doc = doc)
    BY <1>1, <2>1, <2>2 DEF TakenUp
  <2> QED
    BY <1>2, <2>1, <2>3 DEF Standing, TakenUp
<1>3. CASE open
  <2>1. OnItsWay(u, q, doc, copy, blocks)
    BY <1>3 DEF Standing
  <2>2. \A n \in DOMAIN blocks : AnswerWaits(n, u, q, doc, copy, blocks) =>
                                 AnswerWaits(n, u, q, doc, copy, blocks2)
    BY <1>1 DEF AnswerWaits
  <2>3. OnItsWay(u, q, doc, copy, blocks2)
    BY <1>1, <2>1, <2>2 DEF OnItsWay
  <2> QED
    BY <1>3, <2>3 DEF Standing
<1> QED
  BY <1>2, <1>3

LEMMA TailOf ==
    ASSUME NEW B, NEW s \in Seq(B), s # << >>
    PROVE  /\ Tail(s) \in Seq(B) /\ Head(s) = s[1] /\ 1 \in DOMAIN s
           /\ \A n \in DOMAIN Tail(s) :
                 n + 1 \in DOMAIN s /\ Tail(s)[n] = s[n + 1] /\ n \in Nat \ {0}
           /\ \A n \in DOMAIN s : n # 1 => n - 1 \in DOMAIN Tail(s) /\ Tail(s)[n - 1] = s[n]
OBVIOUS

\* A block runs that answers no purchase.
LEMMA BlockRun ==
    ASSUME NEW u, NEW open, NEW q, NEW doc, NEW copy, NEW B, NEW blocks \in Seq(B), NEW rec,
           NEW rec2, blocks # << >>, ~ Answers(Head(blocks), u),
           \/ rec2 = rec
           \/ rec2.of # u
           \/ Brings(Head(blocks), u) /\ rec2.items = Head(blocks).doc.items,
           Standing(u, open, q, doc, copy, blocks, rec)
    PROVE  Standing(u, open, q, doc, copy, Tail(blocks), rec2)
<1> DEFINE rest == Tail(blocks)
<1> SUFFICES Standing(u, open, q, doc, copy, rest, rec2)
  OBVIOUS
<1>1. /\ Head(blocks) = blocks[1] /\ 1 \in DOMAIN blocks
      /\ \A n \in DOMAIN rest :
            n + 1 \in DOMAIN blocks /\ rest[n] = blocks[n + 1] /\ n \in Nat \ {0}
  BY TailOf
<1> HIDE DEF rest
<1>2. CASE ~ open
  <2>1. TakenUp(u, q, doc, copy, blocks, rec)
    BY <1>2 DEF Standing
  <2>2. Brings(Head(blocks), u) => Head(blocks).doc = doc
    BY <1>1, <2>1 DEF TakenUp
  <2>3. rec2 # NoDoc => (rec2.of = u => rec2.items = doc.items)
    BY <2>1, <2>2 DEF TakenUp
  <2>4. \A n \in DOMAIN rest :
           ~ Answers(rest[n], u) /\ (Brings(rest[n], u) => rest[n].doc = doc)
    BY <1>1, <2>1 DEF TakenUp
  <2> QED
    BY <1>2, <2>1, <2>3, <2>4 DEF Standing, TakenUp
<1>3. CASE open
  <2>1. OnItsWay(u, q, doc, copy, blocks)
    BY <1>3 DEF Standing
  <2>2. \A n \in DOMAIN rest : AnswerWaits(n + 1, u, q, doc, copy, blocks) =>
                               AnswerWaits(n, u, q, doc, copy, rest)
    <3> SUFFICES ASSUME NEW n \in DOMAIN rest, AnswerWaits(n + 1, u, q, doc, copy, blocks)
                 PROVE  AnswerWaits(n, u, q, doc, copy, rest)
      OBVIOUS
    <3>1. \A m \in DOMAIN rest : (m + 1 = n + 1 => m = n) /\ (m > n => m + 1 > n + 1)
      BY <1>1
    <3> QED
      BY <1>1, <3>1 DEF AnswerWaits
  <2>3. OnItsWay(u, q, doc, copy, rest)
    BY <1>1, <2>1, <2>2 DEF OnItsWay
  <2> QED
    BY <1>3, <2>3 DEF Standing
<1> QED
  BY <1>2, <1>3

\* The answer to a purchase runs: if the server took it, the record has it now.
LEMMA AnswerRun ==
    ASSUME NEW u, NEW q, NEW doc \in [items : Seq(Items)], NEW copy, NEW B,
           NEW blocks \in Seq(B), blocks # << >>, Answers(Head(blocks), u),
           OnItsWay(u, q, doc, copy, blocks)
    PROVE  /\ Head(blocks).ok => TakenUp(u, q, doc, copy, Tail(blocks), Head(blocks).tag.record)
           /\ OnItsWay(u, q, doc, copy, Tail(blocks))
<1> DEFINE rest == Tail(blocks)
<1>1. /\ Head(blocks) = blocks[1] /\ 1 \in DOMAIN blocks
      /\ \A n \in DOMAIN rest :
            n + 1 \in DOMAIN blocks /\ rest[n] = blocks[n + 1] /\ n \in Nat \ {0}
  BY TailOf
<1> HIDE DEF rest
<1>2. AnswerWaits(1, u, q, doc, copy, blocks)
  BY <1>1 DEF OnItsWay
<1>3. \A n \in DOMAIN rest : n + 1 > 1 /\ n + 1 # 1
  BY <1>1
<1>4. \A n \in DOMAIN rest : ~ Answers(rest[n], u)
  BY <1>1, <1>2, <1>3 DEF AnswerWaits
<1>5. OnItsWay(u, q, doc, copy, rest)
  BY <1>4 DEF OnItsWay
<1>6. Head(blocks).ok => TakenUp(u, q, doc, copy, rest, Head(blocks).tag.record)
  BY <1>1, <1>2, <1>3, <1>4 DEF AnswerWaits, TakenUp
<1> QED
  BY <1>5, <1>6 DEF rest

--------------------------------------------------------------------------------
(* The phone: the network, the end of the process, a purchase.             *)

LEMMA KeysApart ==
    /\ \A k \in BasketKeys : \A u : k \notin UserKeys /\ k # UserKey(u)
    /\ \A u, v : UserKey(u) = UserKey(v) => u = v
BY DEF BasketKeys, UserKeys, UserKey

LEMMA ClientTyped ==
    ASSUME Held(Everything)
    PROVE  /\ Phone \in Devices /\ user \in [Devices -> Accounts] /\ user[Phone] \in Accounts
           /\ queue \in [Devices -> [Accounts -> Seq(Writes(Everything))]]
           /\ main \in [Devices -> Seq(Blocks(Everything))]
           /\ cache \in [Devices -> Views(Documents(Everything))]
           /\ \A u \in Users : /\ UserKey(u) \in Keys
                               /\ server[UserKey(u)] \in [items : Seq(Items)]
                               /\ Copy(u) \in [items : Seq(Items)]
<1>1. ClientHolds(Documents(Everything), Writes(Everything), Blocks(Everything))
  BY DEF Held, Sound, ClientOK
<1>2. Phone \in Devices
  BY KeyNames
<1>3. cache[Phone] \in Views(Documents(Everything)) /\ server \in Views(Documents(Everything))
  BY <1>1, <1>2 DEF ClientHolds
<1>4. ASSUME NEW u \in Users, NEW v \in Views(Documents(Everything))
      PROVE  UserKey(u) \in Keys /\ v[UserKey(u)] \in [items : Seq(Items)]
  <2>1. UserKey(u) \in UserKeys /\ UserKey(u) \in Keys /\ Of(UserKey(u)) = u
    BY KeyNames
  <2>2. Documents(Everything)[UserKey(u)] = [items : Seq(Everything[Of(UserKey(u))])]
    BY <2>1, DocumentsOf
  <2>3. Everything[u] = Items
    BY DEF Everything
  <2>4. Documents(Everything)[UserKey(u)] = [items : Seq(Items)]
    BY <2>1, <2>2, <2>3
  <2>5. v[UserKey(u)] \in Documents(Everything)[UserKey(u)]
    BY <2>1 DEF Views
  <2> QED
    BY <2>1, <2>4, <2>5
<1> QED
  BY <1>1, <1>2, <1>3, <1>4 DEF ClientHolds, Copy

LEMMA OwnMarked ==
    ASSUME NEW u, NEW any, NEW q \in Seq(Writes(Everything)), OwnWrites(q, u, any)
    PROVE  OwnWrites(Unsent(q), u, any) /\ OwnWrites(Unsent(Untagged(q)), u, any)
<1>1. OwnWrites(Unsent(q), u, any)
  <2> DEFINE q2 == Unsent(q)
  <2>1. DOMAIN q2 = DOMAIN q
        /\ \A n \in DOMAIN q : q2[n].key = q[n].key /\ q2[n].tag = q[n].tag
    BY DEF Unsent, Writes, BasketWrites, HistoryWrites
  <2> HIDE DEF q2
  <2>2. OwnWrites(q2, u, any)
    BY <2>1 DEF OwnWrites
  <2> QED
    BY <2>2 DEF q2
<1>2. OwnWrites(Unsent(Untagged(q)), u, any)
  <2> DEFINE q2 == Unsent(Untagged(q))
  <2>1. DOMAIN q2 = DOMAIN q /\ \A n \in DOMAIN q : q2[n].key = q[n].key /\ q2[n].tag = None
    BY QueueRestarted
  <2>2. ~ IsHistory(None)
    BY DEF IsHistory
  <2> HIDE DEF q2
  <2>3. OwnWrites(q2, u, any)
    BY <2>1, <2>2 DEF OwnWrites
  <2> QED
    BY <2>3 DEF q2
<1> QED
  BY <1>1, <1>2

LEMMA OwnStill ==
    ASSUME NEW u, NEW q, NEW any, NEW any2, any => any2, OwnWrites(q, u, any)
    PROVE  OwnWrites(q, u, any2)
BY DEF OwnWrites

LEMMA OwnAppended ==
    ASSUME NEW u, NEW any, NEW W, NEW q \in Seq(W), NEW w \in W, OwnWrites(q, u, any),
           w.key \in UserKeys => w.key = UserKey(u),
           IsHistory(w.tag) =>
              w.key = UserKey(u) /\ w.tag.by = u /\ (any \/ w.tag.record.of = u)
    PROVE  OwnWrites(Append(q, w), u, any)
<1> DEFINE q2 == Append(q, w)
<1>1. /\ DOMAIN q2 = DOMAIN q \cup {Len(q) + 1} /\ \A n \in DOMAIN q : q2[n] = q[n]
      /\ q2[Len(q) + 1] = w
  OBVIOUS
<1> SUFFICES OwnWrites(q2, u, any)
  OBVIOUS
<1> HIDE DEF q2
<1> QED
  BY <1>1 DEF OwnWrites

\* A step after which there is no new purchase.
LEMMA NoPurchase ==
    ASSUME HistoryInv, UNCHANGED <<unsaved, hasty, mixed>>,
           \A u \in Accounts :
              OwnWrites(queue[Phone][u], u, mixed) => OwnWrites(queue'[Phone][u], u, mixed),
           ~ mixed => OwnAnswers(main'[Phone]),
           \A u \in Users : StandingOf(u) => StandingOf(u)'
    PROVE  HistoryInv'
BY DEF HistoryInv

LEMMA Idle ==
    ASSUME HistoryInv, UNCHANGED <<server, cache, queue, main, record, unsaved, hasty, mixed>>
    PROVE  HistoryInv'
<1>1. \A u \in Users : StandingOf(u) => StandingOf(u)'
  BY DEF StandingOf, Copy
<1> QED
  BY <1>1, NoPurchase DEF HistoryInv

LEMMA BreakStands ==
    ASSUME Held(Everything), HistoryInv, StreamBreaks(Phone),
           UNCHANGED <<server, cache, main, unsaved, hasty, mixed>>, record' \in {record, NoDoc}
    PROVE  HistoryInv'
<1>1. queue \in [Devices -> [Accounts -> Seq(Writes(Everything))]] /\ Phone \in Devices
      /\ user[Phone] \in Accounts
  BY ClientTyped
<1>2. \A u \in Accounts : queue'[Phone][u] \in {queue[Phone][u], Unsent(queue[Phone][u])}
  BY <1>1 DEF StreamBreaks
<1>3. ASSUME NEW u \in Accounts, OwnWrites(queue[Phone][u], u, mixed)
      PROVE  OwnWrites(queue'[Phone][u], u, mixed)
  BY <1>1, <1>2, <1>3, OwnMarked
<1>4. ASSUME NEW u \in Users, StandingOf(u) PROVE StandingOf(u)'
  <2> DEFINE open == u \in unsaved
             q == queue[Phone][u]
             q2 == queue'[Phone][u]
             doc == server[UserKey(u)]
             copy == Copy(u)
             blocks == main[Phone]
  <2>1. q \in Seq(Writes(Everything)) /\ q2 \in {q, Unsent(q)} /\ u \in Accounts
    BY <1>1, <1>2 DEF Accounts
  <2>2. Standing(u, open, q, doc, copy, blocks, record)
    BY <1>4 DEF StandingOf
  <2>3. StandingOf(u)' = Standing(u, open, q2, doc, copy, blocks, record')
    BY DEF StandingOf, Copy
  <2> HIDE DEF open, q, q2, doc, copy, blocks
  <2>4. Standing(u, open, q2, doc, copy, blocks, record)
    BY <2>1, <2>2, SentAgain
  <2>5. Standing(u, open, q2, doc, copy, blocks, record')
    BY <2>4, RecordLost
  <2> QED
    BY <2>3, <2>5
<1> QED
  BY <1>3, <1>4, NoPurchase DEF HistoryInv

\* The process ends; what was on disk may include one write more.
LEMMA RestartStands ==
    ASSUME Held(Everything), NEW queues \in [Accounts -> Seq(Writes(Everything))],
           Restart(queues), \A u \in Accounts : OwnWrites(queues[u], u, mixed'),
           ~ mixed' => \A u \in Users \ hasty' :
              Standing(u, u \in unsaved', queues[u], server[UserKey(u)], Copy(u), main[Phone],
                       record)
    PROVE  HistoryInv'
<1>1. /\ queue \in [Devices -> [Accounts -> Seq(Writes(Everything))]] /\ Phone \in Devices
      /\ main \in [Devices -> Seq(Blocks(Everything))]
  BY ClientTyped
<1>2. /\ \A u \in Accounts : queue'[Phone][u] = Unsent(Untagged(queues[u]))
      /\ main'[Phone] = << >> /\ UNCHANGED <<server, cache, record>>
  BY <1>1 DEF Restart, RestartFrom
<1>3. \A u \in Accounts : OwnWrites(queue'[Phone][u], u, mixed')
  BY <1>2, OwnMarked
<1>4. ASSUME ~ mixed', NEW u \in Users \ hasty' PROVE StandingOf(u)'
  <2>1. u \in Accounts /\ queues[u] \in Seq(Writes(Everything))
    BY DEF Accounts
  <2>2. Standing(u, u \in unsaved', queues[u], server[UserKey(u)], Copy(u), main[Phone], record)
    BY <1>4
  <2>3. Standing(u, u \in unsaved', Unsent(Untagged(queues[u])), server[UserKey(u)], Copy(u),
                 << >>, record)
    BY <2>1, <2>2, Restarted
  <2> QED
    BY <1>2, <2>1, <2>3 DEF StandingOf, Copy
<1>5. OwnAnswers(main'[Phone])
  BY <1>2 DEF OwnAnswers
<1> QED
  BY <1>3, <1>4, <1>5 DEF HistoryInv

LEMMA TerminateStands ==
    ASSUME Held(Everything), HistoryInv, Terminate
    PROVE  HistoryInv'
<1>1. queue[Phone] \in [Accounts -> Seq(Writes(Everything))]
  BY ClientTyped
<1>2. UNCHANGED <<unsaved, hasty, mixed>> /\ Restart(queue[Phone])
  BY DEF Terminate
<1>3. ~ mixed' => \A u \in Users \ hasty' :
        Standing(u, u \in unsaved', queue[Phone][u], server[UserKey(u)], Copy(u), main[Phone],
                 record)
  BY <1>2 DEF HistoryInv, StandingOf
<1> QED
  BY <1>1, <1>2, <1>3, RestartStands DEF HistoryInv

\* A purchase is written, or is lost before it is.
LEMMA PurchaseStands ==
    ASSUME Held(Everything), HistoryInv, addItemsToPurchaseHistory, sheet = "paid",
           Backed(Everything)',
           NEW q \in {queue[Phone][user[Phone]], Append(queue[Phone][user[Phone]], HistoryWrite)}
    PROVE  /\ OwnWrites(q, user[Phone], mixed')
           /\ ~ mixed' => \A u \in Users \ hasty' :
                Standing(u, u \in unsaved', IF u = user[Phone] THEN q ELSE queue[Phone][u],
                         server[UserKey(u)], Copy(u), main[Phone], record)
<1> DEFINE buyer == user[Phone]
           own == queue[Phone][buyer]
<1>1. /\ buyer \in Users /\ HistoryWrite \in Writes(Everything)
  BY HistoryWriteGood, EverythingIsGood
<1>2. own \in Seq(Writes(Everything)) /\ OwnWrites(own, buyer, mixed')
  <2>1. OwnWrites(own, buyer, mixed)
    BY <1>1 DEF HistoryInv, Accounts
  <2>2. mixed => mixed'
    BY DEF addItemsToPurchaseHistory
  <2> QED
    BY <1>1, <2>1, <2>2, ClientTyped, OwnStill DEF Accounts
<1>3. /\ HistoryWrite.key = UserKey(buyer) /\ HistoryWrite.tag.by = buyer
      /\ mixed' \/ HistoryWrite.tag.record.of = buyer
  BY DEF HistoryWrite, HistoryUpdate, UpdateData, addItemsToPurchaseHistory
<1>4. OwnWrites(q, buyer, mixed')
  BY <1>1, <1>2, <1>3, OwnAppended
<1>5. record # NoDoc /\ toBuy \in Seq(Items)
  BY DEF addItemsToPurchaseHistory, SignedIn, Held, Sound, ListGood
<1>6. ASSUME ~ mixed', NEW u \in Users \ hasty'
      PROVE  Standing(u, u \in unsaved', IF u = buyer THEN q ELSE queue[Phone][u],
                      server[UserKey(u)], Copy(u), main[Phone], record)
  <2>1. ~ mixed /\ record.of = buyer /\ u \notin hasty /\ StandingOf(u)
        /\ unsaved' = unsaved \cup {buyer} /\ (u = buyer => u \notin unsaved)
    BY <1>6 DEF addItemsToPurchaseHistory, HistoryInv
  <2>2. CASE u # buyer
    BY <2>1, <2>2 DEF StandingOf, Standing
  <2>3. CASE u = buyer
    <3> DEFINE doc == server[UserKey(u)]
               copy == Copy(u)
               blocks == main[Phone]
               sent == record.items \o toBuy
    <3>1. TakenUp(u, own, doc, copy, blocks, record)
      BY <2>1, <2>3 DEF StandingOf, Standing
    <3>2. doc \in [items : Seq(Items)]
      BY ClientTyped
    <3>3. HistoryWrite = UpdateData(UserKey(u), [items |-> sent],
                                    [to |-> "history", by |-> u,
                                     record |-> [of |-> u, items |-> sent]])
      BY <2>1, <2>3 DEF HistoryWrite, HistoryUpdate
    <3> HIDE DEF doc, copy, blocks
    <3>4. OnItsWay(u, Append(own, HistoryWrite), doc, copy, blocks)
          /\ OnItsWay(u, own, doc, copy, blocks)
      BY <1>1, <1>2, <1>5, <2>1, <2>3, <3>1, <3>2, <3>3, PurchaseSent
    <3>5. OnItsWay(u, q, doc, copy, blocks)
      BY <2>3, <3>4
    <3> QED
      BY <2>1, <2>3, <3>5 DEF Standing, doc, copy, blocks
  <2> QED
    BY <2>2, <2>3
<1> QED
  BY <1>4, <1>6

\* A write to a basket leaves the histories as they were.
LEMMA BasketWriteStands ==
    ASSUME NEW u, NEW any, NEW open, NEW q \in Seq(Writes(Everything)),
           NEW w \in Writes(Everything), NEW doc, NEW copy, NEW blocks, NEW rec,
           w.key \in BasketKeys, ~ IsHistory(w.tag)
    PROVE  /\ OwnWrites(q, u, any) => OwnWrites(Append(q, w), u, any)
           /\ Standing(u, open, q, doc, copy, blocks, rec) =>
              Standing(u, open, Append(q, w), doc, copy, blocks, rec)
<1>1. w.key \notin UserKeys /\ w.key # UserKey(u)
  BY KeysApart
<1>2. OwnWrites(q, u, any) => OwnWrites(Append(q, w), u, any)
  BY <1>1, OwnAppended
<1>3. Standing(u, open, q, doc, copy, blocks, rec) =>
      Standing(u, open, Append(q, w), doc, copy, blocks, rec)
  BY <1>1, OtherAdded
<1> QED
  BY <1>2, <1>3

LEMMA DeleteStands ==
    ASSUME Held(Everything), HistoryInv, NEW i \in Items, deleteRow(i)
    PROVE  HistoryInv'
<1> DEFINE b == BasketOf(basket.of, basket.items \ {i})
           w == UpdateData(BasketKey(b.of), [items |-> b.items], None)
<1>1. /\ queue \in [Devices -> [Accounts -> Seq(Writes(Everything))]] /\ Phone \in Devices
      /\ user[Phone] \in Accounts
  BY ClientTyped
<1>2. basket \in [of : Users, items : SUBSET Items]
  BY DEF Held, ScreenTyped, deleteRow, Holds
<1>3. b \in [of : Users, items : SUBSET Items]
  BY <1>2 DEF BasketOf
<1>4. BasketKey(b.of) \in BasketKeys /\ [items |-> b.items] \in [items : SUBSET Items]
  BY <1>3, KeyNames
<1> HIDE DEF b
<1>5. w \in Writes(Everything) /\ w.key \in BasketKeys /\ w.tag = None
  BY <1>4 DEF UpdateData, Writes, BasketWrites, Tags, Fates
<1> HIDE DEF w
<1>6. /\ queue' = [queue EXCEPT ![Phone][user[Phone]] = Append(@, w)]
      /\ UNCHANGED <<server, cache, main, record, unsaved, hasty, mixed>>
  BY DEF deleteRow, saveBasket, WriteMutations, b, w
<1>7. \A u \in Accounts : queue'[Phone][u] \in {queue[Phone][u], Append(queue[Phone][u], w)}
  BY <1>1, <1>6
<1>8. ~ IsHistory(w.tag)
  BY <1>5 DEF IsHistory
<1>9. ASSUME NEW u \in Accounts
      PROVE  OwnWrites(queue[Phone][u], u, mixed) => OwnWrites(queue'[Phone][u], u, mixed)
  BY <1>1, <1>5, <1>7, <1>8, BasketWriteStands
<1>10. ASSUME NEW u \in Users, StandingOf(u) PROVE StandingOf(u)'
  <2> DEFINE q == queue[Phone][u]
             doc == server[UserKey(u)]
             copy == Copy(u)
             blocks == main[Phone]
  <2>1. q \in Seq(Writes(Everything)) /\ queue'[Phone][u] \in {q, Append(q, w)}
    BY <1>1, <1>7 DEF Accounts
  <2>2. Standing(u, u \in unsaved, q, doc, copy, blocks, record)
    BY <1>10 DEF StandingOf
  <2> HIDE DEF q, doc, copy, blocks
  <2>3. Standing(u, u \in unsaved, queue'[Phone][u], doc, copy, blocks, record)
    BY <1>5, <1>8, <2>1, <2>2, BasketWriteStands
  <2> QED
    BY <1>6, <2>3 DEF StandingOf, Copy, doc, copy, blocks
<1> QED
  BY <1>6, <1>9, <1>10, NoPurchase DEF HistoryInv

LEMMA TwoAppended ==
    ASSUME NEW S, NEW s \in Seq(S), NEW a \in S, NEW b \in S
    PROVE  s \o <<a, b>> = Append(Append(s, a), b)
<1>1. <<a>> \in Seq(S) /\ <<b>> \in Seq(S) /\ Append(s, a) \in Seq(S)
  OBVIOUS
<1>2. Append(Append(s, a), b) = (s \o <<a>>) \o <<b>>
  BY <1>1, AppendIsConcat
<1>3. (s \o <<a>>) \o <<b>> = s \o (<<a>> \o <<b>>)
  BY <1>1, ConcatAssociative
<1>4. <<a>> \o <<b>> = Append(<<a>>, b)
  BY <1>1, AppendIsConcat
<1>5. Append(<<a>>, b) = <<a, b>>
  <2>1. <<a>> \in Seq(S) /\ Len(<<a>>) = 1 /\ <<a>>[1] = a
    OBVIOUS
  <2>2. <<a, b>> \in Seq(S) /\ Len(<<a, b>>) = 2 /\ <<a, b>>[1] = a /\ <<a, b>>[2] = b
    OBVIOUS
  <2> DEFINE one == <<a>>
             two == <<a, b>>
             more == Append(one, b)
  <2>3. more \in Seq(S) /\ Len(more) = 2 /\ more[1] = a /\ more[2] = b
    <3> HIDE DEF one
    <3>1. one \in Seq(S) /\ Len(one) = 1 /\ one[1] = a
      BY <2>1 DEF one
    <3>2. /\ more \in Seq(S) /\ Len(more) = Len(one) + 1 /\ more[Len(one) + 1] = b
          /\ \A i \in 1 .. Len(one) : more[i] = one[i]
      BY <3>1, AppendProperties, ZenonT(60)
    <3> HIDE DEF more
    <3> QED
      BY <3>1, <3>2
  <2>4. two \in Seq(S) /\ Len(two) = 2 /\ two[1] = a /\ two[2] = b
    BY <2>2
  <2> HIDE DEF one, two, more
  <2>5. \A i \in 1 .. Len(more) : more[i] = two[i]
    BY <2>3, <2>4
  <2>6. more = two
    BY <2>3, <2>4, <2>5, SeqEqual
  <2> QED
    BY <2>6 DEF one, two, more
<1> QED
  BY <1>2, <1>3, <1>4, <1>5

LEMMA DismissStands ==
    ASSUME Held(Everything), HistoryInv, paymentDismissed, Backed(Everything)'
    PROVE  HistoryInv'
<1> DEFINE buyer == user[Phone]
           own == queue[Phone][buyer]
           sent == Append(own, HistoryWrite)
<1>1. /\ queue \in [Devices -> [Accounts -> Seq(Writes(Everything))]] /\ Phone \in Devices
      /\ buyer \in Accounts
  BY ClientTyped
<1>2. HistoryWrite \in Writes(Everything)
  BY HistoryWriteGood, EverythingIsGood DEF paymentDismissed
<1>3. EmptyingWrite \in Writes(Everything) /\ EmptyingWrite.key \in BasketKeys
      /\ EmptyingWrite.tag = [to |-> "emptied"]
  <2>1. basket \in [of : Users, items : SUBSET Items]
    BY DEF Held, ScreenTyped, paymentDismissed
  <2>2. BasketKey(basket.of) \in BasketKeys
    BY <2>1, KeyNames
  <2> QED
    BY <2>2 DEF EmptyingWrite, UpdateData, Writes, BasketWrites, Tags, Purposes, Fates
<1>4. ~ IsHistory(EmptyingWrite.tag)
  BY <1>3 DEF IsHistory
<1>5. own \in Seq(Writes(Everything)) /\ sent \in Seq(Writes(Everything))
  BY <1>1, <1>2
<1>6. own \o <<HistoryWrite, EmptyingWrite>> = Append(sent, EmptyingWrite)
  <2> DEFINE W == Writes(Everything)
             w1 == HistoryWrite
             w2 == EmptyingWrite
  <2>1. own \in Seq(W) /\ w1 \in W /\ w2 \in W
    BY <1>2, <1>3, <1>5
  <2> HIDE DEF W, own, w1, w2
  <2>2. own \o <<w1, w2>> = Append(Append(own, w1), w2)
    BY <2>1, TwoAppended
  <2> QED
    BY <2>2 DEF w1, w2
<1>7. /\ queue' = [queue EXCEPT ![Phone][buyer] = Append(sent, EmptyingWrite)]
      /\ UNCHANGED <<server, cache, main, record>>
  BY <1>6 DEF paymentDismissed, WriteTwo
<1>8. /\ OwnWrites(sent, buyer, mixed')
      /\ ~ mixed' => \A u \in Users \ hasty' :
           Standing(u, u \in unsaved', IF u = buyer THEN sent ELSE queue[Phone][u],
                    server[UserKey(u)], Copy(u), main[Phone], record)
  BY PurchaseStands DEF paymentDismissed
<1> HIDE DEF sent
<1>9. \A u \in Accounts :
         queue'[Phone][u] = IF u = buyer THEN Append(sent, EmptyingWrite) ELSE queue[Phone][u]
  BY <1>1, <1>7
<1>10. mixed => mixed'
  BY DEF paymentDismissed, addItemsToPurchaseHistory
<1>11. ASSUME NEW u \in Accounts PROVE OwnWrites(queue'[Phone][u], u, mixed')
  <2>1. CASE u = buyer
    BY <1>3, <1>4, <1>5, <1>8, <1>9, <2>1, BasketWriteStands
  <2>2. CASE u # buyer
    <3>1. OwnWrites(queue[Phone][u], u, mixed)
      BY DEF HistoryInv
    <3> QED
      BY <1>9, <1>10, <2>2, <3>1, OwnStill
  <2> QED
    BY <2>1, <2>2
<1>12. ASSUME ~ mixed', NEW u \in Users \ hasty' PROVE StandingOf(u)'
  <2> DEFINE open == u \in unsaved'
             doc == server[UserKey(u)]
             copy == Copy(u)
             blocks == main[Phone]
             q == IF u = buyer THEN sent ELSE queue[Phone][u]
  <2>1. Standing(u, open, q, doc, copy, blocks, record)
    BY <1>8, <1>12
  <2>2. queue'[Phone][u] = IF u = buyer THEN Append(sent, EmptyingWrite) ELSE queue[Phone][u]
    BY <1>9 DEF Accounts
  <2>3. StandingOf(u)' = Standing(u, open, queue'[Phone][u], doc, copy, blocks, record)
    BY <1>7 DEF StandingOf, Copy
  <2>4. q = IF u = buyer THEN sent ELSE queue[Phone][u]
    OBVIOUS
  <2> HIDE DEF open, doc, copy, blocks, q
  <2>5. Standing(u, open, queue'[Phone][u], doc, copy, blocks, record)
    <3>1. CASE u = buyer
      <4>1. q \in Seq(Writes(Everything)) /\ queue'[Phone][u] = Append(q, EmptyingWrite)
        BY <1>5, <2>2, <2>4, <3>1
      <4> QED
        BY <1>3, <1>4, <2>1, <4>1, BasketWriteStands
    <3>2. CASE u # buyer
      BY <2>1, <2>2, <2>4, <3>2
    <3> QED
      BY <3>1, <3>2
  <2> QED
    BY <2>3, <2>5
<1>13. ~ mixed' => OwnAnswers(main'[Phone])
  BY <1>7, <1>10 DEF HistoryInv
<1> QED
  BY <1>11, <1>12, <1>13 DEF HistoryInv

LEMMA DismissTrapStands ==
    ASSUME Held(Everything), HistoryInv, paymentDismissedTraps, Backed(Everything)'
    PROVE  HistoryInv'
<1> DEFINE buyer == user[Phone]
           own == queue[Phone][buyer]
<1>1. /\ queue[Phone] \in [Accounts -> Seq(Writes(Everything))] /\ buyer \in Accounts
  BY ClientTyped
<1>2. PICK q \in {own, Append(own, HistoryWrite)} : Restart([queue[Phone] EXCEPT ![buyer] = q])
  <2>1. queue[Phone] = [queue[Phone] EXCEPT ![buyer] = own]
    BY <1>1
  <2> QED
    BY <2>1 DEF paymentDismissedTraps
<1> DEFINE queues == [queue[Phone] EXCEPT ![buyer] = q]
<1>3. HistoryWrite \in Writes(Everything)
  BY HistoryWriteGood, EverythingIsGood DEF paymentDismissedTraps
<1>4. q \in Seq(Writes(Everything))
  BY <1>1, <1>3
<1>5. queues \in [Accounts -> Seq(Writes(Everything))]
      /\ \A u \in Accounts : queues[u] = IF u = buyer THEN q ELSE queue[Phone][u]
  BY <1>1, <1>4
<1>6. /\ OwnWrites(q, buyer, mixed')
      /\ ~ mixed' => \A u \in Users \ hasty' :
           Standing(u, u \in unsaved', IF u = buyer THEN q ELSE queue[Phone][u],
                    server[UserKey(u)], Copy(u), main[Phone], record)
  BY PurchaseStands DEF paymentDismissedTraps
<1>7. Restart(queues)
  BY <1>2
<1> HIDE DEF queues, own, buyer
<1>8. \A u \in Accounts : OwnWrites(queues[u], u, mixed')
  <2>1. (mixed => mixed') /\ \A u \in Accounts : OwnWrites(queue[Phone][u], u, mixed)
    BY DEF paymentDismissedTraps, addItemsToPurchaseHistory, HistoryInv
  <2>2. \A u \in Accounts : OwnWrites(queue[Phone][u], u, mixed')
    BY <2>1, OwnStill
  <2> QED
    BY <1>5, <1>6, <2>2
<1>9. ~ mixed' => \A u \in Users \ hasty' :
        Standing(u, u \in unsaved', queues[u], server[UserKey(u)], Copy(u), main[Phone], record)
  BY <1>5, <1>6 DEF Accounts
<1> QED
  BY <1>5, <1>7, <1>8, <1>9, RestartStands

--------------------------------------------------------------------------------
(* The reads.                                                              *)

LEMMA AnswersKept ==
    ASSUME NEW B, NEW blocks \in Seq(B), OwnAnswers(blocks)
    PROVE  /\ \A b : OwnAnswer(b) => OwnAnswers(Append(blocks, b))
           /\ blocks # << >> => OwnAnswers(Tail(blocks))
<1>1. ASSUME NEW b, OwnAnswer(b) PROVE OwnAnswers(Append(blocks, b))
  <2> DEFINE blocks2 == Append(blocks, b)
  <2>1. /\ DOMAIN blocks2 = DOMAIN blocks \cup {Len(blocks) + 1}
        /\ \A n \in DOMAIN blocks : blocks2[n] = blocks[n]
        /\ blocks2[Len(blocks) + 1] = b
    BY Joined
  <2> SUFFICES OwnAnswers(blocks2)
    OBVIOUS
  <2> HIDE DEF blocks2
  <2> QED
    BY <1>1, <2>1 DEF OwnAnswers
<1>2. ASSUME blocks # << >> PROVE OwnAnswers(Tail(blocks))
  <2>1. \A n \in DOMAIN Tail(blocks) : n + 1 \in DOMAIN blocks /\ Tail(blocks)[n] = blocks[n + 1]
    BY <1>2, TailOf
  <2> QED
    BY <2>1 DEF OwnAnswers
<1> QED
  BY <1>1, <1>2

\* Without a pending write to a document, a read sees the base.
LEMMA ReadsBase ==
    ASSUME NEW base \in [items : Seq(Items)], NEW ws \in Seq(Writes(Everything)), NEW k,
           \A i \in DOMAIN ws : ws[i].key # k, LocalDoc(base, ws, k) # NoDoc
    PROVE  LocalDoc(base, ws, k) = base
<1> DEFINE doc == LocalDoc(base, ws, k)
<1>1. Fields = {"items"}
  BY CheckoutAssumption
<1>2. doc["items"] = base["items"]
  BY <1>1, LocalDocField DEF Touches
<1>3. doc = [g \in Fields |-> doc[g]]
  BY LocalDocShape
<1> HIDE DEF doc
<1>4. doc = [items |-> base.items] /\ base = [items |-> base.items]
  BY <1>1, <1>2, <1>3
<1> QED
  BY <1>4 DEF doc

\* The user document that a read hands to the app is the one in the base, if no
\* purchase of that account is pending.
LEMMA ReadsOwn ==
    ASSUME Held(Everything), HistoryInv, NEW u \in Users, Ours(queue[Phone][u], u) = {},
           NEW base, base[UserKey(u)] \in [items : Seq(Items)],
           LocalView(Phone, base)[UserKey(u)] # NoDoc
    PROVE  LocalView(Phone, base)[UserKey(u)] = base[UserKey(u)]
<1> DEFINE v == user[Phone]
           ws == queue[Phone][v]
<1>1. v \in Accounts /\ ws \in Seq(Writes(Everything)) /\ UserKey(u) \in Keys
  BY ClientTyped
<1>2. \A i \in DOMAIN ws : ws[i].key # UserKey(u)
  <2>1. CASE u = v
    BY <2>1 DEF Ours
  <2>2. CASE u # v
    <3>1. UserKey(u) \in UserKeys /\ UserKey(u) # UserKey(v)
      BY <2>2, KeyNames, KeysApart
    <3>2. OwnWrites(ws, v, mixed)
      BY <1>1 DEF HistoryInv
    <3> QED
      BY <3>1, <3>2 DEF OwnWrites
  <2> QED
    BY <2>1, <2>2
<1>3. LocalView(Phone, base)[UserKey(u)] = LocalDoc(base[UserKey(u)], ws, UserKey(u))
  BY <1>1 DEF LocalView, pending
<1> HIDE DEF ws
<1> QED
  BY <1>1, <1>2, <1>3, ReadsBase

\* What a read of document k from the server does to a queue (Fetch).
Marked(q, k) ==
    [i \in DOMAIN q |-> IF q[i].fate = "committed" /\ q[i].key \in {k}
                        THEN [q[i] EXCEPT !.fate = "known"] ELSE q[i]]

\* The writes to u's user document, before and after a read that may have been of k.
Read(q, q2, u, k, any) ==
    /\ OwnWrites(q, u, any) => OwnWrites(q2, u, any)
    /\ Ours(q2, u) = Ours(q, u)
    /\ \A n \in Ours(q, u) :
         /\ q2[n].fields = q[n].fields /\ q2[n].tag = q[n].tag
         /\ q2[n].fate \in Accepted => q[n].fate \in Accepted
         /\ q2[n].fate = "known" => q[n].fate = "known" \/ UserKey(u) = k

LEMMA ReadMarks ==
    ASSUME NEW u, NEW any, NEW q \in Seq(Writes(Everything)), NEW k
    PROVE  Read(q, Marked(q, k), u, k, any)
<1> DEFINE q2 == Marked(q, k)
<1>1. \A n \in DOMAIN q :
         /\ q2[n].key = q[n].key /\ q2[n].fields = q[n].fields /\ q2[n].tag = q[n].tag
         /\ q2[n].fate \in Accepted => q[n].fate \in Accepted
         /\ q2[n].fate = "known" => q[n].fate = "known" \/ q[n].key = k
  BY DEF Marked, Writes, BasketWrites, HistoryWrites, Accepted
<1>2. DOMAIN q2 = DOMAIN q
  BY DEF Marked
<1> SUFFICES Read(q, q2, u, k, any)
  OBVIOUS
<1> HIDE DEF q2
<1>3. OwnWrites(q, u, any) => OwnWrites(q2, u, any)
  BY <1>1, <1>2 DEF OwnWrites
<1>4. Ours(q2, u) = Ours(q, u) /\ \A n \in Ours(q, u) : n \in DOMAIN q /\ q[n].key = UserKey(u)
  BY <1>1, <1>2 DEF Ours
<1> QED
  BY <1>1, <1>3, <1>4 DEF Read

LEMMA ReadStands ==
    ASSUME Held(Everything), HistoryInv, NEW n \in DOMAIN reads, docRead(n)
    PROVE  HistoryInv'
<1> DEFINE ask == reads[n]
           With(base) == [ask EXCEPT !.doc = LocalView(Phone, base)[ask.key]]
<1>1. /\ queue \in [Devices -> [Accounts -> Seq(Writes(Everything))]] /\ Phone \in Devices
      /\ main \in [Devices -> Seq(Blocks(Everything))]
      /\ cache \in [Devices -> Views(Documents(Everything))]
  BY ClientTyped
<1>2. ask \in Asks
  BY DEF Held, ScreenTyped
<1>3. ask.kind # "written" /\ ask.doc = NoDoc /\ ask = [ask EXCEPT !.doc = ask.doc]
      /\ \A doc : LET b == [ask EXCEPT !.doc = doc] IN
            b.kind = ask.kind /\ b.key = ask.key /\ b.doc = doc
  BY <1>2 DEF Asks
<1>4. /\ UNCHANGED <<server, user, record, unsaved, hasty, mixed>>
      /\ \/ Fetch(Phone, {ask.key}) /\ Reply(With(cache'[Phone]))
         \/ Reply(With(cache[Phone])) /\ UNCHANGED <<cache, queue>>
         \/ Reply(ask) /\ UNCHANGED <<cache, queue>>
  BY DEF docRead, past
<1>5. PICK doc :
         /\ main' = [main EXCEPT ![Phone] = Append(@, [ask EXCEPT !.doc = doc])]
         /\ doc = NoDoc \/ doc = LocalView(Phone, cache'[Phone])[ask.key]
         /\ Fetch(Phone, {ask.key}) \/ UNCHANGED <<cache, queue>>
  <2>1. CASE Fetch(Phone, {ask.key}) /\ Reply(With(cache'[Phone]))
    BY <2>1 DEF Reply
  <2>2. CASE Reply(With(cache[Phone])) /\ UNCHANGED <<cache, queue>>
    BY <2>2 DEF Reply
  <2>3. CASE Reply(ask) /\ UNCHANGED <<cache, queue>>
    <3>1. main' = [main EXCEPT ![Phone] = Append(@, [ask EXCEPT !.doc = NoDoc])]
      BY <1>3, <2>3 DEF Reply
    <3> QED
      BY <2>3, <3>1
  <2> QED
    BY <1>4, <2>1, <2>2, <2>3
<1> DEFINE b == [ask EXCEPT !.doc = doc]
<1>6. b.kind = ask.kind /\ b.key = ask.key /\ b.doc = doc
  BY <1>3
<1>7. main'[Phone] = Append(main[Phone], b)
  BY <1>1, <1>5
<1> HIDE DEF b, ask
<1>8. Fetch(Phone, {ask.key}) \/ UNCHANGED <<cache, queue>>
  BY <1>5
<1>9. ASSUME NEW u \in Accounts
      PROVE  \/ Fetch(Phone, {ask.key}) /\ queue'[Phone][u] = Marked(queue[Phone][u], ask.key)
             \/ UNCHANGED <<cache, queue>>
  <2>1. CASE Fetch(Phone, {ask.key})
    <3>1. queue' = [queue EXCEPT ![Phone] =
                        [v \in Accounts |-> Marked(queue[Phone][v], ask.key)]]
      BY <2>1 DEF Fetch, Marked
    <3>2. queue'[Phone] = [v \in Accounts |-> Marked(queue[Phone][v], ask.key)]
      BY <1>1, <3>1
    <3> QED
      BY <2>1, <3>2
  <2> QED
    BY <1>8, <2>1
<1>10. ASSUME NEW u \in Accounts
       PROVE  OwnWrites(queue[Phone][u], u, mixed) => OwnWrites(queue'[Phone][u], u, mixed)
  <2> DEFINE q == queue[Phone][u]
  <2>1. q \in Seq(Writes(Everything))
    BY <1>1
  <2> HIDE DEF q
  <2>2. OwnWrites(q, u, mixed) => OwnWrites(Marked(q, ask.key), u, mixed)
    BY <2>1, ReadMarks DEF Read
  <2> QED
    BY <1>9, <2>2 DEF q
<1>11. ASSUME NEW u \in Users
      PROVE  /\ Fetch(Phone, {ask.key}) =>
                  cache'[Phone][UserKey(u)] =
                     IF UserKey(u) = ask.key THEN server[UserKey(u)] ELSE Copy(u)
             /\ UNCHANGED cache => cache'[Phone][UserKey(u)] = Copy(u)
  <2>1. UserKey(u) \in Keys
    BY ClientTyped
  <2> QED
    BY <1>1, <2>1 DEF Fetch, Copy
<1>12. ASSUME NEW u \in Users, StandingOf(u) PROVE StandingOf(u)'
  <2> DEFINE open == u \in unsaved
             q == queue[Phone][u]
             q2 == queue'[Phone][u]
             server_ == server[UserKey(u)]
             copy == Copy(u)
             copy2 == cache'[Phone][UserKey(u)]
             blocks == main[Phone]
  <2>1. Standing(u, open, q, server_, copy, blocks, record)
    BY <1>12 DEF StandingOf
  <2>2. StandingOf(u)' = Standing(u, open, q2, server_, copy2, Append(blocks, b), record)
    BY <1>4, <1>7 DEF StandingOf, Copy
  <2>3. \/ q2 = Marked(q, ask.key) /\ copy2 = IF UserKey(u) = ask.key THEN server_ ELSE copy
        \/ q2 = q /\ copy2 = copy
    BY <1>9, <1>11 DEF Accounts
  <2>4. q \in Seq(Writes(Everything)) /\ blocks \in Seq(Blocks(Everything))
    BY <1>1 DEF Accounts
  <2>5. /\ Ours(q2, u) = Ours(q, u) /\ copy2 \in {copy, server_}
        /\ \A i \in Ours(q, u) :
             /\ q2[i].fields = q[i].fields /\ q2[i].tag = q[i].tag
             /\ q2[i].fate \in Accepted => q[i].fate \in Accepted
             /\ q2[i].fate = "known" => q[i].fate = "known" \/ copy2 = server_
    <3> HIDE DEF q, q2, copy, copy2, server_
    <3>1. Read(q, Marked(q, ask.key), u, ask.key, TRUE)
      BY <2>4, ReadMarks
    <3> QED
      BY <2>3, <3>1 DEF Read
  <2>6. ASSUME Brings(b, u), copy2 = server_, Ours(q2, u) = {}
        PROVE  b.doc = server_
    <3>1. ask.key = UserKey(u) /\ doc # NoDoc /\ b.doc = LocalView(Phone, cache'[Phone])[UserKey(u)]
      BY <1>5, <1>6, <2>6 DEF Brings
    <3>2. Ours(queue[Phone][u], u) = {}
      BY <2>5, <2>6
    <3>3. server[UserKey(u)] \in [items : Seq(Items)]
      BY ClientTyped
    <3> QED
      BY <1>6, <2>6, <3>1, <3>2, <3>3, ReadsOwn
  <2> HIDE DEF open, q, q2, server_, copy, copy2, blocks
  <2>7. Standing(u, open, q2, server_, copy2, blocks, record)
    BY <2>1, <2>5, WritesKept
  <2>8. ~ Answers(b, u)
    BY <1>3, <1>6 DEF Answers
  <2>9. Standing(u, open, q2, server_, copy2, Append(blocks, b), record)
    BY <2>4, <2>6, <2>7, <2>8, BlockAdded
  <2> QED
    BY <2>2, <2>9
<1>13. ~ mixed => OwnAnswers(main'[Phone])
  <2>1. OwnAnswer(b)
    BY <1>3, <1>6 DEF OwnAnswer
  <2> QED
    BY <1>1, <1>7, <2>1, AnswersKept DEF HistoryInv
<1> QED
  BY <1>4, <1>10, <1>12, <1>13, NoPurchase

--------------------------------------------------------------------------------
(* The server and its answers.                                             *)

\* Every write is an update of the one field there is.
LEMMA WriteTyped ==
    ASSUME NEW w \in Writes(Everything)
    PROVE  /\ w.op = "update" /\ w.key \in BasketKeys \cup UserKeys
           /\ w.key \in UserKeys => w.fields \in [items : Seq(Items)]
           /\ w.tag # None => (w.tag \in Purposes(Everything))
BY KeysApart DEF Writes, BasketWrites, HistoryWrites, Tags

LEMMA HistoryApplied ==
    ASSUME NEW w \in Writes(Everything), w.key \in UserKeys, NEW doc \in [items : Seq(Items)]
    PROVE  Applied(w, doc) = [items |-> w.fields.items] /\ w.fields.items \in Seq(Items)
<1>1. w.op = "update" /\ w.fields \in [items : Seq(Items)]
  BY WriteTyped
<1>2. doc # NoDoc
  BY CheckoutAssumption
<1>3. w.fields \in [items : {w.fields.items}]
  BY <1>1
<1>4. (Applied(w, doc) = NoDoc /\ doc = NoDoc) \/ Applied(w, doc) \in [items : {w.fields.items}]
  BY <1>1, <1>3, UpdateApplied
<1> QED
  BY <1>1, <1>2, <1>4

\* The server decides about a write (Decide).
Decided(q, i, fate) == [q EXCEPT ![i].fate = fate]

SameBut(q, q2, i, fate) ==
    /\ DOMAIN q2 = DOMAIN q /\ \A n \in DOMAIN q : n # i => q2[n] = q[n]
    /\ \A n \in DOMAIN q :
         q2[n].key = q[n].key /\ q2[n].fields = q[n].fields /\ q2[n].tag = q[n].tag
    /\ q2[i].fate = fate

LEMMA DecisionMarks ==
    ASSUME NEW q \in Seq(Writes(Everything)), NEW i \in DOMAIN q, NEW fate
    PROVE  SameBut(q, Decided(q, i, fate), i, fate)
BY DEF Decided, SameBut, Writes, BasketWrites, HistoryWrites

\* A purchase of u is stored: the list that was sent is the server's now.
LEMMA StoredIsOnItsWay ==
    ASSUME NEW u, NEW open, NEW q \in Seq(Writes(Everything)), NEW i \in DOMAIN q,
           q[i].key = UserKey(u), q[i].fields.items \in Seq(Items),
           NEW doc, NEW copy, NEW blocks, NEW rec,
           Standing(u, open, q, doc, copy, blocks, rec)
    PROVE  /\ Standing(u, open, Decided(q, i, "committed"),
                       [items |-> q[i].fields.items], copy, blocks, rec)
           /\ Covers(q[i].fields.items, doc.items)
<1> DEFINE q2 == Decided(q, i, "committed")
           doc2 == [items |-> q[i].fields.items]
<1>1. /\ DOMAIN q2 = DOMAIN q
      /\ \A n \in DOMAIN q :
           q2[n].key = q[n].key /\ q2[n].fields = q[n].fields /\ q2[n].tag = q[n].tag
      /\ q2[i].fate = "committed"
  BY DecisionMarks DEF SameBut
<1>2. doc2.items = q[i].fields.items
  OBVIOUS
<1> SUFFICES Standing(u, open, q2, doc2, copy, blocks, rec) /\ Covers(q[i].fields.items, doc.items)
  OBVIOUS
<1> HIDE DEF q2, doc2
<1>3. i \in Ours(q, u)
  BY DEF Ours
<1>4. open /\ OnItsWay(u, q, doc, copy, blocks)
  BY <1>3 DEF Standing, TakenUp
<1>5. Ours(q2, u) = Ours(q, u) /\ \A n \in Ours(q, u) : n = i
  <2>1. Ours(q2, u) = Ours(q, u)
    BY <1>1 DEF Ours
  <2> QED
    BY <1>3, <1>4, <2>1 DEF OnItsWay
<1>6. Covers(q[i].fields.items, doc.items)
      /\ (IsHistory(q[i].tag) => q[i].tag.record = [of |-> u, items |-> q[i].fields.items])
  BY <1>3, <1>4 DEF OnItsWay
<1>7. \A n \in DOMAIN blocks : ~ Answers(blocks[n], u)
  BY <1>3, <1>4 DEF OnItsWay, AnswerWaits
<1>8. Covers(q[i].fields.items, doc2.items)
  BY <1>2, CoversItself
<1>9. OnItsWay(u, q2, doc2, copy, blocks)
  BY <1>1, <1>2, <1>3, <1>5, <1>6, <1>7, <1>8 DEF OnItsWay
<1> QED
  BY <1>4, <1>6, <1>9 DEF Standing

LEMMA DecisionStands ==
    ASSUME Held(Everything), HistoryInv, NEW i \in DOMAIN pending(Phone),
           CommitWrite(Phone, i) \/ RefuseWrite(Phone, i),
           UNCHANGED <<record, unsaved, hasty, mixed>>
    PROVE  /\ HistoryInv'
           /\ ~ mixed => \A u \in Users \ hasty :
                UNCHANGED server[UserKey(u)] \/ Covers(server'[UserKey(u)].items,
                                                       server[UserKey(u)].items)
<1> DEFINE v == user[Phone]
           own == queue[Phone][v]
           w == own[i]
           fate == IF CommitWrite(Phone, i) THEN "committed" ELSE "refused"
           own2 == Decided(own, i, fate)
<1>1. /\ queue \in [Devices -> [Accounts -> Seq(Writes(Everything))]] /\ Phone \in Devices
      /\ v \in Accounts
  BY ClientTyped
<1>2. own \in Seq(Writes(Everything)) /\ i \in DOMAIN own /\ w \in Writes(Everything)
  BY <1>1 DEF pending
<1>3. /\ queue' = [queue EXCEPT ![Phone][v][i].fate = fate] /\ UNCHANGED <<cache, main>>
      /\ server' = IF fate = "committed" THEN [server EXCEPT ![w.key] = Applied(w, server[w.key])]
                   ELSE server
  BY DEF CommitWrite, RefuseWrite, Decide, pending
<1>4. \A u \in Accounts : queue'[Phone][u] = IF u = v THEN own2 ELSE queue[Phone][u]
  BY <1>1, <1>2, <1>3 DEF Decided
<1>5. /\ DOMAIN own2 = DOMAIN own /\ \A n \in DOMAIN own : n # i => own2[n] = own[n]
      /\ \A n \in DOMAIN own :
           own2[n].key = own[n].key /\ own2[n].fields = own[n].fields /\ own2[n].tag = own[n].tag
      /\ own2[i].fate = fate
  BY <1>2, DecisionMarks DEF SameBut
<1>6. fate \in {"committed", "refused"}
  OBVIOUS
<1> HIDE DEF own, own2, w, v, fate
<1>7. ASSUME NEW u \in Accounts, OwnWrites(queue[Phone][u], u, mixed)
      PROVE  OwnWrites(queue'[Phone][u], u, mixed)
  <2>1. CASE u = v
    <3>1. OwnWrites(own, v, mixed)
      BY <1>7, <2>1 DEF own
    <3>2. OwnWrites(own2, v, mixed)
      BY <1>5, <3>1 DEF OwnWrites
    <3> QED
      BY <1>4, <2>1, <3>2
  <2>2. CASE u # v
    BY <1>4, <1>7, <2>2
  <2> QED
    BY <2>1, <2>2
<1>8. OwnWrites(own, v, mixed)
  BY <1>1 DEF HistoryInv, own
<1>9. ASSUME NEW u \in Users, StandingOf(u)
      PROVE  /\ StandingOf(u)'
             /\ UNCHANGED server[UserKey(u)] \/ Covers(server'[UserKey(u)].items,
                                                       server[UserKey(u)].items)
  <2> DEFINE open == u \in unsaved
             q == queue[Phone][u]
             q2 == queue'[Phone][u]
             doc == server[UserKey(u)]
             doc2 == server'[UserKey(u)]
             copy == Copy(u)
             blocks == main[Phone]
  <2>1. Standing(u, open, q, doc, copy, blocks, record)
    BY <1>9 DEF StandingOf
  <2>2. StandingOf(u)' = Standing(u, open, q2, doc2, copy, blocks, record)
    BY <1>3 DEF StandingOf, Copy
  <2>3. q2 = (IF u = v THEN own2 ELSE q) /\ (u = v => q = own) /\ q \in Seq(Writes(Everything))
    BY <1>1, <1>4 DEF Accounts, own
  <2>4. doc \in [items : Seq(Items)] /\ UserKey(u) \in Keys /\ UserKey(u) \in UserKeys
    BY ClientTyped, KeyNames
  <2>5. w = own[i]
    BY DEF w
  <2>6. server \in [Keys -> UNION {Documents(Everything)[k] : k \in Keys}]
    BY DEF Held, Sound, ClientOK, ClientHolds, Views
  <2>7. doc2 = IF w.key = UserKey(u) /\ fate = "committed" THEN Applied(w, doc) ELSE doc
    BY <1>3, <2>4, <2>6
  <2> HIDE DEF open, q, q2, doc, doc2, copy, blocks
  <2>8. w.key = UserKey(u) => u = v
    BY <1>2, <1>8, <2>4, <2>5, KeysApart DEF OwnWrites
  <2>9. CASE w.key = UserKey(u) /\ fate = "committed"
    <3>1. doc2 = [items |-> w.fields.items] /\ w.fields.items \in Seq(Items)
      BY <1>2, <2>4, <2>7, <2>9, HistoryApplied
    <3>2. q = own /\ q2 = Decided(own, i, "committed")
      BY <2>3, <2>8, <2>9 DEF own2
    <3>3. /\ Standing(u, open, q2, doc2, copy, blocks, record)
          /\ Covers(w.fields.items, doc.items)
      BY <1>2, <2>1, <2>5, <2>9, <3>1, <3>2, StoredIsOnItsWay
    <3>4. Covers(doc2.items, doc.items)
      BY <3>1, <3>3
    <3> QED
      BY <2>2, <3>3, <3>4 DEF doc, doc2
  <2>10. CASE w.key # UserKey(u) \/ fate = "refused"
    <3>1. doc2 = doc
      BY <2>7, <2>10
    <3>2. Ours(q2, u) = Ours(q, u) /\ \A n \in Ours(q, u) : n \in DOMAIN q /\ q[n].key = UserKey(u)
      BY <1>5, <2>3 DEF Ours
    <3>3. \A n \in Ours(q, u) :
             /\ q2[n].fields = q[n].fields /\ q2[n].tag = q[n].tag
             /\ q2[n].fate = q[n].fate \/ q2[n].fate = "refused"
      BY <1>5, <2>3, <2>5, <2>10, <3>2
    <3>4. Standing(u, open, q2, doc, copy, blocks, record)
      BY <2>1, <3>2, <3>3, WritesKept DEF Accepted
    <3> QED
      BY <2>2, <3>1, <3>4 DEF doc, doc2
  <2> QED
    BY <1>6, <2>9, <2>10
<1>10. HistoryInv'
  BY <1>3, <1>7, <1>9, NoPurchase DEF HistoryInv
<1> QED
  BY <1>9, <1>10 DEF HistoryInv

\* The first write of a queue leaves it.
LEMMA FirstGone ==
    ASSUME NEW u, NEW any, NEW W, NEW q \in Seq(W), q # << >>
    PROVE  /\ OwnWrites(q, u, any) => OwnWrites(Tail(q), u, any)
           /\ \A n \in Ours(Tail(q), u) : n + 1 \in Ours(q, u) /\ Tail(q)[n] = q[n + 1]
           /\ \A n \in Ours(q, u) : n # 1 => n - 1 \in Ours(Tail(q), u)
           /\ Ours(q, u) = {} => Ours(Tail(q), u) = {}
<1>1. /\ \A n \in DOMAIN Tail(q) : n + 1 \in DOMAIN q /\ Tail(q)[n] = q[n + 1] /\ n \in Nat \ {0}
      /\ \A n \in DOMAIN q : n # 1 => n - 1 \in DOMAIN Tail(q) /\ Tail(q)[n - 1] = q[n]
  BY TailOf
<1>2. OwnWrites(q, u, any) => OwnWrites(Tail(q), u, any)
  BY <1>1 DEF OwnWrites
<1> QED
  BY <1>1, <1>2 DEF Ours

\* The answer to another write arrives.
LEMMA OtherAnswered ==
    ASSUME NEW u, NEW open, NEW W, NEW q \in Seq(W), q # << >>, Head(q).key # UserKey(u),
           NEW doc, NEW copy, NEW blocks, NEW rec, Standing(u, open, q, doc, copy, blocks, rec)
    PROVE  Standing(u, open, Tail(q), doc, copy, blocks, rec)
<1> DEFINE q2 == Tail(q)
<1> SUFFICES Standing(u, open, q2, doc, copy, blocks, rec)
  OBVIOUS
<1>1. /\ \A n \in Ours(q2, u) : n + 1 \in Ours(q, u) /\ q2[n] = q[n + 1] /\ n \in Nat
      /\ Ours(q, u) = {} => Ours(q2, u) = {}
  <2>1. \A n \in Ours(q2, u) : n \in Nat
    BY TailOf DEF Ours
  <2> QED
    BY <2>1, FirstGone
<1> HIDE DEF q2
<1>2. CASE ~ open
  BY <1>1, <1>2 DEF Standing, TakenUp
<1>3. CASE open
  <2>1. OnItsWay(u, q, doc, copy, blocks)
    BY <1>3 DEF Standing
  <2>2. \A m, n \in Ours(q2, u) : m = n
    <3> SUFFICES ASSUME NEW m \in Ours(q2, u), NEW n \in Ours(q2, u) PROVE m = n
      OBVIOUS
    <3>1. m + 1 = n + 1
      BY <1>1, <2>1 DEF OnItsWay
    <3> QED
      BY <1>1, <3>1
  <2>3. \A n \in DOMAIN blocks : AnswerWaits(n, u, q, doc, copy, blocks) =>
                                 AnswerWaits(n, u, q2, doc, copy, blocks)
    BY <1>1 DEF AnswerWaits
  <2>4. OnItsWay(u, q2, doc, copy, blocks)
    BY <1>1, <2>1, <2>2, <2>3 DEF OnItsWay
  <2> QED
    BY <1>3, <2>4 DEF Standing
<1> QED
  BY <1>2, <1>3

\* The answer to a purchase of u arrives: if the server took the list, the phone's copy
\* has it now, and so will the record.
LEMMA PurchaseAnswered ==
    ASSUME NEW u \in Users, NEW open, NEW q \in Seq(Writes(Everything)), q # << >>,
           Head(q).key = UserKey(u),
           NEW doc \in [items : Seq(Items)], NEW copy \in [items : Seq(Items)],
           NEW B, NEW blocks \in Seq(B), NEW rec,
           Standing(u, open, q, doc, copy, blocks, rec),
           NEW copy2,
           copy2 = IF Head(q).fate = "committed" THEN Applied(Head(q), copy) ELSE copy,
           NEW blocks2 \in {blocks, Append(blocks, Written(Head(q)))}
    PROVE  Standing(u, open, Tail(q), doc, copy2, blocks2, rec)
<1> DEFINE w == Head(q)
           q2 == Tail(q)
           b == Written(w)
<1>1. w = q[1] /\ 1 \in DOMAIN q /\ w \in Writes(Everything)
  OBVIOUS
<1>2. \A n \in Ours(q2, u) : n + 1 \in Ours(q, u) /\ n + 1 # 1
  <2>1. \A n \in Ours(q2, u) : n \in Nat \ {0}
    BY TailOf DEF Ours
  <2>2. \A n \in Ours(q2, u) : n + 1 \in Ours(q, u)
    BY FirstGone
  <2> HIDE DEF q2
  <2> QED
    BY <2>1, <2>2
<1> SUFFICES Standing(u, open, q2, doc, copy2, blocks2, rec)
  OBVIOUS
<1>3. b.kind = "written" /\ b.tag = w.tag /\ (b.ok <=> w.fate \in Accepted)
  BY DEF Written
<1>4. w.key = UserKey(u) /\ blocks2 \in {blocks, Append(blocks, b)}
      /\ copy2 = IF w.fate = "committed" THEN Applied(w, copy) ELSE copy
  OBVIOUS
<1> HIDE DEF w, q2, b
<1>5. 1 \in Ours(q, u)
  BY <1>1, <1>4 DEF Ours
<1>6. open /\ OnItsWay(u, q, doc, copy, blocks)
  BY <1>5 DEF Standing, TakenUp
<1>7. Ours(q2, u) = {}
  BY <1>2, <1>5, <1>6 DEF OnItsWay
<1>8. \A n \in DOMAIN blocks : ~ Answers(blocks[n], u)
  BY <1>5, <1>6 DEF OnItsWay, AnswerWaits
<1>9. /\ IsHistory(w.tag) => w.tag.record = [of |-> u, items |-> w.fields.items]
      /\ w.fate \in Accepted => w.fields.items = doc.items
      /\ w.fate = "known" => copy = doc
  BY <1>1, <1>5, <1>6 DEF OnItsWay
<1>10. w.fate \in Accepted => copy2 = doc
  <2>1. CASE w.fate = "committed"
    <3>1. Applied(w, copy) = [items |-> w.fields.items]
      BY <1>1, <1>4, KeyNames, HistoryApplied
    <3>2. w.fields.items = doc.items /\ doc = [items |-> doc.items]
      BY <1>9, <2>1 DEF Accepted
    <3> QED
      BY <1>4, <2>1, <3>1, <3>2
  <2>2. CASE w.fate # "committed"
    BY <1>4, <1>9, <2>2 DEF Accepted
  <2> QED
    BY <2>1, <2>2
<1>11. CASE blocks2 = blocks
  BY <1>6, <1>7, <1>8, <1>11 DEF Standing, OnItsWay
<1>12. CASE blocks2 = Append(blocks, b)
  <2>1. /\ DOMAIN blocks2 = DOMAIN blocks \cup {Len(blocks) + 1}
        /\ \A n \in DOMAIN blocks : blocks2[n] = blocks[n]
        /\ blocks2[Len(blocks) + 1] = b
    BY <1>12, Joined
  <2>2. \A n \in DOMAIN blocks : ~ (n > Len(blocks) + 1)
    OBVIOUS
  <2>3. Len(blocks) + 1 \in Nat
    OBVIOUS
  <2> DEFINE last == Len(blocks) + 1
  <2> HIDE DEF last
  <2>4. \A n \in DOMAIN blocks2 : Answers(blocks2[n], u) => n = last
    BY <1>8, <2>1 DEF last
  <2>5. \A m \in DOMAIN blocks2 : ~ (m > last)
    BY <2>1, <2>2, <2>3 DEF last
  <2>6. blocks2[last] = b
    BY <2>1 DEF last
  <2>7. Answers(b, u) => AnswerWaits(last, u, q2, doc, copy2, blocks2)
    BY <1>3, <1>7, <1>9, <1>10, <2>4, <2>5, <2>6 DEF AnswerWaits, Answers
  <2>8. OnItsWay(u, q2, doc, copy2, blocks2)
    BY <1>7, <2>4, <2>6, <2>7 DEF OnItsWay
  <2> QED
    BY <1>6, <2>8 DEF Standing
<1> QED
  BY <1>4, <1>11, <1>12

\* The client learns what became of the write that it sent first.
LEMMA AnswerStands ==
    ASSUME Held(Everything), HistoryInv, Acknowledge(Phone),
           UNCHANGED <<record, unsaved, hasty, mixed>>
    PROVE  HistoryInv'
<1> DEFINE v == user[Phone]
           own == queue[Phone][v]
           w == Head(own)
<1>1. /\ queue \in [Devices -> [Accounts -> Seq(Writes(Everything))]] /\ Phone \in Devices
      /\ main \in [Devices -> Seq(Blocks(Everything))]
      /\ cache \in [Devices -> Views(Documents(Everything))] /\ v \in Accounts
  BY ClientTyped
<1>2. own \in Seq(Writes(Everything)) /\ own # << >>
  BY <1>1 DEF Acknowledge, pending
<1>3. w \in Writes(Everything) /\ w = own[1] /\ 1 \in DOMAIN own
  BY <1>2
<1>4. /\ queue' = [queue EXCEPT ![Phone][v] = Tail(own)]
      /\ cache' = IF w.fate = "committed"
                  THEN [cache EXCEPT ![Phone][w.key] = Applied(w, @)] ELSE cache
      /\ main' = IF w.tag = None THEN main
                 ELSE [main EXCEPT ![Phone] = Append(@, Written(w))]
      /\ UNCHANGED server
  BY DEF Acknowledge, pending
<1>5. /\ \A u \in Accounts : queue'[Phone][u] = IF u = v THEN Tail(own) ELSE queue[Phone][u]
      /\ main'[Phone] \in {main[Phone], Append(main[Phone], Written(w))}
      /\ w.tag = None => main'[Phone] = main[Phone]
  BY <1>1, <1>4
<1>6. ASSUME NEW u \in Users
      PROVE  Copy(u)' = IF w.fate = "committed" /\ w.key = UserKey(u)
                        THEN Applied(w, Copy(u)) ELSE Copy(u)
  <2>1. cache[Phone] \in [Keys -> UNION {Documents(Everything)[k] : k \in Keys}]
        /\ UserKey(u) \in Keys
    BY <1>1, ClientTyped DEF Views
  <2> QED
    BY <1>1, <1>4, <2>1 DEF Copy
<1>7. OwnWrites(own, v, mixed)
  BY <1>1 DEF HistoryInv
<1>8. /\ w.key \in UserKeys => w.key = UserKey(v)
      /\ IsHistory(w.tag) =>
            w.key = UserKey(v) /\ w.tag.by = v /\ (mixed \/ w.tag.record.of = v)
  BY <1>3, <1>7 DEF OwnWrites
<1>9. Written(w).kind = "written" /\ Written(w).tag = w.tag
  BY DEF Written
<1> HIDE DEF own, w, v
<1>10. ASSUME NEW u \in Accounts, OwnWrites(queue[Phone][u], u, mixed)
       PROVE  OwnWrites(queue'[Phone][u], u, mixed)
  <2>1. OwnWrites(Tail(own), v, mixed)
    BY <1>2, <1>7, FirstGone
  <2> QED
    BY <1>5, <1>10, <2>1
<1>11. ASSUME NEW u \in Users, StandingOf(u) PROVE StandingOf(u)'
  <2> DEFINE open == u \in unsaved
             q == queue[Phone][u]
             q2 == queue'[Phone][u]
             doc == server[UserKey(u)]
             copy == Copy(u)
             copy2 == cache'[Phone][UserKey(u)]
             blocks == main[Phone]
             blocks2 == main'[Phone]
  <2>1. Standing(u, open, q, doc, copy, blocks, record)
    BY <1>11 DEF StandingOf
  <2>2. StandingOf(u)' = Standing(u, open, q2, doc, copy2, blocks2, record)
    BY <1>4 DEF StandingOf, Copy
  <2>3. /\ q \in Seq(Writes(Everything)) /\ blocks \in Seq(Blocks(Everything))
        /\ q2 = (IF u = v THEN Tail(own) ELSE q) /\ (u = v => q = own)
        /\ blocks2 \in {blocks, Append(blocks, Written(w))}
    BY <1>1, <1>5 DEF Accounts, own
  <2>4. /\ doc \in [items : Seq(Items)] /\ copy \in [items : Seq(Items)]
        /\ UserKey(u) \in UserKeys
    BY ClientTyped, KeyNames
  <2>5. copy2 = IF w.fate = "committed" /\ w.key = UserKey(u) THEN Applied(w, copy) ELSE copy
    BY <1>6 DEF Copy
  <2>6. w.key = UserKey(u) => u = v
    BY <1>8, <2>4, KeysApart
  <2>7. w = Head(own)
    BY DEF w
  <2> HIDE DEF open, q, q2, doc, copy, copy2, blocks, blocks2
  <2>8. CASE w.key = UserKey(u)
    <3>1. q = own /\ q2 = Tail(q) /\ q # << >> /\ Head(q) = w
      BY <1>2, <2>3, <2>6, <2>7, <2>8
    <3>2. copy2 = IF Head(q).fate = "committed" THEN Applied(Head(q), copy) ELSE copy
      BY <2>5, <2>8, <3>1
    <3>3. blocks2 \in {blocks, Append(blocks, Written(Head(q)))}
      BY <2>3, <3>1
    <3>4. Head(q).key = UserKey(u)
      BY <2>8, <3>1
    <3>5. /\ q \in Seq(Writes(Everything)) /\ q # << >>
          /\ doc \in [items : Seq(Items)] /\ copy \in [items : Seq(Items)]
          /\ blocks \in Seq(Blocks(Everything))
      BY <2>3, <2>4, <3>1
    <3>6. Standing(u, open, Tail(q), doc, copy2, blocks2, record)
      BY <2>1, <3>2, <3>3, <3>4, <3>5, PurchaseAnswered
    <3> QED
      BY <2>2, <3>1, <3>6
  <2>9. CASE w.key # UserKey(u)
    <3>1. copy2 = copy
      BY <2>5, <2>9
    <3>2. ~ Answers(Written(w), u)
      <4>1. IsHistory(w.tag) => w.tag.by = v /\ w.key = UserKey(v)
        BY <1>8
      <4> QED
        BY <1>9, <2>9, <4>1 DEF Answers
    <3>3. ~ Brings(Written(w), u)
      BY <1>9 DEF Brings
    <3>4. Standing(u, open, q2, doc, copy, blocks, record)
      <4>1. CASE u = v
        BY <1>2, <2>1, <2>3, <2>7, <2>9, <4>1, OtherAnswered
      <4>2. CASE u # v
        BY <2>1, <2>3, <4>2
      <4> QED
        BY <4>1, <4>2
    <3>5. Standing(u, open, q2, doc, copy, Append(blocks, Written(w)), record)
      BY <2>3, <3>2, <3>3, <3>4, BlockAdded
    <3> QED
      BY <2>2, <2>3, <3>1, <3>4, <3>5
  <2> QED
    BY <2>8, <2>9
<1>12. ~ mixed => OwnAnswers(main'[Phone])
  <2> SUFFICES ASSUME ~ mixed PROVE OwnAnswers(main'[Phone])
    OBVIOUS
  <2>1. OwnAnswers(main[Phone]) /\ main[Phone] \in Seq(Blocks(Everything))
    BY <1>1 DEF HistoryInv
  <2>2. w.tag # None => OwnAnswer(Written(w))
    BY <1>8, <1>9 DEF OwnAnswer
  <2>3. w.tag # None => OwnAnswers(Append(main[Phone], Written(w)))
    BY <2>1, <2>2, AnswersKept
  <2> QED
    BY <1>5, <2>1, <2>3
<1> QED
  BY <1>10, <1>11, <1>12, NoPurchase

LEMMA MainQueueStands ==
    ASSUME Held(Everything), HistoryInv, MainQueue
    PROVE  HistoryInv'
<1>1. /\ main \in [Devices -> Seq(Blocks(Everything))] /\ Phone \in Devices
      /\ queue \in [Devices -> [Accounts -> Seq(Writes(Everything))]] /\ user[Phone] \in Accounts
  BY ClientTyped
<1>2. /\ main[Phone] \in Seq(Blocks(Everything)) /\ main[Phone] # << >>
      /\ main'[Phone] = Tail(main[Phone]) /\ Block = Head(main[Phone])
      /\ Block \in Blocks(Everything) /\ UNCHANGED <<server, cache>>
  BY <1>1 DEF MainQueue, Block
<1>3. ~ mixed => OwnAnswers(main'[Phone])
  BY <1>2, AnswersKept DEF HistoryInv
\* A block that leaves the records and the queues alone and is no answer to a purchase.
<1>4. ASSUME UNCHANGED <<queue, record, unsaved, hasty, mixed>>, \A u : ~ Answers(Block, u)
      PROVE  HistoryInv'
  <2>1. ASSUME NEW u \in Users, StandingOf(u) PROVE StandingOf(u)'
    <3>1. Standing(u, u \in unsaved, queue[Phone][u], server[UserKey(u)], Copy(u),
                   Tail(main[Phone]), record)
      BY <1>2, <1>4, <2>1, BlockRun DEF StandingOf
    <3> QED
      BY <1>2, <1>4, <3>1 DEF StandingOf, Copy
  <2> QED
    BY <1>3, <1>4, <2>1, NoPurchase
<1>5. CASE loaded
  <2>1. \A u : ~ Answers(Block, u)
    BY <1>5 DEF loaded, Answers
  <2> QED
    BY <1>4, <1>5, <2>1 DEF loaded, past
<1>6. ASSUME WrittenTo("added") \/ WrittenTo("emptied"), NEW u PROVE ~ Answers(Block, u)
  BY <1>6 DEF WrittenTo, Answers, IsHistory
<1>7. CASE addWritten
  BY <1>4, <1>6, <1>7 DEF addWritten, past
<1>8. CASE basketEmptied
  BY <1>4, <1>6, <1>8 DEF basketEmptied, past
<1>9. CASE userArrived
  <2>1. Block.key \in UserKeys /\ \A u : ~ Answers(Block, u)
    BY <1>2, <1>9 DEF userArrived, Blocks, Replies, Answers
  <2>2. /\ record' = IF Block.doc = NoDoc THEN record
                     ELSE [of |-> Of(Block.key), items |-> Block.doc.items]
        /\ UNCHANGED <<queue, unsaved, hasty, mixed>>
    BY <1>9 DEF userArrived, past
  <2>3. ASSUME NEW u \in Users, StandingOf(u) PROVE StandingOf(u)'
    <3>1. CASE Block.doc = NoDoc
      <4>1. Standing(u, u \in unsaved, queue[Phone][u], server[UserKey(u)], Copy(u),
                     Tail(main[Phone]), record)
        BY <1>2, <2>1, <2>3, BlockRun DEF StandingOf
      <4> QED
        BY <1>2, <2>2, <3>1, <4>1 DEF StandingOf, Copy
    <3>2. CASE Block.doc # NoDoc
      <4>1. record'.of = Of(Block.key) /\ record'.items = Block.doc.items
        BY <2>2, <3>2
      <4>2. record'.of = u => Brings(Block, u)
        BY <1>9, <2>1, <3>2, <4>1, KeyNames DEF Brings, userArrived
      <4>3. \/ record'.of # u
            \/ Brings(Head(main[Phone]), u) /\ record'.items = Head(main[Phone]).doc.items
        BY <1>2, <4>1, <4>2
      <4>4. Standing(u, u \in unsaved, queue[Phone][u], server[UserKey(u)], Copy(u),
                     main[Phone], record)
        BY <2>3 DEF StandingOf
      <4>5. ~ Answers(Head(main[Phone]), u)
        BY <1>2, <2>1
      <4>6. Standing(u, u \in unsaved, queue[Phone][u], server[UserKey(u)], Copy(u),
                     Tail(main[Phone]), record')
        BY <1>2, <4>3, <4>4, <4>5, BlockRun
      <4> QED
        BY <1>2, <2>2, <4>6 DEF StandingOf, Copy
    <3> QED
      BY <3>1, <3>2
  <2> QED
    BY <1>3, <2>2, <2>3, NoPurchase DEF HistoryInv
<1>10. CASE addAnswered
  <2>1. /\ Block.key \in BasketKeys /\ Block.item \in Items /\ Block.doc \in BasketDocs
        /\ \A u : ~ Answers(Block, u)
    BY <1>2, <1>10 DEF addAnswered, Blocks, Replies, Answers
  <2>2. UNCHANGED <<record, unsaved, hasty, mixed>>
    BY <1>10 DEF addAnswered, past
  <2> DEFINE v == Of(Block.key)
             items == Block.doc.items \cup {Block.item}
             w == UpdateData(Block.key, [items |-> items],
                             [to |-> "added", by |-> v, item |-> Block.item])
  <2>3. CASE UNCHANGED queue
    BY <1>4, <2>1, <2>2, <2>3
  <2>4. CASE Block.doc # NoDoc /\ WriteMutations(Phone, w)
    <3>1. items \subseteq Items /\ v \in Users
      BY <2>1, <2>4, KeyNames DEF BasketDocs
    <3> HIDE DEF items
    <3>2. w \in BasketWrites(Everything)
      BY <2>1, <3>1 DEF UpdateData, BasketWrites, Tags, Purposes, Fates
    <3>3. w \in Writes(Everything) /\ w.key \in BasketKeys
      BY <2>1, <3>2 DEF Writes, UpdateData
    <3>4. ~ IsHistory(w.tag)
      BY DEF UpdateData, IsHistory
    <3>5. queue' = [queue EXCEPT ![Phone][user[Phone]] = Append(@, w)]
      BY <2>4 DEF WriteMutations
    <3> HIDE DEF w
    <3>6. \A u \in Accounts : queue'[Phone][u] \in {queue[Phone][u], Append(queue[Phone][u], w)}
      BY <1>1, <3>5
    <3>7. ASSUME NEW u \in Accounts
          PROVE  OwnWrites(queue[Phone][u], u, mixed) => OwnWrites(queue'[Phone][u], u, mixed)
      BY <1>1, <3>3, <3>4, <3>6, BasketWriteStands
    <3>8. ASSUME NEW u \in Users, StandingOf(u) PROVE StandingOf(u)'
      <4> DEFINE open == u \in unsaved
                 q == queue[Phone][u]
                 q2 == queue'[Phone][u]
                 doc == server[UserKey(u)]
                 copy == Copy(u)
      <4>1. Standing(u, open, q, doc, copy, Tail(main[Phone]), record)
        BY <1>2, <2>1, <3>8, BlockRun DEF StandingOf
      <4>2. q \in Seq(Writes(Everything)) /\ q2 \in {q, Append(q, w)}
        BY <1>1, <3>6 DEF Accounts
      <4>3. StandingOf(u)' = Standing(u, open, q2, doc, copy, Tail(main[Phone]), record)
        BY <1>2, <2>2 DEF StandingOf, Copy
      <4> HIDE DEF open, q, q2, doc, copy
      <4>4. Standing(u, open, q2, doc, copy, Tail(main[Phone]), record)
        BY <3>3, <3>4, <4>1, <4>2, BasketWriteStands
      <4> QED
        BY <4>3, <4>4
    <3> QED
      BY <1>3, <2>2, <3>7, <3>8, NoPurchase
  <2> QED
    BY <1>10, <2>3, <2>4 DEF addAnswered
<1>11. CASE historyWritten
  <2>1. Block.kind = "written" /\ Block.tag.to = "history" /\ Block.tag \in Purposes(Everything)
    BY <1>2, <1>11 DEF historyWritten, WrittenTo, Blocks, Replies
  <2> DEFINE ok == Block.ok
  <2>2. UNCHANGED <<queue, hasty, mixed>>
    BY <1>11 DEF historyWritten
  <2>3. /\ ok => record' = Block.tag.record /\ unsaved' = unsaved \ {Block.tag.by}
        /\ ~ ok => UNCHANGED <<record, unsaved>>
    BY <1>11 DEF historyWritten, TakenIn
  <2>4. ASSUME ~ mixed, NEW u \in Users, StandingOf(u) PROVE StandingOf(u)'
    <3> DEFINE q == queue[Phone][u]
               doc == server[UserKey(u)]
               copy == Copy(u)
               blocks == main[Phone]
    <3>1. Standing(u, u \in unsaved, q, doc, copy, blocks, record)
      BY <2>4 DEF StandingOf
    <3>2. StandingOf(u)' = Standing(u, u \in unsaved', q, doc, copy, Tail(blocks), record')
      BY <1>2, <2>2 DEF StandingOf, Copy
    <3>3. /\ blocks \in Seq(Blocks(Everything)) /\ blocks # << >> /\ Block = Head(blocks)
          /\ doc \in [items : Seq(Items)]
      BY <1>2, ClientTyped
    <3>4. OwnAnswer(Block)
      <4>1. 1 \in DOMAIN blocks /\ Head(blocks) = blocks[1]
        BY <3>3, TailOf
      <4> QED
        BY <2>4, <3>3, <4>1 DEF HistoryInv, OwnAnswers
    <3> HIDE DEF q, doc, copy, blocks
    <3>5. CASE Answers(Block, u)
      <4>1. 1 \in DOMAIN blocks /\ Head(blocks) = blocks[1]
        BY <3>3, TailOf
      <4>2. u \in unsaved /\ OnItsWay(u, q, doc, copy, blocks)
        BY <3>1, <3>3, <3>5, <4>1 DEF Standing, TakenUp
      <4>3. /\ Block.ok => TakenUp(u, q, doc, copy, Tail(blocks), Block.tag.record)
            /\ OnItsWay(u, q, doc, copy, Tail(blocks))
        BY <3>3, <3>5, <4>2, AnswerRun
      <4>4. CASE Block.ok
        <5>1. Block.tag.by = u
          BY <3>5 DEF Answers
        <5>2. u \notin unsaved' /\ record' = Block.tag.record
          BY <2>3, <4>4, <5>1
        <5> QED
          BY <3>2, <4>3, <4>4, <5>2 DEF Standing
      <4>5. CASE ~ Block.ok
        BY <2>3, <3>2, <4>2, <4>3, <4>5 DEF Standing
      <4> QED
        BY <4>4, <4>5
    <3>6. CASE ~ Answers(Block, u)
      <4>1. IsHistory(Block.tag)
        <5>1. Block.tag # None
          BY <2>1, <3>4 DEF OwnAnswer
        <5> QED
          BY <2>1, <5>1 DEF IsHistory
      <4>2. Block.tag.by # u /\ Block.tag.record.of = Block.tag.by
        BY <2>1, <3>4, <3>6, <4>1 DEF Answers, OwnAnswer
      <4>3. record' = record \/ record'.of # u
        BY <2>3, <4>2
      <4>4. (u \in unsaved) <=> (u \in unsaved')
        BY <2>3, <4>2
      <4>5. Standing(u, u \in unsaved, q, doc, copy, Tail(blocks), record')
        BY <3>1, <3>3, <3>6, <4>3, BlockRun
      <4> QED
        BY <3>2, <4>4, <4>5 DEF Standing
    <3> QED
      BY <3>5, <3>6
  <2> QED
    BY <1>3, <2>2, <2>4 DEF HistoryInv
<1> QED
  BY <1>5, <1>7, <1>8, <1>9, <1>10, <1>11 DEF MainQueue

--------------------------------------------------------------------------------
(* The whole.                                                              *)

\* Every step keeps every account's purchases taken up or on their way.
LEMMA HistoryStands ==
    ASSUME Held(Everything), HistoryInv, [Next]_vars, Backed(Everything)'
    PROVE  HistoryInv'
<1>1. CASE UserActs
  <2>1. ASSUME NEW i \in Items, deleteRow(i) \/ deleteRowTraps(i) \/ addToBasketTapped(i)
        PROVE  HistoryInv'
    <3>1. CASE addToBasketTapped(i)
      BY <3>1, Idle DEF addToBasketTapped, clientVars, past
    <3> QED
      BY <2>1, <3>1, DeleteStands, TerminateStands DEF deleteRowTraps
  <2>2. CASE viewDidAppear
    BY <2>2, Idle DEF viewDidAppear, clientVars, past
  <2>3. CASE checkOutButtonWasTapped
    BY <2>3, Idle DEF checkOutButtonWasTapped, clientVars
  <2>4. CASE payPalPaymentDidCancel
    BY <2>4, Idle DEF payPalPaymentDidCancel, clientVars
  <2>5. CASE didCompletePayment
    BY <2>5, Idle DEF didCompletePayment, clientVars
  <2>6. CASE logOutCurrentUser
    <3>1. /\ StreamBreaks(Phone) /\ UNCHANGED <<server, cache, main, unsaved, hasty, mixed>>
          /\ record' \in {record, NoDoc}
      BY <2>6 DEF logOutCurrentUser, CredentialChange, past
    <3> QED
      BY <3>1, BreakStands
  <2>7. ASSUME NEW u \in Users, loginUserWith(u) PROVE HistoryInv'
    <3>1. /\ UNCHANGED <<server, cache, main, record, unsaved, hasty, mixed>>
          /\ StreamBreaks(Phone) \/ UNCHANGED queue
      BY <2>7 DEF loginUserWith, CredentialChange, clientVars, past
    <3> QED
      BY <3>1, BreakStands, Idle
  <2> QED
    BY <1>1, <2>1, <2>2, <2>3, <2>4, <2>5, <2>6, <2>7, TerminateStands DEF UserActs, checkOutTraps
<1>2. CASE AppRuns
  <2>1. ASSUME NEW n \in DOMAIN fetches, itemsArrived(n) PROVE HistoryInv'
    BY <2>1, Idle DEF itemsArrived, clientVars, past
  <2> QED
    BY <1>2, <2>1, ReadStands, DismissStands, DismissTrapStands, MainQueueStands DEF AppRuns
<1>3. CASE Network \/ Breaks
  <2>1. CASE ServerDecides
    <3>1. PICK i \in DOMAIN pending(Phone) : CommitWrite(Phone, i) \/ RefuseWrite(Phone, i)
      BY <2>1 DEF ServerDecides
    <3> QED
      BY <2>1, <3>1, DecisionStands DEF ServerDecides, appVars, past
  <2>2. CASE ClientLearns
    BY <2>2, AnswerStands DEF ClientLearns, appVars, past
  <2>3. CASE NetworkBack
    BY <2>3, Idle DEF NetworkBack, GoOnline, appVars, past
  <2>4. CASE NetworkLost
    BY <2>4, BreakStands DEF NetworkLost, GoOffline, appVars, past
  <2> QED
    BY <1>3, <2>1, <2>2, <2>3, <2>4, TerminateStands DEF Network, Breaks
<1>4. CASE UNCHANGED vars
  BY <1>4, Idle DEF vars, clientVars, past
<1> QED
  BY <1>1, <1>2, <1>3, <1>4 DEF Next

\* Only the server's decision changes a document.
LEMMA OnlyDecisions ==
    ASSUME [Next]_vars
    PROVE  UNCHANGED server \/ ServerDecides
<1>1. ASSUME NEW queues, Restart(queues) PROVE UNCHANGED server
  BY <1>1 DEF Restart, RestartFrom
<1>2. ASSUME Terminate PROVE UNCHANGED server
  BY <1>1, <1>2 DEF Terminate
<1>3. CASE UserActs
  <2>1. ASSUME NEW i \in Items, deleteRow(i) \/ deleteRowTraps(i) \/ addToBasketTapped(i)
        PROVE  UNCHANGED server
    BY <1>2, <2>1 DEF deleteRow, deleteRowTraps, addToBasketTapped, clientVars
  <2>2. ASSUME viewDidAppear \/ checkOutButtonWasTapped \/ payPalPaymentDidCancel
               \/ didCompletePayment
        PROVE  UNCHANGED server
    BY <2>2 DEF viewDidAppear, checkOutButtonWasTapped, payPalPaymentDidCancel,
                didCompletePayment, clientVars
  <2>3. ASSUME logOutCurrentUser \/ \E u \in Users : loginUserWith(u) PROVE UNCHANGED server
    BY <2>3 DEF logOutCurrentUser, loginUserWith, CredentialChange, clientVars
  <2> QED
    BY <1>2, <1>3, <2>1, <2>2, <2>3 DEF UserActs, checkOutTraps
<1>4. CASE AppRuns
  BY <1>1, <1>4 DEF AppRuns, docRead, itemsArrived, paymentDismissed, paymentDismissedTraps,
                    MainQueue, clientVars
<1>5. CASE Network \/ Breaks
  BY <1>2, <1>5 DEF Network, Breaks, ClientLearns, Acknowledge, NetworkBack, GoOnline,
                    NetworkLost, GoOffline
<1>6. CASE UNCHANGED vars
  BY <1>6 DEF vars, clientVars
<1> QED
  BY <1>3, <1>4, <1>5, <1>6 DEF Next

\* All documents are as the server has them, and no purchase was made.
LEMMA HistoryInit == Init => HistoryInv
<1> SUFFICES ASSUME Init PROVE HistoryInv
  OBVIOUS
<1>1. /\ Phone \in Devices /\ user[Phone] \in Accounts
      /\ \A u \in Users : UserKey(u) \in Keys /\ UserKey(u)[1] = "user"
  BY KeyNames DEF Init, UserKey
<1>2. /\ main[Phone] = << >> /\ cache[Phone] = server
      /\ \A u \in Accounts : queue[Phone][u] = << >>
      /\ unsaved = {} /\ mixed = FALSE
  BY <1>1 DEF Init, ClientInit
<1>3. \A u \in Users : server[UserKey(u)] = [items |-> << >>]
  BY <1>1 DEF Init
<1>4. record # NoDoc => record.items = << >>
  BY DEF Init
<1>5. \A u \in Accounts : OwnWrites(queue[Phone][u], u, mixed)
  BY <1>2 DEF OwnWrites
<1>6. ASSUME NEW u \in Users PROVE StandingOf(u)
  <2>1. u \in Accounts /\ queue[Phone][u] = << >> /\ u \notin unsaved
    BY <1>2 DEF Accounts
  <2>2. TakenUp(u, queue[Phone][u], server[UserKey(u)], Copy(u), main[Phone], record)
    BY <2>1, <1>2, <1>3, <1>4 DEF TakenUp, Ours, Copy
  <2> QED
    BY <2>1, <2>2 DEF StandingOf, Standing
<1> QED
  BY <1>2, <1>5, <1>6 DEF HistoryInv, OwnAnswers

LEMMA HeldThroughout ==
    ASSUME CheckoutInv
    PROVE  Held(Everything) /\ Backed(Everything)
BY EverythingBacked DEF CheckoutInv, Held

LEMMA HistoryInvariant == Spec => [](CheckoutInv /\ HistoryInv)
<1>1. CheckoutInv /\ HistoryInv /\ [Next]_vars => (CheckoutInv /\ HistoryInv)'
  <2> SUFFICES ASSUME CheckoutInv, HistoryInv, [Next]_vars PROVE CheckoutInv' /\ HistoryInv'
    OBVIOUS
  <2>1. \A good : good = Everything => Backed(good)'
    BY EverythingIsGood DEF Backed, Everything
  <2>2. Backed(Everything)'
    BY EverythingIsGood DEF Backed, Everything
  <2> QED
    BY <2>2, InvHolds, HeldThroughout, HistoryStands
<1> QED
  BY <1>1, InitHolds, HistoryInit, PTL DEF Spec

\* Whatever accounts, baskets, failures and restarts there are: a purchase history on the
\* server only grows, as long as each of its account's purchases was taken in by the phone
\* before the next one was sent, and none was made from somebody else's record.
THEOREM HistoryOnlyGrows == Spec => HistoryLostOnlyByOverlap
<1>1. CheckoutInv /\ HistoryInv /\ TypeOK /\ TypeOK' /\ [Next]_vars =>
        [\A u \in Users, i \in Items :
            Count(history(u)', i) < Count(history(u), i) => u \in hasty \/ mixed]_vars
  <2> SUFFICES ASSUME CheckoutInv, HistoryInv, TypeOK, TypeOK', [Next]_vars,
                      NEW u \in Users, NEW i \in Items, ~ mixed, u \notin hasty
               PROVE  ~ (Count(history(u)', i) < Count(history(u), i))
    OBVIOUS
  <2>1. history(u) \in Seq(Items) /\ history(u)' \in Seq(Items)
    BY DEF TypeOK, history
  <2>2. Count(history(u), i) \in Nat /\ Count(history(u)', i) \in Nat
    BY <2>1, CountIsNat
  <2>3. CASE UNCHANGED server
    BY <2>2, <2>3 DEF history
  <2>4. CASE ServerDecides
    <3>1. PICK n \in DOMAIN pending(Phone) : CommitWrite(Phone, n) \/ RefuseWrite(Phone, n)
      BY <2>4 DEF ServerDecides
    <3>2. UNCHANGED <<record, unsaved, hasty, mixed>>
      BY <2>4 DEF ServerDecides, appVars, past
    <3>3. UNCHANGED history(u) \/ Covers(history(u)', history(u))
      BY <3>1, <3>2, HeldThroughout, DecisionStands DEF history
    <3> QED
      BY <2>2, <3>3 DEF Covers
  <2> QED
    BY <2>3, <2>4, OnlyDecisions
<1> QED
  BY <1>1, HistoryInvariant, CheckoutTypeCorrect, PTL DEF HistoryLostOnlyByOverlap, Spec

================================================================================
