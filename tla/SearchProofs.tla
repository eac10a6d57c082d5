----------------------------- MODULE SearchProofs -----------------------------
(***************************************************************************)
(* Proofs about the download of items by their ids (ItemFetch), where      *)
(* Accounted is inductive, and about the search screen, which uses that    *)
(* download as it is: the theorems of the first part hold on the screen,   *)
(* and the second part says what the query in front, the spinner and the   *)
(* cells add.                                                              *)
(***************************************************************************)
EXTENDS Search, FiniteSetTheorems, SequenceTheorems, TLAPS

--------------------------------------------------------------------------------
(* Lists.                                                                  *)

\* A list is a start of the list with one more entry.
LEMMA AppendStart ==
    ASSUME NEW S, NEW s \in Seq(S), NEW e \in S
    PROVE  IsStart(s, Append(s, e))
BY DEF IsStart

\* A list with one more entry is not empty.
LEMMA AppendNotEmpty ==
    ASSUME NEW S, NEW s \in Seq(S), NEW e \in S
    PROVE  Append(s, e) # << >>
<1>1. Len(Append(s, e)) = Len(s) + 1 /\ Len(s) \in Nat
  OBVIOUS
<1>2. Len(<< >>) = 0
  OBVIOUS
<1> QED
  BY <1>1, <1>2

\* An entry of a list with one more is the new one or one of the list.
LEMMA AppendEntries ==
    ASSUME NEW S, NEW s \in Seq(S), NEW e \in S
    PROVE  \A n \in DOMAIN Append(s, e) :
             Append(s, e)[n] = e \/ (n \in DOMAIN s /\ Append(s, e)[n] = s[n])
<1>1. DOMAIN Append(s, e) = 1 .. Len(s) + 1 /\ DOMAIN s = 1 .. Len(s) /\ Len(s) \in Nat
  OBVIOUS
<1>2. \A n \in 1 .. Len(s) : Append(s, e)[n] = s[n]
  OBVIOUS
<1>3. Append(s, e)[Len(s) + 1] = e
  OBVIOUS
<1> QED
  BY <1>1, <1>2, <1>3

\* Appending an entry that is not in an injective list leaves it injective.
LEMMA AppendStaysInjective ==
    ASSUME NEW S, NEW s \in Seq(S), NEW e \in S,
           \A n \in DOMAIN s : s[n] # e,
           \A m, n \in DOMAIN s : s[m] = s[n] => m = n
    PROVE  \A m, n \in DOMAIN Append(s, e) : Append(s, e)[m] = Append(s, e)[n] => m = n
<1>1. DOMAIN Append(s, e) = 1 .. Len(s) + 1 /\ DOMAIN s = 1 .. Len(s) /\ Len(s) \in Nat
  OBVIOUS
<1>2. \A n \in 1 .. Len(s) : Append(s, e)[n] = s[n]
  OBVIOUS
<1>3. Append(s, e)[Len(s) + 1] = e
  OBVIOUS
<1> QED
  BY <1>1, <1>2, <1>3

\* Starts of a list remain starts of a longer list, which may join them.
LEMMA GrowingOn ==
    ASSUME NEW S, NEW s \in Seq(Seq(S)), NEW a \in Seq(S), NEW b \in Seq(S),
           IsStart(a, b),
           \A n \in DOMAIN s : IsStart(s[n], a),
           \A m, n \in DOMAIN s : m <= n => IsStart(s[m], s[n]),
           NEW t \in {s, Append(s, b)}
    PROVE  /\ \A n \in DOMAIN t : IsStart(t[n], b)
           /\ \A m, n \in DOMAIN t : m <= n => IsStart(t[m], t[n])
<1>1. \A n \in DOMAIN s : IsStart(s[n], b)
  <2> SUFFICES ASSUME NEW n \in DOMAIN s
               PROVE  IsStart(s[n], b)
    OBVIOUS
  <2>1. s[n] \in Seq(S) /\ IsStart(s[n], a)
    OBVIOUS
  <2> QED
    BY <2>1 DEF IsStart
<1>2. CASE t = s
  BY <1>1, <1>2
<1>3. CASE t = Append(s, b)
  <2>1. DOMAIN t = 1 .. Len(s) + 1 /\ DOMAIN s = 1 .. Len(s) /\ Len(s) \in Nat
    BY <1>3
  <2>2. \A n \in 1 .. Len(s) : t[n] = s[n]
    BY <1>3
  <2>3. t[Len(s) + 1] = b
    BY <1>3
  <2>4. IsStart(b, b)
    BY DEF IsStart
  <2>5. \A n \in DOMAIN t : IsStart(t[n], b)
    BY <1>1, <2>1, <2>2, <2>3, <2>4
  <2>6. \A m, n \in DOMAIN t : m <= n => IsStart(t[m], t[n])
    <3> SUFFICES ASSUME NEW m \in DOMAIN t, NEW n \in DOMAIN t, m <= n
                 PROVE  IsStart(t[m], t[n])
      OBVIOUS
    <3>1. CASE n = Len(s) + 1
      BY <2>3, <2>5, <3>1
    <3>2. CASE n \in DOMAIN s
      <4>1. m \in DOMAIN s
        BY <2>1, <3>2
      <4> QED
        BY <2>1, <2>2, <3>2, <4>1
    <3> QED
      BY <2>1, <3>1, <3>2
  <2> QED
    BY <2>5, <2>6
<1> QED
  BY <1>2, <1>3

\* Answering one open read leaves one less.
LEMMA OneLess ==
    ASSUME TypeOK, NEW c \in Calls, NEW p \in waiting[c]
    PROVE  /\ Cardinality(waiting[c]) \in Nat /\ Cardinality(waiting[c] \ {p}) \in Nat
           /\ Cardinality(waiting[c] \ {p}) = Cardinality(waiting[c]) - 1
           /\ waiting[c] \ {p} = {} <=> Cardinality(waiting[c] \ {p}) = 0
<1>1. IsFiniteSet(waiting[c])
  <2>1. IsFiniteSet(1 .. MaxIds)
    BY FS_Interval, FetchAssumption
  <2>2. waiting[c] \subseteq 1 .. MaxIds
    BY DEF TypeOK
  <2> QED
    BY <2>1, <2>2, FS_Subset
<1>2. IsFiniteSet(waiting[c] \ {p}) /\ Cardinality(waiting[c] \ {p}) = Cardinality(waiting[c]) - 1
  BY <1>1, FS_RemoveElement
<1> QED
  BY <1>1, <1>2, FS_CardinalityType, FS_EmptySet

--------------------------------------------------------------------------------
(* Types.                                                                  *)

LEMMA TypeCompletion ==
    ASSUME TypeOK, NEW c \in Calls, NEW list \in Seq(1 .. MaxIds),
           completion(c, list) \/ NoCompletion
    PROVE  /\ answers' \in [Calls -> Seq(Seq(1 .. MaxIds))]
           /\ shown' \in [call : Calls \cup {NoCall}, list : Seq(1 .. MaxIds)]
<1>1. CASE completion(c, list)
  <2>1. Append(answers[c], list) \in Seq(Seq(1 .. MaxIds))
    BY DEF TypeOK
  <2> QED
    BY <1>1, <2>1 DEF TypeOK, completion
<1>2. CASE NoCompletion
  BY <1>2 DEF TypeOK, NoCompletion
<1> QED
  BY <1>1, <1>2

LEMMA TypeAsk ==
    ASSUME TypeOK, NEW c \in Calls, NEW n \in 0 .. MaxIds, downloadItemsFromFirebase(c, n)
    PROVE  TypeOK'
<1> USE DEF TypeOK, downloadItemsFromFirebase
<1>1. made' \subseteq Calls /\ newest' \in Calls \cup {NoCall}
  OBVIOUS
<1>2. size' \in [Calls -> 0 .. MaxIds] /\ waiting' \in [Calls -> SUBSET (1 .. MaxIds)]
  BY FetchAssumption
<1>3. crossed' \in BOOLEAN /\ counter' \in [Calls -> Nat] /\ failed' \in [Calls -> BOOLEAN]
  OBVIOUS
<1>4. itemArray' \in [Calls -> Seq(1 .. MaxIds)]
  OBVIOUS
<1>5. << >> \in Seq(1 .. MaxIds)
  OBVIOUS
<1>6. /\ answers' \in [Calls -> Seq(Seq(1 .. MaxIds))]
      /\ shown' \in [call : Calls \cup {NoCall}, list : Seq(1 .. MaxIds)]
  BY <1>5, TypeCompletion
<1> QED
  BY <1>1, <1>2, <1>3, <1>4, <1>6

LEMMA TypeFound ==
    ASSUME TypeOK, NEW c \in Calls, NEW p \in waiting[c], found(c, p)
    PROVE  TypeOK'
<1> USE DEF TypeOK, found, Answer
<1>1. p \in 1 .. MaxIds
  OBVIOUS
<1>2. waiting' \in [Calls -> SUBSET (1 .. MaxIds)]
  OBVIOUS
<1>3. /\ itemArray' \in [Calls -> Seq(1 .. MaxIds)]
      /\ counter' \in [Calls -> Nat]
      /\ itemArray'[c] \in Seq(1 .. MaxIds)
  <2>1. Append(itemArray[c], p) \in Seq(1 .. MaxIds)
    BY <1>1
  <2>2. counter[c] + 1 \in Nat
    OBVIOUS
  <2>3. itemArray' = [itemArray EXCEPT ![c] = Append(itemArray[c], p)]
    OBVIOUS
  <2>4. counter' = [counter EXCEPT ![c] = counter[c] + 1]
    OBVIOUS
  <2>5. itemArray \in [Calls -> Seq(1 .. MaxIds)] /\ counter \in [Calls -> Nat]
    OBVIOUS
  <2> HIDE DEF TypeOK, found, Answer
  <2> QED
    BY <2>1, <2>2, <2>3, <2>4, <2>5
<1>4. itemArray'[c] \in Seq(1 .. MaxIds)
  BY <1>3
<1>5. /\ answers' \in [Calls -> Seq(Seq(1 .. MaxIds))]
      /\ shown' \in [call : Calls \cup {NoCall}, list : Seq(1 .. MaxIds)]
  BY <1>4, TypeCompletion
<1> QED
  BY <1>2, <1>3, <1>5

LEMMA TypeMissing ==
    ASSUME TypeOK, NEW c \in Calls, NEW p \in waiting[c], missing(c, p)
    PROVE  TypeOK'
<1> USE DEF TypeOK, missing, Answer
<1>1. waiting' \in [Calls -> SUBSET (1 .. MaxIds)] /\ failed' \in [Calls -> BOOLEAN]
  OBVIOUS
<1>2. itemArray[c] \in Seq(1 .. MaxIds)
  OBVIOUS
<1>3. /\ answers' \in [Calls -> Seq(Seq(1 .. MaxIds))]
      /\ shown' \in [call : Calls \cup {NoCall}, list : Seq(1 .. MaxIds)]
  BY <1>2, TypeCompletion
<1> QED
  BY <1>1, <1>3

--------------------------------------------------------------------------------
(* Steps.                                                                  *)

\* A new call.
LEMMA AccountedAsk ==
    ASSUME Accounted, NEW c \in Calls, NEW n \in 0 .. MaxIds, downloadItemsFromFirebase(c, n)
    PROVE  Accounted'
<1> USE DEF downloadItemsFromFirebase
<1>0. TypeOK
  BY DEF Accounted
<1>1. TypeOK'
  BY <1>0, TypeAsk
<1>2. Unused(c)
  BY DEF Accounted
<1>3. /\ size'[c] = n /\ waiting'[c] = 1 .. n
      /\ itemArray'[c] = << >> /\ counter'[c] = counter[c] /\ ~ failed'[c]
      /\ answers'[c] = IF n > 0 THEN << >> ELSE << << >> >>
  BY <1>0, <1>2 DEF TypeOK, Unused, NoCompletion, completion
<1>4. ASSUME NEW b \in Calls, b # c
      PROVE  /\ size'[b] = size[b] /\ waiting'[b] = waiting[b]
             /\ itemArray'[b] = itemArray[b] /\ counter'[b] = counter[b]
             /\ failed'[b] = failed[b] /\ answers'[b] = answers[b]
  BY <1>0, <1>4 DEF TypeOK, NoCompletion, completion
<1>5. \A b \in Calls \ made' : Unused(b)'
  BY <1>4 DEF Accounted, Unused
<1>6. ASSUME NEW b \in Calls
      PROVE  Tally(b)' /\ Growing(b)'
  <2>1. CASE b = c
    <3>1. n \in Nat /\ Cardinality(1 .. n) = n
      <4>1. n \in Int /\ 1 \in Int /\ n >= 0
        BY FetchAssumption
      <4>2. Cardinality(1 .. n) = IF 1 > n THEN 0 ELSE n - 1 + 1
        BY <4>1, FS_Interval
      <4> QED
        BY <4>1, <4>2
    <3>2. counter[c] = 0
      BY <1>2 DEF Accounted, Tally, Unused
    <3>3. Tally(c)'
      BY <1>3, <3>1, <3>2 DEF Tally
    <3>4. Growing(c)'
      BY <1>3 DEF Growing, IsStart
    <3> QED
      BY <2>1, <3>3, <3>4
  <2>2. CASE b # c
    BY <1>4, <2>2 DEF Accounted, Tally, Growing
  <2> QED
    BY <2>1, <2>2
<1>7. ASSUME NEW b \in made'
      PROVE  Told(b)'
  <2>1. CASE b = c
    <3>1. n \in Nat /\ (1 .. n = {} <=> ~ (n > 0))
      BY FetchAssumption
    <3> QED
      BY <1>3, <2>1, <3>1 DEF Told
  <2>2. CASE b # c
    <3>1. b \in made /\ b \in Calls
      BY <1>0, <2>2 DEF TypeOK
    <3>2. Told(b)
      BY <3>1 DEF Accounted
    <3>3. /\ failed'[b] = failed[b] /\ answers'[b] = answers[b]
          /\ waiting'[b] = waiting[b] /\ itemArray'[b] = itemArray[b]
      BY <1>4, <2>2, <3>1
    <3> HIDE DEF downloadItemsFromFirebase
    <3> QED
      BY <3>2, <3>3 DEF Told
  <2> QED
    BY <2>1, <2>2
<1>8. InTurn'
  <2>1. newest' = c /\ c \in made' /\ newest' # NoCall
    BY FetchAssumption
  <2>2. ASSUME ~ crossed', NEW b \in made', waiting'[b] # {}
        PROVE  b = c
    <3>1. \A d \in made : waiting[d] = {}
      BY <2>2
    <3>2. b \in Calls /\ (b # c => b \in made)
      BY <1>1, <2>2 DEF TypeOK
    <3>3. b # c => waiting'[b] = waiting[b]
      BY <1>4, <3>2
    <3> HIDE DEF downloadItemsFromFirebase
    <3> QED
      BY <2>2, <3>1, <3>2, <3>3
  <2>3. ASSUME answers'[c] # << >>
        PROVE  shown' = [call |-> c, list |-> answers'[c][Len(answers'[c])]]
    <3>1. ~ (n > 0)
      BY <1>3, <2>3
    <3>2. answers'[c] = << << >> >>
      BY <1>3, <3>1
    <3> QED
      BY <3>1, <3>2 DEF completion
  <2> QED
    BY <2>1, <2>2, <2>3 DEF InTurn
<1> QED
  BY <1>1, <1>5, <1>6, <1>7, <1>8 DEF Accounted

\* What an answer leaves alone, and what it does to its own call.
LEMMA AnswerFrame ==
    ASSUME TypeOK, NEW c \in Calls, NEW p \in waiting[c], found(c, p) \/ missing(c, p)
    PROVE  /\ made' = made /\ newest' = newest /\ size' = size /\ crossed' = crossed
           /\ waiting'[c] = waiting[c] \ {p}
           /\ \A b \in Calls : b # c =>
                /\ waiting'[b] = waiting[b] /\ itemArray'[b] = itemArray[b]
                /\ counter'[b] = counter[b] /\ failed'[b] = failed[b]
                /\ answers'[b] = answers[b]
BY DEF TypeOK, found, missing, Answer, NoCompletion, completion

\* The calls that are not answered stay accounted for.
LEMMA OthersAccounted ==
    ASSUME Accounted, NEW c \in Calls, NEW p \in waiting[c], found(c, p) \/ missing(c, p)
    PROVE  \A d \in Calls : d # c => Tally(d)' /\ Growing(d)' /\ (d \in made => Told(d)')
<1> SUFFICES ASSUME NEW d \in Calls, d # c
             PROVE  Tally(d)' /\ Growing(d)' /\ (d \in made => Told(d)')
  OBVIOUS
<1>1. /\ size' = size /\ waiting'[d] = waiting[d] /\ itemArray'[d] = itemArray[d]
      /\ counter'[d] = counter[d] /\ failed'[d] = failed[d] /\ answers'[d] = answers[d]
  BY AnswerFrame DEF Accounted
<1>2. Tally(d)'
  BY <1>1 DEF Accounted, Tally
<1>3. Growing(d)'
  BY <1>1 DEF Accounted, Growing
<1>4. d \in made => Told(d)'
  BY <1>1 DEF Accounted, Told
<1> QED
  BY <1>2, <1>3, <1>4

\* The screen shows the last list of the call that was told last.
LEMMA ShownLast ==
    ASSUME TypeOK, NEW c \in Calls, NEW list \in Seq(1 .. MaxIds), completion(c, list)
    PROVE  shown' = [call |-> c, list |-> answers'[c][Len(answers'[c])]]
<1>1. answers'[c] = Append(answers[c], list) /\ answers[c] \in Seq(Seq(1 .. MaxIds))
  BY DEF TypeOK, completion
<1>2. answers'[c][Len(answers'[c])] = list
  BY <1>1
<1> QED
  BY <1>2 DEF completion

LEMMA InTurnAnswered ==
    ASSUME Accounted, NEW c \in Calls, NEW p \in waiting[c], c \in made,
           found(c, p) \/ missing(c, p),
           NEW list \in Seq(1 .. MaxIds), completion(c, list) \/ NoCompletion
    PROVE  InTurn'
<1>0. TypeOK /\ InTurn
  BY DEF Accounted
<1>1. /\ made' = made /\ newest' = newest /\ crossed' = crossed
      /\ waiting'[c] = waiting[c] \ {p}
      /\ \A b \in Calls : b # c => waiting'[b] = waiting[b]
  BY <1>0, AnswerFrame
<1>2. ASSUME ~ crossed'
      PROVE  c = newest
  BY <1>0, <1>1, <1>2 DEF InTurn
<1>3. ASSUME ~ crossed', NEW b \in made', waiting'[b] # {}
      PROVE  b = newest'
  <2>1. b \in Calls
    BY <1>0, <1>1 DEF TypeOK
  <2>2. CASE b = c
    BY <1>1, <1>2, <1>3, <2>2
  <2>3. CASE b # c
    BY <1>0, <1>1, <1>3, <2>1, <2>3 DEF InTurn
  <2> QED
    BY <2>2, <2>3
<1>4. ASSUME ~ crossed', newest' # NoCall, answers'[newest'] # << >>
      PROVE  shown' = [call |-> newest', list |-> answers'[newest'][Len(answers'[newest'])]]
  <2>1. newest' = c
    BY <1>1, <1>2, <1>4
  <2>2. CASE completion(c, list)
    BY <1>0, <2>1, <2>2, ShownLast
  <2>3. CASE NoCompletion
    BY <1>0, <1>1, <1>4, <2>3 DEF InTurn, NoCompletion
  <2> QED
    BY <2>2, <2>3
<1>5. (newest' = NoCall => made' = {}) /\ (newest' # NoCall => newest' \in made')
  BY <1>0, <1>1 DEF InTurn
<1> QED
  BY <1>3, <1>4, <1>5 DEF InTurn

\* An item is found.
LEMMA AccountedFound ==
    ASSUME Accounted, NEW c \in Calls, NEW p \in waiting[c], found(c, p)
    PROVE  Accounted'
<1> DEFINE a == itemArray[c]
           b == Append(a, p)
           done == waiting[c] \ {p} = {}
<1>0. TypeOK
  BY DEF Accounted
<1>1. TypeOK'
  BY <1>0, TypeFound
<1>2. c \in made
  BY DEF Accounted, Unused
<1>3. /\ made' = made /\ newest' = newest /\ size' = size /\ crossed' = crossed
      /\ waiting'[c] = waiting[c] \ {p}
      /\ \A d \in Calls : d # c =>
           /\ waiting'[d] = waiting[d] /\ itemArray'[d] = itemArray[d]
           /\ counter'[d] = counter[d] /\ failed'[d] = failed[d]
           /\ answers'[d] = answers[d]
  BY <1>0, AnswerFrame
<1>4. /\ itemArray'[c] = b /\ counter'[c] = counter[c] + 1 /\ failed'[c] = failed[c]
      /\ IF counter[c] + 1 = size[c] THEN completion(c, b) ELSE NoCompletion
  BY <1>0 DEF TypeOK, found
<1>5. p \in 1 .. MaxIds /\ a \in Seq(1 .. MaxIds) /\ b \in Seq(1 .. MaxIds)
      /\ answers[c] \in Seq(Seq(1 .. MaxIds))
      /\ counter[c] \in Nat /\ size[c] \in Nat /\ Len(b) = Len(a) + 1 /\ Len(a) \in Nat
  BY <1>0 DEF TypeOK
<1>6. Tally(c) /\ Growing(c) /\ Told(c)
  BY <1>2 DEF Accounted
<1>7. /\ Cardinality(waiting[c]) \in Nat /\ Cardinality(waiting[c] \ {p}) \in Nat
      /\ Cardinality(waiting[c] \ {p}) = Cardinality(waiting[c]) - 1
      /\ done <=> Cardinality(waiting[c] \ {p}) = 0
  BY <1>0, OneLess
<1>8. Tally(c)'
  <2>1. counter'[c] = Len(b)
    BY <1>4, <1>5, <1>6 DEF Tally
  <2>2. waiting'[c] \subseteq 1 .. size[c]
    BY <1>3, <1>6 DEF Tally
  <2>3. \A n \in DOMAIN b : b[n] \notin waiting[c] \ {p}
    <3>1. \A n \in DOMAIN a : a[n] \notin waiting[c]
      BY <1>6 DEF Tally
    <3>2. \A n \in DOMAIN b : b[n] = p \/ (n \in DOMAIN a /\ b[n] = a[n])
      BY <1>5, AppendEntries
    <3> QED
      BY <3>1, <3>2
  <2>4. \A n \in DOMAIN a : a[n] # p
    BY <1>6 DEF Tally
  <2>5. \A m, n \in DOMAIN b : b[m] = b[n] => m = n
    <3>1. \A m, n \in DOMAIN a : a[m] = a[n] => m = n
      BY <1>6 DEF Tally
    <3>2. b = Append(a, p)
      OBVIOUS
    <3> HIDE DEF a, b
    <3> QED
      BY <1>5, <2>4, <3>1, <3>2, AppendStaysInjective
  <2>6. ASSUME ~ failed[c]
        PROVE  Len(b) + Cardinality(waiting[c] \ {p}) = size[c]
    <3>1. Len(a) + Cardinality(waiting[c]) = size[c]
      BY <1>6, <2>6 DEF Tally
    <3> HIDE DEF a, b
    <3> QED
      BY <1>5, <1>7, <3>1
  <2> QED
    BY <1>3, <1>4, <2>1, <2>2, <2>3, <2>5, <2>6 DEF Tally
<1>9. answers'[c] \in {answers[c], Append(answers[c], b)}
  BY <1>0, <1>4 DEF TypeOK, completion, NoCompletion
<1>10. Growing(c)'
  <2>1. IsStart(a, b)
    BY <1>5, AppendStart
  <2>2. /\ \A n \in DOMAIN answers[c] : IsStart(answers[c][n], a)
        /\ \A m, n \in DOMAIN answers[c] : m <= n => IsStart(answers[c][m], answers[c][n])
    BY <1>6 DEF Growing
  <2>3. /\ \A n \in DOMAIN answers'[c] : IsStart(answers'[c][n], b)
        /\ \A m, n \in DOMAIN answers'[c] : m <= n => IsStart(answers'[c][m], answers'[c][n])
    BY <1>5, <1>9, <2>1, <2>2, GrowingOn
  <2> QED
    BY <1>4, <2>3 DEF Growing
<1>11. Told(c)'
  <2>1. CASE failed[c]
    <3>1. answers[c] # << >>
      BY <1>6, <2>1 DEF Told
    <3>2. answers'[c] # << >>
      BY <1>5, <1>9, <3>1
    <3> QED
      BY <1>4, <2>1, <3>2 DEF Told
  <2>2. CASE ~ failed[c]
    <3>1. answers[c] = << >>
      BY <1>6, <2>2 DEF Told
    <3>2. counter[c] + 1 = size[c] <=> done
      <4>1. counter[c] = Len(a) /\ Len(a) + Cardinality(waiting[c]) = size[c]
        BY <1>6, <2>2 DEF Tally
      <4> HIDE DEF a, b, done
      <4> QED
        BY <1>5, <1>7, <4>1
    <3>3. CASE done
      <4>1. answers'[c] = Append(answers[c], b)
        BY <1>0, <1>4, <3>2, <3>3 DEF TypeOK, completion
      <4>2. answers'[c] = <<b>>
        BY <3>1, <4>1
      <4> QED
        BY <1>3, <1>4, <2>2, <3>3, <4>2 DEF Told
    <3>4. CASE ~ done
      <4>1. answers'[c] = << >>
        BY <1>4, <3>1, <3>2, <3>4 DEF NoCompletion
      <4> QED
        BY <1>3, <1>4, <2>2, <3>4, <4>1 DEF Told
    <3> QED
      BY <3>3, <3>4
  <2> QED
    BY <2>1, <2>2
<1>12. InTurn'
  <2>1. completion(c, b) \/ NoCompletion
    BY <1>4
  <2> HIDE DEF b
  <2> QED
    BY <1>2, <1>5, <2>1, InTurnAnswered
<1>13. \A d \in Calls \ made' : Unused(d)'
  BY <1>2, <1>3 DEF Accounted, Unused
<1>14. ASSUME NEW d \in Calls
       PROVE  Tally(d)' /\ Growing(d)' /\ (d \in made' => Told(d)')
  <2>1. CASE d = c
    BY <1>8, <1>10, <1>11, <2>1
  <2>2. CASE d # c
    BY <1>3, <2>2, OthersAccounted
  <2> QED
    BY <2>1, <2>2
<1>15. made' \subseteq Calls
  BY <1>1 DEF TypeOK
<1> QED
  BY <1>1, <1>12, <1>13, <1>14, <1>15 DEF Accounted

\* An item is missing.
LEMMA AccountedMissing ==
    ASSUME Accounted, NEW c \in Calls, NEW p \in waiting[c], missing(c, p)
    PROVE  Accounted'
<1> DEFINE a == itemArray[c]
<1>0. TypeOK
  BY DEF Accounted
<1>1. TypeOK'
  BY <1>0, TypeMissing
<1>2. c \in made
  BY DEF Accounted, Unused
<1>3. /\ made' = made /\ size' = size /\ waiting'[c] = waiting[c] \ {p}
      /\ \A d \in Calls : d # c =>
           /\ waiting'[d] = waiting[d] /\ itemArray'[d] = itemArray[d]
           /\ failed'[d] = failed[d] /\ answers'[d] = answers[d]
  BY <1>0, AnswerFrame
<1>4. /\ itemArray'[c] = a /\ counter'[c] = counter[c] /\ failed'[c]
      /\ completion(c, a) /\ answers'[c] = Append(answers[c], a)
  BY <1>0 DEF TypeOK, missing, completion
<1>5. a \in Seq(1 .. MaxIds) /\ answers[c] \in Seq(Seq(1 .. MaxIds))
  BY <1>0 DEF TypeOK
<1>6. Tally(c) /\ Growing(c)
  BY DEF Accounted
<1>7. Tally(c)'
  BY <1>3, <1>4, <1>6 DEF Tally
<1>8. Growing(c)'
  <2>1. IsStart(a, a)
    BY <1>5 DEF IsStart
  <2>2. /\ \A n \in DOMAIN answers[c] : IsStart(answers[c][n], a)
        /\ \A m, n \in DOMAIN answers[c] : m <= n => IsStart(answers[c][m], answers[c][n])
    BY <1>6 DEF Growing
  <2>3. /\ \A n \in DOMAIN answers'[c] : IsStart(answers'[c][n], a)
        /\ \A m, n \in DOMAIN answers'[c] : m <= n => IsStart(answers'[c][m], answers'[c][n])
    BY <1>4, <1>5, <2>1, <2>2, GrowingOn
  <2> QED
    BY <1>4, <2>3 DEF Growing
<1>9. Told(c)'
  <2>1. Append(answers[c], a) # << >>
    BY <1>5, AppendNotEmpty
  <2>2. answers'[c] # << >>
    BY <1>4, <2>1
  <2> QED
    BY <1>4, <2>2 DEF Told
<1>10. InTurn'
  BY <1>2, <1>4, <1>5, InTurnAnswered
<1>11. \A d \in Calls \ made' : Unused(d)'
  BY <1>2, <1>3 DEF Accounted, Unused
<1>12. ASSUME NEW d \in Calls
       PROVE  Tally(d)' /\ Growing(d)' /\ (d \in made' => Told(d)')
  <2>1. CASE d = c
    BY <1>7, <1>8, <1>9, <2>1
  <2>2. CASE d # c
    BY <1>3, <2>2, OthersAccounted
  <2> QED
    BY <2>1, <2>2
<1>13. made' \subseteq Calls
  BY <1>1 DEF TypeOK
<1> QED
  BY <1>1, <1>10, <1>11, <1>12, <1>13 DEF Accounted

--------------------------------------------------------------------------------
(* The invariant and what follows from it.                                 *)

LEMMA AccountedInit == Init => Accounted
<1> SUFFICES ASSUME Init
             PROVE  Accounted
  OBVIOUS
<1> USE DEF Init
<1>1. << >> \in Seq(1 .. MaxIds) /\ << >> \in Seq(Seq(1 .. MaxIds))
  OBVIOUS
<1>2. TypeOK
  <2>1. 0 \in 0 .. MaxIds
    BY FetchAssumption
  <2>2. answers \in [Calls -> Seq(Seq(1 .. MaxIds))] /\ itemArray \in [Calls -> Seq(1 .. MaxIds)]
    BY <1>1
  <2>3. shown \in [call : Calls \cup {NoCall}, list : Seq(1 .. MaxIds)]
    BY <1>1
  <2> QED
    BY <2>1, <2>2, <2>3 DEF TypeOK
<1>3. \A c \in Calls : Unused(c) /\ Growing(c)
  BY DEF Unused, Growing
<1>4. \A c \in Calls : Tally(c)
  BY FS_EmptySet DEF Tally
<1>5. InTurn
  BY DEF InTurn
<1> QED
  BY <1>2, <1>3, <1>4, <1>5 DEF Accounted

LEMMA AccountedStep == Accounted /\ [Next]_vars => Accounted'
<1> SUFFICES ASSUME Accounted, [Next]_vars
             PROVE  Accounted'
  OBVIOUS
<1>1. ASSUME NEW c \in Calls, NEW n \in 0 .. MaxIds, downloadItemsFromFirebase(c, n)
      PROVE  Accounted'
  BY <1>1, AccountedAsk
<1>2. ASSUME NEW c \in Calls, NEW p \in waiting[c], found(c, p)
      PROVE  Accounted'
  BY <1>2, AccountedFound
<1>3. ASSUME NEW c \in Calls, NEW p \in waiting[c], missing(c, p)
      PROVE  Accounted'
  BY <1>3, AccountedMissing
<1>4. CASE UNCHANGED vars
  BY <1>4 DEF vars, Accounted, TypeOK, Unused, Tally, Growing, Told, InTurn
<1> QED
  BY <1>1, <1>2, <1>3, <1>4 DEF Next

LEMMA AccountedAlways == Spec => []Accounted
BY AccountedInit, AccountedStep, PTL DEF Spec

\* The state has its type, for any number of calls and ids
\* (downloadItemsFromFirebase(withIds:)).
THEOREM FetchTypeCorrect == Spec => []TypeOK
<1>1. Accounted => TypeOK
  BY DEF Accounted
<1> QED
  BY <1>1, AccountedAlways, PTL

\* Without missing items the completion block runs exactly once, at the end, with
\* every item (counter == withIds.count), in whatever order the answers come.
THEOREM CompletionOnceWithAll == Spec => []AllAtOnce
<1>1. Accounted => AllAtOnce
  <2> SUFFICES ASSUME Accounted, NEW c \in made, ~ failed[c]
               PROVE  IF waiting[c] = {} THEN Len(answers[c]) = 1 /\ Full(c, answers[c][1])
                                         ELSE answers[c] = << >>
    BY DEF AllAtOnce
  <2>1. c \in Calls /\ Tally(c) /\ Told(c)
    BY DEF Accounted, TypeOK
  <2>2. CASE waiting[c] = {}
    <3>1. answers[c] = <<itemArray[c]>>
      BY <2>1, <2>2 DEF Told
    <3>2. Cardinality({}) = 0
      BY FS_EmptySet
    <3>3. itemArray[c] \in Seq(1 .. MaxIds)
      BY <2>1 DEF Accounted, TypeOK
    <3>4. Len(itemArray[c]) = size[c]
      BY <2>1, <2>2, <3>2, <3>3 DEF Tally
    <3>5. Full(c, itemArray[c])
      BY <2>1, <3>4 DEF Tally, Full
    <3> QED
      BY <2>2, <3>1, <3>5
  <2>3. CASE waiting[c] # {}
    BY <2>1, <2>3 DEF Told
  <2> QED
    BY <2>2, <2>3
<1> QED
  BY <1>1, AccountedAlways, PTL

\* A caller whose answers are all in was told something, also after missing items.
THEOREM CallerIsTold == Spec => []NeverSilent
<1>1. Accounted => NeverSilent
  <2> SUFFICES ASSUME Accounted, NEW c \in made, waiting[c] = {}
               PROVE  answers[c] # << >>
    BY DEF NeverSilent
  <2>1. Told(c)
    BY DEF Accounted
  <2>2. CASE failed[c]
    BY <2>1, <2>2 DEF Told
  <2>3. CASE ~ failed[c]
    <3>1. answers[c] = <<itemArray[c]>>
      BY <2>1, <2>3 DEF Told
    <3> QED
      BY <3>1
  <2> QED
    BY <2>2, <2>3
<1> QED
  BY <1>1, AccountedAlways, PTL

\* No list is shorter than, or different from, one the same call gave before.
THEOREM ListsGrow == Spec => []AnswersGrow
<1>1. Accounted => AnswersGrow
  BY DEF Accounted, Growing, AnswersGrow
<1> QED
  BY <1>1, AccountedAlways, PTL

\* Calls made one after the other leave the items of the last one on the screen.
THEOREM ScreenShowsNewest == Spec => []ShownIsNewest
<1>1. Accounted /\ AllAtOnce => ShownIsNewest
  <2> SUFFICES ASSUME Accounted, AllAtOnce, \A c \in made : waiting[c] = {},
                      newest # NoCall, ~ crossed, ~ failed[newest]
               PROVE  shown.call = newest /\ Full(newest, shown.list)
    BY DEF ShownIsNewest
  <2>1. newest \in made
    BY DEF Accounted, InTurn
  <2>2. Len(answers[newest]) = 1 /\ Full(newest, answers[newest][1])
    BY <2>1 DEF AllAtOnce
  <2>3. answers[newest] # << >>
    BY <2>2
  <2>4. shown = [call |-> newest, list |-> answers[newest][Len(answers[newest])]]
    BY <2>3 DEF Accounted, InTurn
  <2> QED
    BY <2>2, <2>4
<1> QED
  BY <1>1, AccountedAlways, CompletionOnceWithAll, PTL


--------------------------------------------------------------------------------
(* Calls that cross.                                                       *)

\* Once a block was run, the screen has the last list of a call that was answered.
ShownIsAnAnswer ==
    (\E c \in made : answers[c] # << >>) =>
        /\ shown.call \in made /\ answers[shown.call] # << >>
        /\ shown.list = answers[shown.call][Len(answers[shown.call])]

LEMMA ShownIsAnAnswerStep ==
    ASSUME Accounted, ShownIsAnAnswer, [Next]_vars
    PROVE  ShownIsAnAnswer'
<1>0. TypeOK
  BY DEF Accounted
<1>1. ASSUME NEW c \in Calls, NEW list \in Seq(1 .. MaxIds), completion(c, list), c \in made'
      PROVE  ShownIsAnAnswer'
  <2>1. shown' = [call |-> c, list |-> answers'[c][Len(answers'[c])]]
    BY <1>0, <1>1, ShownLast
  <2>2. answers'[c] = Append(answers[c], list) /\ answers[c] \in Seq(Seq(1 .. MaxIds))
    BY <1>0, <1>1 DEF TypeOK, completion
  <2>3. answers'[c] # << >>
    BY <2>2, AppendNotEmpty
  <2> QED
    BY <1>1, <2>1, <2>3 DEF ShownIsAnAnswer
<1>2. ASSUME NEW c \in Calls, NoCompletion, made' = made \cup {c}, c \notin made
      PROVE  ShownIsAnAnswer'
  BY <1>2 DEF NoCompletion, ShownIsAnAnswer, Accounted, Unused
<1>3. ASSUME NoCompletion, made' = made
      PROVE  ShownIsAnAnswer'
  BY <1>3 DEF NoCompletion, ShownIsAnAnswer
<1>4. ASSUME NEW c \in Calls, NEW n \in 0 .. MaxIds, downloadItemsFromFirebase(c, n)
      PROVE  ShownIsAnAnswer'
  <2>1. << >> \in Seq(1 .. MaxIds)
    OBVIOUS
  <2> QED
    BY <1>1, <1>2, <1>4, <2>1 DEF downloadItemsFromFirebase
<1>5. ASSUME NEW c \in Calls, NEW p \in waiting[c], found(c, p) \/ missing(c, p)
      PROVE  ShownIsAnAnswer'
  <2>1. made' = made /\ c \in made
    BY <1>0, <1>5, AnswerFrame DEF Accounted, Unused
  <2>2. itemArray[c] \in Seq(1 .. MaxIds) /\ p \in 1 .. MaxIds
    BY <1>0 DEF TypeOK
  <2>3. CASE found(c, p)
    <3>1. itemArray'[c] = Append(itemArray[c], p)
      BY <1>0, <2>3 DEF found, TypeOK
    <3>2. itemArray'[c] \in Seq(1 .. MaxIds)
      BY <2>2, <3>1
    <3>3. completion(c, itemArray'[c]) \/ NoCompletion
      BY <2>3 DEF found
    <3> QED
      BY <1>1, <1>3, <2>1, <3>2, <3>3
  <2>4. CASE missing(c, p)
    BY <1>1, <2>1, <2>2, <2>4 DEF missing
  <2> QED
    BY <1>5, <2>3, <2>4
<1>6. CASE UNCHANGED vars
  BY <1>6 DEF vars, ShownIsAnAnswer
<1> QED
  BY <1>4, <1>5, <1>6 DEF Next

LEMMA ShownIsAnAnswerAlways == Spec => []ShownIsAnAnswer
<1>1. Init => ShownIsAnAnswer
  BY DEF Init, ShownIsAnAnswer
<1>2. Accounted /\ ShownIsAnAnswer /\ [Next]_vars => ShownIsAnAnswer'
  BY ShownIsAnAnswerStep
<1> QED
  BY <1>1, <1>2, AccountedAlways, PTL DEF Spec

--------------------------------------------------------------------------------
(* The search screen.                                                      *)

allVars == <<vars, searchVars, cellVars>>

\* A step of the screen is a step of the download, or leaves it alone.
LEMMA StepIsFetch ==
    ASSUME [SearchNext]_allVars
    PROVE  [Next]_vars
<1>1. CASE UNCHANGED allVars
  BY <1>1 DEF allVars
<1>2. CASE \E c \in Calls : searchInFirebase(c)
  BY <1>2 DEF searchInFirebase
<1>3. CASE \E c \in Calls : searchAlgolia(c)
  BY <1>3 DEF searchAlgolia, Next
<1>4. CASE \E c \in Calls : itemAnswered(c)
  BY <1>4 DEF itemAnswered, Next
<1>5. CASE \E k \in Cells : \E n \in DOMAIN loads[k] : imageArrives(k, n) \/ imageFails(k, n)
  BY <1>5 DEF imageArrives, imageFails
<1> QED
  BY <1>1, <1>2, <1>3, <1>4, <1>5 DEF SearchNext

\* The screen implements the download: whatever holds of every behaviour of ItemFetch
\* holds of the search screen (searchInFirebase hands its hits to
\* downloadItemsFromFirebase and does nothing else to it).
THEOREM SearchImplementsFetch == SearchSpec => Spec
<1>1. SearchInit => Init
  BY DEF SearchInit
<1>2. [SearchNext]_allVars => [Next]_vars
  BY StepIsFetch
<1> QED
  BY <1>1, <1>2, PTL DEF SearchSpec, Spec, allVars

LEMMA SearchAccounted == SearchSpec => []Accounted
<1> QED
  BY SearchImplementsFetch, AccountedAlways, PTL

--------------------------------------------------------------------------------
(* The spinner.                                                            *)

\* Somebody still waits for a first answer.
Untold == querying # {} \/ \E c \in made : answers[c] = << >>

SpinnerMeans == spinner => Untold

LEMMA SpinnerStep ==
    ASSUME SpinnerMeans, Accounted, [SearchNext]_allVars
    PROVE  SpinnerMeans'
<1>1. CASE UNCHANGED allVars
  BY <1>1 DEF allVars, vars, searchVars, SpinnerMeans, Untold
<1>2. ASSUME NEW c \in Calls, searchInFirebase(c)
      PROVE  SpinnerMeans'
  BY <1>2 DEF searchInFirebase, SpinnerMeans, Untold
<1>3. ASSUME NEW c \in Calls, searchAlgolia(c)
      PROVE  SpinnerMeans'
  <2>1. PICK n \in 0 .. MaxIds : downloadItemsFromFirebase(c, n)
    BY <1>3 DEF searchAlgolia
  <2>2. c \in made' /\ answers[c] = << >>
    BY <2>1 DEF downloadItemsFromFirebase, Accounted, Unused
  <2>3. CASE answers'[c] = answers[c]
    BY <2>2, <2>3 DEF SpinnerMeans, Untold
  <2>4. CASE answers'[c] # answers[c]
    BY <1>3, <2>4 DEF searchAlgolia, itemsShown, SpinnerMeans
  <2> QED
    BY <2>3, <2>4
<1>4. ASSUME NEW c \in Calls, itemAnswered(c)
      PROVE  SpinnerMeans'
  <2>1. CASE answers'[c] = answers[c]
    <3>1. made' = made /\ querying' = querying /\ spinner' = spinner
      BY <1>4, <2>1 DEF itemAnswered, itemsShown, found, missing, Answer
    <3>2. \A b \in Calls : b # c => answers'[b] = answers[b]
      BY <1>4 DEF itemAnswered, found, missing, completion, NoCompletion, Accounted, TypeOK
    <3>3. made \subseteq Calls
      BY DEF Accounted, TypeOK
    <3> QED
      BY <2>1, <3>1, <3>2, <3>3 DEF SpinnerMeans, Untold
  <2>2. CASE answers'[c] # answers[c]
    BY <1>4, <2>2 DEF itemAnswered, itemsShown, SpinnerMeans
  <2> QED
    BY <2>1, <2>2
<1>5. CASE \E k \in Cells : \E n \in DOMAIN loads[k] : imageArrives(k, n) \/ imageFails(k, n)
  BY <1>5 DEF imageArrives, imageFails, vars, searchVars, SpinnerMeans, Untold
<1> QED
  BY <1>1, <1>2, <1>3, <1>4, <1>5 DEF SearchNext

\* The spinner does not outlive the searches, however many of them share it and
\* whichever hits are missing.
THEOREM SpinnerStops == SearchSpec => []SpinnerGoesAway
<1>1. SearchInit => SpinnerMeans
  BY DEF SearchInit, SpinnerMeans
<1>2. SpinnerMeans /\ Accounted /\ NeverSilent => SpinnerGoesAway
  BY DEF SpinnerMeans, Untold, SpinnerGoesAway, UnderWay, NeverSilent
<1>3. SpinnerMeans /\ Accounted /\ [SearchNext]_allVars => SpinnerMeans'
  BY SpinnerStep
<1> QED
  BY <1>1, <1>2, <1>3, SearchAccounted, SearchImplementsFetch, CallerIsTold, PTL
  DEF SearchSpec, allVars

--------------------------------------------------------------------------------
(* The rows.                                                               *)

\* A search is queried or downloaded.  Searches made one after the other: the one that
\* is queried is the last, and no download is under way then.
InOrder ==
    /\ searches = querying \cup made
    /\ IF last = NoCall THEN searches = {} ELSE last \in searches
    /\ ~ overtaken =>
        /\ ~ crossed
        /\ querying \subseteq {last}
        /\ querying = {} => last = newest
        /\ querying # {} => \A b \in made : waiting[b] = {}

LEMMA InOrderStep ==
    ASSUME InOrder, Accounted, [SearchNext]_allVars
    PROVE  InOrder'
<1> USE DEF InOrder
<1>0. NoCall \notin Calls
  BY FetchAssumption
<1>1. CASE UNCHANGED allVars
  BY <1>1 DEF allVars, vars, searchVars
<1>2. ASSUME NEW c \in Calls, searchInFirebase(c)
      PROVE  InOrder'
  BY <1>0, <1>2 DEF searchInFirebase, vars, UnderWay
<1>3. ASSUME NEW c \in Calls, searchAlgolia(c)
      PROVE  InOrder'
  <2>1. PICK n \in 0 .. MaxIds : downloadItemsFromFirebase(c, n)
    BY <1>3 DEF searchAlgolia
  <2>2. /\ c \in querying /\ querying' = querying \ {c} /\ searches' = searches
        /\ last' = last /\ overtaken' = overtaken
        /\ newest' = c /\ made' = made \cup {c}
        /\ crossed' = (crossed \/ \E b \in made : waiting[b] # {})
    BY <1>3, <2>1 DEF searchAlgolia, downloadItemsFromFirebase
  <2> QED
    BY <2>2
<1>4. ASSUME NEW c \in Calls, itemAnswered(c)
      PROVE  InOrder'
  <2>1. PICK p \in waiting[c] : found(c, p) \/ missing(c, p)
    BY <1>4 DEF itemAnswered
  <2>2. /\ last' = last /\ querying' = querying /\ overtaken' = overtaken
        /\ searches' = searches /\ made' = made /\ newest' = newest /\ crossed' = crossed
    BY <1>4, <2>1 DEF itemAnswered, found, missing, Answer
  <2>3. c \in made
    BY <2>1 DEF Accounted, Unused
  <2> QED
    BY <2>1, <2>2, <2>3
<1>5. CASE \E k \in Cells : \E n \in DOMAIN loads[k] : imageArrives(k, n) \/ imageFails(k, n)
  BY <1>5 DEF imageArrives, imageFails, vars, searchVars
<1> QED
  BY <1>1, <1>2, <1>3, <1>4, <1>5 DEF SearchNext

\* With nothing under way, the rows are all the hits of one search, unless one of them
\* was not found, although any number of searches may have overlapped; and of the last
\* search if none did.
THEOREM RowsAreLastHits == SearchSpec => []ResultsOfLast
<1>1. SearchInit => InOrder
  BY DEF SearchInit, Init, InOrder
<1>2. InOrder /\ Accounted /\ NeverSilent /\ ShownIsAnAnswer => ResultsOfLast
  <2> SUFFICES ASSUME InOrder, Accounted, NeverSilent, ShownIsAnAnswer,
                      ~ UnderWay, last # NoCall
               PROVE  /\ shown.call \in searches
                      /\ failed[shown.call] \/ Full(shown.call, shown.list)
                      /\ overtaken \/ shown.call = last
    BY DEF ResultsOfLast
  <2> DEFINE s == shown.call
  <2>1. querying = {} /\ \A c \in made : waiting[c] = {}
    BY DEF UnderWay
  <2>2. last \in made /\ answers[last] # << >>
    BY <2>1 DEF InOrder, NeverSilent
  <2>3. s \in made /\ s \in Calls /\ shown.list = answers[s][Len(answers[s])]
    BY <2>2 DEF ShownIsAnAnswer, Accounted, TypeOK
  <2>4. ASSUME ~ failed[s]
        PROVE  Full(s, shown.list)
    <3>1. answers[s] = <<itemArray[s]>> /\ waiting[s] = {}
      BY <2>1, <2>3, <2>4 DEF Accounted, Told
    <3>2. shown.list = itemArray[s]
      BY <2>3, <3>1
    <3>3. /\ itemArray[s] \in Seq(1 .. MaxIds)
          /\ Len(itemArray[s]) + Cardinality({}) = size[s]
      BY <2>3, <2>4, <3>1 DEF Accounted, TypeOK, Tally
    <3>4. Len(itemArray[s]) = size[s]
      BY <3>3, FS_EmptySet
    <3> QED
      BY <2>3, <3>2, <3>4 DEF Accounted, Tally, Full
  <2>5. ASSUME ~ overtaken
        PROVE  s = last
    <3>1. last = newest /\ ~ crossed
      BY <2>1, <2>5 DEF InOrder
    <3> QED
      BY <2>2, <3>1 DEF Accounted, InTurn
  <2> QED
    BY <2>1, <2>3, <2>4, <2>5 DEF InOrder
<1>3. InOrder /\ Accounted /\ [SearchNext]_allVars => InOrder'
  BY InOrderStep
<1> QED
  BY <1>1, <1>2, <1>3, SearchAccounted, SearchImplementsFetch, CallerIsTold,
     ShownIsAnAnswerAlways, PTL
  DEF SearchSpec, allVars

--------------------------------------------------------------------------------
(* The cells.                                                              *)

Places == Calls \X (1 .. MaxIds)

CellTypes ==
    /\ item \in [Cells -> Places \cup {NoPicture}]
    /\ picture \in [Cells -> Places \cup {NoPicture}]
    /\ loads \in [Cells -> Seq(Places)]
    /\ spoiled \in [Cells -> BOOLEAN]

\* A cell nothing went wrong with waits for pictures of its item only, and has it when
\* it waits for none.
Shows(k) ==
    item[k] # NoPicture /\ HasLinks(item[k]) /\ ~ spoiled[k] =>
        /\ \A n \in DOMAIN loads[k] : loads[k][n] = item[k]
        /\ loads[k] = << >> => picture[k] = item[k]

CellsRight == CellTypes /\ \A k \in Cells : Shows(k)

\* The entries of a list are of its type.
LEMMA EntriesTyped ==
    ASSUME NEW S, NEW s \in Seq(S)
    PROVE  \A n \in DOMAIN s : s[n] \in S
OBVIOUS

\* A list less one entry has only entries of the list.
LEMMA RemoveEntries ==
    ASSUME NEW S, NEW s \in Seq(S), NEW n \in DOMAIN s
    PROVE  /\ RemoveAt(s, n) \in Seq(S)
           /\ \A m \in DOMAIN RemoveAt(s, n) : \E q \in DOMAIN s : RemoveAt(s, n)[m] = s[q]
<1> DEFINE front == SubSeq(s, 1, n - 1)
           back == SubSeq(s, n + 1, Len(s))
<1>1. n \in 1 .. Len(s) /\ Len(s) \in Nat
  OBVIOUS
<1>2. /\ front \in Seq(S) /\ Len(front) = n - 1
      /\ \A m \in 1 .. n - 1 : front[m] = s[m]
  BY <1>1
<1>3. /\ back \in Seq(S) /\ Len(back) = Len(s) - n
      /\ \A m \in 1 .. Len(s) - n : back[m] = s[m + n]
  BY <1>1
<1>4. RemoveAt(s, n) = front \o back
  BY DEF RemoveAt
<1> HIDE DEF front, back
<1>5. /\ front \o back \in Seq(S)
      /\ Len(front \o back) = Len(front) + Len(back)
      /\ \A m \in 1 .. Len(front) + Len(back) :
           (front \o back)[m] = IF m <= Len(front) THEN front[m] ELSE back[m - Len(front)]
  BY <1>2, <1>3, ConcatProperties
<1>6. ASSUME NEW m \in 1 .. Len(s) - 1
      PROVE  \E q \in DOMAIN s : (front \o back)[m] = s[q]
  <2>1. CASE m <= n - 1
    <3>1. (front \o back)[m] = s[m] /\ m \in 1 .. Len(s)
      BY <1>1, <1>2, <1>3, <1>5, <2>1, SMTT(30)
    <3> QED
      BY <3>1
  <2>2. CASE m > n - 1
    <3> DEFINE j == m - (n - 1)
    <3>1. /\ m \in 1 .. Len(front) + Len(back) /\ ~ (m <= Len(front)) /\ m - Len(front) = j
          /\ j \in 1 .. Len(s) - n /\ j + n = m + 1 /\ m + 1 \in 1 .. Len(s)
      BY <1>1, <1>2, <1>3, <2>2
    <3>2. (front \o back)[m] = back[j]
      BY <1>5, <3>1
    <3>3. back[j] = s[m + 1]
      BY <1>3, <3>1
    <3> QED
      BY <3>1, <3>2, <3>3
  <2>3. m <= n - 1 \/ m > n - 1
    BY <1>1
  <2> QED
    BY <2>1, <2>2, <2>3
<1>7. DOMAIN (front \o back) = 1 .. Len(s) - 1
  BY <1>1, <1>2, <1>3, <1>5, SMTT(30)
<1> QED
  BY <1>4, <1>5, <1>6, <1>7

\* Cells that are given items (ItemTableViewCell's didSet) are right again.
LEMMA CellsGiven ==
    ASSUME CellsRight, NEW D \in SUBSET Cells, NEW given \in [D -> Places], didSet(given)
    PROVE  CellsRight'
<1>1. DOMAIN given = D
  OBVIOUS
<1>2. /\ item' = [k \in Cells |-> IF k \in D THEN given[k] ELSE item[k]]
      /\ loads' = [k \in Cells |->
                     IF k \in D /\ HasLinks(given[k]) THEN Append(loads[k], given[k])
                                                      ELSE loads[k]]
      /\ spoiled' = [k \in Cells |->
                       IF k \in D THEN \E n \in DOMAIN loads[k] : loads[k][n] # given[k]
                                  ELSE spoiled[k]]
      /\ picture' = picture
  BY <1>1 DEF didSet, Given
<1>3. \A k \in Cells : loads[k] \in Seq(Places)
  BY DEF CellsRight, CellTypes
<1>4. CellTypes'
  <2>1. \A k \in Cells : loads'[k] \in Seq(Places)
    BY <1>2, <1>3
  <2> QED
    BY <1>2, <2>1 DEF CellsRight, CellTypes
<1>5. ASSUME NEW k \in Cells, k \notin D
      PROVE  Shows(k)'
  BY <1>2, <1>5 DEF CellsRight, Shows, HasLinks
<1>6. ASSUME NEW k \in D
      PROVE  Shows(k)'
  <2>1. k \in Cells /\ item'[k] = given[k]
    BY <1>2
  <2> SUFFICES ASSUME HasLinks(given[k]), ~ spoiled'[k]
               PROVE  /\ \A n \in DOMAIN loads'[k] : loads'[k][n] = given[k]
                      /\ loads'[k] # << >>
    BY <2>1 DEF Shows, HasLinks
  <2>2. loads'[k] = Append(loads[k], given[k])
    BY <1>2, <2>1
  <2>3. \A n \in DOMAIN loads[k] : loads[k][n] = given[k]
    BY <1>2, <2>1
  <2> QED
    BY <1>3, <2>1, <2>2, <2>3, AppendEntries, AppendNotEmpty
<1> QED
  BY <1>4, <1>5, <1>6 DEF CellsRight

\* What reloadData gives the cells are places of the list.
LEMMA CellsReloaded ==
    ASSUME CellsRight, NEW c \in Calls, NEW list \in Seq(1 .. MaxIds), reloadData(c, list)
    PROVE  CellsRight'
<1> DEFINE shownRows == {n \in DOMAIN list : n <= Cardinality(Cells)}
<1>1. PICK cellOf \in Injection(shownRows, Cells) :
        didSet([k \in Range(cellOf) |-> <<c, list[AntiFunction(cellOf)[k]]>>])
  BY DEF reloadData
<1>2. cellOf \in [shownRows -> Cells]
  BY <1>1 DEF Injection
<1>3. Range(cellOf) \subseteq Cells
  BY <1>2 DEF Range
<1>4. ASSUME NEW k \in Range(cellOf)
      PROVE  <<c, list[AntiFunction(cellOf)[k]]>> \in Places
  <2>1. \E n \in DOMAIN cellOf : k \in Range(cellOf) => cellOf[n] = k
    BY DEF Range
  <2>2. AntiFunction(cellOf)[k] =
          CHOOSE n \in DOMAIN cellOf : k \in Range(cellOf) => cellOf[n] = k
    BY DEF AntiFunction, Inverse
  <2>3. AntiFunction(cellOf)[k] \in shownRows
    BY <1>2, <2>1, <2>2
  <2>4. list[AntiFunction(cellOf)[k]] \in 1 .. MaxIds
    <3>1. AntiFunction(cellOf)[k] \in DOMAIN list
      BY <2>3
    <3> QED
      BY <3>1, EntriesTyped
  <2> QED
    BY <2>4 DEF Places
<1> DEFINE given == [k \in Range(cellOf) |-> <<c, list[AntiFunction(cellOf)[k]]>>]
<1>5. given \in [Range(cellOf) -> Places]
  BY <1>4
<1> QED
  BY <1>1, <1>3, <1>5, CellsGiven

\* Also when the block is not run.
LEMMA CellsShown ==
    ASSUME CellsRight, Accounted', NEW c \in Calls, itemsShown(c)
    PROVE  CellsRight'
<1>1. CASE answers'[c] = answers[c]
  BY <1>1 DEF itemsShown, cellVars, CellsRight, CellTypes, Shows, HasLinks
<1>2. CASE answers'[c] # answers[c]
  <2>1. shown'.list \in Seq(1 .. MaxIds)
    BY DEF Accounted, TypeOK
  <2> QED
    BY <1>2, <2>1, CellsReloaded DEF itemsShown
<1> QED
  BY <1>1, <1>2

\* A picture comes, or does not.
LEMMA CellsLoaded ==
    ASSUME CellsRight, NEW k \in Cells, NEW n \in DOMAIN loads[k],
           imageArrives(k, n) \/ imageFails(k, n)
    PROVE  CellsRight'
<1>1. loads[k] \in Seq(Places) /\ loads[k][n] \in Places
  BY DEF CellsRight, CellTypes
<1>2. /\ RemoveAt(loads[k], n) \in Seq(Places)
      /\ \A m \in DOMAIN RemoveAt(loads[k], n) :
           \E q \in DOMAIN loads[k] : RemoveAt(loads[k], n)[m] = loads[k][q]
  BY <1>1, RemoveEntries
<1> DEFINE rest == RemoveAt(loads[k], n)
<1>3. item' = item /\ loads' = [loads EXCEPT ![k] = rest]
  BY DEF imageArrives, imageFails
<1> HIDE DEF rest
<1>4. \A j \in Cells : j # k => loads'[j] = loads[j] /\ picture'[j] = picture[j]
                                                      /\ spoiled'[j] = spoiled[j]
  BY <1>3 DEF imageArrives, imageFails, CellsRight, CellTypes
<1>5. CellTypes'
  BY <1>1, <1>2, <1>3 DEF imageArrives, imageFails, CellsRight, CellTypes, rest
<1>6. \A j \in Cells : j # k => Shows(j)'
  BY <1>3, <1>4 DEF CellsRight, Shows, HasLinks
<1>7. Shows(k)'
  <2> SUFFICES ASSUME item[k] # NoPicture, HasLinks(item[k]), ~ spoiled'[k]
               PROVE  /\ \A m \in DOMAIN loads'[k] : loads'[k][m] = item[k]
                      /\ picture'[k] = item[k]
    BY <1>3 DEF Shows, HasLinks
  <2>1. loads'[k] = rest
    BY <1>3 DEF CellsRight, CellTypes
  <2>2. ~ spoiled[k]
    BY DEF imageArrives, imageFails, CellsRight, CellTypes
  <2>3. \A q \in DOMAIN loads[k] : loads[k][q] = item[k]
    BY <2>2 DEF CellsRight, Shows
  <2>4. ~ imageFails(k, n)
    BY <2>3 DEF imageFails, CellsRight, CellTypes
  <2>5. picture'[k] = item[k]
    BY <2>3, <2>4 DEF imageArrives, CellsRight, CellTypes
  <2> QED
    BY <1>2, <2>1, <2>3, <2>5 DEF rest
<1> QED
  BY <1>5, <1>6, <1>7 DEF CellsRight

LEMMA CellsStep ==
    ASSUME CellsRight, Accounted', [SearchNext]_allVars
    PROVE  CellsRight'
<1>1. CASE UNCHANGED allVars
  BY <1>1 DEF allVars, cellVars, CellsRight, CellTypes, Shows, HasLinks
<1>2. ASSUME NEW c \in Calls, searchInFirebase(c)
      PROVE  CellsRight'
  BY <1>2 DEF searchInFirebase, cellVars, CellsRight, CellTypes, Shows, HasLinks
<1>3. ASSUME NEW c \in Calls, searchAlgolia(c) \/ itemAnswered(c)
      PROVE  CellsRight'
  BY <1>3, CellsShown DEF searchAlgolia, itemAnswered
<1>4. ASSUME NEW k \in Cells, NEW n \in DOMAIN loads[k], imageArrives(k, n) \/ imageFails(k, n)
      PROVE  CellsRight'
  BY <1>4, CellsLoaded
<1> QED
  BY <1>1, <1>2, <1>3, <1>4 DEF SearchNext

LEMMA CellsInit == SearchInit => CellsRight
<1>1. << >> \in Seq(Places)
  OBVIOUS
<1> QED
  BY <1>1 DEF SearchInit, CellsRight, CellTypes, Shows

\* A cell without a load under way shows the picture of its item, however cells are
\* reused and in whatever order pictures come, but for the cases the code leaves open.
THEOREM CellsShowTheirItems == SearchSpec => []CellShowsItsItem
<1>1. CellsRight => CellShowsItsItem
  BY DEF CellsRight, Shows, CellShowsItsItem
<1>2. CellsRight /\ Accounted' /\ [SearchNext]_allVars => CellsRight'
  BY CellsStep
<1> QED
  BY <1>1, <1>2, CellsInit, SearchAccounted, PTL DEF SearchSpec, allVars

================================================================================
