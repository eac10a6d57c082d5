------------------------------- MODULE ItemFetch -------------------------------
(***************************************************************************)
(* downloadItemsFromFirebase(withIds:) of Item.swift and the screens that  *)
(* call it (basket, search, purchase history).  A call asks for the        *)
(* documents one by one; the answers come in any order, on the main queue, *)
(* and share a list and a counter; the completion block, which replaces    *)
(* the rows of the screen, runs as often as the handlers call it.          *)
(*                                                                         *)
(* A position of the list of ids stands for the item asked for there, so   *)
(* that an id that occurs twice, as it may in the purchase history, is two *)
(* items, as it is in the code.                                            *)
(***************************************************************************)
EXTENDS Naturals, Sequences, FiniteSets

CONSTANTS
    Calls,
    NoCall,
    MaxIds  \* bound: the longest list of ids

VARIABLES
    made,       \* the calls made so far
    newest,     \* the last of them, or NoCall
    size,       \* size[c]: withIds.count
    waiting,    \* waiting[c]: the positions whose document is not answered
    itemArray,  \* itemArray[c]: the positions found, in the order of their answers
    counter,    \* counter[c]
    answers,    \* history: the lists c's completion block was given
    failed,     \* history: an item was missing, or its read failed
    crossed,    \* history: a call was made while another had answers to come
    shown       \* the rows: the list of the last completion, and whose it was

vars == <<made, newest, size, waiting, itemArray, counter, answers, failed, crossed, shown>>

ASSUME FetchAssumption == NoCall \notin Calls /\ MaxIds \in Nat

Init ==
    /\ made = {}
    /\ newest = NoCall
    /\ size = [c \in Calls |-> 0]
    /\ waiting = [c \in Calls |-> {}]
    /\ itemArray = [c \in Calls |-> << >>]
    /\ counter = [c \in Calls |-> 0]
    /\ answers = [c \in Calls |-> << >>]
    /\ failed = [c \in Calls |-> FALSE]
    /\ crossed = FALSE
    /\ shown = [call |-> NoCall, list |-> << >>]

NoCompletion == UNCHANGED <<answers, shown>>

completion(c, list) ==
    /\ answers' = [answers EXCEPT ![c] = Append(@, list)]
    /\ shown' = [call |-> c, list |-> list]

\* Variant: 0 ... withIds.count
downloadItemsOneTooMany(c, n) ==
    /\ c \notin made
    /\ made' = made \cup {c}
    /\ newest' = c
    /\ size' = [size EXCEPT ![c] = n]
    /\ waiting' = [waiting EXCEPT ![c] = 0 .. n]
    /\ crossed' = (crossed \/ \E b \in made : waiting[b] # {})
    /\ IF n > 0 THEN NoCompletion ELSE completion(c, << >>)
    /\ UNCHANGED <<itemArray, counter, failed>>

\* An empty list is answered inside the call.
downloadItemsFromFirebase(c, n) ==
    /\ c \notin made
    /\ made' = made \cup {c}
    /\ newest' = c
    /\ size' = [size EXCEPT ![c] = n]
    /\ waiting' = [waiting EXCEPT ![c] = 1 .. n]
    /\ crossed' = (crossed \/ \E b \in made : waiting[b] # {})
    /\ IF n > 0 THEN NoCompletion ELSE completion(c, << >>)
    /\ UNCHANGED <<itemArray, counter, failed>>

Answer(c, p) ==
    /\ p \in waiting[c]
    /\ waiting' = [waiting EXCEPT ![c] = @ \ {p}]
    /\ UNCHANGED <<made, newest, size, crossed>>

\* Variant: the counter counts from the list before the item was appended.
foundCountedLate(c, p) ==
    /\ Answer(c, p)
    /\ itemArray' = [itemArray EXCEPT ![c] = Append(@, p)]
    /\ counter' = [counter EXCEPT ![c] = @ + 1]
    /\ IF counter[c] = size[c] THEN completion(c, itemArray'[c]) ELSE NoCompletion
    /\ UNCHANGED failed

\* Variant: the block is run for every item.
foundAndTold(c, p) ==
    /\ Answer(c, p)
    /\ itemArray' = [itemArray EXCEPT ![c] = Append(@, p)]
    /\ counter' = [counter EXCEPT ![c] = @ + 1]
    /\ completion(c, itemArray'[c])
    /\ UNCHANGED failed

\* snapshot.exists
found(c, p) ==
    /\ Answer(c, p)
    /\ itemArray' = [itemArray EXCEPT ![c] = Append(@, p)]
    /\ counter' = [counter EXCEPT ![c] = @ + 1]
    /\ IF counter'[c] = size[c] THEN completion(c, itemArray'[c]) ELSE NoCompletion
    /\ UNCHANGED failed

\* Variant: a missing item is only left out.
missingSilently(c, p) ==
    /\ Answer(c, p)
    /\ NoCompletion
    /\ failed' = [failed EXCEPT ![c] = TRUE]
    /\ UNCHANGED <<itemArray, counter>>

\* There is no such item, or no snapshot: the block gets what there is, and the
\* other answers go on.
missing(c, p) ==
    /\ Answer(c, p)
    /\ completion(c, itemArray[c])
    /\ failed' = [failed EXCEPT ![c] = TRUE]
    /\ UNCHANGED <<itemArray, counter>>

Next ==
    \E c \in Calls :
        \/ \E n \in 0 .. MaxIds : downloadItemsFromFirebase(c, n)
        \/ \E p \in waiting[c] : found(c, p) \/ missing(c, p)

Spec == Init /\ [][Next]_vars

--------------------------------------------------------------------------------
(* Properties                                                              *)

\* The values the state is made of.
TypeOK ==
    /\ made \subseteq Calls
    /\ newest \in Calls \cup {NoCall}
    /\ size \in [Calls -> 0 .. MaxIds]
    /\ counter \in [Calls -> Nat]
    /\ failed \in [Calls -> BOOLEAN]
    /\ crossed \in BOOLEAN
    /\ waiting \in [Calls -> SUBSET (1 .. MaxIds)]
    /\ itemArray \in [Calls -> Seq(1 .. MaxIds)]
    /\ answers \in [Calls -> Seq(Seq(1 .. MaxIds))]
    /\ shown \in [call : Calls \cup {NoCall}, list : Seq(1 .. MaxIds)]

\* Every item that was asked for, once each.
Full(c, list) ==
    /\ Len(list) = size[c]
    /\ \A m, n \in DOMAIN list : list[m] = list[n] => m = n

\* As long as nothing is missing, the completion block runs once, after the last
\* answer, and with every item (the guard counter == withIds.count).
AllAtOnce ==
    \A c \in made : ~ failed[c] =>
        IF waiting[c] = {} THEN Len(answers[c]) = 1 /\ Full(c, answers[c][1])
                           ELSE answers[c] = << >>

\* A caller that has no answer to wait for has been told something, whichever
\* answers failed and in which order they came.
NeverSilent == \A c \in made : waiting[c] = {} => answers[c] # << >>

IsStart(s, t) == Len(s) <= Len(t) /\ \A i \in DOMAIN s : s[i] = t[i]

\* A list that a block is given extends the ones it was given before: rows never
\* disappear while the answers to one call come in.
AnswersGrow ==
    \A c \in Calls : \A m, n \in DOMAIN answers[c] : m <= n =>
        IsStart(answers[c][m], answers[c][n])

\* When all answers are in and nothing is missing, the screen shows everything that
\* was asked for last, unless a call was made before the one before it was answered:
\* only then can an older list overwrite a newer one (BasketViewController).
ShownIsNewest ==
    (/\ \A c \in made : waiting[c] = {}
     /\ newest # NoCall
     /\ ~ crossed
     /\ ~ failed[newest])
    => shown.call = newest /\ Full(newest, shown.list)

--------------------------------------------------------------------------------
(* The inductive invariant.                                                *)

Unused(c) ==
    /\ size[c] = 0 /\ waiting[c] = {} /\ itemArray[c] = << >>
    /\ answers[c] = << >> /\ ~ failed[c]

\* The list, the counter and the open reads of a call account for its ids.
Tally(c) ==
    /\ counter[c] = Len(itemArray[c])
    /\ waiting[c] \subseteq 1 .. size[c]
    /\ \A n \in DOMAIN itemArray[c] : itemArray[c][n] \notin waiting[c]
    /\ \A m, n \in DOMAIN itemArray[c] : itemArray[c][m] = itemArray[c][n] => m = n
    /\ ~ failed[c] => Len(itemArray[c]) + Cardinality(waiting[c]) = size[c]

Told(c) ==
    /\ ~ failed[c] => answers[c] = IF waiting[c] = {} THEN <<itemArray[c]>> ELSE << >>
    /\ failed[c] => answers[c] # << >>

Growing(c) ==
    /\ \A n \in DOMAIN answers[c] : IsStart(answers[c][n], itemArray[c])
    /\ \A m, n \in DOMAIN answers[c] : m <= n => IsStart(answers[c][m], answers[c][n])

\* Calls that did not cross: only the newest one may still be answered, and the
\* screen shows what it was told last.
InTurn ==
    /\ newest = NoCall => made = {}
    /\ newest # NoCall => newest \in made
    /\ ~ crossed =>
        /\ \A b \in made : waiting[b] # {} => b = newest
        /\ newest # NoCall /\ answers[newest] # << >> =>
            shown = [call |-> newest, list |-> answers[newest][Len(answers[newest])]]

Accounted ==
    /\ TypeOK
    /\ \A c \in Calls \ made : Unused(c)
    /\ \A c \in Calls : Tally(c) /\ Growing(c)
    /\ \A c \in made : Told(c)
    /\ InTurn

================================================================================
