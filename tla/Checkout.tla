------------------------------- MODULE Checkout -------------------------------
(***************************************************************************)
(* The basket screen and the purchase: loading the basket and its items,   *)
(* deleting a row, paying on the PayPal sheet, recording the purchase and  *)
(* emptying the basket, on one phone, while lines are added from the item  *)
(* screen, accounts sign out and in, and the process may end.  An account  *)
(* has a user document and at most one basket document; its items exist.   *)
(*                                                                         *)
(* An item is put in a basket at most once, so that a list of items is a   *)
(* set; the purchase history is a list and may name an item again.         *)
(***************************************************************************)
EXTENDS FirestoreClient, FiniteSets, SequencesExt

CONSTANTS
    Items,
    Phone,     \* the phone, the one device
    Registered, \* the accounts whose registration is finished (onBoard)
    MaxUnder,  \* bound: answers the user lets pile up
    MaxSheets  \* bound: times the checkout button is pressed

VARIABLES
    appeared,  \* the screen has appeared and is in front, or only under the sheet
    basket,    \* the screen's Basket object, or NoDoc
    rows,      \* allItems
    button,    \* checkOutButton.isEnabled
    toBuy,     \* purchasedItemIds
    sheet,     \* the PayPal sheet: "none", "up", or "paid" while it is dismissed
    offered,   \* the items on the sheet
    reads,     \* document reads under way: the blocks that wait for them
    fetches,   \* item reads under way: for each, the items asked for
    record,    \* the user record kept on the phone: whose, and purchasedItemIds
    adding,    \* adding[u][i]: how far "add to basket" of i by u has got
    presses,   \* how often the checkout button was pressed
    payments,  \* history: payments[u][i], how often u paid for i
    dropped,   \* history: items on a sheet that was cancelled or never presented
    deleted,   \* history: deleted[u], rows deleted from u's basket
    unsaved,   \* history: the accounts with a purchase that no record took in
    hasty,     \* history: the accounts for which one was written meanwhile
    mixed      \* history: one was written from the record of another account

view == <<appeared, basket, toBuy, sheet, offered, reads>>
list == <<rows, button, fetches>>
past == <<presses, payments, dropped, deleted, unsaved, hasty, mixed>>
vars == <<clientVars, view, list, record, adding, past>>

ASSUME CheckoutAssumption ==
    /\ Devices = {Phone}
    /\ Keys = {"basket", "user"} \X Users
    /\ Fields = {"items"}
    /\ Registered \subseteq Users
    /\ IsFiniteSet(Items)
    /\ NoDoc \notin [of : Users, items : Seq(Items)] \cup [items : Seq(Items)]
    /\ NoDoc \notin [of : Users, items : SUBSET Items] \cup [items : SUBSET Items]
    /\ None \notin [to : {"added"}, by : Users, item : Items] \cup [to : {"emptied"}]
            \cup [to : {"history"}, by : Users, record : [of : Users, items : Seq(Items)]]
    /\ MaxUnder \in Nat /\ MaxSheets \in Nat

BasketKey(u) == <<"basket", u>>
UserKey(u) == <<"user", u>>

Room == Len(reads) + Len(fetches) + Len(main[Phone]) < MaxUnder

\* MUser.currentUser() is not nil; the record may be another account's.
SignedIn == user[Phone] # NoUser /\ record # NoDoc

\* The user has the screen in front of them.
OnScreen == appeared /\ sheet = "none"

BasketOf(u, items) == [of |-> u, items |-> items]

Holds(i) == IF basket = NoDoc THEN FALSE ELSE i \in basket.items

--------------------------------------------------------------------------------
(* Loading the basket and its items.                                       *)

\* Variant: the download does not answer for an empty list.
getBasketItemsIfAny(b, shown) ==
    /\ rows' = shown
    /\ fetches' = IF b = NoDoc THEN fetches
                  ELSE IF b.items = {} THEN fetches ELSE Append(fetches, b.items)
    /\ UNCHANGED button

\* Variant: the download reads even when there is nothing to read.
getBasketItemsAlways(b, shown) ==
    /\ rows' = shown
    /\ fetches' = IF b = NoDoc THEN fetches ELSE Append(fetches, b.items)
    /\ UNCHANGED button

\* The rows are shown now.  Ids that are not empty are answered by itemsArrived,
\* once every item has been found; an empty list is answered inside the call.
getBasketItems(b, shown) ==
    \/ /\ b = NoDoc
       /\ rows' = shown
       /\ UNCHANGED <<button, fetches>>
    \/ /\ b # NoDoc /\ b.items = {}
       /\ rows' = {} /\ button' = FALSE
       /\ UNCHANGED fetches
    \/ /\ b # NoDoc /\ b.items # {}
       /\ rows' = shown
       /\ fetches' = Append(fetches, b.items)
       /\ UNCHANGED button

Asked(kind, key, item) == [kind |-> kind, key |-> key, item |-> item, doc |-> NoDoc]

viewDidAppear ==
    /\ sheet # "up"
    /\ appeared' = TRUE
    /\ \/ /\ SignedIn /\ Room
          /\ reads' = Append(reads, Asked("loaded", BasketKey(user[Phone]), None))
          /\ UNCHANGED button
       \/ /\ ~ SignedIn
          /\ button' = (rows # {})
          /\ UNCHANGED reads
    /\ UNCHANGED <<clientVars, basket, rows, toBuy, sheet, offered, fetches, record,
                   adding, past>>

Reply(block) == main' = [main EXCEPT ![Phone] = Append(@, block)]

\* A document read is answered by the server or by the cache, or there is an error;
\* the block that asked for it runs with the document, or with nil.
docRead(n) ==
    LET asked == reads[n]
        With(base) == [asked EXCEPT !.doc = LocalView(Phone, base)[asked.key]]
    IN
    /\ reads' = RemoveAt(reads, n)
    /\ \/ /\ online[Phone]
          /\ Fetch(Phone, {asked.key})
          /\ Reply(With(cache'[Phone]))
       \/ /\ ~ online[Phone]
          /\ Reply(With(cache[Phone]))
          /\ UNCHANGED <<cache, queue>>
       \/ /\ Reply(asked)
          /\ UNCHANGED <<cache, queue>>
    /\ UNCHANGED <<server, online, user, appeared, basket, toBuy, sheet, offered, list,
                   record, adding, past>>

\* Item reads are answered in any order; each answer replaces the rows.
itemsArrived(n) ==
    /\ rows' = fetches[n]
    /\ button' = (fetches[n] # {})
    /\ fetches' = RemoveAt(fetches, n)
    /\ UNCHANGED <<clientVars, view, record, adding, past>>

--------------------------------------------------------------------------------
(* The process ends.  Its memory is gone; writes and the record are kept.  *)

Restart(queues) ==
    /\ RestartFrom(Phone, queues)
    /\ appeared' = FALSE
    /\ basket' = NoDoc
    /\ rows' = {}
    /\ button' = TRUE
    /\ toBuy' = << >>
    /\ sheet' = "none"
    /\ offered' = {}
    /\ reads' = << >>
    /\ fetches' = << >>
    /\ adding' = [u \in Users |-> [i \in Items |->
                    IF adding[u][i] \in {"reading", "writing"} THEN "untold"
                    ELSE adding[u][i]]]
    /\ UNCHANGED <<record, presses, payments, deleted, dropped>>

Terminate == Restart(queue[Phone]) /\ UNCHANGED <<unsaved, hasty, mixed>>

--------------------------------------------------------------------------------
(* Deleting a row.                                                         *)

\* Variant: the list is not written back.
saveBasketNever(b) == UNCHANGED queue

\* The document of the basket that is shown, in the queue of whoever is signed in.
saveBasket(b) ==
    WriteMutations(Phone, UpdateData(BasketKey(b.of), [items |-> b.items], None))

deleteRow(i) ==
    /\ OnScreen /\ Room
    /\ i \in rows
    /\ Holds(i)
    /\ LET b == BasketOf(basket.of, basket.items \ {i}) IN
        /\ basket' = b
        /\ saveBasket(b)
        /\ getBasketItems(b, rows \ {i})
        /\ deleted' = [deleted EXCEPT ![b.of] = @ \cup {i}]
    /\ UNCHANGED <<server, cache, online, user, main, appeared, toBuy, sheet, offered,
                   reads, record, adding, presses, payments, dropped, unsaved, hasty,
                   mixed>>

\* removeItemFromBasket runs past the end of the list, or there is no basket.
deleteRowTraps(i) ==
    /\ OnScreen
    /\ i \in rows
    /\ ~ Holds(i)
    /\ Terminate

--------------------------------------------------------------------------------
(* Paying.                                                                 *)

\* Variant: the ids come from the basket, not from the rows.
payButtonPressedForBasket ==
    /\ toBuy' = toBuy \o (IF basket = NoDoc THEN << >> ELSE SetToSeq(basket.items))
    /\ sheet' = "up"
    /\ offered' = rows
    /\ UNCHANGED dropped

\* The rows go on the list of things to record when the sheet is made, whatever
\* becomes of it; a payment that is not processable makes no sheet.
payButtonPressed ==
    /\ toBuy' = toBuy \o SetToSeq(rows)
    /\ \/ /\ sheet' = "up"
          /\ offered' = rows
          /\ UNCHANGED dropped
       \/ /\ dropped' = dropped \cup rows
          /\ UNCHANGED <<sheet, offered>>

\* An account that is not registered is told so, and nothing else happens.
checkOutButtonWasTapped ==
    /\ OnScreen /\ button
    /\ SignedIn /\ record.of \in Registered
    /\ presses < MaxSheets
    /\ presses' = presses + 1
    /\ payButtonPressed
    /\ UNCHANGED <<clientVars, appeared, basket, reads, list, record, adding,
                   payments, deleted, unsaved, hasty, mixed>>

\* There is no current user to ask whether they are registered.
checkOutTraps ==
    /\ OnScreen /\ button
    /\ ~ SignedIn
    /\ Terminate

payPalPaymentDidCancel ==
    /\ sheet = "up"
    /\ sheet' = "none"
    /\ offered' = {}
    /\ dropped' = dropped \cup offered
    /\ UNCHANGED <<clientVars, appeared, basket, toBuy, reads, list, record, adding,
                   presses, payments, deleted, unsaved, hasty, mixed>>

didCompletePayment ==
    /\ sheet = "up"
    /\ sheet' = "paid"
    /\ payments' = [payments EXCEPT ![user[Phone]] =
                        [i \in Items |-> @[i] + IF i \in offered THEN 1 ELSE 0]]
    /\ UNCHANGED <<clientVars, appeared, basket, toBuy, offered, reads, list, record,
                   adding, presses, dropped, deleted, unsaved, hasty, mixed>>

\* The list goes to the signed-in account's document; the block that runs afterwards
\* saves it on the phone, in the record it was made from.
HistoryUpdate(sent) ==
    UpdateData(UserKey(user[Phone]), [items |-> sent],
               [to |-> "history", by |-> user[Phone],
                record |-> [of |-> record.of, items |-> sent]])

\* Variant: the new ids alone.
HistoryWriteOfNew == HistoryUpdate(toBuy)

\* Variant: the ids are gone when the list is made.
HistoryWriteTooLate == HistoryUpdate(record.items)

\* updateCurrentUserInFirestore: the ids of the phone's record and the new ones.
HistoryWrite == HistoryUpdate(record.items \o toBuy)

\* Variant: the list is sent before it is emptied.
EmptyingWriteTooEarly ==
    UpdateData(BasketKey(basket.of), [items |-> basket.items], [to |-> "emptied"])

EmptyingWrite == UpdateData(BasketKey(basket.of), [items |-> {}], [to |-> "emptied"])

\* Somebody is signed in: everything that could change that is under the sheet.
addItemsToPurchaseHistory ==
    /\ SignedIn
    /\ unsaved' = unsaved \cup {user[Phone]}
    /\ hasty' = hasty \cup ({user[Phone]} \cap unsaved)
    /\ mixed' = (mixed \/ record.of # user[Phone])

\* Variant: the object goes with its list.
emptyTheBasketObject ==
    /\ toBuy' = << >>
    /\ rows' = {}
    /\ basket' = NoDoc

emptyTheBasket ==
    /\ toBuy' = << >>
    /\ rows' = {}
    /\ basket' = BasketOf(basket.of, {})

\* The sheet is gone: the purchase is recorded and the basket emptied.
paymentDismissed ==
    /\ sheet = "paid"
    /\ basket # NoDoc
    /\ sheet' = "none"
    /\ offered' = {}
    /\ addItemsToPurchaseHistory
    /\ WriteTwo(Phone, HistoryWrite, EmptyingWrite)
    /\ emptyTheBasket
    /\ UNCHANGED <<server, cache, online, user, main, appeared, reads, button, fetches,
                   record, adding, presses, payments, dropped, deleted>>

\* emptyTheBasket unwraps a basket that is not there; the history write, handed to
\* the client's own queue just before, may or may not have been put on disk.
paymentDismissedTraps ==
    /\ sheet = "paid"
    /\ basket = NoDoc
    /\ addItemsToPurchaseHistory
    /\ \/ Restart([queue[Phone] EXCEPT ![user[Phone]] = Append(@, HistoryWrite)])
       \/ Restart(queue[Phone])

--------------------------------------------------------------------------------
(* Signing out and in, on the profile, edit and welcome screens            *)
(* (Session).  Nothing of the basket screen is told.                       *)

logOutCurrentUser ==
    /\ SignedIn
    /\ sheet = "none"
    /\ CredentialChange(Phone, NoUser)
    /\ record' = NoDoc
    /\ appeared' = FALSE
    /\ UNCHANGED <<basket, toBuy, sheet, offered, reads, list, adding, past>>

\* Firebase has signed the account in, and its document is asked for.
loginUserWith(u) ==
    /\ ~ SignedIn
    /\ sheet = "none"
    /\ online[Phone] /\ Room
    /\ \/ CredentialChange(Phone, u)
       \/ u = user[Phone] /\ UNCHANGED clientVars
    /\ reads' = Append(reads, Asked("user", UserKey(u), None))
    /\ appeared' = FALSE
    /\ UNCHANGED <<basket, toBuy, sheet, offered, list, record, adding, past>>

--------------------------------------------------------------------------------
(* Adding from the item screen (ItemViewController), which is then in      *)
(* front.  An account without a basket document is given one there         *)
(* (Basket), which is not followed here.                                   *)

HasBasket(u) == server[BasketKey(u)] # NoDoc

addToBasketTapped(i) ==
    /\ SignedIn
    /\ LET u == user[Phone] IN
        /\ HasBasket(u)
        /\ adding[u][i] = "idle"
        /\ adding' = [adding EXCEPT ![u][i] = "reading"]
        /\ reads' = Append(reads, Asked("add", BasketKey(u), i))
    /\ sheet = "none"
    /\ Room
    /\ appeared' = FALSE
    /\ UNCHANGED <<clientVars, basket, toBuy, sheet, offered, list, record, past>>

--------------------------------------------------------------------------------
(* The main queue.                                                         *)

Block == Head(main[Phone])

Of(key) == key[2]

\* Variant: a nil basket is passed over.
loadedIfAny ==
    /\ Block.kind = "loaded"
    /\ LET b == IF Block.doc = NoDoc THEN basket
                ELSE BasketOf(Of(Block.key), Block.doc.items) IN
        /\ basket' = b
        /\ getBasketItems(b, rows)
    /\ UNCHANGED <<queue, appeared, toBuy, sheet, offered, reads, record, adding, past>>

loaded ==
    /\ Block.kind = "loaded"
    /\ LET b == IF Block.doc = NoDoc THEN NoDoc
                ELSE BasketOf(Of(Block.key), Block.doc.items) IN
        /\ basket' = b
        /\ getBasketItems(b, rows)
    /\ UNCHANGED <<queue, appeared, toBuy, sheet, offered, reads, record, adding, past>>

\* The line goes to the end of the list that was read; after an answer without a
\* basket it goes to a second basket document, which is not followed here.
addAnswered ==
    /\ Block.kind = "add"
    /\ LET u == Of(Block.key) IN
       \/ /\ Block.doc # NoDoc
          /\ adding' = [adding EXCEPT ![u][Block.item] = "writing"]
          /\ WriteMutations(Phone, UpdateData(Block.key,
                                              [items |-> Block.doc.items \cup {Block.item}],
                                              [to |-> "added", by |-> u, item |-> Block.item]))
       \/ /\ Block.doc = NoDoc
          /\ adding' = [adding EXCEPT ![u][Block.item] = "elsewhere"]
          /\ UNCHANGED queue
    /\ UNCHANGED <<view, list, record, past>>

\* The document of an account that signed in, or an error, which is dropped.
userArrived ==
    /\ Block.kind = "user"
    /\ record' = IF Block.doc = NoDoc THEN record
                 ELSE [of |-> Of(Block.key), items |-> Block.doc.items]
    /\ UNCHANGED <<queue, view, list, adding, past>>

WrittenTo(target) == Block.kind = "written" /\ Block.tag.to = target

addWritten ==
    /\ WrittenTo("added")
    /\ adding' = [adding EXCEPT ![Block.tag.by][Block.tag.item] =
                    IF Block.ok THEN "added" ELSE "failed"]
    /\ UNCHANGED <<queue, view, list, record, past>>

\* The purchase is in a record on the phone, if the server took it.
TakenIn == unsaved' = IF Block.ok THEN unsaved \ {Block.tag.by} ELSE unsaved

\* Variant: the record on the phone is left as it was.
historyWrittenNotSaved ==
    /\ WrittenTo("history")
    /\ TakenIn
    /\ UNCHANGED <<queue, view, list, record, adding, presses, payments, dropped,
                   deleted, hasty, mixed>>

\* saveUserLocally, if the server took the list.
historyWritten ==
    /\ WrittenTo("history")
    /\ record' = IF Block.ok THEN Block.tag.record ELSE record
    /\ TakenIn
    /\ UNCHANGED <<queue, view, list, adding, presses, payments, dropped, deleted, hasty,
                   mixed>>

basketEmptied ==
    /\ WrittenTo("emptied")
    /\ getBasketItems(basket, rows)
    /\ UNCHANGED <<queue, view, record, adding, past>>

MainQueue ==
    /\ main[Phone] # << >>
    /\ main' = [main EXCEPT ![Phone] = Tail(@)]
    /\ \/ loaded
       \/ userArrived
       \/ addAnswered
       \/ addWritten
       \/ historyWritten
       \/ basketEmptied
    /\ UNCHANGED <<server, cache, online, user>>

--------------------------------------------------------------------------------

appVars == <<view, list, record, adding, past>>

ServerDecides ==
    /\ \E i \in DOMAIN pending(Phone) : CommitWrite(Phone, i) \/ RefuseWrite(Phone, i)
    /\ UNCHANGED appVars

ClientLearns == Acknowledge(Phone) /\ UNCHANGED appVars

NetworkLost == GoOffline(Phone) /\ UNCHANGED appVars

NetworkBack == GoOnline(Phone) /\ UNCHANGED appVars

\* The phone has the record of whoever is signed in.
Init ==
    /\ \E holders \in SUBSET Users :
       \E held \in [holders -> SUBSET Items] :
        /\ server = [k \in Keys |->
                        IF k[1] = "user" THEN [items |-> << >>]
                        ELSE IF Of(k) \in holders THEN [items |-> held[Of(k)]] ELSE NoDoc]
        /\ adding = [u \in Users |-> [i \in Items |->
                        IF u \in holders /\ i \in held[u] THEN "added" ELSE "idle"]]
    /\ user \in [Devices -> Accounts]
    /\ record = IF user[Phone] = NoUser THEN NoDoc
                ELSE [of |-> user[Phone], items |-> << >>]
    /\ ClientInit
    /\ appeared = FALSE
    /\ basket = NoDoc
    /\ rows = {}
    /\ button = TRUE
    /\ toBuy = << >>
    /\ sheet = "none"
    /\ offered = {}
    /\ reads = << >>
    /\ fetches = << >>
    /\ presses = 0
    /\ payments = [u \in Users |-> [i \in Items |-> 0]]
    /\ dropped = {}
    /\ deleted = [u \in Users |-> {}]
    /\ unsaved = {}
    /\ hasty = {}
    /\ mixed = FALSE

UserActs ==
    \/ viewDidAppear
    \/ \E i \in Items : deleteRow(i) \/ deleteRowTraps(i) \/ addToBasketTapped(i)
    \/ checkOutButtonWasTapped
    \/ checkOutTraps
    \/ payPalPaymentDidCancel
    \/ didCompletePayment
    \/ logOutCurrentUser
    \/ \E u \in Users : loginUserWith(u)

AppRuns ==
    \/ \E n \in DOMAIN reads : docRead(n)
    \/ \E n \in DOMAIN fetches : itemsArrived(n)
    \/ paymentDismissed
    \/ paymentDismissedTraps
    \/ MainQueue

Network == ServerDecides \/ ClientLearns \/ NetworkBack

Breaks == NetworkLost \/ Terminate

Next == UserActs \/ AppRuns \/ Network \/ Breaks

Spec == Init /\ [][Next]_vars

--------------------------------------------------------------------------------
(* Properties                                                              *)

Records == [of : Users, items : Seq(Items)]

Count(ids, i) == Cardinality({n \in DOMAIN ids : ids[n] = i})

history(u) == server[UserKey(u)].items

\* The values the screen and the phone hold, and that a sheet is over a user.
TypeOK ==
    /\ appeared \in BOOLEAN /\ button \in BOOLEAN
    /\ basket \in [of : Users, items : SUBSET Items] \cup {NoDoc}
    /\ \A u \in Users :
        /\ server[BasketKey(u)] \in [items : SUBSET Items] \cup {NoDoc}
        /\ server[UserKey(u)] \in [items : Seq(Items)]
    /\ toBuy \in Seq(Items) /\ record \in Records \cup {NoDoc}
    /\ rows \subseteq Items /\ offered \subseteq Items
    /\ sheet \in {"none", "up", "paid"}
    /\ sheet # "none" => SignedIn
    /\ Len(reads) \in 0 .. MaxUnder /\ presses \in 0 .. MaxSheets
    /\ \A n \in DOMAIN fetches : fetches[n] \in (SUBSET Items) \ {{}}
    /\ adding \in [Users -> [Items -> {"idle", "reading", "writing", "added", "failed",
                                       "untold", "elsewhere"}]]

\* What is in an account's purchase history and was never paid for by that account
\* was on a sheet that did not end in a payment: purchasedItemIds is filled when the
\* sheet is made (payButtonPressed) and not taken back by payPalPaymentDidCancel.
\* The one exception is a purchase written while the phone kept somebody else's
\* record (updateCurrentUserInFirestore).
UnpaidOnlyFromDropped ==
    mixed \/ \A u \in Users : \A n \in DOMAIN history(u) :
                payments[u][history(u)[n]] > 0 \/ history(u)[n] \in dropped

\* An account's purchase history on the server forgets an entry only if a purchase
\* was written before a record on the phone had taken in the one before it, or with
\* somebody else's record on the phone: updateCurrentUserInFirestore sends a whole
\* list, made from that record.
HistoryLostOnlyByOverlap ==
    [][\A u \in Users, i \in Items :
        Count(history(u)', i) < Count(history(u), i) => u \in hasty \/ mixed]_vars

================================================================================
