---------------------------- MODULE PatientCheckout ----------------------------
(***************************************************************************)
(* Checkout for a user who waits, and what the purchase promises them: the *)
(* rows, the payment sheet and the history agree with the basket, and no   *)
(* item is lost or paid for twice.                                         *)
(***************************************************************************)
EXTENDS Checkout

--------------------------------------------------------------------------------
(* The user does one thing at a time and waits until the phone has nothing *)
(* left to do; the server takes every write and reads do not fail.  The    *)
(* network still comes and goes, and the app is put away between two       *)
(* things.                                                                 *)

Settled ==
    /\ reads = << >> /\ fetches = << >> /\ sheet # "paid"
    /\ main[Phone] = << >> /\ pending(Phone) = << >>
    /\ \A u \in Users, i \in Items : adding[u][i] # "writing"

NothingFails ==
    /\ \A n \in DOMAIN main'[Phone] :
        LET block == main'[Phone][n] IN
        block.kind # "written" /\ block.doc = NoDoc => server[block.key] = NoDoc
    /\ \A n \in DOMAIN pending(Phone)' : pending(Phone)'[n].fate # "refused"

PatientNext ==
    \/ Settled /\ (UserActs \/ Terminate) /\ (SignedIn \/ UNCHANGED deleted)
    \/ (AppRuns \/ Network \/ NetworkLost) /\ NothingFails

PatientSpec == Init /\ [][PatientNext]_vars

\* Reads are answered, the sheet goes away when it is told to, and the network,
\* whenever it is lost, comes back and is there often enough for the server to be
\* heard.  Nobody has to press a button.
Fairness ==
    /\ WF_vars(AppRuns /\ NothingFails)
    /\ WF_vars(NetworkBack)
    /\ SF_vars(ServerDecides /\ NothingFails)
    /\ SF_vars(ClientLearns)

FairSpec == PatientSpec /\ Fairness

--------------------------------------------------------------------------------
(* What the purchase promises this user.                                   *)

\* Somebody is signed in who has a basket.
AtHome == IF SignedIn THEN HasBasket(user[Phone]) ELSE FALSE

Own == server[BasketKey(user[Phone])].items

\* What a user with a basket can delete and pay for is what the basket on the server
\* holds, whoever had the screen before: the rows are kept in step by hand in the delete
\* handler, emptyTheBasket and getBasketItems.  For an account without a basket the
\* former user's rows may stay on the screen, but not their basket: nothing can be
\* deleted from it, and emptyTheBasket has none to empty.
RowsAreBasket ==
    Settled /\ appeared /\ SignedIn =>
        IF AtHome THEN rows = Own /\ basket = BasketOf(user[Phone], Own) ELSE basket = NoDoc

\* An item that was added is in the basket, or was deleted from it, or was paid
\* for, once: never twice, and never lost.
LinesAccounted ==
    \A u \in Users : HasBasket(u) =>
        /\ \A i \in Items : payments[u][i] <= 1
        /\ Settled =>
            \A i \in Items :
                adding[u][i] = "added" <=>
                    \/ i \in server[BasketKey(u)].items
                    \/ i \in deleted[u]
                    \/ payments[u][i] = 1

\* A user with a basket does not see the app end at its own forced unwraps and
\* indices: emptyTheBasket finds a basket, and removeItemFromBasket the deleted row.
NeverTraps ==
    AtHome =>
        /\ sheet = "paid" => basket # NoDoc
        /\ Settled /\ OnScreen => \A i \in rows : Holds(i)

\* Nobody's taps write to another account's documents, although rows and basket stay
\* on the screen when accounts change, and an account may have no basket at all.
OnlyOwnDocuments ==
    \A u \in Users : \A n \in DOMAIN queue[Phone][u] : Of(queue[Phone][u][n].key) = u

\* The sheet asks for the rows on the screen.  For a user with a basket they are what is
\* in it, and never shipping and tax of nothing; to an account without one the sheet
\* offers the rows that a former user may have left.
PaidFromOwnBasket ==
    sheet = "up" => offered = rows /\ (AtHome => offered = Own /\ Own # {})

\* No purchase is in an account's history more often than that account paid for it, and
\* in that of a buyer with a basket it is as often, unless a sheet with the item was
\* cancelled before (payPalPaymentDidCancel leaves the item in purchasedItemIds).  What a
\* buyer without a basket paid for may be missing: emptyTheBasket ends the app, and the
\* history may not have been put on disk (paymentDismissedTraps).
RecordedAsPaid ==
    Settled => \A u \in Users, i \in Items \ dropped :
        /\ Count(history(u), i) <= payments[u][i]
        /\ HasBasket(u) => Count(history(u), i) = payments[u][i]

Recorded == \A u \in Users, i \in Items :
    HasBasket(u) => Count(history(u), i) >= payments[u][i]

\* Payments of buyers with a basket end in the purchase history: the time comes when all
\* that they paid for is there, as often as they did.  (The process of a user who waits
\* ends only between two things; without a basket it may end at emptyTheBasket.)
PaidIsRecorded == []<> Recorded

================================================================================
