---------------------------- MODULE MCCheckoutAny ----------------------------
(***************************************************************************)
(* A small instance of Checkout for TLC in which the user does anything at *)
(* any time and everything may fail.                                       *)
(***************************************************************************)
EXTENDS Checkout

CONSTANTS
    MaxBreaks,  \* bound: times the network is lost, the app ended or the user signed out
    MaxPending  \* bound: writes waiting

VARIABLES
    breaks

MCKeys == {"basket", "user"} \X Users
MCFields == {"items"}

\* A registered user is signed in, and every basket is full.
AnyInit ==
    /\ Init
    /\ user[Phone] \in Registered
    /\ \A u \in Users : server[BasketKey(u)] = [items |-> Items]
    /\ breaks = 0

\* No line is added or deleted here: the purchase history does not depend on how a
\* line came into the basket or left it.  The properties say nothing more once a
\* purchase was written from another account's record.
AnyNext ==
    /\ \/ ((UserActs /\ ~ logOutCurrentUser) \/ AppRuns \/ Network) /\ UNCHANGED breaks
       \/ (Breaks \/ logOutCurrentUser) /\ breaks < MaxBreaks /\ breaks' = breaks + 1
    /\ UNCHANGED <<adding, deleted>>
    /\ ~ mixed'
    /\ Len(pending(Phone)') <= MaxPending

AnySpec == AnyInit /\ [][AnyNext]_<<vars, breaks>>

================================================================================
