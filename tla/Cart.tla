--------------------------------- MODULE Cart ---------------------------------
(***************************************************************************)
(* What "Add to basket" promises: every account has one list, wherever it  *)
(* is kept, and a line asked for is put at its end, once, in one step.  A  *)
(* line may be put late or never (the write is refused); it never leaves.  *)
(***************************************************************************)
EXTENDS Sequences

CONSTANTS Taps, Users, NoUser

VARIABLES
    asker,  \* asker[t]: the account that asked for line t, or NoUser
    cart    \* cart[u]: the lines of u

cartVars == <<asker, cart>>

CartInit ==
    /\ asker = [t \in Taps |-> NoUser]
    /\ cart = [u \in Users |-> << >>]

Ask(t, u) ==
    /\ asker[t] = NoUser
    /\ asker' = [asker EXCEPT ![t] = u]
    /\ UNCHANGED cart

Put(t, u) ==
    /\ asker[t] = u
    /\ \A i \in DOMAIN cart[u] : cart[u][i] # t
    /\ cart' = [cart EXCEPT ![u] = Append(@, t)]
    /\ UNCHANGED asker

CartNext == \E t \in Taps, u \in Users : Ask(t, u) \/ Put(t, u)

CartSpec == CartInit /\ [][CartNext]_cartVars

================================================================================
