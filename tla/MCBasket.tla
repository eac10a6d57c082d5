------------------------------- MODULE MCBasket -------------------------------
(***************************************************************************)
(* Small instances of Basket for TLC, and the environments some of its     *)
(* promises need.                                                          *)
(***************************************************************************)
EXTENDS SerialBasket, TLC

MCFields == {"owner", "lines"}

Symmetry == Permutations(Taps) \cup Permutations(Devices) \cup Permutations(Users)

--------------------------------------------------------------------------------
(* One phone that stays online, on which nothing fails.                    *)

NothingFails ==
    /\ UNCHANGED <<online, user>>
    /\ \A t \in Taps :
        /\ phase'[t] \notin {"failed", "dropped", "untold"}
        /\ phase[t] = "reading" /\ phase'[t] = "answered" => calm'[t]
    /\ \A d \in Devices, u \in Accounts :
        \A i \in DOMAIN queue'[d][u] : queue'[d][u][i].fate # "refused"

TwoQuickTaps == Init /\ [][Next /\ NothingFails]_vars

================================================================================
