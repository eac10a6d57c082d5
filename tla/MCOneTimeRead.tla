----------------------------- MODULE MCOneTimeRead -----------------------------
(***************************************************************************)
(* The small instance of OneTimeRead for TLC, under fairness.  The queries *)
(* are alike, so one call may as well be for the first of them.            *)
(***************************************************************************)
EXTENDS OneTimeRead

CONSTANTS r1, q1

FirstForFirst == query[r1] \in {NoQuery, q1}

FairFirstSpec == Init /\ [][Next /\ FirstForFirst']_vars /\ Fairness

================================================================================
