-------------------------------- MODULE MCSearch --------------------------------
(***************************************************************************)
(* The small instance of Search for TLC, under fairness.                   *)
(***************************************************************************)
EXTENDS Search

================================================================================
