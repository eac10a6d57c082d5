------------------------------ MODULE MCCheckout ------------------------------
(***************************************************************************)
(* A small instance of PatientCheckout for TLC.                            *)
(***************************************************************************)
EXTENDS PatientCheckout

MCKeys == {"basket", "user"} \X Users
MCFields == {"items"}

================================================================================
