------------------------------- MODULE MCSession -------------------------------
(***************************************************************************)
(* Small instances of Session for TLC, and users who do not wait.          *)
(***************************************************************************)
EXTENDS PatientSession, TLC

MCFields == {"id", "onBoard", "name"}

Symmetry == Permutations(Users)

\* Nothing fails, nobody waits.
HurriedSpec ==
    /\ Init
    /\ [][\E d \in Devices :
            (UserActs(d) \/ viewDidAppear(d) \/ AppRuns(d) \/ ServerDecides(d) \/ ClientLearns(d))
            /\ NothingFails(d)]_vars

================================================================================
