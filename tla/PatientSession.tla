----------------------------- MODULE PatientSession ----------------------------
(***************************************************************************)
(* Session for users who wait.                                             *)
(***************************************************************************)
EXTENDS Session

--------------------------------------------------------------------------------
(* The users do one thing at a time, look at the profile screen again when *)
(* the phone has nothing left to do, and wait for that; nothing fails, and *)
(* reads are answered by the server.                                       *)

Settled(d) ==
    /\ signing[d] = {} /\ reading[d] = << >> /\ main[d] = << >>
    /\ \A u \in Accounts : queue[d][u] = << >>

AllSettled == \A d \in Devices : Settled(d)

UpToDate(d) ==
    /\ profile[d].edit <=> currentUser(d) # None
    /\ profile[d].edit => (profile[d].finish <=> ~ currentUser(d).onBoard)

NothingFails(d) ==
    /\ \A i \in DOMAIN queue'[d][user'[d]] : queue'[d][user'[d]][i].fate # "refused"
    /\ Len(reading'[d]) < Len(reading[d]) => Len(main'[d]) > Len(main[d]) /\ online[d]

\* An account that is in use on two phones is not edited: the other phone does not
\* fetch what was changed.
EditedOnOnePhone(d) ==
    saves' # saves => \A e \in Devices \ {d} : user[e] # user[d]

PatientNext ==
    \/ AllSettled /\ \E d \in Devices : UpToDate(d) /\ UserActs(d) /\ EditedOnOnePhone(d)
    \/ AllSettled /\ \E d \in Devices : Terminate(d) /\ UNCHANGED saves
    \/ AllSettled /\ \E u \in Users : VerifyEmail(u)
    \/ \E d \in Devices : (viewDidAppear(d) \/ AppRuns(d) \/ Network(d)) /\ NothingFails(d)

PatientSpec == Init /\ [][PatientNext]_vars

\* When all is quiet, a record on a phone is what the server has for that account,
\* and the account is the one signed in: saveUserLocally and setData or updateData
\* are called with the same values.
RecordIsDocument ==
    AllSettled => \A d \in Devices : record[d] # None =>
        record[d] = server[record[d].id] /\ record[d].id = user[d]

\* Reads are answered, Firebase answers, and the network is there often enough.
Fairness ==
    \A d \in Devices :
        /\ WF_vars(MainQueue(d))
        /\ SF_vars(downloadUserFromFirestore(d) /\ NothingFails(d))
        /\ WF_vars(NetworkBack(d))

FairSpec == PatientSpec /\ Fairness

\* Once the account is signed in and verified, the app comes to have its record.
LoginEndsWithRecord ==
    \A d \in Devices : reading[d] # << >> ~> currentUser(d) # None

================================================================================
