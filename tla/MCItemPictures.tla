---------------------------- MODULE MCItemPictures ----------------------------
(***************************************************************************)
(* A small instance of ItemPictures for TLC.                               *)
(***************************************************************************)
EXTENDS ItemPictures

CONSTANTS p1, p2, p3

\* Three pictures at once; some of them may not be resolved.
MCOffers == {<<p1, p2, p3>>, <<p2>>}

\* Bound: pictures uploaded in all.
MaxUploaded == 3

Uploaded == Cardinality({<<s, n>> \in (1 .. MaxPresses) \X (1 .. MaxUploaded) :
                            s \in DOMAIN upload /\ n \in DOMAIN upload[s].images})

\* The newest item is looked at, last, when nothing is under way and all items are
\* found by the search: the form and the item screen share only the items, which the
\* item screen does not change, and it does not look at the index.
LookNext ==
    \/ viewed = 0 /\ UserFillsForm /\ UNCHANGED viewVars /\ Uploaded' <= MaxUploaded
    \/ AddSteps /\ UNCHANGED viewVars
    \/ /\ <<itemImages, chosen, resolving>> = << << >>, << >>, << >> >>
       /\ Cardinality(index) = Len(items)
       /\ \A s \in DOMAIN upload : ~ UnderWay(s)
       /\ items # << >> /\ downloadItemPictures(Len(items))
    \/ \E n \in DOMAIN step : BlockRuns(n)
    \/ completion
    \/ Terminate

LookSpec == Init /\ [][LookNext]_vars

================================================================================
