-------------------------------- MODULE AddItem --------------------------------
(***************************************************************************)
(* The form for a new item (AddItemViewController) and uploadImages of     *)
(* Downloader.swift: pictures are chosen in the gallery and resolved later *)
(* on, uploaded all at once, and the item is saved when the last of them   *)
(* has its link.  All handlers run on the main queue.                      *)
(*                                                                         *)
(* A link is written as the press of the done button it belongs to and the *)
(* position of the picture.  The item's document is written through the    *)
(* Firestore client (FirestoreClient); here it counts once it is handed    *)
(* over, which is when the phone that wrote it sees it.                    *)
(***************************************************************************)
EXTENDS Naturals, Sequences, FiniteSets, SequencesExt

CONSTANTS
    Offers,       \* what the user may choose in the gallery: lists of pictures
    MaxPresses,   \* bound: presses of the done button
    MaxVisits,    \* bound: times the form is opened
    MaxResolving  \* bound: choices the user lets pile up

VARIABLES
    form,        \* the form: "closed", "up", under the "gallery", or "orphaned":
                 \* the gallery is up and the form is off the stack
    visit,       \* which form this is
    itemImages,  \* the form's pictures
    resolving,   \* choices that Image.resolve has not answered
    upload,      \* upload[s]: the call of uploadImages made by press s
    items,       \* the item documents, in the order they were written
    indexing,    \* entries on their way to Algolia
    index,       \* entries of the Algolia index
    chosen       \* history: the choice made last, if the form got all of it in time

formVars == <<form, visit, itemImages, resolving, chosen>>
itemVars == <<items, indexing, index>>
addVars == <<formVars, upload, itemVars>>

ASSUME AddAssumption ==
    MaxVisits \in Nat /\ \A images \in Offers : images \in Seq(ToSet(images))

\* In place of a choice: it is not clear what the form should have.
Unsure == <<"unsure">>

\* Storage has yet to answer.
UnderWay(s) ==
    \E n \in DOMAIN upload[s].phase : upload[s].phase[n] \in {"putting", "asking"}

Failed(s) == \E n \in DOMAIN upload[s].phase : upload[s].phase[n] = "failed"

\* The form is kept alive by the blocks of its uploads.
FormAlive == \E s \in DOMAIN upload : upload[s].visit = visit /\ UnderWay(s)

AddInit ==
    /\ form = "closed"
    /\ visit = 0
    /\ itemImages = << >>
    /\ resolving = << >>
    /\ upload = << >>
    /\ items = << >>
    /\ indexing = {}
    /\ index = {}
    /\ chosen = << >>

--------------------------------------------------------------------------------
(* The form and the gallery.                                               *)

openForm ==
    /\ form = "closed"
    /\ visit < MaxVisits
    /\ form' = "up"
    /\ visit' = visit + 1
    /\ itemImages' = << >>
    /\ resolving' = << >>
    /\ chosen' = << >>
    /\ UNCHANGED <<upload, itemVars>>

\* The uploads go on.
back ==
    /\ form = "up"
    /\ form' = "closed"
    /\ UNCHANGED <<visit, itemImages, resolving, chosen, upload, itemVars>>

\* Variant: the pictures are kept until others are chosen.
ClearImagesNot == UNCHANGED itemImages

ClearImages == itemImages' = << >>

\* An earlier choice may still be resolved, and then overwrites what comes now.
cameraButtonWasTapped ==
    /\ form = "up"
    /\ form' = "gallery"
    /\ ClearImages
    /\ chosen' = IF resolving = << >> THEN << >> ELSE Unsure
    /\ UNCHANGED <<visit, resolving, upload, itemVars>>

\* Cancelled, or nothing was chosen.
galleryControllerDidCancel ==
    /\ form = "gallery"
    /\ form' = "up"
    /\ UNCHANGED <<visit, itemImages, resolving, chosen, upload, itemVars>>

didSelectImages(images) ==
    /\ form = "gallery"
    /\ Len(resolving) < MaxResolving
    /\ form' = "up"
    /\ resolving' = Append(resolving, images)
    /\ chosen' = IF chosen = Unsure THEN Unsure ELSE images
    /\ UNCHANGED <<visit, itemImages, upload, itemVars>>

\* The gallery asks its delegate to be dismissed; the delegate is a weak reference
\* to a form that is off the stack.
orphanDismissed ==
    /\ form = "orphaned"
    /\ FormAlive
    /\ form' = "closed"
    /\ UNCHANGED <<visit, itemImages, resolving, chosen, upload, itemVars>>

\* The entries of a list at some of its positions, in the order of the list.
Picked(list, places) ==
    [i \in 1 .. Cardinality(places) |->
        list[CHOOSE n \in places : Cardinality({m \in places : m <= n}) = i]]

\* Choices are resolved in any order; a picture that cannot be resolved is left out.
imagesResolved(n) ==
    /\ \E found \in SUBSET DOMAIN resolving[n] :
        /\ itemImages' = Picked(resolving[n], found)
        /\ chosen' = IF found = DOMAIN resolving[n] THEN chosen ELSE Unsure
    /\ resolving' = RemoveAt(resolving, n)
    /\ UNCHANGED <<form, visit, upload, itemVars>>

--------------------------------------------------------------------------------
(* Saving the item.                                                        *)

\* Variant: the index gets the item before it has its id.
SavedAfterIndexed(s, links) ==
    /\ indexing' = indexing \cup {[id |-> 0, press |-> s, links |-> links]}
    /\ items' = Append(items, [press |-> s, links |-> links])
    /\ UNCHANGED index

\* saveItemsToFireStore gives the item its id, saveItemToAlgolia uses it.
Saved(s, links) ==
    /\ items' = Append(items, [press |-> s, links |-> links])
    /\ indexing' = indexing \cup {[id |-> Len(items) + 1, press |-> s, links |-> links]}
    /\ UNCHANGED index

\* Variant: the form stays.
formStays(v) == UNCHANGED form

\* Nothing is popped if the form is off the stack already.
popTheView(v) ==
    form' = CASE v = visit /\ form = "up" -> "closed"
              [] v = visit /\ form = "gallery" -> "orphaned"
              [] OTHER -> form

\* A call of uploadImages; wanted and again are history: what the form should have
\* had, and whether it was uploading already.
Call(phase) ==
    [visit |-> visit, images |-> itemImages, phase |-> [n \in DOMAIN itemImages |-> phase],
     links |-> << >>, count |-> 0,
     wanted |-> IF resolving = << >> THEN chosen ELSE Unsure, again |-> FormAlive]

\* With no pictures the item is saved at once.  Without a connection uploadImages
\* does nothing: the block is never called.
doneButtonWasTapped ==
    /\ form = "up"
    /\ Len(upload) < MaxPresses
    /\ \/ /\ itemImages = << >>
          /\ upload' = Append(upload, Call("none"))
          /\ Saved(Len(upload) + 1, << >>)
          /\ popTheView(visit)
       \/ /\ itemImages # << >>
          /\ \E phase \in {"putting", "failed"} : upload' = Append(upload, Call(phase))
          /\ UNCHANGED <<form, itemVars>>
    /\ UNCHANGED <<visit, itemImages, resolving, chosen>>

--------------------------------------------------------------------------------
(* Uploading.                                                              *)

putDataSucceeds(s, n) ==
    /\ upload[s].phase[n] = "putting"
    /\ upload' = [upload EXCEPT ![s].phase[n] = "asking"]
    /\ UNCHANGED <<formVars, itemVars>>

\* Variant: the count is compared before it is increased.
AllCountedEarly(s, count) == count - 1 = Len(upload[s].images)

AllCounted(s, count) == count = Len(upload[s].images)

\* The block handed to uploadImages.
completionIfAll(s, links, count) ==
    IF AllCounted(s, count)
    THEN Saved(s, links) /\ popTheView(upload[s].visit)
    ELSE UNCHANGED <<form, itemVars>>

\* Variant: the picture counts although it has no link.
uploadFailsCounted(s, n) ==
    /\ upload[s].phase[n] \in {"putting", "asking"}
    /\ upload' = [upload EXCEPT ![s].phase[n] = "failed", ![s].count = @ + 1]
    /\ completionIfAll(s, upload[s].links, upload[s].count + 1)
    /\ UNCHANGED <<visit, itemImages, resolving, chosen>>

\* The upload or the question for its link fails: nobody counts it.
uploadFails(s, n) ==
    /\ upload[s].phase[n] \in {"putting", "asking"}
    /\ upload' = [upload EXCEPT ![s].phase[n] = "failed"]
    /\ UNCHANGED <<formVars, itemVars>>

\* downloadURL answers.
imageLink(s, n) ==
    /\ upload[s].phase[n] = "asking"
    /\ LET links == Append(upload[s].links, <<s, n>>)
           count == upload[s].count + 1
       IN  /\ upload' = [upload EXCEPT ![s].phase[n] = "linked", ![s].links = links,
                                       ![s].count = count]
           /\ completionIfAll(s, links, count)
    /\ UNCHANGED <<visit, itemImages, resolving, chosen>>

\* The index takes the entry, or the call fails and is only logged.
algoliaAnswers(e) ==
    /\ indexing' = indexing \ {e}
    /\ index' \in {index, index \cup {e}}
    /\ UNCHANGED <<formVars, upload, items>>

Ended(phase) == [n \in DOMAIN phase |-> IF phase[n] = "linked" THEN "linked" ELSE "failed"]

\* The process ends: the form, the uploads and the calls to Algolia with it.
AddTerminate ==
    /\ form' = "closed"
    /\ itemImages' = << >>
    /\ resolving' = << >>
    /\ chosen' = << >>
    /\ upload' = [s \in DOMAIN upload |-> [upload[s] EXCEPT !.phase = Ended(@)]]
    /\ indexing' = {}
    /\ UNCHANGED <<visit, items, index>>

--------------------------------------------------------------------------------

UserFillsForm ==
    \/ openForm \/ back \/ cameraButtonWasTapped \/ galleryControllerDidCancel
    \/ orphanDismissed
    \/ \E images \in Offers : didSelectImages(images)
    \/ doneButtonWasTapped

StorageAnswers ==
    \E s \in DOMAIN upload : \E n \in DOMAIN upload[s].phase :
        putDataSucceeds(s, n) \/ imageLink(s, n) \/ uploadFails(s, n)

AddSteps ==
    \/ \E n \in DOMAIN resolving : imagesResolved(n)
    \/ StorageAnswers
    \/ \E e \in indexing : algoliaAnswers(e)

================================================================================
