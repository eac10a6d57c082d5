-------------------------- MODULE ItemPicturesProofs --------------------------
(***************************************************************************)
(* Proofs about the form for a new item and the pictures on the item       *)
(* screen (ItemPictures), for any choices the gallery offers and any       *)
(* bounds.                                                                 *)
(***************************************************************************)
EXTENDS ItemPictures, FiniteSetTheorems, SequenceTheorems, TLAPS

--------------------------------------------------------------------------------
(* The form, its uploads and the items.                                    *)

Pictures == UNION {ToSet(images) : images \in Offers}
Links == Nat \X Nat

Phases == {"putting", "asking", "linked", "failed"}

Uploads ==
    [visit : 1 .. MaxVisits, images : Seq(Pictures), phase : Seq(Phases), links : Seq(Links),
     count : Nat, wanted : Seq(Pictures) \cup {Unsure}, again : BOOLEAN]

SavedItems == [press : Nat, links : Seq(Links)]

AddTypes ==
    /\ form \in {"closed", "up", "gallery", "orphaned"}
    /\ visit \in 0 .. MaxVisits
    /\ itemImages \in Seq(Pictures)
    /\ resolving \in Seq(Offers)
    /\ chosen \in Seq(Pictures) \cup {Unsure}
    /\ upload \in Seq(Uploads)
    /\ items \in Seq(SavedItems)

\* The form has what was chosen last, or is about to get it, or it is not clear what it
\* should have.
FormRight ==
    /\ form # "closed" => visit # 0
    /\ chosen # Unsure =>
        \/ resolving = << >> /\ itemImages = chosen
        \/ resolving = <<chosen>> /\ form # "gallery"

Linked(phase) == {n \in DOMAIN phase : phase[n] = "linked"}

Whole(s) == \A n \in DOMAIN upload[s].phase : upload[s].phase[n] = "linked"

\* The links and the count of an upload are those of its pictures that have one.
OneEach(s, links, phase) ==
    /\ Len(links) = Cardinality(Linked(phase))
    /\ ToSet(links) = {<<s, n>> : n \in Linked(phase)}
    /\ \A m, n \in DOMAIN links : links[m] = links[n] => m = n

LinksOK(s, u) ==
    /\ Len(u.phase) = Len(u.images)
    /\ u.count = Len(u.links)
    /\ OneEach(s, u.links, u.phase)
    /\ u.wanted # Unsure => u.images = u.wanted

LinksCounted(s) == LinksOK(s, upload[s])

\* When the button was pressed and nothing of the form was under way, what the form had
\* uploaded before had failed.
PressedAfterFailure(s) ==
    /\ upload[s].visit <= visit
    /\ ~ upload[s].again =>
        \A r \in 1 .. s - 1 : upload[r].visit = upload[s].visit => Failed(r)

\* An item is an upload that is whole, and its form is gone.
ItemRight(k) ==
    /\ items[k].press \in DOMAIN upload
    /\ Whole(items[k].press)
    /\ items[k].links = upload[items[k].press].links
    /\ upload[items[k].press].visit = visit => form \in {"closed", "orphaned"}

AddInv ==
    /\ AddTypes
    /\ FormRight
    /\ \A s \in DOMAIN upload : LinksCounted(s) /\ PressedAfterFailure(s)
    /\ \A s \in DOMAIN upload : Whole(s) => \E k \in DOMAIN items : items[k].press = s
    /\ \A k \in DOMAIN items : ItemRight(k)
    /\ \A j, k \in DOMAIN items : items[j].press = items[k].press => j = k
    /\ \A e \in index \cup indexing : e.id \in 1 .. Len(items)

--------------------------------------------------------------------------------
(* The blocks of downloadImages.                                           *)

Counted == {n \in DOMAIN step : step[n] \notin {"queued", "counting"}}
Appended == {n \in DOMAIN step : step[n] \in {"appended", "done"}}
Done == {n \in DOMAIN step : step[n] = "done"}

Stages == {"queued", "counting", "counted", "fetched", "appending", "appended", "done",
           "failed"}

ViewTypes ==
    /\ viewed \in 0 .. Len(items)
    /\ step \in Seq(Stages)
    /\ DOMAIN kept = DOMAIN step
    /\ viewed # 0 => Len(step) = Len(imageUrls)
    /\ viewed = 0 => /\ step = << >> /\ imageArray = << >> /\ shown = << >>
                     /\ downloadedCounter = 0 /\ main = 0
    /\ imageArray \in Seq(Links)
    /\ raced \in BOOLEAN

\* Also when accesses meet, no block counts for more than one.
CountsBounded ==
    /\ downloadedCounter \in 0 .. Cardinality(Counted)
    /\ \A n \in DOMAIN step :
        /\ step[n] = "counting" => kept[n] \in 0 .. Cardinality(Counted)
        /\ step[n] = "appending" => kept[n] \in Seq(Links)
    /\ main \in 0 .. Cardinality(Done)

\* The array has a link of each of the blocks, once.
OfBlocks(array, urls, blocks) ==
    /\ ToSet(array) = {urls[n] : n \in blocks}
    /\ Len(array) = Cardinality(blocks)

\* The counter and the array are those of the blocks that went by, and the block that
\* is at one of them has its current value.
SharedRight ==
    /\ downloadedCounter = Cardinality(Counted)
    /\ \A m, n \in DOMAIN step :
        step[m] = step[n] /\ step[m] \in {"counting", "appending"} => m = n
    /\ \A n \in DOMAIN step :
        /\ step[n] = "counting" => kept[n] = downloadedCounter
        /\ step[n] = "appending" => kept[n] = imageArray
    /\ OfBlocks(imageArray, imageUrls, Appended)

\* What the screen does not show yet is still to come, unless a link failed that was
\* counted after the others had been compared.
ScreenRight ==
    /\ imageArray = << >> => shown = << >>
    /\ Counted # DOMAIN step => main = 0 /\ shown = << >>
    /\ Counted = DOMAIN step =>
        \/ shown = imageArray
        \/ main > 0
        \/ \E n \in DOMAIN step : step[n] = "appended"
        \/ shown = << >> /\ \E n \in DOMAIN step : step[n] \notin {"appended", "done"}

ViewInv == ViewTypes /\ CountsBounded /\ (~ raced => SharedRight /\ ScreenRight)

PicturesInv == AddInv /\ ViewInv

--------------------------------------------------------------------------------
(* Lists.                                                                  *)

\* The entries of a list are of its type.
LEMMA EntriesTyped ==
    ASSUME NEW S, NEW s \in Seq(S)
    PROVE  \A n \in DOMAIN s : s[n] \in S
OBVIOUS

\* A list with one more entry.
LEMMA OneMore ==
    ASSUME NEW S, NEW s \in Seq(S), NEW e \in S
    PROVE  /\ Append(s, e) \in Seq(S)
           /\ Len(Append(s, e)) = Len(s) + 1 /\ Len(s) \in Nat
           /\ DOMAIN s = 1 .. Len(s)
           /\ DOMAIN Append(s, e) = 1 .. Len(s) + 1
           /\ \A n \in 1 .. Len(s) : Append(s, e)[n] = s[n]
           /\ Append(s, e)[Len(s) + 1] = e
OBVIOUS

LEMMA EntriesOneMore ==
    ASSUME NEW S, NEW s \in Seq(S), NEW e \in S
    PROVE  ToSet(Append(s, e)) = ToSet(s) \cup {e}
<1> DEFINE t == Append(s, e)
<1>1. /\ DOMAIN s = 1 .. Len(s) /\ DOMAIN t = 1 .. Len(s) + 1 /\ Len(s) \in Nat
      /\ \A n \in 1 .. Len(s) : t[n] = s[n]
      /\ t[Len(s) + 1] = e
  BY OneMore
<1> HIDE DEF t
<1>2. \A x : x \in ToSet(t) => x \in ToSet(s) \cup {e}
  <2> SUFFICES ASSUME NEW n \in DOMAIN t
               PROVE  t[n] \in ToSet(s) \cup {e}
    BY DEF ToSet
  <2>1. n \in DOMAIN s \/ n = Len(s) + 1
    BY <1>1
  <2> QED
    BY <1>1, <2>1 DEF ToSet
<1>3. \A x : x \in ToSet(s) => x \in ToSet(t)
  <2> SUFFICES ASSUME NEW n \in DOMAIN s
               PROVE  s[n] \in ToSet(t)
    BY DEF ToSet
  <2>1. n \in DOMAIN t /\ t[n] = s[n]
    BY <1>1
  <2> QED
    BY <2>1 DEF ToSet
<1>4. e \in ToSet(t)
  <2>1. Len(s) + 1 \in DOMAIN t
    BY <1>1
  <2> QED
    BY <1>1, <2>1 DEF ToSet
<1> QED
  BY <1>2, <1>3, <1>4 DEF t

\* A list with another entry at one place.
LEMMA OneChanged ==
    ASSUME NEW S, NEW s \in Seq(S), NEW n \in DOMAIN s, NEW e \in S
    PROVE  /\ [s EXCEPT ![n] = e] \in Seq(S)
           /\ DOMAIN [s EXCEPT ![n] = e] = DOMAIN s
           /\ Len([s EXCEPT ![n] = e]) = Len(s)
           /\ [s EXCEPT ![n] = e][n] = e
           /\ \A m \in DOMAIN s : m # n => [s EXCEPT ![n] = e][m] = s[m]
OBVIOUS

\* A list less one entry.
LEMMA OneLess ==
    ASSUME NEW S, NEW s \in Seq(S), NEW n \in DOMAIN s
    PROVE  /\ RemoveAt(s, n) \in Seq(S)
           /\ Len(s) = 1 => RemoveAt(s, n) = << >>
<1>1. Len(s) \in Nat /\ n \in 1 .. Len(s) /\ \A i \in 1 .. Len(s) : s[i] \in S
  OBVIOUS
<1>2. /\ SubSeq(s, 1, n - 1) \in Seq(S)
      /\ Len(SubSeq(s, 1, n - 1)) = IF 1 <= n - 1 THEN n - 1 - 1 + 1 ELSE 0
  BY <1>1, SubSeqProperties
<1>3. /\ SubSeq(s, n + 1, Len(s)) \in Seq(S)
      /\ Len(SubSeq(s, n + 1, Len(s))) = IF n + 1 <= Len(s) THEN Len(s) - (n + 1) + 1 ELSE 0
  BY <1>1, SubSeqProperties
<1>4. /\ RemoveAt(s, n) \in Seq(S)
      /\ Len(RemoveAt(s, n)) = Len(SubSeq(s, 1, n - 1)) + Len(SubSeq(s, n + 1, Len(s)))
  BY <1>2, <1>3, ConcatProperties DEF RemoveAt
<1>5. ASSUME Len(s) = 1
      PROVE  RemoveAt(s, n) = << >>
  <2>1. Len(RemoveAt(s, n)) = 0
    BY <1>1, <1>2, <1>3, <1>4, <1>5
  <2> QED
    BY <1>4, <2>1, EmptySeq
<1> QED
  BY <1>4, <1>5

\* As many as there are.
LEMMA CountedInterval ==
    ASSUME NEW k \in Nat
    PROVE  IsFiniteSet(1 .. k) /\ Cardinality(1 .. k) = k
<1>1. 1 \in Int /\ k \in Int
  OBVIOUS
<1>2. IsFiniteSet(1 .. k)
  BY <1>1, FS_Interval
<1>3. Cardinality(1 .. k) = IF 1 > k THEN 0 ELSE k - 1 + 1
  BY <1>1, FS_Interval
<1> QED
  BY <1>2, <1>3

\* Every position of a list of picked entries has its place: ranks are counted
\* without a gap.
LEMMA Ranked ==
    ASSUME NEW N \in Nat, NEW P \in SUBSET (1 .. N)
    PROVE  /\ IsFiniteSet(P) /\ Cardinality(P) \in Nat
           /\ \A i \in 1 .. Cardinality(P) :
                \E n \in P : Cardinality({m \in P : m <= n}) = i
<1> DEFINE rank == [n \in P |-> Cardinality({m \in P : m <= n})]
<1>1. IsFiniteSet(P) /\ Cardinality(P) \in Nat
  <2>1. IsFiniteSet(1 .. N)
    BY FS_Interval
  <2> QED
    BY <2>1, FS_Subset, FS_CardinalityType
<1>2. ASSUME NEW n \in P
      PROVE  /\ IsFiniteSet({m \in P : m <= n})
             /\ Cardinality({m \in P : m <= n}) \in 1 .. Cardinality(P)
  <2> DEFINE low == {m \in P : m <= n}
  <2>1. low \in SUBSET P /\ n \in low
    OBVIOUS
  <2>2. IsFiniteSet(low) /\ Cardinality(low) \in Nat /\ Cardinality(low) <= Cardinality(P)
    BY <1>1, <2>1, FS_Subset, FS_CardinalityType
  <2>3. Cardinality(low) # 0
    BY <2>1, <2>2, FS_EmptySet
  <2> HIDE DEF low
  <2>4. Cardinality(low) \in 1 .. Cardinality(P)
    BY <1>1, <2>2, <2>3
  <2> QED
    BY <2>2, <2>4 DEF low
<1>3. ASSUME NEW m \in P, NEW n \in P, m < n
      PROVE  rank[m] # rank[n]
  <2> DEFINE below == {j \in P : j <= m}
             upto == {j \in P : j <= n}
  <2>1. \A k \in P : k \in Int
    OBVIOUS
  <2>2. \A j \in P : j <= m => j <= n
    BY <1>3, <2>1
  <2>3. below \in SUBSET upto
    BY <2>2
  <2>4. n \in upto /\ n \notin below
    BY <1>3, <2>1
  <2>5. below # upto
    BY <2>4
  <2>6. IsFiniteSet(upto)
    BY <1>2
  <2>7. rank[m] = Cardinality(below) /\ rank[n] = Cardinality(upto)
    OBVIOUS
  <2> HIDE DEF below, upto
  <2>8. Cardinality(below) # Cardinality(upto)
    BY <2>3, <2>5, <2>6, FS_Subset
  <2> QED
    BY <2>7, <2>8
<1>4. \A m, n \in P : rank[m] = rank[n] => m = n
  <2> SUFFICES ASSUME NEW m \in P, NEW n \in P, m # n
               PROVE  rank[m] # rank[n]
    OBVIOUS
  <2>1. m < n \/ n < m
    OBVIOUS
  <2> QED
    BY <1>3, <2>1
<1>5. rank \in [P -> 1 .. Cardinality(P)]
  BY <1>2
<1> HIDE DEF rank
<1>6. rank \in Injection(P, 1 .. Cardinality(P))
  BY <1>4, <1>5 DEF Injection, IsInjective
<1>7. IsFiniteSet(1 .. Cardinality(P)) /\ Cardinality(1 .. Cardinality(P)) = Cardinality(P)
  BY <1>1, FS_Interval
<1>8. rank \in Surjection(P, 1 .. Cardinality(P))
  BY <1>6, <1>7, FS_Injection
<1>9. \A i \in 1 .. Cardinality(P) : \E n \in P : rank[n] = i
  BY <1>8 DEF Surjection
<1> QED
  BY <1>1, <1>9 DEF rank

\* Picking gives a list, and picking everything gives the list.
LEMMA PickedList ==
    ASSUME NEW S, NEW s \in Seq(S), NEW places \in SUBSET DOMAIN s
    PROVE  /\ Picked(s, places) \in Seq(S)
           /\ places = DOMAIN s => Picked(s, places) = s
<1> DEFINE at(i) == CHOOSE n \in places : Cardinality({m \in places : m <= n}) = i
<1>1. DOMAIN s = 1 .. Len(s) /\ Len(s) \in Nat /\ \A n \in DOMAIN s : s[n] \in S
  OBVIOUS
<1>2. Cardinality(places) \in Nat
  BY <1>1, Ranked
<1>3. ASSUME NEW i \in 1 .. Cardinality(places)
      PROVE  at(i) \in places /\ Cardinality({m \in places : m <= at(i)}) = i
  <2>1. \E n \in places : Cardinality({m \in places : m <= n}) = i
    BY <1>1, Ranked
  <2> QED
    BY <2>1
<1>4. Picked(s, places) = [i \in 1 .. Cardinality(places) |-> s[at(i)]]
  BY DEF Picked
<1> HIDE DEF at
<1>5. \A i \in 1 .. Cardinality(places) : s[at(i)] \in S
  BY <1>1, <1>3
<1>6. Picked(s, places) \in Seq(S)
  BY <1>2, <1>4, <1>5
<1>7. ASSUME places = DOMAIN s
      PROVE  Picked(s, places) = s
  <2>1. Cardinality(places) = Len(s)
    <3>1. Cardinality(1 .. Len(s)) = IF 1 > Len(s) THEN 0 ELSE Len(s) - 1 + 1
      BY <1>1, FS_Interval
    <3> QED
      BY <1>1, <1>7, <3>1
  <2>2. ASSUME NEW i \in 1 .. Len(s)
        PROVE  at(i) = i
    <3>1. at(i) \in 1 .. Len(s) /\ Cardinality({m \in 1 .. Len(s) : m <= at(i)}) = i
      BY <1>1, <1>3, <1>7, <2>1
    <3>2. {m \in 1 .. Len(s) : m <= at(i)} = 1 .. at(i)
      BY <1>1, <3>1
    <3>3. Cardinality(1 .. at(i)) = at(i)
      BY <1>1, <3>1, FS_Interval
    <3> QED
      BY <3>1, <3>2, <3>3
  <2>3. Picked(s, places) = [i \in 1 .. Len(s) |-> s[i]]
    BY <1>4, <2>1, <2>2
  <2> QED
    BY <1>1, <2>3
<1> QED
  BY <1>6, <1>7

--------------------------------------------------------------------------------
(* The form.                                                               *)

LEMMA UploadTyped ==
    ASSUME AddTypes, NEW s \in DOMAIN upload
    PROVE  /\ upload[s] \in Uploads
           /\ s \in 1 .. Len(upload) /\ Len(upload) \in Nat
           /\ upload[s].visit \in 1 .. MaxVisits
           /\ upload[s].images \in Seq(Pictures)
           /\ upload[s].phase \in Seq(Phases)
           /\ upload[s].links \in Seq(Links)
           /\ upload[s].count \in Nat
           /\ upload[s].wanted \in Seq(Pictures) \cup {Unsure}
           /\ upload[s].again \in BOOLEAN
<1>1. upload \in Seq(Uploads)
  BY DEF AddTypes
<1>2. upload[s] \in Uploads
  BY <1>1, EntriesTyped
<1> QED
  BY <1>1, <1>2, SMTT(30) DEF Uploads

\* What the gallery offers are lists of pictures.
LEMMA OffersTyped ==
    ASSUME NEW images \in Offers
    PROVE  images \in Seq(Pictures)
<1>1. images \in Seq(ToSet(images))
  BY AddAssumption
<1>2. ToSet(images) \subseteq Pictures
  <2> SUFFICES ASSUME NEW p \in ToSet(images)
               PROVE  p \in Pictures
    OBVIOUS
  <2> QED
    BY DEF Pictures
<1> HIDE DEF Pictures
<1> QED
  BY <1>1, <1>2

\* What happens on the form leaves uploads and items as they are.
LEMMA FormStep ==
    ASSUME AddInv, AddTypes', FormRight', UNCHANGED <<upload, itemVars>>,
           \/ visit' = visit /\ (form \in {"closed", "orphaned"} => form' \in {"closed", "orphaned"})
           \/ visit' = visit + 1
    PROVE  AddInv'
<1>1. visit \in Nat /\ \A s \in DOMAIN upload : upload[s].visit \in Nat /\ upload[s].visit <= visit
  BY UploadTyped, AddAssumption DEF AddInv, AddTypes, PressedAfterFailure
<1>2. \A s \in DOMAIN upload : upload[s].visit = visit' =>
        visit' = visit /\ (form \in {"closed", "orphaned"} => form' \in {"closed", "orphaned"})
  BY <1>1
<1>3. \A s \in DOMAIN upload : upload[s].visit <= visit'
  BY <1>1
<1>4. upload' = upload /\ items' = items /\ index' = index /\ indexing' = indexing
  BY DEF itemVars
<1>5. ASSUME NEW s \in DOMAIN upload
      PROVE  LinksCounted(s)' /\ PressedAfterFailure(s)' /\ Whole(s)' = Whole(s)
  <2>1. LinksCounted(s)'
    BY <1>4 DEF AddInv, LinksCounted
  <2>2. PressedAfterFailure(s)'
    BY <1>3, <1>4 DEF AddInv, PressedAfterFailure, Failed
  <2>3. Whole(s)' = Whole(s)
    BY <1>4 DEF Whole
  <2> QED
    BY <2>1, <2>2, <2>3
<1>6. ASSUME NEW k \in DOMAIN items
      PROVE  ItemRight(k)'
  BY <1>2, <1>4 DEF AddInv, ItemRight, Whole
<1> QED
  BY <1>4, <1>5, <1>6 DEF AddInv

LEMMA OpenForm == ASSUME AddInv, openForm PROVE AddInv'
<1>1. << >> \in Seq(Pictures) /\ << >> \in Seq(Offers)
  OBVIOUS
<1>0. MaxVisits \in Nat /\ visit \in 0 .. MaxVisits
  BY AddAssumption DEF AddInv, AddTypes
<1>2. visit \in Nat /\ visit' = visit + 1 /\ visit' \in 0 .. MaxVisits /\ visit' # 0
  BY <1>0 DEF openForm
<1>3. AddTypes' /\ FormRight'
  BY <1>1, <1>2 DEF openForm, itemVars, AddInv, AddTypes, FormRight
<1> QED
  BY <1>2, <1>3, FormStep DEF openForm

LEMMA Back == ASSUME AddInv, back PROVE AddInv'
<1>1. AddTypes' /\ FormRight'
  BY DEF back, itemVars, AddInv, AddTypes, FormRight
<1> QED
  BY <1>1, FormStep DEF back

LEMMA CameraTapped == ASSUME AddInv, cameraButtonWasTapped PROVE AddInv'
<1>1. << >> \in Seq(Pictures)
  OBVIOUS
<1>2. AddTypes' /\ FormRight'
  BY <1>1 DEF cameraButtonWasTapped, ClearImages, itemVars, AddInv, AddTypes, FormRight
<1> QED
  BY <1>2, FormStep DEF cameraButtonWasTapped

LEMMA GalleryCancelled == ASSUME AddInv, galleryControllerDidCancel PROVE AddInv'
<1>1. AddTypes' /\ FormRight'
  BY DEF galleryControllerDidCancel, itemVars, AddInv, AddTypes, FormRight
<1> QED
  BY <1>1, FormStep DEF galleryControllerDidCancel

LEMMA ImagesSelected ==
    ASSUME AddInv, NEW images \in Offers, didSelectImages(images)
    PROVE  AddInv'
<1>1. images \in Seq(Pictures)
  BY OffersTyped
<1>2. resolving \in Seq(Offers) /\ Append(resolving, images) \in Seq(Offers)
  BY DEF AddInv, AddTypes
<1>3. AddTypes'
  BY <1>1, <1>2 DEF didSelectImages, itemVars, AddInv, AddTypes
<1>4. FormRight'
  <2>1. form' = "up" /\ visit # 0 /\ visit' = visit
    BY DEF didSelectImages, AddInv, FormRight
  <2>2. ASSUME chosen' # Unsure
        PROVE  resolving' = <<chosen'>>
    <3>1. chosen # Unsure /\ chosen' = images
      BY <2>2 DEF didSelectImages
    <3>2. resolving = << >>
      BY <3>1 DEF didSelectImages, AddInv, FormRight
    <3>3. Append(<< >>, images) = <<images>>
      OBVIOUS
    <3> QED
      BY <3>1, <3>2, <3>3 DEF didSelectImages
  <2> QED
    BY <2>1, <2>2 DEF FormRight
<1> QED
  BY <1>3, <1>4, FormStep DEF didSelectImages

LEMMA OrphanDismissed == ASSUME AddInv, orphanDismissed PROVE AddInv'
<1>1. AddTypes' /\ FormRight'
  BY DEF orphanDismissed, itemVars, AddInv, AddTypes, FormRight
<1> QED
  BY <1>1, FormStep DEF orphanDismissed

LEMMA ImagesResolved ==
    ASSUME AddInv, NEW n \in DOMAIN resolving, imagesResolved(n)
    PROVE  AddInv'
<1>1. resolving \in Seq(Offers) /\ resolving[n] \in Offers
  BY DEF AddInv, AddTypes
<1>2. resolving[n] \in Seq(Pictures)
  BY <1>1, OffersTyped
<1>3. PICK found \in SUBSET DOMAIN resolving[n] :
        /\ itemImages' = Picked(resolving[n], found)
        /\ chosen' = IF found = DOMAIN resolving[n] THEN chosen ELSE Unsure
  BY DEF imagesResolved
<1>4. /\ itemImages' \in Seq(Pictures)
      /\ found = DOMAIN resolving[n] => itemImages' = resolving[n]
  BY <1>2, <1>3, PickedList
<1>5. /\ resolving' \in Seq(Offers)
      /\ Len(resolving) = 1 => resolving' = << >>
  BY <1>1, OneLess DEF imagesResolved
<1>6. AddTypes'
  BY <1>3, <1>4, <1>5 DEF imagesResolved, itemVars, AddInv, AddTypes
<1>7. FormRight'
  <2>1. ASSUME chosen' # Unsure
        PROVE  resolving' = << >> /\ itemImages' = chosen'
    <3>1. chosen' = chosen /\ found = DOMAIN resolving[n]
      BY <1>3, <2>1
    <3>2. resolving # << >>
      OBVIOUS
    <3>3. resolving = <<chosen>>
      BY <2>1, <3>1, <3>2 DEF AddInv, FormRight
    <3>4. Len(resolving) = 1 /\ resolving[n] = chosen
      BY <3>3
    <3> QED
      BY <1>4, <1>5, <3>1, <3>4
  <2> QED
    BY <2>1 DEF imagesResolved, AddInv, FormRight
<1> QED
  BY <1>6, <1>7, FormStep DEF imagesResolved

--------------------------------------------------------------------------------
(* The uploads.                                                            *)

\* What the invariant says of the items.
ItemsInv ==
    /\ items \in Seq(SavedItems)
    /\ \A s \in DOMAIN upload : Whole(s) => \E k \in DOMAIN items : items[k].press = s
    /\ \A k \in DOMAIN items : ItemRight(k)
    /\ \A j, k \in DOMAIN items : items[j].press = items[k].press => j = k
    /\ \A e \in index \cup indexing : e.id \in 1 .. Len(items)

FormGone == form \in {"closed", "orphaned"}

\* An upload that is whole is saved.
LEMMA ItemSaved ==
    ASSUME AddInv, NEW s \in Nat, NEW links \in Seq(Links), Saved(s, links),
           s \in DOMAIN upload', Whole(s)', links = upload'[s].links,
           \A k \in DOMAIN items : items[k].press # s,
           \A r \in DOMAIN upload : r \in DOMAIN upload' /\ (r # s => upload'[r] = upload[r]),
           \A r \in DOMAIN upload' : r # s => r \in DOMAIN upload,
           visit' = visit, FormGone => FormGone', upload'[s].visit = visit => FormGone'
    PROVE  ItemsInv'
<1> DEFINE e == [press |-> s, links |-> links]
<1>1. items \in Seq(SavedItems) /\ e \in SavedItems
  BY DEF AddInv, AddTypes, SavedItems
<1>2. items' = Append(items, e) /\ e.press = s /\ e.links = links
  BY DEF Saved
<1> HIDE DEF e
<1>3. /\ items' \in Seq(SavedItems)
      /\ Len(items') = Len(items) + 1 /\ Len(items) \in Nat
      /\ DOMAIN items = 1 .. Len(items)
      /\ DOMAIN items' = 1 .. Len(items) + 1
      /\ \A n \in 1 .. Len(items) : items'[n] = items[n]
      /\ items'[Len(items) + 1] = e
  BY <1>1, <1>2, OneMore
<1>4. ASSUME NEW r \in DOMAIN upload', Whole(r)'
      PROVE  \E k \in DOMAIN items' : items'[k].press = r
  <2>1. CASE r = s
    BY <1>2, <1>3, <2>1
  <2>2. CASE r # s
    <3>1. r \in DOMAIN upload /\ Whole(r)
      BY <1>4, <2>2 DEF Whole
    <3>2. PICK k \in DOMAIN items : items[k].press = r
      BY <3>1 DEF AddInv
    <3> QED
      BY <1>3, <3>2
  <2> QED
    BY <2>1, <2>2
<1>5. ASSUME NEW k \in DOMAIN items
      PROVE  ItemRight(k)'
  <2>1. ItemRight(k) /\ items[k].press # s /\ items'[k] = items[k]
    BY <1>3 DEF AddInv
  <2>2. upload'[items[k].press] = upload[items[k].press]
    BY <2>1 DEF ItemRight
  <2> QED
    BY <2>1, <2>2 DEF ItemRight, Whole, FormGone
<1>6. ASSUME NEW k \in DOMAIN items', k = Len(items) + 1
      PROVE  ItemRight(k)'
  BY <1>2, <1>3, <1>6 DEF ItemRight, Whole, FormGone
<1>7. \A k \in DOMAIN items' : ItemRight(k)'
  <2> SUFFICES ASSUME NEW k \in DOMAIN items'
               PROVE  ItemRight(k)'
    OBVIOUS
  <2>1. k \in DOMAIN items \/ k = Len(items) + 1
    BY <1>3
  <2> QED
    BY <1>5, <1>6, <2>1
<1>8. \A j, k \in DOMAIN items' : items'[j].press = items'[k].press => j = k
  <2>1. \A j, k \in 1 .. Len(items) : items[j].press = items[k].press => j = k
    BY <1>3 DEF AddInv
  <2>2. \A k \in 1 .. Len(items) : items[k].press # s
    BY <1>3
  <2> QED
    BY <1>2, <1>3, <2>1, <2>2
<1>9. \A d \in index' \cup indexing' : d.id \in 1 .. Len(items')
  <2>1. /\ index' = index
        /\ indexing' = indexing \cup {[id |-> Len(items) + 1, press |-> s, links |-> links]}
    BY DEF Saved
  <2>2. \A d \in index \cup indexing : d.id \in 1 .. Len(items)
    BY DEF AddInv
  <2> QED
    BY <1>3, <2>1, <2>2
<1> QED
  BY <1>3, <1>4, <1>7, <1>8, <1>9 DEF ItemsInv

\* Nothing is saved, and no upload becomes whole.
LEMMA ItemsKept ==
    ASSUME AddInv, UNCHANGED <<items, visit>>, FormGone => FormGone',
           \A e \in index' \cup indexing' : e \in index \cup indexing,
           \A r \in DOMAIN upload :
               /\ r \in DOMAIN upload'
               /\ Whole(r) => Whole(r)'
               /\ upload'[r].visit = upload[r].visit
               /\ Whole(r) => upload'[r].links = upload[r].links,
           \A r \in DOMAIN upload' : Whole(r)' => r \in DOMAIN upload /\ Whole(r)
    PROVE  ItemsInv'
<1>1. ASSUME NEW k \in DOMAIN items
      PROVE  ItemRight(k)'
  <2>1. ItemRight(k) /\ items' = items
    BY DEF AddInv
  <2> DEFINE r == items[k].press
  <2>2. r \in DOMAIN upload /\ Whole(r) /\ items[k].links = upload[r].links
        /\ (upload[r].visit = visit => FormGone)
    BY <2>1 DEF ItemRight, FormGone
  <2>3. /\ r \in DOMAIN upload' /\ Whole(r)' /\ upload'[r].visit = upload[r].visit
        /\ upload'[r].links = upload[r].links
    BY <2>2
  <2> QED
    BY <2>1, <2>2, <2>3 DEF ItemRight, FormGone
<1> QED
  BY <1>1 DEF ItemsInv, AddInv, AddTypes

\* One upload moves on.
LEMMA OneUpload ==
    ASSUME AddInv, NEW s \in DOMAIN upload, NEW u \in Uploads,
           upload' = [upload EXCEPT ![s] = u], visit' = visit,
           u.visit = upload[s].visit, u.images = upload[s].images,
           u.wanted = upload[s].wanted, u.again = upload[s].again,
           DOMAIN u.phase = DOMAIN upload[s].phase,
           \A n \in DOMAIN u.phase : upload[s].phase[n] = "failed" => u.phase[n] = "failed"
    PROVE  /\ upload' \in Seq(Uploads) /\ DOMAIN upload' = DOMAIN upload
           /\ upload'[s] = u
           /\ \A r \in DOMAIN upload :
                /\ r # s => upload'[r] = upload[r] /\ LinksCounted(r)'
                /\ upload'[r].visit = upload[r].visit
                /\ PressedAfterFailure(r)'
<1>1. upload \in Seq(Uploads)
  BY DEF AddInv, AddTypes
<1>2. /\ upload' \in Seq(Uploads) /\ DOMAIN upload' = DOMAIN upload
      /\ upload'[s] = u
      /\ \A r \in DOMAIN upload : r # s => upload'[r] = upload[r]
  BY <1>1, OneChanged
<1>3. ASSUME NEW r \in DOMAIN upload
      PROVE  /\ upload'[r].visit = upload[r].visit /\ upload'[r].again = upload[r].again
             /\ Failed(r) => Failed(r)'
  BY <1>2, <1>3 DEF Failed
<1>4. ASSUME NEW r \in DOMAIN upload, r # s
      PROVE  LinksCounted(r)'
  BY <1>2, <1>4 DEF AddInv, LinksCounted
<1>5. ASSUME NEW r \in DOMAIN upload
      PROVE  PressedAfterFailure(r)'
  <2>1. PressedAfterFailure(r) /\ r \in 1 .. Len(upload) /\ DOMAIN upload = 1 .. Len(upload)
    BY <1>1 DEF AddInv
  <2>2. \A q \in 1 .. r - 1 : q \in DOMAIN upload
    BY <1>1, <2>1
  <2> QED
    BY <1>3, <2>1, <2>2 DEF PressedAfterFailure
<1> QED
  BY <1>2, <1>3, <1>4, <1>5

\* A picture is on, without its link, or not.
LEMMA PhaseMoves ==
    ASSUME AddInv, NEW s \in DOMAIN upload, NEW n \in DOMAIN upload[s].phase,
           upload[s].phase[n] \in {"putting", "asking"}, NEW p \in {"asking", "failed"},
           upload' = [upload EXCEPT ![s].phase[n] = p],
           UNCHANGED <<formVars, itemVars>>
    PROVE  AddInv'
<1> DEFINE q == [upload[s].phase EXCEPT ![n] = p]
           u == [upload[s] EXCEPT !.phase = q]
<1>0. upload[s] \in Uploads /\ upload[s].phase \in Seq(Phases)
  BY UploadTyped DEF AddInv
<1>1. /\ q \in Seq(Phases) /\ DOMAIN q = DOMAIN upload[s].phase
      /\ Len(q) = Len(upload[s].phase)
      /\ q[n] = p /\ \A m \in DOMAIN q : m # n => q[m] = upload[s].phase[m]
  <2>1. p \in Phases
    BY DEF Phases
  <2> QED
    BY <1>0, <2>1, OneChanged
<1>2. upload' = [upload EXCEPT ![s] = u]
  OBVIOUS
<1> HIDE DEF q
<1>3. /\ u \in Uploads /\ u.phase = q
      /\ u.visit = upload[s].visit /\ u.images = upload[s].images /\ u.links = upload[s].links
      /\ u.count = upload[s].count /\ u.wanted = upload[s].wanted
      /\ u.again = upload[s].again
  BY <1>0, <1>1 DEF Uploads
<1> HIDE DEF u
<1>4. /\ upload' \in Seq(Uploads) /\ DOMAIN upload' = DOMAIN upload
      /\ upload'[s] = u
      /\ \A r \in DOMAIN upload :
           /\ r # s => upload'[r] = upload[r] /\ LinksCounted(r)'
           /\ upload'[r].visit = upload[r].visit
           /\ PressedAfterFailure(r)'
  <2>1. \A m \in DOMAIN u.phase : upload[s].phase[m] = "failed" => u.phase[m] = "failed"
    BY <1>1, <1>3
  <2>2. visit' = visit
    BY DEF formVars
  <2> QED
    BY <1>1, <1>2, <1>3, <2>1, <2>2, OneUpload
<1>5. LinksCounted(s)'
  <2>1. LinksOK(s, upload[s])
    BY DEF AddInv, LinksCounted
  <2>2. Linked(q) = Linked(upload[s].phase)
    BY <1>1 DEF Linked
  <2>3. LinksOK(s, u)
    BY <1>1, <1>3, <2>1, <2>2 DEF LinksOK, OneEach
  <2> QED
    BY <1>4, <2>3 DEF LinksCounted
<1>6. ~ Whole(s) /\ ~ Whole(s)' /\ \A r \in DOMAIN upload : r # s => (Whole(r)' <=> Whole(r))
  BY <1>1, <1>3, <1>4 DEF Whole
<1>7. ItemsInv'
  BY <1>4, <1>6, ItemsKept DEF formVars, itemVars, FormGone
<1>8. AddTypes' /\ FormRight'
  BY <1>4 DEF formVars, itemVars, AddInv, AddTypes, FormRight
<1> QED
  BY <1>4, <1>5, <1>7, <1>8 DEF AddInv, ItemsInv

\* A picture has got its link: the links and their number stay those of the pictures
\* that have one, and there are as many as pictures when all of them do.
LEMMA LinkCounted ==
    ASSUME NEW s \in Nat, NEW phase \in Seq(Phases), NEW links \in Seq(Links),
           OneEach(s, links, phase), NEW n \in DOMAIN phase, phase[n] = "asking",
           NEW q, q = [phase EXCEPT ![n] = "linked"]
    PROVE  /\ OneEach(s, Append(links, <<s, n>>), q)
           /\ Len(Append(links, <<s, n>>)) = Len(links) + 1
           /\ Len(Append(links, <<s, n>>)) = Len(q) <=> \A m \in DOMAIN q : q[m] = "linked"
<1> DEFINE more == Append(links, <<s, n>>)
<1> USE DEF OneEach
<1>1. /\ DOMAIN q = DOMAIN phase /\ Len(q) = Len(phase)
      /\ q[n] = "linked"
      /\ \A m \in DOMAIN phase : m # n => q[m] = phase[m]
      /\ DOMAIN phase = 1 .. Len(phase) /\ Len(phase) \in Nat
  OBVIOUS
<1>2. /\ Linked(q) = Linked(phase) \cup {n} /\ n \notin Linked(phase)
      /\ Linked(phase) \subseteq DOMAIN phase /\ Linked(q) \subseteq DOMAIN q
  BY <1>1 DEF Linked
<1>3. IsFiniteSet(DOMAIN q) /\ Cardinality(DOMAIN q) = Len(q)
  <2>1. \A k \in Nat : IsFiniteSet(1 .. k) /\ Cardinality(1 .. k) = k
    BY CountedInterval
  <2> QED
    BY <1>1, <2>1
<1>4. IsFiniteSet(Linked(phase))
  BY <1>1, <1>2, <1>3, FS_Subset
<1>5. <<s, n>> \in Links
  BY <1>1 DEF Links
<1>6. /\ Len(more) = Len(links) + 1 /\ Len(links) \in Nat
      /\ DOMAIN links = 1 .. Len(links)
      /\ DOMAIN more = 1 .. Len(links) + 1
      /\ \A m \in 1 .. Len(links) : more[m] = links[m]
      /\ more[Len(links) + 1] = <<s, n>>
  BY <1>5, OneMore
<1> HIDE DEF more
<1>7. Len(more) = Cardinality(Linked(q))
  <2>1. Cardinality(Linked(phase) \cup {n}) = Cardinality(Linked(phase)) + 1
    BY <1>2, <1>4, FS_AddElement
  <2> QED
    BY <1>2, <1>6, <2>1
<1>8. ToSet(more) = ToSet(links) \cup {<<s, n>>}
  BY <1>5, EntriesOneMore, SMTT(30) DEF more
<1>9. ToSet(more) = {<<s, m>> : m \in Linked(q)}
  BY <1>2, <1>8
<1>10. \A m \in 1 .. Len(links) : links[m] # <<s, n>>
  <2>1. \A m \in DOMAIN links : links[m] \in ToSet(links)
    BY DEF ToSet
  <2>2. <<s, n>> \notin ToSet(links)
    BY <1>2
  <2> QED
    BY <1>6, <2>1, <2>2
<1>11. \A l, m \in DOMAIN more : more[l] = more[m] => l = m
  <2>1. \A l, m \in 1 .. Len(links) : links[l] = links[m] => l = m
    BY <1>6
  <2> QED
    BY <1>6, <1>10, <2>1
<1>12. Len(more) = Len(q) <=> \A m \in DOMAIN q : q[m] = "linked"
  <2>1. Len(more) = Len(q) <=> Linked(q) = DOMAIN q
    BY <1>2, <1>3, <1>7, FS_Subset
  <2>2. Linked(q) = DOMAIN q <=> \A m \in DOMAIN q : q[m] = "linked"
    BY DEF Linked
  <2> QED
    BY <2>1, <2>2
<1> QED
  BY <1>6, <1>7, <1>9, <1>11, <1>12 DEF more

\* popTheView takes the form off the stack if it is the one on the screen.
LEMMA ViewPopped ==
    ASSUME AddTypes, NEW v, popTheView(v)
    PROVE  /\ form' \in {"closed", "up", "gallery", "orphaned"}
           /\ form' # "closed" => form # "closed"
           /\ form' = "gallery" => form = "gallery"
           /\ FormGone => FormGone'
           /\ v = visit => FormGone'
BY DEF AddTypes, popTheView, FormGone

LEMMA ImageLink ==
    ASSUME AddInv, NEW s \in DOMAIN upload, NEW n \in DOMAIN upload[s].phase, imageLink(s, n)
    PROVE  AddInv'
<1> DEFINE q == [upload[s].phase EXCEPT ![n] = "linked"]
           links == Append(upload[s].links, <<s, n>>)
           count == upload[s].count + 1
           u == [upload[s] EXCEPT !.phase = q, !.links = links, !.count = count]
<1>0. /\ upload[s] \in Uploads /\ upload[s].phase \in Seq(Phases)
      /\ upload[s].links \in Seq(Links) /\ upload[s].count \in Nat
      /\ s \in Nat /\ n \in Nat
  BY UploadTyped DEF AddInv
<1>1. /\ q \in Seq(Phases) /\ DOMAIN q = DOMAIN upload[s].phase
      /\ Len(q) = Len(upload[s].phase)
      /\ q[n] = "linked" /\ \A m \in DOMAIN q : m # n => q[m] = upload[s].phase[m]
  <2>1. "linked" \in Phases
    BY DEF Phases
  <2> QED
    BY <1>0, <2>1, OneChanged
<1>2. /\ upload' = [upload EXCEPT ![s] = u]
      /\ upload[s].phase[n] = "asking"
      /\ completionIfAll(s, links, count)
      /\ UNCHANGED <<visit, itemImages, resolving, chosen>>
  BY DEF imageLink
<1>3. links \in Seq(Links) /\ count \in Nat
  BY <1>0 DEF Links
<1> HIDE DEF q, links, count
<1>4. /\ u \in Uploads /\ u.phase = q /\ u.links = links /\ u.count = count
      /\ u.visit = upload[s].visit /\ u.images = upload[s].images
      /\ u.wanted = upload[s].wanted /\ u.again = upload[s].again
  BY <1>0, <1>1, <1>3 DEF Uploads
<1> HIDE DEF u
<1>5. /\ LinksOK(s, u)
      /\ u.count = Len(u.images) <=> \A m \in DOMAIN u.phase : u.phase[m] = "linked"
  <2>1. LinksOK(s, upload[s])
    BY DEF AddInv, LinksCounted
  <2>2. /\ OneEach(s, upload[s].links, upload[s].phase)
        /\ count = Len(upload[s].links) + 1
        /\ Len(upload[s].phase) = Len(upload[s].images)
    BY <2>1 DEF LinksOK, count
  <2>3. /\ OneEach(s, links, q)
        /\ Len(links) = Len(upload[s].links) + 1
        /\ Len(links) = Len(q) <=> \A m \in DOMAIN q : q[m] = "linked"
    <3>1. q = [upload[s].phase EXCEPT ![n] = "linked"]
      BY DEF q
    <3>2. upload[s].phase[n] = "asking" /\ s \in Nat
      BY <1>0, <1>2
    <3> HIDE <1>1, <1>2, <1>4, <2>1
    <3>3. /\ OneEach(s, Append(upload[s].links, <<s, n>>), q)
          /\ Len(Append(upload[s].links, <<s, n>>)) = Len(upload[s].links) + 1
          /\ Len(Append(upload[s].links, <<s, n>>)) = Len(q) <=>
               \A m \in DOMAIN q : q[m] = "linked"
      BY <1>0, <2>2, <3>1, <3>2, LinkCounted, SMTT(30)
    <3> QED
      BY <3>3 DEF links
  <2> QED
    BY <1>1, <1>4, <2>1, <2>2, <2>3 DEF LinksOK
<1>6. /\ upload' \in Seq(Uploads) /\ DOMAIN upload' = DOMAIN upload
      /\ upload'[s] = u
      /\ \A r \in DOMAIN upload :
           /\ r # s => upload'[r] = upload[r] /\ LinksCounted(r)'
           /\ upload'[r].visit = upload[r].visit
           /\ PressedAfterFailure(r)'
  <2>1. \A m \in DOMAIN u.phase : upload[s].phase[m] = "failed" => u.phase[m] = "failed"
    BY <1>1, <1>2, <1>4
  <2> QED
    BY <1>1, <1>2, <1>4, <2>1, OneUpload
<1>7. LinksCounted(s)'
  BY <1>5, <1>6 DEF LinksCounted
<1>8. ~ Whole(s) /\ \A r \in DOMAIN upload : r # s => (Whole(r)' <=> Whole(r))
  BY <1>2, <1>6 DEF Whole
<1>9. Whole(s)' <=> count = Len(upload[s].images)
  BY <1>4, <1>5, <1>6 DEF Whole
<1>10. \A k \in DOMAIN items : items[k].press # s
  BY <1>8 DEF AddInv, ItemRight
<1>11. CASE count = Len(upload[s].images)
  <2>1. Saved(s, links) /\ popTheView(upload[s].visit)
    BY <1>2, <1>11 DEF completionIfAll, AllCounted
  <2>2. /\ form' \in {"closed", "up", "gallery", "orphaned"}
        /\ form' # "closed" => form # "closed"
        /\ form' = "gallery" => form = "gallery"
        /\ FormGone => FormGone'
        /\ upload[s].visit = visit => FormGone'
    BY <2>1, ViewPopped DEF AddInv
  <2>3. Whole(s)' /\ links = upload'[s].links
    BY <1>4, <1>6, <1>9, <1>11
  <2>4. ItemsInv'
    BY <1>0, <1>2, <1>3, <1>6, <1>10, <2>1, <2>2, <2>3, ItemSaved
  <2>5. AddTypes'
    BY <1>2, <1>6, <2>2, <2>4 DEF AddInv, AddTypes, ItemsInv
  <2>6. FormRight'
    BY <1>2, <2>2 DEF AddInv, FormRight
  <2> QED
    BY <1>6, <1>7, <2>4, <2>5, <2>6 DEF AddInv, ItemsInv
<1>12. CASE count # Len(upload[s].images)
  <2>1. UNCHANGED <<form, itemVars>>
    BY <1>2, <1>12 DEF completionIfAll, AllCounted
  <2>2. ~ Whole(s)'
    BY <1>9, <1>12
  <2>3. ItemsInv'
    BY <1>2, <1>6, <1>8, <2>1, <2>2, ItemsKept DEF itemVars, FormGone
  <2>4. AddTypes' /\ FormRight'
    BY <1>2, <1>6, <2>1 DEF itemVars, AddInv, AddTypes, FormRight
  <2> QED
    BY <1>6, <1>7, <2>3, <2>4 DEF AddInv, ItemsInv
<1> QED
  BY <1>11, <1>12

--------------------------------------------------------------------------------
(* The button, the index and the end of the process.                       *)

\* What a press of the button starts.
LEMMA CallMade ==
    ASSUME AddInv, form = "up", NEW s \in Nat, NEW phase \in {"none", "putting", "failed"},
           phase = "none" => itemImages = << >>
    PROVE  /\ Call(phase) \in Uploads /\ LinksOK(s, Call(phase))
           /\ Call(phase).visit = visit /\ Call(phase).links = << >>
           /\ Call(phase).again = FormAlive
           /\ \A n \in DOMAIN Call(phase).phase : Call(phase).phase[n] = phase
           /\ DOMAIN Call(phase).phase = DOMAIN itemImages
<1> DEFINE phases == [n \in DOMAIN itemImages |-> phase]
           wanted == IF resolving = << >> THEN chosen ELSE Unsure
<1>1. /\ itemImages \in Seq(Pictures)
      /\ DOMAIN itemImages = 1 .. Len(itemImages) /\ Len(itemImages) \in Nat
  BY DEF AddInv, AddTypes
<1>2. /\ phases \in Seq(Phases)
      /\ DOMAIN phases = DOMAIN itemImages /\ Len(phases) = Len(itemImages)
      /\ \A n \in DOMAIN phases : phases[n] = phase
  <2>1. CASE itemImages = << >>
    <3>1. phases = << >>
      BY <2>1
    <3> QED
      BY <2>1, <3>1
  <2>2. CASE itemImages # << >>
    <3>1. phase \in Phases
      BY <2>2 DEF Phases
    <3> QED
      BY <1>1, <3>1
  <2> QED
    BY <2>1, <2>2
<1> HIDE DEF phases
<1>3. visit \in 1 .. MaxVisits
  <2>1. visit \in 0 .. MaxVisits /\ visit # 0 /\ MaxVisits \in Nat
    BY AddAssumption DEF AddInv, AddTypes, FormRight
  <2> QED
    BY <2>1
<1>4. /\ wanted \in Seq(Pictures) \cup {Unsure}
      /\ wanted # Unsure => itemImages = wanted
  <2>1. chosen \in Seq(Pictures) \cup {Unsure} /\ <<chosen>> # << >>
    BY DEF AddInv, AddTypes
  <2>2. chosen # Unsure => (resolving = << >> /\ itemImages = chosen) \/ resolving = <<chosen>>
    BY DEF AddInv, FormRight
  <2> QED
    BY <2>1, <2>2
<1> HIDE DEF wanted
<1>5. Call(phase) = [visit |-> visit, images |-> itemImages, phase |-> phases,
                     links |-> << >>, count |-> 0, wanted |-> wanted, again |-> FormAlive]
  BY DEF Call, phases, wanted
<1>6. FormAlive \in BOOLEAN
  BY DEF FormAlive
<1>7. << >> \in Seq(Links) /\ Len(<< >>) = 0 /\ DOMAIN << >> = {}
  OBVIOUS
<1>8. OneEach(s, << >>, phases)
  <2>1. Linked(phases) = {}
    BY <1>2 DEF Linked
  <2>2. Cardinality({}) = 0
    BY FS_EmptySet
  <2>3. ToSet(<< >>) = {}
    BY <1>7 DEF ToSet
  <2> QED
    BY <1>7, <2>1, <2>2, <2>3 DEF OneEach
<1>9. Call(phase) \in Uploads
  BY <1>1, <1>2, <1>3, <1>4, <1>5, <1>6, <1>7 DEF Uploads
<1>10. LinksOK(s, Call(phase))
  BY <1>2, <1>4, <1>5, <1>7, <1>8 DEF LinksOK
<1> QED
  BY <1>2, <1>5, <1>9, <1>10

LEMMA DoneTapped == ASSUME AddInv, doneButtonWasTapped PROVE AddInv'
<1> DEFINE s == Len(upload) + 1
<1>1. PICK phase \in {"none", "putting", "failed"} :
        /\ upload' = Append(upload, Call(phase))
        /\ \/ /\ itemImages = << >> /\ phase = "none"
              /\ Saved(s, << >>) /\ popTheView(visit)
           \/ /\ itemImages # << >> /\ phase # "none"
              /\ UNCHANGED <<form, itemVars>>
  BY DEF doneButtonWasTapped
<1>2. form = "up" /\ UNCHANGED <<visit, itemImages, resolving, chosen>>
  BY DEF doneButtonWasTapped
<1> DEFINE u == Call(phase)
<1>3. upload \in Seq(Uploads) /\ Len(upload) \in Nat /\ s \in Nat
  BY DEF AddInv, AddTypes
<1> HIDE DEF s, u
<1>4. /\ u \in Uploads /\ LinksOK(s, u) /\ u.visit = visit /\ u.links = << >>
      /\ u.again = FormAlive
      /\ \A n \in DOMAIN u.phase : u.phase[n] = phase
      /\ DOMAIN u.phase = DOMAIN itemImages
  <2>1. phase = "none" => itemImages = << >>
    BY <1>1
  <2> QED
    BY <1>2, <1>3, <2>1, CallMade DEF u
<1>5. /\ upload' \in Seq(Uploads)
      /\ DOMAIN upload = 1 .. Len(upload) /\ DOMAIN upload' = 1 .. s
      /\ s = Len(upload) + 1
      /\ upload'[s] = u
      /\ \A r \in 1 .. Len(upload) : upload'[r] = upload[r]
  BY <1>1, <1>3, <1>4, OneMore DEF s, u
<1>6. ASSUME NEW r \in DOMAIN upload
      PROVE  /\ LinksCounted(r)' /\ PressedAfterFailure(r)'
             /\ Whole(r)' <=> Whole(r)
             /\ upload'[r] = upload[r]
  <2>1. upload'[r] = upload[r]
    BY <1>5
  <2>2. \A q \in 1 .. r - 1 : q \in DOMAIN upload /\ upload'[q] = upload[q]
    BY <1>3, <1>5
  <2>3. LinksCounted(r) /\ PressedAfterFailure(r)
    BY DEF AddInv
  <2> QED
    BY <1>2, <2>1, <2>2, <2>3 DEF LinksCounted, PressedAfterFailure, Failed, Whole
<1>8. ASSUME ~ FormAlive, NEW r \in DOMAIN upload, upload[r].visit = visit
      PROVE  Failed(r)
  <2>1. ~ UnderWay(r)
    BY <1>8 DEF FormAlive
  <2>2. ~ Whole(r)
    BY <1>2, <1>8 DEF AddInv, ItemRight
  <2>3. \A n \in DOMAIN upload[r].phase : upload[r].phase[n] \in Phases
    BY UploadTyped, EntriesTyped DEF AddInv
  <2> QED
    BY <2>1, <2>2, <2>3 DEF UnderWay, Whole, Failed, Phases
<1>9. \A r \in DOMAIN upload' : PressedAfterFailure(r)'
  <2>1. ASSUME NEW r \in DOMAIN upload', r = s
        PROVE  PressedAfterFailure(r)'
    <3>1. visit \in Nat
      BY DEF AddInv, AddTypes
    <3>2. upload'[r] = u /\ u.visit <= visit'
      BY <1>2, <1>4, <1>5, <2>1, <3>1
    <3>3. ASSUME ~ u.again, NEW q \in 1 .. r - 1, upload'[q].visit = visit
          PROVE  Failed(q)'
      <4>1. q \in DOMAIN upload /\ upload'[q] = upload[q]
        BY <1>3, <1>5, <2>1
      <4>2. Failed(q)
        BY <1>4, <1>8, <3>3, <4>1
      <4> QED
        BY <4>1, <4>2 DEF Failed
    <3> QED
      BY <1>4, <3>2, <3>3 DEF PressedAfterFailure
  <2> SUFFICES ASSUME NEW r \in DOMAIN upload'
               PROVE  PressedAfterFailure(r)'
    OBVIOUS
  <2>2. r \in DOMAIN upload \/ r = s
    BY <1>3, <1>5
  <2> QED
    BY <1>6, <2>1, <2>2
<1>10. \A r \in DOMAIN upload' : LinksCounted(r)'
  <2> SUFFICES ASSUME NEW r \in DOMAIN upload'
               PROVE  LinksCounted(r)'
    OBVIOUS
  <2>1. r \in DOMAIN upload \/ r = s
    BY <1>3, <1>5
  <2>2. ASSUME r = s
        PROVE  LinksCounted(r)'
    BY <1>4, <1>5, <2>2 DEF LinksCounted
  <2> QED
    BY <1>6, <2>1, <2>2
<1>11. \A k \in DOMAIN items : items[k].press # s
  BY <1>3, <1>5 DEF AddInv, ItemRight
<1>12. CASE itemImages = << >>
  <2>1. Saved(s, << >>) /\ popTheView(visit)
    BY <1>1, <1>12
  <2>2. /\ form' \in {"closed", "up", "gallery", "orphaned"}
        /\ form' # "closed" => form # "closed"
        /\ form' = "gallery" => form = "gallery"
        /\ FormGone => FormGone'
        /\ FormGone'
    BY <2>1, ViewPopped DEF AddInv
  <2>3. DOMAIN itemImages = {} /\ << >> \in Seq(Links)
    BY <1>12
  <2>4. \A n \in DOMAIN upload'[s].phase : upload'[s].phase[n] = "linked"
    BY <1>4, <1>5, <2>3
  <2>5. s \in DOMAIN upload' /\ upload'[s].links = << >>
    BY <1>3, <1>4, <1>5
  <2>6. ItemsInv'
    <3>1. \A r \in DOMAIN upload : r \in DOMAIN upload' /\ (r # s => upload'[r] = upload[r])
      BY <1>3, <1>5
    <3>2. \A r \in DOMAIN upload' : r # s => r \in DOMAIN upload
      BY <1>3, <1>5
    <3> QED
      BY <1>2, <1>3, <1>11, <2>1, <2>2, <2>3, <2>4, <2>5, <3>1, <3>2, ItemSaved DEF Whole
  <2>7. AddTypes' /\ FormRight'
    BY <1>2, <1>5, <2>2, <2>6 DEF AddInv, AddTypes, FormRight, ItemsInv
  <2> QED
    BY <1>9, <1>10, <2>6, <2>7 DEF AddInv, ItemsInv
<1>13. CASE itemImages # << >>
  <2>1. phase # "linked" /\ UNCHANGED <<form, itemVars>>
    BY <1>1, <1>13
  <2>2. \E n \in DOMAIN upload'[s].phase : upload'[s].phase[n] # "linked"
    <3>1. 1 \in DOMAIN itemImages
      BY <1>13 DEF AddInv, AddTypes
    <3> QED
      BY <1>4, <1>5, <2>1, <3>1
  <2>3. \A r \in DOMAIN upload' : Whole(r)' => r \in DOMAIN upload /\ Whole(r)
    <3> SUFFICES ASSUME NEW r \in DOMAIN upload', Whole(r)'
                 PROVE  r \in DOMAIN upload /\ Whole(r)
      OBVIOUS
    <3>1. r \in DOMAIN upload \/ r = s
      BY <1>3, <1>5
    <3>2. r # s
      BY <2>2 DEF Whole
    <3> QED
      BY <1>6, <3>1, <3>2
  <2>4. \A r \in DOMAIN upload : r \in DOMAIN upload'
    BY <1>3, <1>5
  <2>5. ItemsInv'
    BY <1>2, <1>6, <2>1, <2>3, <2>4, ItemsKept DEF itemVars, FormGone
  <2>6. AddTypes' /\ FormRight'
    BY <1>2, <1>5, <2>1 DEF itemVars, AddInv, AddTypes, FormRight
  <2> QED
    BY <1>9, <1>10, <2>5, <2>6 DEF AddInv, ItemsInv
<1> QED
  BY <1>12, <1>13

LEMMA AlgoliaAnswered ==
    ASSUME AddInv, NEW e \in indexing, algoliaAnswers(e)
    PROVE  AddInv'
<1>1. UNCHANGED <<formVars, upload, items>> /\ index' \cup indexing' \subseteq index \cup indexing
  BY DEF algoliaAnswers
<1>2. ItemsInv'
  BY <1>1, ItemsKept DEF formVars, FormGone, Whole
<1>3. AddTypes' /\ FormRight'
  BY <1>1 DEF formVars, AddInv, AddTypes, FormRight
<1>4. \A s \in DOMAIN upload : LinksCounted(s)' /\ PressedAfterFailure(s)'
  BY <1>1 DEF formVars, AddInv, LinksCounted, PressedAfterFailure, Failed
<1> QED
  BY <1>1, <1>2, <1>3, <1>4 DEF AddInv, ItemsInv

\* The process ends: what was under way has failed.
LEMMA AddEnds == ASSUME AddInv, AddTerminate PROVE AddInv'
<1>1. upload' = [s \in DOMAIN upload |-> [upload[s] EXCEPT !.phase = Ended(@)]]
  BY DEF AddTerminate
<1>2. upload \in Seq(Uploads) /\ DOMAIN upload = 1 .. Len(upload) /\ Len(upload) \in Nat
  BY DEF AddInv, AddTypes
<1>3. ASSUME NEW s \in DOMAIN upload
      PROVE  /\ upload'[s] \in Uploads
             /\ DOMAIN upload'[s].phase = DOMAIN upload[s].phase
             /\ Len(upload'[s].phase) = Len(upload[s].phase)
             /\ \A n \in DOMAIN upload[s].phase :
                  upload'[s].phase[n] =
                    IF upload[s].phase[n] = "linked" THEN "linked" ELSE "failed"
             /\ upload'[s].visit = upload[s].visit /\ upload'[s].images = upload[s].images
             /\ upload'[s].links = upload[s].links /\ upload'[s].count = upload[s].count
             /\ upload'[s].wanted = upload[s].wanted /\ upload'[s].again = upload[s].again
  <2> DEFINE q == Ended(upload[s].phase)
  <2>1. upload[s] \in Uploads /\ upload[s].phase \in Seq(Phases)
    BY UploadTyped DEF AddInv
  <2>2. /\ q \in Seq(Phases) /\ DOMAIN q = DOMAIN upload[s].phase
        /\ Len(q) = Len(upload[s].phase)
        /\ \A n \in DOMAIN q : q[n] = IF upload[s].phase[n] = "linked" THEN "linked" ELSE "failed"
    <3>1. "linked" \in Phases /\ "failed" \in Phases
      BY DEF Phases
    <3> QED
      BY <2>1, <3>1 DEF Ended
  <2>3. upload'[s] = [upload[s] EXCEPT !.phase = q]
    BY <1>1
  <2> HIDE DEF q
  <2> QED
    BY <2>1, <2>2, <2>3 DEF Uploads
<1>4. upload' \in Seq(Uploads) /\ DOMAIN upload' = DOMAIN upload
  <2>1. upload' = [s \in DOMAIN upload |-> upload'[s]] /\ DOMAIN upload' = DOMAIN upload
    BY <1>1
  <2>2. \A s \in DOMAIN upload : upload'[s] \in Uploads
    BY <1>3
  <2>3. upload' \in [1 .. Len(upload) -> Uploads]
    BY <1>2, <2>1, <2>2
  <2>4. \A k \in Nat : \A f \in [1 .. k -> Uploads] : f \in Seq(Uploads)
    OBVIOUS
  <2> QED
    BY <1>2, <2>1, <2>3, <2>4
<1>5. UNCHANGED <<visit, items, index>> /\ form' = "closed" /\ indexing' = {}
  BY DEF AddTerminate
<1>6. ASSUME NEW s \in DOMAIN upload
      PROVE  /\ LinksCounted(s)' /\ PressedAfterFailure(s)'
             /\ Whole(s)' <=> Whole(s)
  <2>1. LinksOK(s, upload[s]) /\ PressedAfterFailure(s)
    BY DEF AddInv, LinksCounted
  <2>2. Linked(upload'[s].phase) = Linked(upload[s].phase)
    BY <1>3 DEF Linked
  <2>3. LinksOK(s, upload'[s])
    BY <1>3, <2>1, <2>2 DEF LinksOK, OneEach
  <2>4. \A r \in 1 .. s - 1 : r \in DOMAIN upload
    BY <1>2
  <2>5. \A r \in DOMAIN upload : Failed(r) => Failed(r)'
    BY <1>3 DEF Failed
  <2>6. PressedAfterFailure(s)'
    BY <1>3, <1>5, <2>1, <2>4, <2>5 DEF PressedAfterFailure
  <2>7. Whole(s)' <=> Whole(s)
    BY <1>3 DEF Whole
  <2> QED
    BY <2>3, <2>6, <2>7 DEF LinksCounted
<1>7. ItemsInv'
  BY <1>3, <1>4, <1>5, <1>6, ItemsKept DEF FormGone
<1>8. AddTypes' /\ FormRight'
  <2>1. << >> \in Seq(Pictures) /\ << >> \in Seq(Offers)
    OBVIOUS
  <2> QED
    BY <1>4, <1>5, <2>1 DEF AddTerminate, AddInv, AddTypes, FormRight
<1> QED
  BY <1>4, <1>6, <1>7, <1>8 DEF AddInv, ItemsInv

LEMMA AddInvInit == AddInit => AddInv
<1> SUFFICES ASSUME AddInit
             PROVE  AddInv
  OBVIOUS
<1>1. /\ << >> \in Seq(Pictures) /\ << >> \in Seq(Offers) /\ << >> \in Seq(Uploads)
      /\ << >> \in Seq(SavedItems) /\ DOMAIN << >> = {} /\ 0 \in 0 .. MaxVisits
  BY AddAssumption
<1>2. AddTypes
  BY <1>1 DEF AddInit, AddTypes
<1> QED
  BY <1>1, <1>2 DEF AddInit, AddInv, FormRight

LEMMA AddInvStep == ASSUME AddInv, [Next]_vars PROVE AddInv'
<1>1. CASE UserFillsForm
  BY <1>1, OpenForm, Back, CameraTapped, GalleryCancelled, ImagesSelected, OrphanDismissed,
     DoneTapped DEF UserFillsForm
<1>2. ASSUME NEW s \in DOMAIN upload, NEW n \in DOMAIN upload[s].phase,
             putDataSucceeds(s, n) \/ uploadFails(s, n)
      PROVE  AddInv'
  <2>1. CASE putDataSucceeds(s, n)
    BY <2>1, PhaseMoves DEF putDataSucceeds
  <2>2. CASE uploadFails(s, n)
    BY <2>2, PhaseMoves DEF uploadFails
  <2> QED
    BY <1>2, <2>1, <2>2
<1>3. CASE AddSteps
  BY <1>2, <1>3, ImagesResolved, ImageLink, AlgoliaAnswered DEF AddSteps, StorageAnswers
<1>4. CASE UNCHANGED addVars
  <2>1. UNCHANGED <<upload, itemVars, visit, form>> /\ AddTypes' /\ FormRight'
    BY <1>4 DEF addVars, formVars, itemVars, AddInv, AddTypes, FormRight
  <2> QED
    BY <2>1, FormStep
<1>5. CASE Terminate
  BY <1>5, AddEnds DEF Terminate
<1>6. CASE \/ \E k \in DOMAIN items : downloadItemPictures(k)
           \/ \E n \in DOMAIN step : BlockRuns(n)
           \/ completion
  <2>1. UNCHANGED addVars
    BY <1>6 DEF downloadItemPictures, completion, BlockRuns, blockUnchanged, counterLoaded,
       counterStored, contentsOf, contentsFail, arrayLoaded, arrayStored, counterCompared
  <2> QED
    BY <1>4, <2>1
<1>7. CASE UNCHANGED vars
  BY <1>4, <1>7 DEF vars
<1> QED
  BY <1>1, <1>3, <1>5, <1>6, <1>7 DEF Next

LEMMA AddInvAlways == Spec => []AddInv
<1>1. Init => AddInv
  BY AddInvInit DEF Init
<1>2. AddInv /\ [Next]_vars => AddInv'
  BY AddInvStep
<1> QED
  BY <1>1, <1>2, PTL DEF Spec

\* A saved item has the links of its upload, which is whole.
LEMMA AllLinked == AddInv => LinksWhole
<1> SUFFICES ASSUME AddInv, NEW k \in DOMAIN items
             PROVE  LET s == items[k].press IN
                      /\ Len(items[k].links) = Len(upload[s].images)
                      /\ ToSet(items[k].links) = {<<s, n>> : n \in DOMAIN upload[s].images}
  BY DEF LinksWhole
<1> DEFINE s == items[k].press
<1>1. s \in DOMAIN upload /\ Whole(s) /\ items[k].links = upload[s].links
  BY DEF AddInv, ItemRight
<1>2. LinksOK(s, upload[s])
  BY <1>1 DEF AddInv, LinksCounted
<1>3. upload[s].phase \in Seq(Phases) /\ upload[s].images \in Seq(Pictures)
  BY <1>1, UploadTyped DEF AddInv
<1> HIDE DEF s
<1>4. Len(upload[s].phase) = Len(upload[s].images)
  BY <1>2 DEF LinksOK
<1>5. DOMAIN upload[s].phase = DOMAIN upload[s].images
  BY <1>3, <1>4
<1>6. Linked(upload[s].phase) = DOMAIN upload[s].images
  BY <1>1, <1>5 DEF Whole, Linked
<1>7. Cardinality(DOMAIN upload[s].images) = Len(upload[s].images)
  <2>1. Len(upload[s].images) \in Nat /\ DOMAIN upload[s].images = 1 .. Len(upload[s].images)
    BY <1>3
  <2> QED
    BY <2>1, CountedInterval
<1>8. /\ Len(upload[s].links) = Len(upload[s].images)
      /\ ToSet(upload[s].links) = {<<s, n>> : n \in DOMAIN upload[s].images}
  BY <1>2, <1>6, <1>7 DEF LinksOK, OneEach
<1> QED
  BY <1>1, <1>8 DEF s

\* A saved item has one link for each of its pictures (uploadImages), whatever the
\* order of Storage's answers.
THEOREM SavedWithAllLinks == Spec => []LinksWhole
BY AllLinked, AddInvAlways, PTL

\* A form makes a second item only if its button was pressed while an upload of its own
\* was under way (doneButtonWasTapped, popTheView), and no press makes two.
THEOREM ItemsFromVisits == Spec => []OneItemPerVisit
<1>1. AddInv => OneItemPerVisit
  <2>1. ASSUME AddInv, NEW j \in DOMAIN items, NEW k \in DOMAIN items,
               items[j].press < items[k].press,
               upload[items[j].press].visit = upload[items[k].press].visit
        PROVE  upload[items[k].press].again
    <3> DEFINE r == items[j].press
               s == items[k].press
    <3>1. r \in DOMAIN upload /\ s \in DOMAIN upload /\ Whole(r)
      BY <2>1 DEF AddInv, ItemRight
    <3>2. r \in Nat /\ s \in Nat /\ 1 <= r
      BY <2>1, <3>1, UploadTyped DEF AddInv
    <3>3. PressedAfterFailure(s)
      BY <2>1, <3>1 DEF AddInv
    <3>4. ~ Failed(r)
      BY <3>1 DEF Whole, Failed
    <3> HIDE DEF r, s
    <3>5. r \in 1 .. s - 1
      BY <2>1, <3>2 DEF r, s
    <3> QED
      BY <2>1, <3>3, <3>4, <3>5 DEF PressedAfterFailure, r, s
  <2> SUFFICES ASSUME AddInv, NEW j \in DOMAIN items, NEW k \in DOMAIN items, j # k
               PROVE  LET s == items[j].press
                          t == items[k].press
                      IN  /\ s # t
                          /\ upload[s].visit = upload[t].visit =>
                               upload[s].again \/ upload[t].again
    BY DEF OneItemPerVisit
  <2>2. items[j].press # items[k].press
    BY DEF AddInv
  <2>3. items[j].press \in Nat /\ items[k].press \in Nat
    BY UploadTyped DEF AddInv, ItemRight
  <2>4. items[j].press < items[k].press \/ items[k].press < items[j].press
    BY <2>2, <2>3
  <2> QED
    BY <2>1, <2>2, <2>4
<1> QED
  BY <1>1, AddInvAlways, PTL

\* Once Storage has answered, a press has made its item unless something of it failed
\* (uploadImages): no upload is forgotten.
THEOREM PressesAccounted == Spec => []PressAccounted
<1>1. AddInv => PressAccounted
  <2> SUFFICES ASSUME AddInv, NEW s \in DOMAIN upload
               PROVE  (\E k \in DOMAIN items : items[k].press = s) <=>
                        ~ UnderWay(s) /\ ~ Failed(s)
    BY DEF PressAccounted
  <2>1. (\E k \in DOMAIN items : items[k].press = s) <=> Whole(s)
    BY DEF AddInv, ItemRight
  <2>2. \A n \in DOMAIN upload[s].phase : upload[s].phase[n] \in Phases
    BY UploadTyped, EntriesTyped DEF AddInv
  <2>3. Whole(s) <=> ~ UnderWay(s) /\ ~ Failed(s)
    BY <2>2 DEF Whole, UnderWay, Failed, Phases
  <2> QED
    BY <2>1, <2>3
<1> QED
  BY <1>1, AddInvAlways, PTL

--------------------------------------------------------------------------------
(* The blocks.                                                             *)

\* Any of the blocks can be counted.
LEMMA BlocksFinite ==
    ASSUME NEW st \in Seq(Stages), NEW P \in SUBSET DOMAIN st
    PROVE  /\ IsFiniteSet(P) /\ Cardinality(P) \in 0 .. Len(st)
           /\ Cardinality(P) = Len(st) <=> P = DOMAIN st
<1>1. DOMAIN st = 1 .. Len(st) /\ Len(st) \in Nat
  OBVIOUS
<1>2. IsFiniteSet(DOMAIN st) /\ Cardinality(DOMAIN st) = Len(st)
  BY <1>1, CountedInterval
<1>3. IsFiniteSet(P) /\ Cardinality(P) \in Nat /\ Cardinality(P) <= Len(st)
  BY <1>2, FS_Subset, FS_CardinalityType
<1>4. Cardinality(P) = Len(st) <=> P = DOMAIN st
  BY <1>2, FS_Subset
<1> QED
  BY <1>1, <1>3, <1>4

\* The links of the item on the screen are all different.
LEMMA UrlsDistinct ==
    ASSUME AddInv, viewed \in DOMAIN items
    PROVE  /\ imageUrls \in Seq(Links)
           /\ \A m, n \in DOMAIN imageUrls : imageUrls[m] = imageUrls[n] => m = n
<1> DEFINE s == items[viewed].press
<1>1. s \in DOMAIN upload /\ imageUrls = upload[s].links
  BY DEF AddInv, ItemRight, imageUrls
<1>2. OneEach(s, upload[s].links, upload[s].phase)
  BY <1>1 DEF AddInv, LinksCounted, LinksOK
<1>3. upload[s].links \in Seq(Links)
  BY <1>1, UploadTyped DEF AddInv
<1> QED
  BY <1>1, <1>2, <1>3 DEF OneEach

\* One block moves on.
LEMMA BlockMoves ==
    ASSUME AddInv, ViewInv, NEW n \in DOMAIN step, NEW to \in Stages,
           step' = [step EXCEPT ![n] = to], viewed' = viewed, items' = items
    PROVE  /\ step' \in Seq(Stages) /\ DOMAIN step' = DOMAIN step /\ Len(step') = Len(step)
           /\ step'[n] = to /\ \A m \in DOMAIN step : m # n => step'[m] = step[m]
           /\ viewed # 0 /\ viewed \in DOMAIN items /\ imageUrls' = imageUrls
           /\ n \in DOMAIN imageUrls /\ Len(step) = Len(imageUrls) /\ Len(step) \in Nat
           /\ Counted' = IF to \in {"queued", "counting"} THEN Counted \ {n}
                                                          ELSE Counted \cup {n}
           /\ Appended' = IF to \in {"appended", "done"} THEN Appended \cup {n}
                                                         ELSE Appended \ {n}
           /\ Done' = IF to = "done" THEN Done \cup {n} ELSE Done \ {n}
<1>1. step \in Seq(Stages)
  BY DEF ViewInv, ViewTypes
<1>2. /\ step' \in Seq(Stages) /\ DOMAIN step' = DOMAIN step /\ Len(step') = Len(step)
      /\ step'[n] = to /\ \A m \in DOMAIN step : m # n => step'[m] = step[m]
  BY <1>1, OneChanged
<1>3. viewed # 0
  <2>1. step # << >>
    OBVIOUS
  <2> QED
    BY <2>1 DEF ViewInv, ViewTypes
<1>4. viewed \in DOMAIN items
  BY <1>3 DEF ViewInv, ViewTypes, AddInv, AddTypes
<1>5. imageUrls' = imageUrls
  BY DEF imageUrls
<1>6. n \in DOMAIN imageUrls /\ Len(step) = Len(imageUrls) /\ Len(step) \in Nat
  <2>1. Len(step) = Len(imageUrls) /\ DOMAIN step = 1 .. Len(step) /\ Len(step) \in Nat
    BY <1>1, <1>3 DEF ViewInv, ViewTypes
  <2>2. DOMAIN imageUrls = 1 .. Len(imageUrls)
    BY <1>4, UrlsDistinct
  <2> QED
    BY <2>1, <2>2
<1>7. Counted' = IF to \in {"queued", "counting"} THEN Counted \ {n} ELSE Counted \cup {n}
  BY <1>2 DEF Counted
<1>8. Appended' = IF to \in {"appended", "done"} THEN Appended \cup {n} ELSE Appended \ {n}
  BY <1>2 DEF Appended
<1>9. Done' = IF to = "done" THEN Done \cup {n} ELSE Done \ {n}
  BY <1>2 DEF Done
<1> QED
  BY <1>2, <1>3, <1>4, <1>5, <1>6, <1>7, <1>8, <1>9

\* How many went by, when one more has or none has.
LEMMA OneMoreBlock ==
    ASSUME ViewInv, NEW P \in SUBSET DOMAIN step, NEW n \in DOMAIN step
    PROVE  /\ Cardinality(P) \in Nat
           /\ n \notin P => /\ Cardinality(P \cup {n}) = Cardinality(P) + 1
                            /\ P \ {n} = P
           /\ n \in P => P \cup {n} = P
<1>1. IsFiniteSet(P) /\ Cardinality(P) \in Nat
  BY BlocksFinite DEF ViewInv, ViewTypes
<1>2. n \notin P => Cardinality(P \cup {n}) = Cardinality(P) + 1
  BY <1>1, FS_AddElement
<1> QED
  BY <1>1, <1>2

LEMMA SetsOfBlocks ==
    Counted \in SUBSET DOMAIN step /\ Appended \in SUBSET DOMAIN step
    /\ Done \in SUBSET DOMAIN step
BY DEF Counted, Appended, Done

\* The counter.
LEMMA CounterLoaded ==
    ASSUME AddInv, ViewInv, NEW n \in DOMAIN step, counterLoaded(n)
    PROVE  ViewInv'
<1>1. /\ step[n] = "queued" /\ step' = [step EXCEPT ![n] = "counting"]
      /\ kept' = [kept EXCEPT ![n] = downloadedCounter]
      /\ raced' = (raced \/ Others(n, "counting"))
      /\ UNCHANGED <<downloadedCounter, imageArray, viewed, main, shown, items>>
  BY DEF counterLoaded, At, Keep, Raced, blockUnchanged, addVars, itemVars
<1>2. "counting" \in Stages
  BY DEF Stages
<1>3. /\ step' \in Seq(Stages) /\ DOMAIN step' = DOMAIN step /\ Len(step') = Len(step)
      /\ step'[n] = "counting" /\ \A m \in DOMAIN step : m # n => step'[m] = step[m]
      /\ viewed # 0 /\ imageUrls' = imageUrls
      /\ Counted' = Counted \ {n} /\ Appended' = Appended \ {n} /\ Done' = Done \ {n}
  BY <1>1, <1>2, BlockMoves
<1>4. Counted' = Counted /\ Appended' = Appended /\ Done' = Done
  BY <1>1, <1>3 DEF Counted, Appended, Done
<1>5. /\ DOMAIN kept' = DOMAIN step' /\ kept'[n] = downloadedCounter
      /\ \A m \in DOMAIN step : m # n => kept'[m] = kept[m]
  BY <1>1, <1>3 DEF ViewInv, ViewTypes
<1>6. ViewTypes'
  <2>1. raced' \in BOOLEAN
    BY <1>1 DEF Others, ViewInv, ViewTypes
  <2> QED
    BY <1>1, <1>3, <1>5, <2>1 DEF ViewInv, ViewTypes
<1>7. CountsBounded'
  BY <1>1, <1>3, <1>4, <1>5 DEF ViewInv, CountsBounded
<1>8. ASSUME ~ raced'
      PROVE  SharedRight' /\ ScreenRight'
  <2>1. SharedRight /\ ScreenRight /\ \A m \in DOMAIN step : m # n => step[m] # "counting"
    BY <1>1, <1>8 DEF ViewInv, Others
  <2>2. SharedRight'
    <3>1. \A l, m \in DOMAIN step' :
            step'[l] = step'[m] /\ step'[l] \in {"counting", "appending"} => l = m
      BY <1>3, <2>1 DEF SharedRight
    <3>2. \A m \in DOMAIN step' :
            /\ step'[m] = "counting" => kept'[m] = downloadedCounter'
            /\ step'[m] = "appending" => kept'[m] = imageArray'
      BY <1>1, <1>3, <1>5, <2>1 DEF SharedRight
    <3>3. downloadedCounter' = Cardinality(Counted')
      BY <1>1, <1>4, <2>1 DEF SharedRight
    <3>4. OfBlocks(imageArray, imageUrls, Appended)'
      BY <1>1, <1>3, <1>4, <2>1 DEF SharedRight
    <3> QED
      BY <3>1, <3>2, <3>3, <3>4 DEF SharedRight
  <2>3. n \in DOMAIN step /\ n \notin Counted /\ n \notin Counted'
    BY <1>1, <1>4 DEF Counted
  <2>4. ScreenRight'
    BY <1>1, <1>3, <1>4, <2>1, <2>3 DEF ScreenRight
  <2> QED
    BY <2>2, <2>4
<1> QED
  BY <1>6, <1>7, <1>8 DEF ViewInv

LEMMA CounterStored ==
    ASSUME AddInv, ViewInv, NEW n \in DOMAIN step, counterStored(n)
    PROVE  ViewInv'
<1>1. /\ step[n] = "counting" /\ step' = [step EXCEPT ![n] = "counted"]
      /\ kept' = [kept EXCEPT ![n] = 0] /\ downloadedCounter' = kept[n] + 1
      /\ UNCHANGED <<imageArray, viewed, main, shown, items, raced>>
  BY DEF counterStored, At, Keep, blockUnchanged, addVars, itemVars
<1>2. "counted" \in Stages
  BY DEF Stages
<1>3. /\ step' \in Seq(Stages) /\ DOMAIN step' = DOMAIN step /\ Len(step') = Len(step)
      /\ step'[n] = "counted" /\ \A m \in DOMAIN step : m # n => step'[m] = step[m]
      /\ viewed # 0 /\ imageUrls' = imageUrls
      /\ Counted' = Counted \cup {n} /\ Appended' = Appended \ {n} /\ Done' = Done \ {n}
  BY <1>1, <1>2, BlockMoves
<1>4. /\ n \notin Counted /\ Appended' = Appended /\ Done' = Done
      /\ Cardinality(Counted') = Cardinality(Counted) + 1 /\ Cardinality(Counted) \in Nat
  <2>1. n \notin Counted /\ n \notin Appended /\ n \notin Done
    BY <1>1 DEF Counted, Appended, Done
  <2> QED
    BY <1>3, <2>1, SetsOfBlocks, OneMoreBlock
<1>5. /\ DOMAIN kept' = DOMAIN step'
      /\ \A m \in DOMAIN step : m # n => kept'[m] = kept[m]
  BY <1>1, <1>3 DEF ViewInv, ViewTypes
<1>6. ViewTypes'
  BY <1>1, <1>3, <1>5 DEF ViewInv, ViewTypes
<1>7. CountsBounded'
  <2>1. kept[n] \in 0 .. Cardinality(Counted)
    BY <1>1 DEF ViewInv, CountsBounded
  <2>2. downloadedCounter' \in 0 .. Cardinality(Counted')
    BY <1>1, <1>4, <2>1
  <2>3. ASSUME NEW m \in DOMAIN step'
        PROVE  /\ step'[m] = "counting" => kept'[m] \in 0 .. Cardinality(Counted')
               /\ step'[m] = "appending" => kept'[m] \in Seq(Links)
    <3>1. CASE m = n
      BY <1>3, <3>1
    <3>2. CASE m # n
      <4>1. step'[m] = step[m] /\ kept'[m] = kept[m] /\ m \in DOMAIN step
        BY <1>3, <1>5, <2>3, <3>2
      <4>2. /\ step[m] = "counting" => kept[m] \in 0 .. Cardinality(Counted)
            /\ step[m] = "appending" => kept[m] \in Seq(Links)
        BY <4>1 DEF ViewInv, CountsBounded
      <4> QED
        BY <1>4, <4>1, <4>2
    <3> QED
      BY <3>1, <3>2
  <2>4. main' \in 0 .. Cardinality(Done')
    BY <1>1, <1>4 DEF ViewInv, CountsBounded
  <2> QED
    BY <2>2, <2>3, <2>4 DEF CountsBounded
<1>8. ASSUME ~ raced'
      PROVE  SharedRight' /\ ScreenRight'
  <2>1. SharedRight /\ ScreenRight
    BY <1>1, <1>8 DEF ViewInv
  <2>2. SharedRight'
    <3>1. \A l, m \in DOMAIN step' :
            step'[l] = step'[m] /\ step'[l] \in {"counting", "appending"} => l = m
      BY <1>3, <2>1 DEF SharedRight
    <3>2. \A m \in DOMAIN step' : step'[m] # "counting"
      BY <1>1, <1>3, <2>1 DEF SharedRight
    <3>3. \A m \in DOMAIN step' : step'[m] = "appending" => kept'[m] = imageArray'
      BY <1>1, <1>3, <1>5, <2>1 DEF SharedRight
    <3>4. downloadedCounter' = Cardinality(Counted')
      BY <1>1, <1>4, <2>1 DEF SharedRight
    <3>5. OfBlocks(imageArray, imageUrls, Appended)'
      BY <1>1, <1>3, <1>4, <2>1 DEF SharedRight
    <3> QED
      BY <3>1, <3>2, <3>3, <3>4, <3>5 DEF SharedRight
  <2>3. main = 0 /\ shown = << >>
    BY <1>4, <2>1 DEF ScreenRight
  <2>4. n \in DOMAIN step' /\ step'[n] \notin {"appended", "done"}
    BY <1>3
  <2>5. ScreenRight'
    BY <1>1, <2>3, <2>4 DEF ScreenRight
  <2> QED
    BY <2>2, <2>5
<1> QED
  BY <1>6, <1>7, <1>8 DEF ViewInv

\* The picture is fetched, or is not.
LEMMA BlockFetched ==
    ASSUME AddInv, ViewInv, NEW n \in DOMAIN step, contentsOf(n) \/ contentsFail(n)
    PROVE  ViewInv'
<1>1. PICK to \in {"fetched", "failed"} :
        /\ step[n] = "counted" /\ step' = [step EXCEPT ![n] = to]
        /\ UNCHANGED <<downloadedCounter, imageArray, viewed, main, shown, items, raced, kept>>
  BY DEF contentsOf, contentsFail, At, blockUnchanged, addVars, itemVars
<1>2. to \in Stages
  BY DEF Stages
<1>3. /\ step' \in Seq(Stages) /\ DOMAIN step' = DOMAIN step /\ Len(step') = Len(step)
      /\ step'[n] = to /\ \A m \in DOMAIN step : m # n => step'[m] = step[m]
      /\ viewed # 0 /\ imageUrls' = imageUrls
      /\ Counted' = Counted \cup {n} /\ Appended' = Appended \ {n} /\ Done' = Done \ {n}
  BY <1>1, <1>2, BlockMoves
<1>4. Appended' = Appended /\ Done' = Done /\ Counted' = Counted
  BY <1>1, <1>3 DEF Counted, Appended, Done
<1>5. ViewTypes'
  BY <1>1, <1>3 DEF ViewInv, ViewTypes
<1>6. CountsBounded'
  BY <1>1, <1>3, <1>4 DEF ViewInv, CountsBounded
<1>7. ASSUME ~ raced'
      PROVE  SharedRight' /\ ScreenRight'
  <2>1. SharedRight /\ ScreenRight
    BY <1>1, <1>7 DEF ViewInv
  <2>2. SharedRight'
    <3>1. \A l, m \in DOMAIN step' :
            step'[l] = step'[m] /\ step'[l] \in {"counting", "appending"} => l = m
      BY <1>3, <2>1 DEF SharedRight
    <3>2. \A m \in DOMAIN step' :
            /\ step'[m] = "counting" => kept'[m] = downloadedCounter'
            /\ step'[m] = "appending" => kept'[m] = imageArray'
      BY <1>1, <1>3, <2>1 DEF SharedRight
    <3>3. downloadedCounter' = Cardinality(Counted')
      BY <1>1, <1>4, <2>1 DEF SharedRight
    <3>4. OfBlocks(imageArray, imageUrls, Appended)'
      BY <1>1, <1>3, <1>4, <2>1 DEF SharedRight
    <3> QED
      BY <3>1, <3>2, <3>3, <3>4 DEF SharedRight
  <2>3. \A m \in DOMAIN step : step[m] = "appended" => step'[m] = "appended"
    BY <1>1, <1>3
  <2>4. n \in DOMAIN step' /\ step'[n] \notin {"appended", "done"}
    BY <1>3
  <2>5. ScreenRight'
    BY <1>1, <1>3, <1>4, <2>1, <2>3, <2>4 DEF ScreenRight
  <2> QED
    BY <2>2, <2>5
<1> QED
  BY <1>5, <1>6, <1>7 DEF ViewInv

\* The array.
LEMMA ArrayLoaded ==
    ASSUME AddInv, ViewInv, NEW n \in DOMAIN step, arrayLoaded(n)
    PROVE  ViewInv'
<1>1. /\ step[n] = "fetched" /\ step' = [step EXCEPT ![n] = "appending"]
      /\ kept' = [kept EXCEPT ![n] = imageArray]
      /\ raced' = (raced \/ Others(n, "appending"))
      /\ UNCHANGED <<downloadedCounter, imageArray, viewed, main, shown, items>>
  BY DEF arrayLoaded, At, Keep, Raced, blockUnchanged, addVars, itemVars
<1>2. "appending" \in Stages
  BY DEF Stages
<1>3. /\ step' \in Seq(Stages) /\ DOMAIN step' = DOMAIN step /\ Len(step') = Len(step)
      /\ step'[n] = "appending" /\ \A m \in DOMAIN step : m # n => step'[m] = step[m]
      /\ viewed # 0 /\ imageUrls' = imageUrls
      /\ Counted' = Counted \cup {n} /\ Appended' = Appended \ {n} /\ Done' = Done \ {n}
  BY <1>1, <1>2, BlockMoves
<1>4. Counted' = Counted /\ Appended' = Appended /\ Done' = Done
  BY <1>1, <1>3 DEF Counted, Appended, Done
<1>5. /\ DOMAIN kept' = DOMAIN step' /\ kept'[n] = imageArray
      /\ \A m \in DOMAIN step : m # n => kept'[m] = kept[m]
  BY <1>1, <1>3 DEF ViewInv, ViewTypes
<1>6. ViewTypes'
  <2>1. raced' \in BOOLEAN
    BY <1>1 DEF Others, ViewInv, ViewTypes
  <2> QED
    BY <1>1, <1>3, <1>5, <2>1 DEF ViewInv, ViewTypes
<1>7. CountsBounded'
  <2>1. imageArray \in Seq(Links)
    BY DEF ViewInv, ViewTypes
  <2> QED
    BY <1>1, <1>3, <1>4, <1>5, <2>1 DEF ViewInv, CountsBounded
<1>8. ASSUME ~ raced'
      PROVE  SharedRight' /\ ScreenRight'
  <2>1. SharedRight /\ ScreenRight /\ \A m \in DOMAIN step : m # n => step[m] # "appending"
    BY <1>1, <1>8 DEF ViewInv, Others
  <2>2. SharedRight'
    <3>1. \A l, m \in DOMAIN step' :
            step'[l] = step'[m] /\ step'[l] \in {"counting", "appending"} => l = m
      BY <1>3, <2>1 DEF SharedRight
    <3>2. \A m \in DOMAIN step' :
            /\ step'[m] = "counting" => kept'[m] = downloadedCounter'
            /\ step'[m] = "appending" => kept'[m] = imageArray'
      BY <1>1, <1>3, <1>5, <2>1 DEF SharedRight
    <3>3. downloadedCounter' = Cardinality(Counted')
      BY <1>1, <1>4, <2>1 DEF SharedRight
    <3>4. OfBlocks(imageArray, imageUrls, Appended)'
      BY <1>1, <1>3, <1>4, <2>1 DEF SharedRight
    <3> QED
      BY <3>1, <3>2, <3>3, <3>4 DEF SharedRight
  <2>3. \A m \in DOMAIN step : step[m] = "appended" => step'[m] = "appended"
    BY <1>1, <1>3
  <2>4. n \in DOMAIN step' /\ step'[n] \notin {"appended", "done"}
    BY <1>3
  <2>5. ScreenRight'
    BY <1>1, <1>3, <1>4, <2>1, <2>3, <2>4 DEF ScreenRight
  <2> QED
    BY <2>2, <2>5
<1> QED
  BY <1>6, <1>7, <1>8 DEF ViewInv

LEMMA ArrayStored ==
    ASSUME AddInv, ViewInv, NEW n \in DOMAIN step, arrayStored(n)
    PROVE  ViewInv'
<1>1. /\ step[n] = "appending" /\ step' = [step EXCEPT ![n] = "appended"]
      /\ kept' = [kept EXCEPT ![n] = 0]
      /\ imageArray' = Append(kept[n], imageUrls[n])
      /\ UNCHANGED <<downloadedCounter, viewed, main, shown, items, raced>>
  BY DEF arrayStored, At, Keep, blockUnchanged, addVars, itemVars
<1>2. "appended" \in Stages
  BY DEF Stages
<1>3. /\ step' \in Seq(Stages) /\ DOMAIN step' = DOMAIN step /\ Len(step') = Len(step)
      /\ step'[n] = "appended" /\ \A m \in DOMAIN step : m # n => step'[m] = step[m]
      /\ viewed # 0 /\ viewed \in DOMAIN items /\ imageUrls' = imageUrls
      /\ n \in DOMAIN imageUrls
      /\ Counted' = Counted \cup {n} /\ Appended' = Appended \cup {n} /\ Done' = Done \ {n}
  BY <1>1, <1>2, BlockMoves
<1>4. /\ n \notin Appended /\ Counted' = Counted /\ Done' = Done
      /\ Cardinality(Appended') = Cardinality(Appended) + 1
  <2>1. n \notin Appended /\ n \in Counted /\ n \notin Done
    BY <1>1 DEF Counted, Appended, Done
  <2> QED
    BY <1>3, <2>1, SetsOfBlocks, OneMoreBlock
<1>5. /\ DOMAIN kept' = DOMAIN step'
      /\ \A m \in DOMAIN step : m # n => kept'[m] = kept[m]
  BY <1>1, <1>3 DEF ViewInv, ViewTypes
<1>6. kept[n] \in Seq(Links) /\ imageUrls[n] \in Links
  <2>1. imageUrls \in Seq(Links)
    BY <1>3, UrlsDistinct
  <2> QED
    BY <1>1, <1>3, <2>1, EntriesTyped DEF ViewInv, CountsBounded
<1>7. imageArray' \in Seq(Links) /\ imageArray' # << >>
  <2>1. imageArray' \in Seq(Links) /\ Len(imageArray') = Len(kept[n]) + 1 /\ Len(kept[n]) \in Nat
    BY <1>1, <1>6, OneMore
  <2> QED
    BY <2>1, EmptySeq
<1>8. ViewTypes'
  BY <1>1, <1>3, <1>5, <1>7 DEF ViewInv, ViewTypes
<1>9. CountsBounded'
  BY <1>1, <1>3, <1>4, <1>5 DEF ViewInv, CountsBounded
<1>10. ASSUME ~ raced'
       PROVE  SharedRight' /\ ScreenRight'
  <2>1. SharedRight /\ ScreenRight
    BY <1>1, <1>10 DEF ViewInv
  <2>2. kept[n] = imageArray
    BY <1>1, <2>1 DEF SharedRight
  <2>3. SharedRight'
    <3>1. \A l, m \in DOMAIN step' :
            step'[l] = step'[m] /\ step'[l] \in {"counting", "appending"} => l = m
      BY <1>3, <2>1 DEF SharedRight
    <3>2. \A m \in DOMAIN step' :
            /\ step'[m] = "counting" => kept'[m] = downloadedCounter'
            /\ step'[m] # "appending"
      BY <1>1, <1>3, <1>5, <2>1 DEF SharedRight
    <3>3. downloadedCounter' = Cardinality(Counted')
      BY <1>1, <1>4, <2>1 DEF SharedRight
    <3>4. OfBlocks(imageArray, imageUrls, Appended)'
      <4>1. OfBlocks(imageArray, imageUrls, Appended)
        BY <2>1 DEF SharedRight
      <4>2. ToSet(imageArray') = ToSet(imageArray) \cup {imageUrls[n]}
        BY <1>1, <1>6, <2>2, EntriesOneMore
      <4>3. Len(imageArray') = Len(imageArray) + 1
        BY <1>1, <1>6, <2>2, OneMore
      <4>4. {imageUrls[m] : m \in Appended \cup {n}} = {imageUrls[m] : m \in Appended} \cup {imageUrls[n]}
        OBVIOUS
      <4>5. ToSet(imageArray') = {imageUrls[m] : m \in Appended \cup {n}}
        BY <4>1, <4>2, <4>4 DEF OfBlocks
      <4>6. OfBlocks(imageArray', imageUrls, Appended')
        BY <1>3, <1>4, <4>1, <4>3, <4>5 DEF OfBlocks
      <4> QED
        BY <1>3, <4>6
    <3> QED
      BY <3>1, <3>2, <3>3, <3>4 DEF SharedRight
  <2>4. n \in DOMAIN step' /\ step'[n] = "appended"
    BY <1>3
  <2>5. ScreenRight'
    BY <1>1, <1>3, <1>4, <1>7, <2>1, <2>4 DEF ScreenRight
  <2> QED
    BY <2>3, <2>5
<1> QED
  BY <1>8, <1>9, <1>10 DEF ViewInv

\* The counter is compared with the number of links.
LEMMA CounterCompared ==
    ASSUME AddInv, ViewInv, NEW n \in DOMAIN step, counterCompared(n)
    PROVE  ViewInv'
<1>1. /\ step[n] = "appended" /\ step' = [step EXCEPT ![n] = "done"]
      /\ main' = main + IF downloadedCounter = Len(imageUrls) THEN 1 ELSE 0
      /\ UNCHANGED <<downloadedCounter, imageArray, viewed, kept, shown, items, raced>>
  BY DEF counterCompared, At, addVars, itemVars
<1>2. "done" \in Stages
  BY DEF Stages
<1>3. /\ step' \in Seq(Stages) /\ DOMAIN step' = DOMAIN step /\ Len(step') = Len(step)
      /\ step'[n] = "done" /\ \A m \in DOMAIN step : m # n => step'[m] = step[m]
      /\ viewed # 0 /\ imageUrls' = imageUrls /\ Len(step) = Len(imageUrls)
      /\ Counted' = Counted \cup {n} /\ Appended' = Appended \cup {n} /\ Done' = Done \cup {n}
  BY <1>1, <1>2, BlockMoves
<1>4. /\ Counted' = Counted /\ Appended' = Appended
      /\ Cardinality(Done') = Cardinality(Done) + 1 /\ Cardinality(Done) \in Nat
  <2>1. n \in Appended /\ n \in Counted /\ n \notin Done
    BY <1>1 DEF Counted, Appended, Done
  <2> QED
    BY <1>3, <2>1, SetsOfBlocks, OneMoreBlock
<1>5. ViewTypes'
  BY <1>1, <1>3 DEF ViewInv, ViewTypes
<1>6. CountsBounded'
  <2>1. main' \in 0 .. Cardinality(Done')
    BY <1>1, <1>4 DEF ViewInv, CountsBounded
  <2> QED
    BY <1>1, <1>3, <1>4, <2>1 DEF ViewInv, CountsBounded
<1>7. ASSUME ~ raced'
      PROVE  SharedRight' /\ ScreenRight'
  <2>1. SharedRight /\ ScreenRight
    BY <1>1, <1>7 DEF ViewInv
  <2>2. SharedRight'
    <3>1. \A l, m \in DOMAIN step' :
            step'[l] = step'[m] /\ step'[l] \in {"counting", "appending"} => l = m
      BY <1>3, <2>1 DEF SharedRight
    <3>2. \A m \in DOMAIN step' :
            /\ step'[m] = "counting" => kept'[m] = downloadedCounter'
            /\ step'[m] = "appending" => kept'[m] = imageArray'
      BY <1>1, <1>3, <2>1 DEF SharedRight
    <3>3. downloadedCounter' = Cardinality(Counted')
      BY <1>1, <1>4, <2>1 DEF SharedRight
    <3>4. OfBlocks(imageArray, imageUrls, Appended)'
      BY <1>1, <1>3, <1>4, <2>1 DEF SharedRight
    <3> QED
      BY <3>1, <3>2, <3>3, <3>4 DEF SharedRight
  <2>3. downloadedCounter = Len(imageUrls) <=> Counted = DOMAIN step
    BY <1>3, <2>1, SetsOfBlocks, BlocksFinite DEF SharedRight, ViewInv, ViewTypes
  <2>4. main \in Nat
    BY DEF ViewInv, CountsBounded
  <2>5. /\ Counted' # DOMAIN step' => main' = 0 /\ shown' = << >>
        /\ Counted' = DOMAIN step' => main' > 0
    <3>0. Counted' = Counted /\ DOMAIN step' = DOMAIN step /\ shown' = shown
      BY <1>1, <1>3, <1>4
    <3>1. CASE Counted = DOMAIN step
      <4>1. main' = main + 1
        BY <1>1, <2>3, <3>1
      <4> QED
        BY <2>4, <3>0, <3>1, <4>1
    <3>2. CASE Counted # DOMAIN step
      <4>1. main' = main + 0
        BY <1>1, <2>3, <3>2
      <4>2. main = 0 /\ shown = << >>
        BY <2>1, <3>2 DEF ScreenRight
      <4> QED
        BY <3>0, <3>2, <4>1, <4>2
    <3> QED
      BY <3>1, <3>2
  <2>6. imageArray' = << >> => shown' = << >>
    BY <1>1, <2>1 DEF ScreenRight
  <2>7. ScreenRight'
    BY <2>5, <2>6 DEF ScreenRight
  <2> QED
    BY <2>2, <2>7
<1> QED
  BY <1>5, <1>6, <1>7 DEF ViewInv

\* The item screen takes the array.
LEMMA ScreenTakes ==
    ASSUME AddInv, ViewInv, completion
    PROVE  ViewInv'
<1>1. /\ main > 0 /\ main' = main - 1
      /\ shown' = IF imageArray = << >> THEN shown ELSE imageArray
      /\ raced' = (raced \/ \E n \in DOMAIN step : step[n] = "appending")
      /\ UNCHANGED <<downloadedCounter, imageArray, viewed, step, kept, items>>
  BY DEF completion, Raced, addVars, itemVars, blockVars
<1>2. Counted' = Counted /\ Appended' = Appended /\ Done' = Done /\ imageUrls' = imageUrls
  BY <1>1 DEF Counted, Appended, Done, imageUrls
<1>3. /\ main \in 0 .. Cardinality(Done) /\ Cardinality(Done) \in Nat
      /\ downloadedCounter \in 0 .. Cardinality(Counted)
  BY SetsOfBlocks, BlocksFinite DEF ViewInv, ViewTypes, CountsBounded
<1>4. viewed # 0
  BY <1>1 DEF ViewInv, ViewTypes
<1>5. ViewTypes'
  BY <1>1, <1>2, <1>4 DEF ViewInv, ViewTypes
<1>6. CountsBounded'
  <2>1. main' \in 0 .. Cardinality(Done')
    BY <1>1, <1>2, <1>3
  <2> QED
    BY <1>1, <1>2, <2>1 DEF ViewInv, CountsBounded
<1>7. ASSUME ~ raced'
      PROVE  SharedRight' /\ ScreenRight'
  <2>1. SharedRight /\ ScreenRight
    BY <1>1, <1>7 DEF ViewInv
  <2>2. SharedRight'
    <3>1. OfBlocks(imageArray, imageUrls, Appended)'
      BY <1>1, <1>2, <2>1 DEF SharedRight
    <3> QED
      BY <1>1, <1>2, <2>1, <3>1 DEF SharedRight
  <2>3. Counted = DOMAIN step
    BY <1>1, <2>1 DEF ScreenRight
  <2>4. shown' = imageArray
    BY <1>1, <2>1 DEF ScreenRight
  <2> QED
    BY <1>1, <1>2, <2>2, <2>3, <2>4 DEF ScreenRight
<1> QED
  BY <1>5, <1>6, <1>7 DEF ViewInv

\* The screen is opened on an item, or on none: the process has ended.
LEMMA ScreenOpens ==
    ASSUME AddInv', viewed' \in 0 .. Len(items'),
           step' \in Seq({"queued"}), DOMAIN kept' = DOMAIN step',
           viewed' # 0 => Len(step') = Len(imageUrls'),
           viewed' = 0 => step' = << >>,
           downloadedCounter' = 0, imageArray' = << >>, main' = 0, shown' = << >>,
           raced' \in BOOLEAN
    PROVE  ViewInv'
<1>1. \A n \in DOMAIN step' : step'[n] = "queued"
  OBVIOUS
<1>2. step' \in Seq(Stages)
  BY DEF Stages
<1>3. Counted' = {} /\ Appended' = {} /\ Done' = {}
  BY <1>1 DEF Counted, Appended, Done
<1>4. Cardinality(Counted') = 0 /\ Cardinality(Appended') = 0 /\ Cardinality(Done') = 0
  BY <1>3, FS_EmptySet
<1>5. << >> \in Seq(Links) /\ Len(<< >>) = 0 /\ ToSet(<< >>) = {}
  BY DEF ToSet
<1>6. ViewTypes'
  BY <1>2, <1>5 DEF ViewTypes
<1>7. CountsBounded'
  BY <1>1, <1>4 DEF CountsBounded
<1>8. OfBlocks(imageArray', imageUrls', Appended')
  BY <1>3, <1>4, <1>5 DEF OfBlocks
<1>9. SharedRight'
  BY <1>1, <1>4, <1>8 DEF SharedRight
<1>10. ScreenRight'
  BY DEF ScreenRight
<1> QED
  BY <1>6, <1>7, <1>9, <1>10 DEF ViewInv

LEMMA ViewOpened ==
    ASSUME AddInv, AddInv', ViewInv, NEW k \in DOMAIN items, downloadItemPictures(k)
    PROVE  ViewInv'
<1>1. /\ viewed = 0 /\ viewed' = k /\ items' = items
      /\ step' = [n \in DOMAIN items[k].links |-> "queued"]
      /\ kept' = [n \in DOMAIN items[k].links |-> 0]
      /\ UNCHANGED <<downloadedCounter, imageArray, main, shown, raced>>
  BY DEF downloadItemPictures, addVars, itemVars
<1>2. items \in Seq(SavedItems) /\ k \in 1 .. Len(items)
  BY DEF AddInv, AddTypes
<1>3. items[k].links \in Seq(Links)
  <2>1. items[k] \in SavedItems
    BY <1>2, EntriesTyped
  <2> QED
    BY <2>1 DEF SavedItems
<1>4. /\ Len(items[k].links) \in Nat /\ DOMAIN items[k].links = 1 .. Len(items[k].links)
  BY <1>3
<1>5. /\ step' \in Seq({"queued"}) /\ DOMAIN kept' = DOMAIN step'
      /\ Len(step') = Len(items[k].links)
  <2> DEFINE l == Len(items[k].links)
             queued == [n \in 1 .. l |-> "queued"]
  <2>1. l \in Nat /\ step' = queued /\ kept' = [n \in 1 .. l |-> 0]
    BY <1>1, <1>4
  <2> HIDE DEF l
  <2>2. queued \in Seq({"queued"}) /\ Len(queued) = l /\ DOMAIN queued = 1 .. l
    BY <2>1
  <2> QED
    BY <2>1, <2>2 DEF l
<1>6. imageUrls' = items[k].links
  BY <1>1 DEF imageUrls
<1>7. /\ imageArray' = << >> /\ shown' = << >> /\ downloadedCounter' = 0 /\ main' = 0
      /\ raced' \in BOOLEAN
  BY <1>1 DEF ViewInv, ViewTypes
<1>8. viewed' \in 0 .. Len(items') /\ viewed' # 0
  BY <1>1, <1>2
<1> QED
  BY <1>5, <1>6, <1>7, <1>8, ScreenOpens

LEMMA ViewEnds ==
    ASSUME AddInv', ViewInv, Terminate
    PROVE  ViewInv'
<1>1. items' \in Seq(SavedItems)
  BY DEF AddInv, AddTypes
<1>2. viewed' \in 0 .. Len(items')
  BY <1>1 DEF Terminate
<1>3. << >> \in Seq({"queued"}) /\ DOMAIN << >> = {}
  OBVIOUS
<1> QED
  BY <1>2, <1>3, ScreenOpens DEF Terminate

\* The form may go on making items.
LEMMA ViewKept ==
    ASSUME AddInv, AddInv', ViewInv, UNCHANGED viewVars,
           \/ items' = items
           \/ \E item : items' = Append(items, item)
    PROVE  ViewInv'
<1>1. items \in Seq(SavedItems) /\ items' \in Seq(SavedItems)
  BY DEF AddInv, AddTypes
<1>2. Len(items) \in Nat /\ Len(items') \in Nat /\ Len(items) <= Len(items')
      /\ \A k \in DOMAIN items : items'[k] = items[k]
  BY <1>1
<1>3. UNCHANGED <<viewed, step, kept, downloadedCounter, imageArray, main, shown, raced>>
  BY DEF viewVars, blockVars
<1>4. Counted' = Counted /\ Appended' = Appended /\ Done' = Done
  BY <1>3 DEF Counted, Appended, Done
<1>5. viewed # 0 => imageUrls' = imageUrls
  <2>1. viewed # 0 => viewed \in DOMAIN items
    BY <1>1 DEF ViewInv, ViewTypes
  <2> QED
    BY <1>2, <1>3, <2>1 DEF imageUrls
<1>6. ViewTypes'
  BY <1>2, <1>3, <1>5 DEF ViewInv, ViewTypes
<1>7. CountsBounded'
  BY <1>3, <1>4 DEF ViewInv, CountsBounded
<1>8. ASSUME ~ raced'
      PROVE  SharedRight' /\ ScreenRight'
  <2>1. SharedRight /\ ScreenRight
    BY <1>3, <1>8 DEF ViewInv
  <2>2. OfBlocks(imageArray, imageUrls', Appended)
    <3>1. CASE viewed # 0
      BY <1>5, <2>1, <3>1 DEF SharedRight
    <3>2. CASE viewed = 0
      <4>1. Appended = {}
        BY <3>2 DEF ViewInv, ViewTypes, Appended
      <4> QED
        BY <2>1, <4>1 DEF SharedRight, OfBlocks
    <3> QED
      BY <3>1, <3>2
  <2>3. SharedRight'
    BY <1>3, <1>4, <2>1, <2>2 DEF SharedRight
  <2>4. ScreenRight'
    BY <1>3, <1>4, <2>1 DEF ScreenRight
  <2> QED
    BY <2>3, <2>4
<1> QED
  BY <1>6, <1>7, <1>8 DEF ViewInv

LEMMA ItemsGrow ==
    ASSUME UserFillsForm \/ AddSteps
    PROVE  items' = items \/ \E item : items' = Append(items, item)
<1>1. CASE UserFillsForm
  BY <1>1 DEF UserFillsForm, openForm, back, cameraButtonWasTapped, galleryControllerDidCancel,
     orphanDismissed, didSelectImages, doneButtonWasTapped, Saved, itemVars
<1>2. CASE AddSteps
  <2>1. ASSUME NEW s, NEW n, imageLink(s, n)
        PROVE  items' = items \/ \E item : items' = Append(items, item)
    BY <2>1 DEF imageLink, completionIfAll, Saved, itemVars
  <2> QED
    BY <1>2, <2>1 DEF AddSteps, StorageAnswers, imagesResolved, putDataSucceeds, uploadFails,
       algoliaAnswers, itemVars
<1> QED
  BY <1>1, <1>2

LEMMA ViewInvInit == Init => ViewInv
<1> SUFFICES ASSUME Init
             PROVE  ViewInv
  OBVIOUS
<1>1. /\ viewed = 0 /\ step = << >> /\ kept = << >> /\ downloadedCounter = 0
      /\ imageArray = << >> /\ main = 0 /\ shown = << >> /\ raced = FALSE /\ items = << >>
  BY DEF Init, AddInit
<1>2. Counted = {} /\ Appended = {} /\ Done = {}
  BY <1>1 DEF Counted, Appended, Done
<1>3. Cardinality(Counted) = 0 /\ Cardinality(Appended) = 0 /\ Cardinality(Done) = 0
  BY <1>2, FS_EmptySet
<1>4. << >> \in Seq(Links) /\ Len(<< >>) = 0 /\ ToSet(<< >>) = {} /\ << >> \in Seq(Stages)
  BY DEF ToSet
<1>5. ViewTypes
  <2>1. viewed \in 0 .. Len(items)
    BY <1>1, <1>4
  <2>2. raced \in BOOLEAN /\ DOMAIN kept = DOMAIN step
    BY <1>1
  <2> QED
    BY <1>1, <1>4, <2>1, <2>2 DEF ViewTypes
<1>6. CountsBounded
  <2>1. downloadedCounter \in 0 .. Cardinality(Counted) /\ main \in 0 .. Cardinality(Done)
    BY <1>1, <1>3
  <2>2. DOMAIN step = {}
    BY <1>1
  <2> QED
    BY <2>1, <2>2 DEF CountsBounded
<1>7. OfBlocks(imageArray, imageUrls, Appended)
  BY <1>1, <1>2, <1>3, <1>4 DEF OfBlocks
<1>8. SharedRight /\ ScreenRight
  BY <1>1, <1>3, <1>7 DEF SharedRight, ScreenRight
<1> QED
  BY <1>5, <1>6, <1>8 DEF ViewInv

LEMMA ViewInvStep == ASSUME AddInv, ViewInv, [Next]_vars PROVE ViewInv'
<1>1. AddInv'
  BY AddInvStep
<1>2. CASE (UserFillsForm \/ AddSteps) /\ UNCHANGED viewVars
  BY <1>1, <1>2, ItemsGrow, ViewKept
<1>3. CASE \E k \in DOMAIN items : downloadItemPictures(k)
  BY <1>1, <1>3, ViewOpened
<1>4. CASE \E n \in DOMAIN step : BlockRuns(n)
  BY <1>4, CounterLoaded, CounterStored, BlockFetched, ArrayLoaded, ArrayStored,
     CounterCompared DEF BlockRuns
<1>5. CASE completion
  BY <1>5, ScreenTakes
<1>6. CASE Terminate
  BY <1>1, <1>6, ViewEnds
<1>7. CASE UNCHANGED vars
  BY <1>1, <1>7, ViewKept DEF vars, addVars, itemVars
<1> QED
  BY <1>2, <1>3, <1>4, <1>5, <1>6, <1>7 DEF Next

LEMMA PicturesInvAlways == Spec => []PicturesInv
<1>1. Init => PicturesInv
  BY AddInvInit, ViewInvInit DEF Init, PicturesInv
<1>2. PicturesInv /\ [Next]_vars => PicturesInv'
  BY AddInvStep, ViewInvStep DEF PicturesInv
<1> QED
  BY <1>1, <1>2, PTL DEF Spec

--------------------------------------------------------------------------------
(* What the invariant says.                                                *)

\* Every upload makes one item at most.
LEMMA FewerItems == AddInv => Len(items) <= Len(upload) /\ Len(items) \in Nat
<1> SUFFICES ASSUME AddInv
             PROVE  Len(items) <= Len(upload) /\ Len(items) \in Nat
  OBVIOUS
<1> DEFINE press == [k \in DOMAIN items |-> items[k].press]
<1>1. /\ DOMAIN items = 1 .. Len(items) /\ Len(items) \in Nat
      /\ DOMAIN upload = 1 .. Len(upload) /\ Len(upload) \in Nat
  BY DEF AddInv, AddTypes
<1>2. \A k \in DOMAIN items : items[k].press \in DOMAIN upload
  BY DEF AddInv, ItemRight
<1>3. press \in [DOMAIN items -> DOMAIN upload]
  BY <1>2
<1>4. \A j, k \in DOMAIN items : press[j] = press[k] => j = k
  BY DEF AddInv
<1> HIDE DEF press
<1>5. press \in Injection(DOMAIN items, DOMAIN upload)
  BY <1>3, <1>4 DEF Injection, IsInjective
<1>6. /\ IsFiniteSet(DOMAIN upload) /\ Cardinality(DOMAIN upload) = Len(upload)
      /\ Cardinality(DOMAIN items) = Len(items)
  BY <1>1, CountedInterval
<1>7. Cardinality(DOMAIN items) <= Cardinality(DOMAIN upload)
  BY <1>5, <1>6, FS_Injection
<1> QED
  BY <1>1, <1>6, <1>7

\* The variables of the form, the uploads and the item screen keep to their types.
THEOREM PicturesTyped == Spec => []TypeOK
<1>1. PicturesInv => TypeOK
  <2> SUFFICES ASSUME AddInv, ViewInv
               PROVE  TypeOK
    BY DEF PicturesInv
  <2>1. form \in {"closed", "up", "gallery", "orphaned"} /\ visit \in 0 .. MaxVisits
    BY DEF AddInv, AddTypes
  <2>2. ASSUME NEW s \in DOMAIN upload
        PROVE  /\ upload[s].visit \in 1 .. MaxVisits
               /\ upload[s].count \in 0 .. Len(upload[s].images)
               /\ DOMAIN upload[s].phase = DOMAIN upload[s].images
    <3> DEFINE phase == upload[s].phase
               images == upload[s].images
    <3>1. /\ upload[s].visit \in 1 .. MaxVisits
          /\ phase \in Seq(Phases) /\ images \in Seq(Pictures)
      BY <2>2, UploadTyped DEF AddInv
    <3>2. /\ Len(phase) = Len(images)
          /\ upload[s].count = Cardinality(Linked(phase))
      BY <2>2 DEF AddInv, LinksCounted, LinksOK, OneEach
    <3> HIDE DEF phase, images
    <3>3. /\ DOMAIN phase = 1 .. Len(phase) /\ Len(phase) \in Nat
          /\ DOMAIN images = 1 .. Len(images)
      BY <3>1
    <3>4. IsFiniteSet(DOMAIN phase) /\ Cardinality(DOMAIN phase) = Len(phase)
      BY <3>3, CountedInterval
    <3>5. Linked(phase) \in SUBSET DOMAIN phase
      BY DEF Linked
    <3>6. Cardinality(Linked(phase)) \in 0 .. Len(phase)
      BY <3>3, <3>4, <3>5, FS_Subset, FS_CardinalityType
    <3> QED
      BY <3>1, <3>2, <3>3, <3>6 DEF phase, images
  <2>3. \A k \in DOMAIN items : items[k].press \in DOMAIN upload
    BY DEF AddInv, ItemRight
  <2>4. \A e \in index \cup indexing : e.id \in 1 .. Len(upload)
    <3>1. \A e \in index \cup indexing : e.id \in 1 .. Len(items)
      BY DEF AddInv
    <3>2. Len(upload) \in Nat
      BY DEF AddInv, AddTypes
    <3> QED
      BY <3>1, <3>2, FewerItems
  <2>5. viewed \in 0 .. Len(items) /\ raced \in BOOLEAN
    BY DEF ViewInv, ViewTypes
  <2>6. downloadedCounter \in 0 .. Len(step) /\ main \in 0 .. Len(step)
    <3>1. /\ Cardinality(Counted) \in 0 .. Len(step) /\ Cardinality(Done) \in 0 .. Len(step)
          /\ Len(step) \in Nat
      BY SetsOfBlocks, BlocksFinite DEF ViewInv, ViewTypes
    <3>2. downloadedCounter \in 0 .. Cardinality(Counted) /\ main \in 0 .. Cardinality(Done)
      BY DEF ViewInv, CountsBounded
    <3> QED
      BY <3>1, <3>2
  <2> QED
    BY <2>1, <2>2, <2>3, <2>4, <2>5, <2>6 DEF TypeOK
<1> QED
  BY <1>1, PicturesInvAlways, PTL

\* As many links are read as there are blocks.
LEMMA ReadOnce ==
    ASSUME AddInv, viewed \in DOMAIN items, NEW blocks \in SUBSET DOMAIN imageUrls
    PROVE  Cardinality({imageUrls[n] : n \in blocks}) = Cardinality(blocks)
<1> DEFINE urls == imageUrls
           read == {urls[n] : n \in blocks}
           url == [n \in blocks |-> urls[n]]
<1>1. /\ DOMAIN urls = 1 .. Len(urls) /\ Len(urls) \in Nat
      /\ \A m, n \in blocks : urls[m] = urls[n] => m = n
  BY UrlsDistinct
<1> HIDE DEF urls
<1>2. IsFiniteSet(blocks)
  <2>1. IsFiniteSet(DOMAIN urls)
    BY <1>1, CountedInterval
  <2>2. blocks \in SUBSET DOMAIN urls
    BY DEF urls
  <2> QED
    BY <2>1, <2>2, FS_Subset
<1>3. url \in Injection(blocks, read)
  <2>1. url \in [blocks -> read]
    OBVIOUS
  <2>2. \A m, n \in blocks : url[m] = url[n] => m = n
    BY <1>1
  <2> QED
    BY <2>1, <2>2 DEF Injection, IsInjective
<1>4. url \in Surjection(blocks, read)
  BY DEF Surjection
<1>5. url \in Bijection(blocks, read)
  BY <1>3, <1>4 DEF Bijection
<1> HIDE DEF read, url
<1>6. Cardinality(blocks) = Cardinality(read)
  BY <1>2, <1>5, FS_Bijection DEF ExistsBijection
<1> QED
  BY <1>6 DEF read, urls

\* From the gallery to Storage, to the item and back (AddItemViewController,
\* uploadImages, downloadImages): when the blocks have run and no two of them met, the
\* item screen has every picture that was read, once, or none and a link failed; if none
\* failed they are the pictures chosen on the form last.
THEOREM PicturesShown == Spec => []ShownAsChosen
<1>1. PicturesInv => ShownAsChosen
  <2> DEFINE done == {m \in DOMAIN step : step[m] = "done"}
             read == {imageUrls[n] : n \in done}
             s == items[viewed].press
             failed == \E n \in DOMAIN step : step[n] = "failed"
  <2> SUFFICES ASSUME AddInv, ViewInv, Quiet, ~ raced
               PROVE  \/ shown = << >> /\ failed
                      \/ /\ ToSet(shown) = read /\ Len(shown) = Cardinality(read)
                         /\ \/ failed
                            \/ upload[s].wanted = Unsure
                            \/ {upload[link[1]].images[link[2]] : link \in read}
                                 = ToSet(upload[s].wanted)
    BY DEF PicturesInv, ShownAsChosen
  <2>1. /\ viewed # 0 /\ main = 0 /\ \A n \in DOMAIN step : step[n] \in {"done", "failed"}
      BY DEF Quiet
  <2>2. /\ viewed \in DOMAIN items /\ step \in Seq(Stages) /\ Len(step) = Len(imageUrls)
    BY <2>1 DEF ViewInv, ViewTypes, AddInv, AddTypes
  <2>3. SharedRight /\ ScreenRight
    BY DEF ViewInv
  <2>4. DOMAIN step = DOMAIN imageUrls /\ imageUrls \in Seq(Links)
    <3>1. imageUrls \in Seq(Links)
      BY <2>2, UrlsDistinct
    <3> QED
      BY <2>2, <3>1
  <2>5. Counted = DOMAIN step /\ Appended = done
    BY <2>1 DEF Counted, Appended
  <2>6. shown = imageArray \/ (shown = << >> /\ failed)
    BY <2>1, <2>3, <2>5 DEF ScreenRight
  <2>7. OfBlocks(imageArray, imageUrls, done)
    BY <2>3, <2>5 DEF SharedRight
  <2>8. Cardinality(read) = Cardinality(done)
    BY <2>2, <2>4, ReadOnce
  <2>9. ToSet(imageArray) = read /\ Len(imageArray) = Cardinality(read)
    BY <2>7, <2>8 DEF OfBlocks
  <2>10. ASSUME ~ failed, upload[s].wanted # Unsure
         PROVE  {upload[link[1]].images[link[2]] : link \in read} = ToSet(upload[s].wanted)
    <3>1. done = DOMAIN imageUrls
      BY <2>1, <2>4, <2>10
    <3>2. ToSet(imageUrls) = {<<s, n>> : n \in DOMAIN upload[s].images}
      BY <2>2, AllLinked DEF LinksWhole, imageUrls
    <3>3. read = {<<s, n>> : n \in DOMAIN upload[s].images}
      BY <3>1, <3>2 DEF ToSet
    <3>4. upload[s].images = upload[s].wanted
      <4>1. s \in DOMAIN upload
        BY <2>2 DEF AddInv, ItemRight
      <4> QED
        BY <2>10, <4>1 DEF AddInv, LinksCounted, LinksOK
    <3> HIDE DEF read, s
    <3>5. \A n : <<s, n>>[1] = s /\ <<s, n>>[2] = n
      OBVIOUS
    <3>6. {upload[link[1]].images[link[2]] : link \in read}
            = {upload[s].images[n] : n \in DOMAIN upload[s].images}
      <4> DEFINE picture(link) == upload[link[1]].images[link[2]]
      <4>1. \A n : picture(<<s, n>>) = upload[s].images[n]
        BY <3>5
      <4> HIDE DEF picture
      <4>2. {picture(link) : link \in read} = {upload[s].images[n] : n \in DOMAIN upload[s].images}
        BY <3>3, <4>1
      <4> QED
        BY <4>2 DEF picture
    <3>7. ToSet(upload[s].images) = {upload[s].images[n] : n \in DOMAIN upload[s].images}
      BY DEF ToSet
    <3> QED
      BY <3>4, <3>6, <3>7
  <2> QED
    BY <2>6, <2>9, <2>10
<1> QED
  BY <1>1, PicturesInvAlways, PTL

================================================================================
