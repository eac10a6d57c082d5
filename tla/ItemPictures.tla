------------------------------ MODULE ItemPictures -----------------------------
(***************************************************************************)
(* The pictures of an item from the form to the item screen: AddItem, and  *)
(* downloadImages of Downloader.swift as ItemViewController calls it.      *)
(*                                                                         *)
(* downloadImages makes a dispatch queue per link, so the blocks run at    *)
(* the same time; they share a counter and an array without a lock.  An    *)
(* increment is a load and a store, and so is an append.  What two         *)
(* accesses at once may do is undefined; here they lose one of the two, or *)
(* end the process.                                                        *)
(***************************************************************************)
EXTENDS AddItem

VARIABLES
    viewed,             \* the item on the screen, or 0
    step,               \* step[n]: how far the block of link n has got
    kept,               \* kept[n]: what it has loaded and not stored
    downloadedCounter,
    imageArray,         \* links whose pictures were appended
    main,               \* completion blocks on the main queue
    shown,              \* itemImages of the item screen
    raced               \* history: two accesses met

blockVars == <<step, kept, downloadedCounter, imageArray>>
viewVars == <<viewed, blockVars, main, shown, raced>>
vars == <<addVars, viewVars>>

imageUrls == items[viewed].links

Init ==
    /\ AddInit
    /\ viewed = 0
    /\ step = << >>
    /\ kept = << >>
    /\ downloadedCounter = 0
    /\ imageArray = << >>
    /\ main = 0
    /\ shown = << >>
    /\ raced = FALSE

--------------------------------------------------------------------------------
(* downloadImages                                                          *)

\* The item screen opens, as soon as the item is in the list.
downloadItemPictures(k) ==
    /\ viewed = 0
    /\ form = "closed"
    /\ viewed' = k
    /\ step' = [n \in DOMAIN items[k].links |-> "queued"]
    /\ kept' = [n \in DOMAIN items[k].links |-> 0]
    /\ UNCHANGED <<addVars, downloadedCounter, imageArray, main, shown, raced>>

At(n, from, to) == step[n] = from /\ step' = [step EXCEPT ![n] = to]

Keep(n, value) == kept' = [kept EXCEPT ![n] = value]

Others(n, at) == \E m \in DOMAIN step \ {n} : step[m] = at

Raced(now) == raced' = (raced \/ now)

blockUnchanged == UNCHANGED <<addVars, viewed, main, shown>>

counterLoaded(n) ==
    /\ At(n, "queued", "counting")
    /\ Keep(n, downloadedCounter)
    /\ Raced(Others(n, "counting"))
    /\ UNCHANGED <<downloadedCounter, imageArray>>
    /\ blockUnchanged

counterStored(n) ==
    /\ At(n, "counting", "counted")
    /\ downloadedCounter' = kept[n] + 1
    /\ Keep(n, 0)
    /\ UNCHANGED <<imageArray, raced>>
    /\ blockUnchanged

contentsOf(n) ==
    /\ At(n, "counted", "fetched")
    /\ UNCHANGED <<kept, downloadedCounter, imageArray, raced>>
    /\ blockUnchanged

\* Logged, and no more.
contentsFail(n) ==
    /\ At(n, "counted", "failed")
    /\ UNCHANGED <<kept, downloadedCounter, imageArray, raced>>
    /\ blockUnchanged

arrayLoaded(n) ==
    /\ At(n, "fetched", "appending")
    /\ Keep(n, imageArray)
    /\ Raced(Others(n, "appending"))
    /\ UNCHANGED <<downloadedCounter, imageArray>>
    /\ blockUnchanged

arrayStored(n) ==
    /\ At(n, "appending", "appended")
    /\ imageArray' = Append(kept[n], imageUrls[n])
    /\ Keep(n, 0)
    /\ UNCHANGED <<downloadedCounter, raced>>
    /\ blockUnchanged

\* The last to ask finds every link counted; so may others.
counterCompared(n) ==
    /\ At(n, "appended", "done")
    /\ main' = main + IF downloadedCounter = Len(imageUrls) THEN 1 ELSE 0
    /\ UNCHANGED <<addVars, viewed, kept, downloadedCounter, imageArray, shown, raced>>

\* On the main queue: the block reads the array when it runs.
completion ==
    /\ main > 0
    /\ main' = main - 1
    /\ shown' = IF imageArray = << >> THEN shown ELSE imageArray
    /\ Raced(\E n \in DOMAIN step : step[n] = "appending")
    /\ UNCHANGED <<addVars, viewed, blockVars>>

--------------------------------------------------------------------------------

\* The process ends: the user ends it, or the array is used by two threads at once.
Terminate ==
    /\ AddTerminate
    /\ viewed' = 0
    /\ step' = << >>
    /\ kept' = << >>
    /\ downloadedCounter' = 0
    /\ imageArray' = << >>
    /\ main' = 0
    /\ shown' = << >>
    /\ raced' = FALSE

BlockRuns(n) ==
    \/ counterLoaded(n) \/ counterStored(n)
    \/ contentsOf(n) \/ contentsFail(n)
    \/ arrayLoaded(n) \/ arrayStored(n)
    \/ counterCompared(n)

Next ==
    \/ UserFillsForm /\ UNCHANGED viewVars
    \/ AddSteps /\ UNCHANGED viewVars
    \/ \E k \in DOMAIN items : downloadItemPictures(k)
    \/ \E n \in DOMAIN step : BlockRuns(n)
    \/ completion
    \/ Terminate

Spec == Init /\ [][Next]_vars

--------------------------------------------------------------------------------
(* Properties                                                              *)

\* The values the state is made of.
TypeOK ==
    /\ form \in {"closed", "up", "gallery", "orphaned"}
    /\ visit \in 0 .. MaxVisits
    /\ raced \in BOOLEAN
    /\ \A s \in DOMAIN upload :
        /\ upload[s].visit \in 1 .. MaxVisits
        /\ upload[s].count \in 0 .. Len(upload[s].images)
        /\ DOMAIN upload[s].phase = DOMAIN upload[s].images
    /\ \A k \in DOMAIN items : items[k].press \in DOMAIN upload
    /\ \A e \in index \cup indexing : e.id \in 1 .. Len(upload)
    /\ viewed \in 0 .. Len(items)
    /\ downloadedCounter \in 0 .. Len(step)
    /\ main \in 0 .. Len(step)

\* A saved item has one link for each of its pictures: uploadImages calls its block
\* when the links are complete, although pictures are uploaded side by side and some
\* fail.
LinksWhole ==
    \A k \in DOMAIN items :
        LET s == items[k].press IN
            /\ Len(items[k].links) = Len(upload[s].images)
            /\ ToSet(items[k].links) = {<<s, n>> : n \in DOMAIN upload[s].images}

\* The same form makes two items only if its button was pressed while an upload of
\* its own was under way (doneButtonWasTapped disables nothing): not after an upload
\* that failed, and not after the item was saved.  One press makes one item.
OneItemPerVisit ==
    \A j, k \in DOMAIN items : j # k =>
        LET s == items[j].press
            t == items[k].press
        IN  /\ s # t
            /\ upload[s].visit = upload[t].visit => upload[s].again \/ upload[t].again

\* When Storage has answered all there was to answer, a press of the button has made
\* its item, unless there was no connection, a picture could not be uploaded, or the
\* process ended: no upload is forgotten, in whatever order the answers came.
PressAccounted ==
    \A s \in DOMAIN upload :
        (\E k \in DOMAIN items : items[k].press = s) <=> ~ UnderWay(s) /\ ~ Failed(s)

Quiet ==
    /\ viewed # 0 /\ main = 0
    /\ \A n \in DOMAIN step : step[n] \in {"done", "failed"}

\* When the blocks have run and no two met at the counter or the array, the item
\* screen shows every picture that was read, once each, or none at all, and that only
\* if a link failed (downloadImages counts a link before it is read).  If none failed,
\* they are the pictures that were chosen on the form last, unless one of those was not
\* resolved, or the button was pressed before it was: from gallery to Storage to item
\* and back, whatever the order of the answers.
ShownAsChosen ==
    Quiet /\ ~ raced =>
        LET read == {imageUrls[n] : n \in {m \in DOMAIN step : step[m] = "done"}}
            wanted == upload[items[viewed].press].wanted
        IN  \/ shown = << >> /\ \E n \in DOMAIN step : step[n] = "failed"
            \/ /\ ToSet(shown) = read /\ Len(shown) = Cardinality(read)
               /\ \/ \E n \in DOMAIN step : step[n] = "failed"
                  \/ wanted = Unsure
                  \/ {upload[link[1]].images[link[2]] : link \in read} = ToSet(wanted)

================================================================================
