-------------------------------- MODULE Search --------------------------------
(***************************************************************************)
(* The search screen: the Algolia query in front of the download of items  *)
(* (ItemFetch), the spinner over the screen, and the table's reusable      *)
(* cells, each of which downloads the first picture of the item it is      *)
(* given.  A search and the download it leads to have the same name, and   *)
(* an item is the pair of the search and its position among the hits.      *)
(***************************************************************************)
EXTENDS ItemFetch, Functions, SequencesExt

CONSTANTS
    Cells,    \* the cells of the table, visible or waiting to be used again
    Bare,     \* positions of the items that have no picture
    NoPicture

VARIABLES
    searches,   \* the searches made so far
    last,       \* the last of them, or NoCall
    querying,   \* those Algolia has not answered
    spinner,    \* IndicatorManager.show
    overtaken,  \* history: a search was made before another was fully answered
    item,       \* item[k]: what cell k was given last, or NoPicture
    picture,    \* picture[k]: the item whose picture is in cell k, or NoPicture
    loads,      \* loads[k]: the items whose picture is on its way to cell k
    spoiled     \* history: spoiled[k], the picture of another item was on its way when
                \*   k got its item, or the item's own did not come

searchVars == <<searches, last, querying, spinner, overtaken>>
cellVars == <<item, picture, loads, spoiled>>

SearchAssumption == NoPicture \notin Calls \X (1 .. MaxIds)
ASSUME SearchAssumption

SearchInit ==
    /\ Init
    /\ searches = {}
    /\ last = NoCall
    /\ querying = {}
    /\ spinner = FALSE
    /\ overtaken = FALSE
    /\ item = [k \in Cells |-> NoPicture]
    /\ picture = [k \in Cells |-> NoPicture]
    /\ loads = [k \in Cells |-> << >>]
    /\ spoiled = [k \in Cells |-> FALSE]

UnderWay == querying # {} \/ \E c \in made : waiting[c] # {}

--------------------------------------------------------------------------------
(* ItemTableViewCell.swift                                                 *)

Given(given, asked) ==
    /\ item' = [k \in Cells |-> IF k \in DOMAIN given THEN given[k] ELSE item[k]]
    /\ loads' = [k \in Cells |->
                    IF k \in asked THEN Append(loads[k], given[k]) ELSE loads[k]]
    /\ spoiled' = [k \in Cells |->
                    IF k \in DOMAIN given
                    THEN \E n \in DOMAIN loads[k] : loads[k][n] # given[k]
                    ELSE spoiled[k]]
    /\ UNCHANGED picture

HasLinks(i) == i[2] \notin Bare

\* Variant: a cell that has a picture does not download one.
didSetIfEmpty(given) ==
    Given(given, {k \in DOMAIN given : HasLinks(given[k]) /\ picture[k] = NoPicture})

\* A cell that gets an item keeps the picture it has until the item's own comes; an
\* item without links leaves it there for good.
didSet(given) == Given(given, {k \in DOMAIN given : HasLinks(given[k])})

\* reloadData: the rows there is room for take any cells that are free.
reloadData(c, list) ==
    \E cellOf \in Injection({n \in DOMAIN list : n <= Cardinality(Cells)}, Cells) :
        didSet([k \in Range(cellOf) |-> <<c, list[AntiFunction(cellOf)[k]]>>])

imageArrives(k, n) ==
    /\ picture' = [picture EXCEPT ![k] = loads[k][n]]
    /\ loads' = [loads EXCEPT ![k] = RemoveAt(@, n)]
    /\ UNCHANGED <<vars, searchVars, item, spoiled>>

imageFails(k, n) ==
    /\ loads' = [loads EXCEPT ![k] = RemoveAt(@, n)]
    /\ spoiled' = [spoiled EXCEPT ![k] = @ \/ loads[k][n] = item[k]]
    /\ UNCHANGED <<vars, searchVars, item, picture>>

--------------------------------------------------------------------------------
(* SearchViewController.swift, searchAlgolia.                              *)

\* The spinner does not keep anybody from searching again.
searchInFirebase(c) ==
    /\ c \notin searches
    /\ searches' = searches \cup {c}
    /\ last' = c
    /\ querying' = querying \cup {c}
    /\ spinner' = TRUE
    /\ overtaken' = (overtaken \/ UnderWay)
    /\ UNCHANGED <<vars, cellVars>>

\* The completion block of the download, if the handler has run it.
itemsShown(c) ==
    IF answers'[c] = answers[c] THEN UNCHANGED <<spinner, cellVars>>
    ELSE /\ spinner' = FALSE
         /\ reloadData(c, shown'.list)

\* Variant: an error is only printed.
searchAlgoliaUnlessError(c) ==
    /\ c \in querying
    /\ querying' = querying \ {c}
    /\ \/ \E n \in 0 .. MaxIds : downloadItemsFromFirebase(c, n) /\ itemsShown(c)
       \/ UNCHANGED <<vars, spinner, cellVars>>
    /\ UNCHANGED <<searches, last, overtaken>>

\* Algolia answers with some ids; after an error there are none.
searchAlgolia(c) ==
    /\ c \in querying
    /\ querying' = querying \ {c}
    /\ \E n \in 0 .. MaxIds : downloadItemsFromFirebase(c, n)
    /\ itemsShown(c)
    /\ UNCHANGED <<searches, last, overtaken>>

itemAnswered(c) ==
    /\ \E p \in waiting[c] : found(c, p) \/ missing(c, p)
    /\ itemsShown(c)
    /\ UNCHANGED <<searches, last, querying, overtaken>>

SearchNext ==
    \/ \E c \in Calls : searchInFirebase(c) \/ searchAlgolia(c) \/ itemAnswered(c)
    \/ \E k \in Cells : \E n \in DOMAIN loads[k] : imageArrives(k, n) \/ imageFails(k, n)

SearchSpec == SearchInit /\ [][SearchNext]_<<vars, searchVars, cellVars>>

\* Queries, reads and pictures are answered, by an error if need be.
SearchFairness ==
    \A c \in Calls :
        /\ WF_<<vars, searchVars, cellVars>>(searchAlgolia(c))
        /\ WF_<<vars, searchVars, cellVars>>(itemAnswered(c))

SearchFairSpec == SearchSpec /\ SearchFairness

--------------------------------------------------------------------------------
(* Properties                                                              *)

\* When all is answered, the rows are all the hits of one search, unless a hit of that
\* one was not found, however many searches overlapped and in whatever order Algolia
\* and Firestore answered: never a part, and never hits of two.  It is the last search,
\* unless one was made before another one's answers were in: nothing stops the user
\* from searching again, and searchInFirebase's block does not look at whose answer it
\* has.
ResultsOfLast ==
    ~ UnderWay /\ last # NoCall =>
        /\ shown.call \in searches
        /\ failed[shown.call] \/ Full(shown.call, shown.list)
        /\ overtaken \/ shown.call = last

\* The spinner is gone when nothing is under way, also if hits were missing or two
\* searches shared it: every way through the two blocks ends in dismiss().
SpinnerGoesAway == ~ UnderWay => ~ spinner

\* A cell shows the picture of the item it shows, once no picture is on its way to
\* it, unless that item has none, or its download failed, or the cell was given the
\* item while another one's picture was still coming (ItemTableViewCell never clears
\* the image and does not look whose picture arrives).
CellShowsItsItem ==
    \A k \in Cells :
        item[k] # NoPicture /\ loads[k] = << >> /\ ~ spoiled[k] =>
            ~ HasLinks(item[k]) \/ picture[k] = item[k]

\* Every search comes to an answer.
SearchEnds == \A c \in Calls : c \in searches ~> answers[c] # << >>

================================================================================
