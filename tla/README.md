# A TLA+ model of ShoppingApp

ShoppingApp is an iOS shop in Swift (`src/ShoppingApp/ShoppingApp`) on top of
Firebase Auth, Cloud Firestore, Firebase Storage, Algolia and PayPal. It has no
server code of its own: all rules about baskets, purchases and users are kept by
the app, in completion blocks of Firestore calls. What is hard about it is what
those blocks do when they run late, twice, in another order, for another account,
or not at all. This directory models that.

Paths below are relative to `src/ShoppingApp/ShoppingApp` unless they start with
`Pods`.

## 1. The system

### Components, state, operations

| Component | State | Operations |
|---|---|---|
| Firestore client (`Pods/FirebaseFirestore/Firestore/core/src`) | remote document cache and one write queue per account (both on disk), completion blocks (memory) | `SetData`, `UpdateData`, `getDocument(s)`, stream open/close, acknowledge, reject, credential change |
| Basket (`Models/Basket.swift`, `ItemViewController.swift`) | basket document `{objectId, ownerId, itemIds}` | `addToBasketTapped` → `downloadBasketFromFirestore` → `createNewBasket` or `updateBasket` |
| Checkout (`BasketViewController.swift`) | `basket`, `allItems`, `purchasedItemIds`, the button; the PayPal sheet; `purchasedItemIds` of the user document | load, delete a row, pay, cancel, complete: `addItemsToPurchaseHistory`, `emptyTheBasket` |
| Items by id (`Models/Item.swift:68`) | `itemArray`, `counter` shared by the handlers of one call | `downloadItemsFromFirebase(withIds:)`, for the basket, search and purchase history screens |
| Session (`Models/MUser.swift`, Welcome, Profile, Finish registration and Edit profile screens) | Auth's account, the record in UserDefaults, the user document | sign up, verify, sign in, download or create the document, update it, sign out |
| Images (`Helpers/Downloader.swift`) | counters and arrays shared by concurrent completions | `uploadImages`, `downloadImages` |
| One-time reads of the client (`core`, `remote`, `api` of the pod) | listeners, views, targets, the watch stream, the online state and three timers | `getDocument(s)` from the call to its one answer |
| Search (`SearchViewController`, `ItemTableViewCell`) | rows, the spinner, the pictures in reused cells | the Algolia query, the download of the hits, a picture per cell |
| Adding an item (`AddItemViewController`) | the form, the gallery, uploads under way; item documents and the index | choose pictures, upload, save, index |
| Catalogue (`Category.swift`, `ItemsTableViewController`) | rows of a screen | one query each |
| Presentation, start | — | indicators, formatting, configuration |

### How they interact

Everything the app does runs on the main queue: button handlers, and completion
blocks that Firestore, Auth and PayPal post to it. A handler never waits; between
the call and its block anything else may run. Three kinds of state outlive the
blocks: documents on the server (shared by all phones of an account), the
client's cache and write queue (on disk, one queue per account), and the user
record in UserDefaults. The same facts are in several of them — rows, `Basket`
object and basket document; record and user document; Auth's account and the
record's owner — and only the order of blocks keeps them in step.

### What is hard, and what would make each component correct

* Basket: reading and writing back is not atomic, on one phone or on two. No line
  should be lost or doubled, an account should have one basket, a message should
  be true.
* Checkout: rows, object, document and `purchasedItemIds` are four lists. What is
  paid is what is in the basket, once, and is recorded; forced unwraps hold.
* Items by id: handlers answer in any order, some with nothing. The caller is
  told, once and completely when nothing is missing.
* Session: three copies of who the user is. They agree when all is quiet; a user
  document is never somebody else's and is never made blank again.
* Client: writes are applied to reads at once, survive the process, are sent in
  order, perhaps more than once, and are answered or refused. A one-time read is a
  listener that is removed at its first event, by three threads that post to each
  other: it should answer once, as soon as it can, and leave nothing behind.
* Search: three shared things (rows, spinner, cells) that any answer may change. They
  should end as one search wants them, and the last one if none overlapped.

`PROJECT.json` lists every hazard at its line, with the properties that cover it.

## 2. The modules

| Module | Models | Used by |
|---|---|---|
| `FirestoreClient` | the client's queue, cache, reads, acknowledgements, restart; the server as a map of documents | extended by `Basket`, `Checkout`, `Session` |
| `Basket` | "add to basket" on any phones and accounts | `SerialBasket`, `BasketProofs` |
| `Cart` | abstract: one list per account, one atomic append per tap | implemented by `SerialBasket` |
| `SerialBasket` | `Basket` with one tap at a time on fresh reads (`SerialSpec`), and its mapping to `Cart` | `MCBasket`, `BasketProofs` |
| `Checkout` | the basket screen and the purchase, with the item screen's adds and accounts that sign out and in | extended by `PatientCheckout`; `MCCheckoutAny`, `CheckoutProofs` |
| `PatientCheckout` | `Checkout` for a user who does one thing at a time and waits, and what it promises them | `MCCheckout`, `PatientCheckoutProofs` |
| `OneTimeRead` | what happens in a one-time read of the client | `MCOneTimeRead`, `OneTimeReadProofs` |
| `ItemFetch` | `downloadItemsFromFirebase(withIds:)` and its callers' rows | extended by `Search`; `SearchProofs` |
| `Search` | composition: the Algolia query, `ItemFetch`, the spinner, and the cells with their pictures | `MCSearch`, `SearchProofs` |
| `AddItem` | the form for a new item, the upload of its pictures, saving it | extended by `ItemPictures` |
| `ItemPictures` | composition: `AddItem`, and `downloadImages` under the item screen | `MCItemPictures`, `ItemPicturesProofs` |
| `Session` | who is signed in, the record, the user document | extended by `PatientSession` |
| `PatientSession` | `Session` for users who do one thing at a time and wait, and what it promises them | `MCSession`, `SessionProofs` |
| `FirestoreClientProofs` | lemmas about the client alone, for any documents | `BasketProofs`, `SessionProofs`, `CheckoutProofs` |
| `BasketProofs`, `CheckoutProofs`, `PatientCheckoutProofs` (extends the one before), `SessionProofs`, `SearchProofs`, `ItemPicturesProofs`, `OneTimeReadProofs` | theorems | — |

Actions have the names of the functions they translate; `PROJECT.json` "map" has
the lines. In each module the operators marked "Variant" are wrong versions of a
definition: they are not used by the specification, only by the mutation check.

**FirestoreClient.** `server[k]` is the document in the cloud, `cache[d][k]` the
last version the server gave to phone `d`, `queue[d][u]` the writes of account `u`
that are not acknowledged, `main[d]` the blocks posted to the main queue. A write
has a fate: `pending`, `committed` (the server applied it, the client does not
know), `known` (committed, and a read has since brought a version at least as new
into the cache: the test on versions in `ApplyBatchResult` and `ApplyRemoteEvent`)
or `refused`. The stream sends the queue in order without waiting; a refusal
closes it, so nothing behind a refused write is decided first. A lost connection,
another account and a restart may make decided but unacknowledged writes pending
again, which is how a write is applied twice. A read is answered with the server's
documents overlaid with pending writes when online, with the cache's when offline
(`wait_for_sync_when_online`), or with an error. A restart keeps queue and cache
and drops the blocks ("Mutations restored from persistence won't have callbacks").

**Basket.** `phase[t]` follows a press `t` of the button from `idle` to a message
or to the end of the process. The line a tap adds is identified with the tap. Four
history variables (`home`, `calm`, `before`, `arrived`) record what a tap's read
saw and where its line went; no action reads them.

**Checkout.** `basket`, `rows`, `toBuy`, `button` are the screen's variables;
`fetches` the item downloads under way, any of which may answer next; `reads` the
document reads under way, each with the block that waits for it. `payButtonPressed`
fills `toBuy`, `paymentDismissed` does all that the dismissal block does, in its
order: history write, basket write, empty lists. `paymentDismissedTraps` is the same
block with a nil basket: the process ends at the forced unwrap, and the history
write, which was handed to the client's own queue an instant before, may or may not
be on disk. The tab bar keeps the screen while accounts change: signing out clears
`record`, and nothing of the screen; signing in asks for the account's document and
sets `record` when it comes. An account may have no basket document, and may not be
registered. What a write is for is in its tag (`by`, `to`), so that its block is run
for the account that issued it.

**OneTimeRead.** The main queue runs `getDocuments` and `OnEvent` (`ListenOnce` behind
`AsyncEventListener`, with `muted`), the worker queue takes `jobs` in order
(`AddQueryListener`, `RemoveQueryListener`) and runs what the stream and the timers
report. An event that a listener raises is queued on the main queue: `listener[r].events`
are the events of one read, in order; those of different reads touch nothing in common,
so the one queue is left out. A view is `local`, `current` or `synced`; limbo resolution
is what may lie between the last two. The tracker's counter of failures is the boolean
"not zero", as `kMaxWatchStreamFailures` is 1. Two reads may share a query, its view and
its target. `outlived` is history: it is set where `StopListening` leaves an attempt to
connect behind that nobody listens for.

**ItemFetch.** A call is a list of `size[c]` ids; an id is named by its position,
so that an id that occurs twice is asked for twice. `found` and `missing` are the
two branches of the handler, with every call of the completion they make.

**Search.** A search and the download it leads to have the same name. `searchInFirebase`
shows the spinner, `searchAlgolia` answers with any number of ids (none after an error),
`itemAnswered` is the handler of `ItemFetch` with the block the search gave it:
`itemsShown` takes the spinner away and reloads the table. `reloadData` gives rows to any
cells (`didSet`), each of which asks for its first picture and shows it when it comes,
without looking whose it is.

**Session.** `Save` is `updateCurrentUserInFirestore` with its three cases: no
record (nothing, not even the completion), no account (the forced unwrap of
`currentId()`), or an update that is built on the phone's record and sent to the
account's document. The profile screen's buttons are as old as its last
appearance, as in the code.

**AddItem, ItemPictures.** `upload[s]` is the call of `uploadImages` made by press `s`
of the done button: the pictures it was given, how far each has got, the links and
the count. A link is the pair of press and position, so that a picture can be
followed from the gallery to the item screen. `form = "orphaned"` is the gallery left
on the screen after the form under it was popped. `step[n]` follows the block of
link `n` of `downloadImages`; the increment of the counter and the append are a load
and a store each, and what is in between is `kept[n]`. Two threads at the array at
once are undefined behaviour: the model has the outcomes "one access is lost" and
"the process ends" (`Terminate`), and `raced` remembers the first.

## 3. What is checked

`tlc -config <cfg> <module>`; states are distinct states.

| Run | Module, cfg | Environment and bounds | Properties | States |
|---|---|---|---|---|
| basket_all | MCBasket, `MCBasket_all` | 2 phones, 2 accounts, 2 taps, 2 document names; everything may fail | TypeOK, NoLineTwice, StrayOnlyFirst, SecondBasketOnlyByOverlap, ToldAfterArrival, LostOnlyByOverlap | 740,577 |
| basket_serial | MCBasket, `MCBasket_serial` | `FairSerialSpec`: one tap at a time, fresh reads; 2 phones, 2 accounts, 2 taps | AppendsAtomically (refinement of `Cart`), TapEnds | 79,056 |
| basket_quick | MCBasket, `MCBasket_quick` | `TwoQuickTaps`: online, nothing fails | AddedIsInBasket: **violated** | — |
| checkout_patient | MCCheckout, `MCCheckout` | `FairSpec`, that is `PatientSpec` with fairness: 2 accounts, 2 items, 2 sheets, 2 answers outstanding | RowsAreBasket, LinesAccounted, NeverTraps, OnlyOwnDocuments, PaidFromOwnBasket, RecordedAsPaid, PaidIsRecorded | 633,368 |
| checkout_history | MCCheckoutAny, `MCCheckoutAny_history` | anything at any time; 2 accounts, one of them registered, 1 item, 2 sheets, 2 breaks, 2 pending writes | TypeOK, UnpaidOnlyFromDropped, HistoryLostOnlyByOverlap | 2,717,354 |
| search | MCSearch, `MCSearch` | `SearchFairSpec`; 2 searches of up to 3 hits, 2 cells, one item without a picture | TypeOK, AllAtOnce, ResultsOfLast, SpinnerGoesAway, CellShowsItsItem, SearchEnds | 1,382,371 |
| read_once | MCOneTimeRead, `MCOneTimeRead` | `FairFirstSpec`; 2 reads, 2 queries, 2 undelivered events, 1 restart of the network | AnsweredOnce, AssertionsHold, NoNeedlessWait, NothingLeft, WaitsOnlyBehindOld | 606,992 |
| session_any | MCSession, `MCSession_any` | 1 phone, 2 accounts, 2 sign-ins or -ups, 2 saves; everything may fail | TypeOK, DocumentIsOwn, OnBoardLostOnlyToBlank | 587,242 |
| session_patient | MCSession, `MCSession_patient` | `FairSpec`, that is `PatientSpec` with fairness; 2 phones, 2 accounts, 3 sign-ins or -ups, 2 saves | RecordIsDocument, BlankOnlyForNew, LoginEndsWithRecord | 117,424 |
| session_twologins | MCSession, `MCSession_twologins` | `HurriedSpec`: nothing fails, nobody waits; 1 phone | CurrentUserIsSignedIn: **violated** | — |
| session_twophones | MCSession, `MCSession_twophones` | `HurriedSpec`; 2 phones | BlankOnlyForNew: **violated** | — |
| item_pictures | MCItemPictures, `MCItemPictures` | `LookSpec`: form and item screen in turn; 2 visits, 2 presses, 3 pictures, failures | TypeOK, LinksWhole, OneItemPerVisit, PressAccounted, ShownAsChosen | 2,199,629 |

### What the runs show

The properties come in pairs. Where the code promises nothing in general, one
property says *in which ways only* things can go wrong, for any environment, and
one says what holds for a user who waits:

* `LostOnlyByOverlap`: a line of a basket on the server disappears only through the
  write of a tap whose read came before the line did, or was not answered by the
  server, or was overlaid with other pending writes. `AppendsAtomically`: with one
  tap at a time on fresh reads the code implements `Cart`, also when the write is
  refused, sent twice or outlives the process.
* `SecondBasketOnlyByOverlap`, in the same way, for the second basket document, and
  `Cart` (also proved, section 4) for the single one. `ToldAfterArrival`: no message before the line arrived.
* `StrayOnlyFirst`: only the line that created a basket can be in somebody else's.
* `OnlyOwnDocuments`, `PaidFromOwnBasket`: the basket screen keeps rows, basket object
  and ids to record when the account changes under it, and an account may have no
  basket to replace them; still nobody writes to another's documents, and
  a user who waits and has a basket pays for what is in it. What makes it so is spread
  over `viewDidAppear`, `getBasketItems` and the registration check of the checkout
  button. A registered account without a basket is not protected: `viewDidAppear` finds
  no basket, and leaves the rows of the account before and the live button where they
  are. It is offered those rows and can pay for them, and its payment ends at the forced
  unwrap in `emptyTheBasket` (`BasketViewController.swift:96`), perhaps before the history
  write is on disk. `RowsAreBasket` and `PaidFromOwnBasket` say what is true of both.
* `UnpaidOnlyFromDropped` and `RecordedAsPaid`: an entry of the purchase history
  that was never paid for comes from a sheet that was cancelled or never shown, or from
  another account's record. For a user who waits and has a basket the history has what
  was paid for as often; for one without a basket never more often, but a payment may be
  missing. `PaidIsRecorded`: the payments of users with a basket get there in the end.
* `HistoryLostOnlyByOverlap`: an entry leaves the history only if a purchase was
  written while the record on the phone had not taken in the one before, or while it
  was another account's. Both properties stop at the first write made from another
  account's record (`mixed`): after it, nothing is promised.
* `OnBoardLostOnlyToBlank` and `BlankOnlyForNew`: a finished registration is undone
  only by the document of a new account, and not at all if users wait.
* `RecordIsDocument`: for users who wait, the three copies of who the user is agree.
* `ResultsOfLast`: searches may overlap (nothing stops them), and then the rows may be
  those of an older one; but they are all the hits of one search, never a part or a
  mixture, unless a hit was missing. `CellShowsItsItem`: a cell shows its item's picture,
  except in named cases: a cell reused while a picture was on its way to it, an item
  without pictures, a failed download. `SpinnerGoesAway`: the spinner always goes.
* `AnsweredOnce`: the first event silences the listener, whatever else it has raised by
  then, and an error is the last event of a listener that is gone; so the app's block runs
  at most once in a process. `AssertionsHold`: the assertions of three files about
  timers, idleness, views and targets agree with each other. One assertion fails when
  the server wants it to: a stream that the server finishes with the status OK is closed
  like one the client stopped (`Stream::OnStreamFinish`), and if somebody listens,
  `RemoteStore` asserts that this cannot be (`remote_store.cc:236`) and the process ends.
  `OnWatchStreamFinish` has that, as the end of the process with every call in it.
  `NoNeedlessWait`, `NothingLeft`: an offline or synced read has its snapshot,
  and answered reads leave neither listener nor view nor target.
* `WaitsOnlyBehindOld`: a read is answered, unless it waits for ever behind an attempt to
  connect that began for earlier reads. That case is reachable: when the last listener
  goes while the stream is starting, `RemoteStore::StopListening` sets the online state
  to unknown, which stops its ten-second timer, and leaves the stream starting; a read
  that comes then finds a stream that is started and does not start a timer; if the
  token never comes, neither server nor timer ever answers it
  (`query_listener.cc:138`, `online_state_tracker.cc:41`). TLC finds it at once when
  "every read is answered" is checked instead.
* `LinksWhole`, `PressAccounted`, `OneItemPerVisit`: an item is saved once, with a link
  for each picture, or not at all because a picture failed; a form makes a second item
  only by a press during its own upload.
* `ShownAsChosen`: a link that fails may hide all the pictures on the item screen (it
  counts before it is read), but never some of them; and if none fails they are those
  that were chosen.

### The three disagreements

* `basket_quick`: "Added to basket!" is shown for lines that end up in no basket
  the app reads. Two taps before the first basket exists make two documents, or two
  taps overwrite each other's list. One phone, online, nothing refused.
* `session_twologins`: `currentUser()` is another account's record after two quick
  sign-ins, because the completion of the download does not look at who is signed
  in by then, and the welcome screen closes before it.
* `session_twophones`: "there is no user, save new" replaces a user document that
  another phone created and filled in after the read.

### Bounds

Two taps on two phones are enough for every overlap of one read and one write, and
for a second basket. Document names are as many as taps may draw. `MaxUnder` (answers
outstanding) is 2 in checkout_patient, more than a user who waits needs: one read or
download at a time, so that no answer is overtaken there. It is 1 in checkout_history,
whose properties depend on the order of payments and history writes and not on rows;
there the user may still press in any state, and one item suffices, because an entry of
the history is compared with payments of the same item only. Downloads that overtake
each other are in the search run. `MaxSheets` = 2 lets a
purchase overlap the one before, or a cancelled sheet come before one. In
checkout_patient each of two accounts may have a basket or none, with any items in it,
and they take turns as often as they like. `MaxBreaks` = 2 lets a connection be lost
and the process end in between, or a user sign out and another one in. Sign-ins and
saves (`MaxTries`, `MaxSaves`) let both accounts sign up and in, and one of them again.
Symmetry is used over taps, phones and accounts, in runs without liveness properties.

Two searches with up to three hits and two cells have every overlap of queries, items and
pictures, a search with more hits than cells, and cells that are used again; the item at
position 2 has no picture. Two reads of two queries or of one can meet at a view, at the
stream or at the online state; two undelivered events let a listener raise another one
before its first has run; one restart of the network may come at any time in a process. The queries
are alike, so the first read asks for the first of them (`FirstForFirst`).

In the item_pictures run an upload of three pictures has every order of answers and
failures, and a download of three links lets one block lag behind two others; two
visits let an upload end while another form is up. The item screen is opened when the
form has nothing under way and left nothing behind (`LookNext`): the two share only
`items`, which the item screen reads and does not change, so other interleavings of
them reach the same states of each.

`CHECK_DEADLOCK FALSE` is in `MCSearch` and `MCOneTimeRead`: a model with a finite set
of searches or reads stops when all are made and answered. All others check deadlock.

### Environments

`SerialSpec`, `PatientSpec` and `HurriedSpec` restrict the user and the service, not
the app: a patient user does one thing at a time and waits until the screen has
nothing left to do (`Settled`); "nothing fails" means that reads are answered and
writes are not refused. In the patient runs the network may still come and go, and
the app be ended while it is settled. In `PatientSession` an account that is signed in on
two phones is not edited (`EditedOnOnePhone`): the app never fetches an edit made
elsewhere while it stays signed in, so the other phone's record would be old.
`PatientNext` of `PatientCheckout` lets rows be deleted only while somebody is signed in: the
rows that the account before left behind can be deleted by nobody, in nobody's queue.

### Fairness

* Answers of reads and blocks on the main queue: weak fairness. Both are executed
  by queues that are always served.
* `NetworkBack`: weak; an outage ends. `ServerDecides`, `ClientLearns`: strong, as
  the connection may be lost again and again in between, but not forever before an
  answer. The client retries without limit (`OnWriteStreamClose`).
* In PatientSession a download of the user document is answered without an error often
  enough (strong fairness). This is an assumption about the user's network: the app
  does not try again.
* In Search queries and item downloads are answered, by an error if need be: weak.
  Pictures may never come.
* In OneTimeRead the queues and the timers run: weak. The server answers a target that is
  requested over and over, with the documents or with an error: strong, as the stream
  may break in between; a connection that is silent is broken by its keepalive
  (`grpc_connection.cc:258`). Tokens may never come.
* No fairness for users, sign-in changes, or the end of the process.

## 4. What is proved

With TLAPS, for every value of the constants that satisfies the modules'
assumptions: nobody is not an account (`ClientAssumption`); names of basket documents
are numbers, and `None` and `NoDoc` are none of the things they stand in for, a basket among them
(`BasketAssumption`); the same for `NoCall`, `NoPicture` and `NoQuery`
(`FetchAssumption`, `SearchAssumption`, `ReadAssumption`); the documents are one per
account, with the three fields the forms know, and "nothing" and "no document" are not
documents (`SessionAssumption`); one phone, a
basket and a user document per account, finitely many items, "no document" is neither
a document nor a basket, and "no block" is no block (`CheckoutAssumption`). TLC evaluates all of them in the runs.

**The client** (`FirestoreClientProofs`). What the overlay of pending writes returns,
what each client step keeps in the queue, and what a module over the client needs for
its types and its invariants: if a set of documents is closed under the module's
writes (`Closed`), then whatever the client's own steps do (send, decide, learn, lose
the connection, change the account, restart), every copy of a document on the server,
in a cache, under pending writes or in a waiting block stays in the set (`Views`,
`ClientHolds`). `SessionProofs` and `CheckoutProofs` are instances of it, with
different sets of documents.

**Basket** (`BasketProofs`).
* `TypeCorrect`: `Spec => []TypeOK`. The invariant is `TypeInv`, `TypeOK` and the fact
  that a tap with a read under way has a phone (without it `device[t]` might be `None`
  where the read's answer is posted).
* `OneLinePerTap` and `StrayLineIsFirst`: `Spec => []NoLineTwice` and
  `Spec => []StrayOnlyFirst`. Neither is inductive: a write puts on the server a list
  that was composed long before, from an answer that was itself a cached document
  with pending writes laid over it. The invariant is `Provenance`, which says the same
  of every copy of a list there is (on the server, in a cache, in a queue, in an
  answer that waits for the main queue): each tap on it has that document for its one
  home, it is there once, and all but the first were made for the account that owns
  the document. It needs three more facts: a tap that has not written has no home
  (`Homeless`), at most one answer of a tap waits (`OneAnswer`), and it waits on the
  tap's phone. The argument: a home, once given, and the owner of a drawn name never
  change (`Later`), so what is true of a list stays true of it (`LinesKept`); every
  client step keeps the writes it does not drop (`QueueKept`); the overlay and the
  application of a write make lists out of good lists only (`LocalDocOK`, `AppliedOK`);
  what is left is the one new list of `createNewBasket` and of `updateBasket`. Not in
  the theorem: writes by other builds of the app, or by hand.
* `SecondBasketByOverlap`, `LinesLostByOverlap` and `ToldWhenThere`:
  `Spec => []SecondBasketOnlyByOverlap`, `Spec => LostOnlyByOverlap` and
  `Spec => []ToldAfterArrival`. These say that the only thing wrong with the code is
  the window between the read and the write: outside it nothing is lost, however late,
  refused or repeated the write is. `Faith`, beside `Provenance`, ties each of them to
  the read it goes back to: every list on its way, in a queue or in an answer, has all
  the lines that were on the server at its tap's `calm` read; who drew a basket's name
  had read, if the read was calm, that the account has no other; a write whose
  acceptance is known to the client is on the server, and its line has arrived. The
  three properties are then about the one write that is applied. That a calm read's
  answer is the server's list although it passes through the cache and the overlay
  (`CalmView`) is the lemma all of it rests on.
* `CartImplemented` (last part): `SerialSpec => AppendsAtomically`, the
  refinement of `Cart`. `Serial`, beside the invariants above, says what being alone is
  worth: while a tap is asking nothing is queued anywhere and its account stays; there is
  one write at most in all the queues, which is already on the server or is the
  next line of the account's one basket (`NextLine`, so that sending it again changes
  nothing); a waiting answer is what the server has. Every step is then an `Ask` (the
  tap), a `Put` (the first time the server applies the write) or a stutter.

**Checkout** (`CheckoutProofs`), whatever the user does and whatever fails.
* `CheckoutTypeCorrect` (`TypeOK`) and `UnpaidWasDropped` (`UnpaidOnlyFromDropped`).
  One invariant, `CheckoutInv`, gives both. It speaks of every family `good` of sets of
  items, one per account, that contains what the account paid for and what it had on a
  sheet that was dropped (and everything, once a write was `mixed`): every copy of an
  account's history, on the server, in the cache, in a queue, in a waiting block, in the
  record on the phone, has items of that account's set only; so has the list that
  the screen is collecting, except for what is on the sheet now, which is either
  about to be paid or about to be dropped. With all items for `good` this is type
  correctness; with "paid or dropped" it is the property. That a family has to contain
  what is paid *now* is what lets the same family serve before and after a step:
  paying and dropping only shrink the families the invariant is about.
* `HistoryOnlyGrows` (`HistoryLostOnlyByOverlap`): the code sends whole lists, made from
  the record on the phone, and nothing but the order of things keeps a list from being
  an old one. `HistoryInv` says what that order is worth to an account that was never
  hasty, while no purchase was mixed. Either none of its purchases is open, and then
  every copy of its history (the cache, the record, a document on its way to the app) is
  the server's (`TakenUp`). Or one is, and then there is one write to the account's
  document in the queue, or none, with a list that has all that the server's has
  (`Covers`); it stays that list when the server takes it and sends it again, and the
  answer brings it into the record before anyone is told (`OnItsWay`, `AnswerWaits`).
  This holds of writes whose block is gone after a restart, too: their purchase stays
  open for good, and the account's next one is hasty. A step of the server is then
  the only one that changes a history (`OnlyDecisions`), to a list that covers it.

**The patient checkout** (`PatientCheckoutProofs`), all of `PatientSpec`, with any
accounts that take turns on the phone, registered or not, any items and purchases, a
network that comes and goes, and an app that is put away while it is settled.
* `NoLineIsLost` (`LinesAccounted`): what was added is in the basket, deleted or paid
  for, and paid for once.
* `PatientIsRecorded` (`RecordedAsPaid`): no history has more than was paid for, and that of
  a user with a basket has it as often.
* `SheetShowsTheBasket` (`PaidFromOwnBasket`) and `RowsAreTheBasket` (`RowsAreBasket`): for a
  user with a basket, what is offered for payment, and what can be deleted, is that
  basket on the server; a user without one has no basket on the screen to write, and is
  offered the rows that are on it, whosever they were.
* `PatientNeverTraps` (`NeverTraps`): for a user with a basket the forced unwraps and
  indices of the screen hold.
* `OwnDocumentsOnly` (`OnlyOwnDocuments`): nobody's queue has a write to another's documents.

One invariant, `PatientInv`, gives all six: there are documents, `goal`, for which three
things hold. The properties compare the server with the screen and with what was
paid, and the server lags behind both; `goal` is what it lags behind.
  - `Coming`: `goal` has what the server and the cache will have. A document that is
    different from its `goal` has a write in the queue that makes it so; every write in a
    queue is the signed-in account's own, is not refused, carries what `goal` has, and,
    once committed, finds it on the server. Steps of the network keep this with the same
    `goal` (`NetworkRight`); only a write of the app moves it (`OneSent`, `BothSent`).
  - `Phase`: the phone does one thing. It is `Quiet` (nothing is asked, nobody is waiting to
    be told), `Asking`, `Answered` (with `goal`'s document), `Writing` a line, or `Recording` a
    purchase, and in each the screen, the record, the sheet and the items being added
    are what they have to be. What is still to be told is one list, `Agenda`: the blocks
    on the main queue and then those behind the pending writes. The network moves
    entries from the second part to the first and does not change the list, in
    which the record's block comes before the basket's.
  - `Accounted`: each item that was added is in the basket of `goal`, deleted or paid for,
    one payment for each; the payments are those in the history of `goal` and, until the
    sheet is gone, those of the list the screen collected (`toBuy`, in which an item of a
    cancelled sheet stays and spoils the count: such items are excepted). For accounts
    without a basket, whose payment may be lost, no more than the upper half is true:
    the history, the record, and the record with `toBuy` have no more than was paid for
    (`NoneUnpaid`).

That a settled phone is `Quiet` (`SettledIsQuiet`) and that the server then has `goal`
(no write is left) turns the invariant into the properties. Two kinds of users need
care. Rows and basket that the account before left on the screen stay until the screen
appears again (`BasketRight` says what is still true of them). And for an account without
a basket the rows stay even then: if it is not registered, the checkout button offers
it nothing; if it is, it may pay for them, and the process ends at the unwrap with the
history written or not (`DismissTrapRight` has both).

**Session.**
* `SessionTypeCorrect`, `DocumentsAreOwn`, `OnBoardKept`: `TypeOK`, `DocumentIsOwn` and
  the action property `OnBoardLostOnlyToBlank`. The invariant `SessionInv` says of
  every copy of a user document that it carries the id of the account it is stored
  under, and of every pending write that it either makes a whole document for its own
  account or sets fields of a form, which never name the id nor take `onBoard` back.
  Of the record it needs no more than that it is one: that it may be another account's
  (the violation of `session_twologins`) is harmless to documents only because `Save`
  sends the form's fields, never the record.
* `RecordsAreDocuments` (`RecordIsDocument`) and `NothingOverwritten` (`BlankOnlyForNew`),
  both for `PatientSpec`, on any number of phones. `PatientInv`: either all phones rest,
  with nothing under way and a record that is the server's document of the account
  signed in (`Rests`), or exactly one phone is busy with one thing (`Busy`): it signs
  in, reads, holds an answer that is the server's document, creates a new account's
  document while the server has none or that same one, saves a form, or is about to be
  told. The saved form is where the three copies differ for a while: the record will be
  what the document becomes, and sending the write again changes nothing (`JoinedTwice`).
  That the others keep resting is not free: it needs `EditedOnOnePhone`, and that an
  account's document changes only by the phone that is busy (`OnlyCommits`).

**Items by id** (first part of `SearchProofs`), for any number of calls and ids.
* `FetchTypeCorrect`, `CompletionOnceWithAll` (`AllAtOnce`), and three theorems no run
  checks by themselves: `CallerIsTold` (a call none of whose
  reads is open has told its caller something), `ListsGrow` (each answer extends the one
  before) and `ScreenShowsNewest` (calls that did not cross). The inductive invariant is `Accounted`: for each
  call, the counter is the length of the list, the positions found and the positions
  open are disjoint and, unless one was missing, together all (`Tally`); what the
  completion was given (`Told`) and that its lists are prefixes of the one in memory
  (`Growing`); and, while no calls crossed, that only the newest has open reads and
  the screen shows what it was told last (`InTurn`). The cardinality of the open
  positions is what makes "the counter reached the number of ids" mean "nothing is
  open".

**Search** (second part of `SearchProofs`).
* `SearchImplementsFetch`: `SearchSpec => Spec`. The composition implements the download
  alone, so that every theorem about the download holds of the search as well.
* `SpinnerStops` (`SpinnerGoesAway`): while the spinner turns, a query is open or a call
  has not told its caller anything (`SpinnerMeans`); with `CallerIsTold` this is
  enough.
* `RowsAreLastHits` (`ResultsOfLast`): while no search overtook another, at most the last
  one's query is open, nothing is being downloaded while it is, and the newest download
  is the last search's (`InOrder`), which `InTurn` puts on the screen. When searches do
  overlap, the rows are still the last list of a call that was answered
  (`ShownIsAnAnswer`), and a call with nothing open and nothing missing was given one
  list, the whole (`Told`, `Tally`).
* `CellsShowTheirItems` (`CellShowsItsItem`): an unspoiled cell waits for pictures of its
  own item only, and has it when it waits for none (`CellsRight`).

**Adding an item and its pictures** (`ItemPicturesProofs`), for any offers of the gallery
and any bounds on presses, visits and choices that pile up; the theorems are about `Spec`,
which does not make the form and the item screen take turns as the run does.
* `SavedWithAllLinks` (`LinksWhole`), `ItemsFromVisits` (`OneItemPerVisit`) and
  `PressesAccounted` (`PressAccounted`) from `AddInv`. Its core is a tally per upload
  (`OneEach`): the links are those of the pictures that are `linked`, one each, and the
  count is their number, so that "the count is the number of pictures" is true in one
  step only, the one of the last picture. An item is a whole upload whose form is gone
  (`ItemRight`), and whoever pressed while nothing of the form was under way pressed
  after a failure (`PressedAfterFailure`): an upload that is neither under way nor whole
  has failed, and failed it stays.
* `PicturesShown` (`ShownAsChosen`) adds `ViewInv`. Blocks that do not meet keep the
  counter and the array equal to the number and the links of the blocks that went by
  (`SharedRight`), a loaded value being still the current one; what the screen does not
  show yet is still to come, or a link failed that was counted after the others had
  compared (`ScreenRight`). `FormRight` is what makes these pictures the chosen ones: an
  unanswered choice is the only one, and then nothing has been resolved over it. The
  links of one item are different, so as many pictures are shown as were read.
* `PicturesTyped` (`TypeOK`): also when blocks race, none of them counts for more than one
  (`CountsBounded`); and items go one to one into uploads, so that every id in the index
  is one of an upload.

**One-time reads** (`OneTimeReadProofs`).
* `AnsweredAtMostOnce`, `AssertionsNeverFail`, `NobodyWaitsNeedlessly`, `NothingStays`:
  the four invariants of the run, from `ReadInvariant`. `ReadInv` is the types, the
  assertions themselves (they support each other), and two facts. `AllInformed`: a
  registered listener has taken in the view and the online state as they are now, has
  raised an event if it had to, and no error (the client tells listeners in loops, and
  one that was left out of a turn would wait for ever). `InPlace`: a call's registration
  is queued at most once and only before it is registered, with nothing raised or
  delivered yet; an error is the last event of a listener that is gone; and a read that
  has its answer is muted or has nothing left to deliver, and is on its way out.
  A process that ends leaves the initial state.

Only model-checked: all liveness and what rests on fairness (`TapEnds`, `SearchEnds`,
`WaitsOnlyBehindOld`, `PaidIsRecorded`, `LoginEndsWithRecord`), which is out of the
prover's reach. Every invariant and action property of the passing runs is a theorem.

## 5. What is left out

* Presentation (messages, indicators other than the search's spinner), formatting, prices,
  names: no property is about them. The categories and the items of a category are one
  query with one answer each.
* Data: an item, a name and a form's text are model values. The user record is
  `{id, onBoard, name}` in `Session` and its purchase list in `Checkout`.
* In `Checkout` an item is put in the basket at most once (so that a list is a set),
  and the first basket document of an account, made when a read fails or finds none, is
  not followed: `Basket` has that. `Checkout` has one phone: two phones with one
  purchase history are not modelled, nor is the user document's other content, which
  is in `Session`.
* In `Checkout` item documents exist and are found; `ItemFetch` has the others.
* A write is on disk when the call returns. The client puts it there on its own
  queue an instant later; the one place where the code gives it no time,
  the forced unwrap in `emptyTheBasket`, has both outcomes.
* Errors of `signOut`, password reset and sending the verification mail again:
  nothing the app keeps is changed.
* The gallery that stays on the screen after its form was popped
  (`AddItemViewController.swift:110`) is a state of `AddItem` (`orphaned`), but no
  property: the code promises nothing about it.
* Of the client: lasting listeners, limbo documents, existence filters, transactions,
  garbage collection, the wire protocol and the formats on disk. The app only uses
  one-time reads and single writes. The other vendored libraries (gRPC, BoringSSL,
  LevelDB, Auth, Storage, PayPal, indicators), which are nearly all of the repository's
  lines, are used through the calls the modelled code makes.

## 6. Plan

Done, in this order: the client, `Basket` and `Cart`; `Checkout`, with accounts that
change; `ItemFetch`; `Session`; `AddItem` and `ItemPictures`; `OneTimeRead`; `Search` with
its cells; and the proofs of section 4. What would come next:

1. Two phones with one purchase history, and `Checkout` under `Session`'s sign-in.
2. An abstract shop, in which a purchase is one step, implemented by `PatientCheckout`:
   most of what it needs is in `PatientInv`.
3. A run that exhibits the read that is never answered by itself.
