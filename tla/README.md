# Movies: a verification project

The repository is an iOS application (Swift, UIKit) that browses a movie
database, searches it while the user types, shows the details of a movie, keeps a
viewing history per user, and lets users sign up and in. The application itself
is `src/Final Project/Final Project/`, about 2200 lines in 35 files;
`src/Final Project/Pods/` holds third-party code. It has no tests. This project
models the application's stateful parts in TLA+, checks them with TLC on small
instances, and proves with TLAPS, for instances of any size, every safety property
that those runs check.

## 1. Inventory

All of the application's own code runs on the main thread, except for the completion
handlers of network requests. The difficulty is in what comes back: every screen
starts requests, goes on, and applies the answers whenever and in whatever order
they arrive, on state that has moved on since.

| Component | Source | State it keeps | Operations |
|---|---|---|---|
| Network loader | `Services/NetworkService.swift` | a process-wide, unsynchronised cache `[URL: Codable]` | `load`, the request's completion handler |
| Search screen | `SearchVC`, `SearchViewModel` | a debounce timer, the list | text change, timer, `findMovie`, completion |
| Details screen | `DetailsVC`, `DetailsViewModel` | movie, cast, reviews; bindings; table and header | tap, `viewDidLoad`, three completions |
| Viewing history | `DetailsViewModel.uploadHistoryToFirebase`, `HistoryVC`, `HistoryViewModel` | one field of the user's Firestore document; the list on screen | record a visit, show the list |
| Login, registration | `LoginVC`, `LoginViewModel`, `RegistrationVC`, `RegistrationViewModel` | form, `success`, alerts, keychain entry, profile document | taps, callbacks of Auth and Firestore |
| Profile | `ProfileVC`, `ProfileViewModel` | visible buttons, name, avatar, `userUid` | state listener, log out, sign in with last account, photo upload |
| Main menu | `MainMenuVC`, `MainMenuViewModel`, `MenuTableViewCell(ViewModel)` | genre names, one list per reusable cell | load genres, fill a cell, completion |
| Image downloads | `UIImageView+Utils`, `FilmsCollectionViewCell`, `CastCollectionViewCell`, `ReviewsCollectionViewCell`, `SearchTableViewCell` | image and text of a reused cell | set-up, `prepareForReuse`, download, completion |
| Response models | `Models/` | none (Codable declarations) | decoding |
| Start, layout | `App/`, cells, xibs, header views | none | display |

How they interact: the menu, search and history screens push a details screen and
start its three loads before its view exists. The details, search and menu screens
share the loader and, through its static cache, each other's results. The details
screen records visits in the Firestore document that registration created and that
the history and profile screens read. Firebase Auth's `currentUser` is read by all of
the latter at the moment they act.

What is hard about it, and what each component promises:

- **Loader.** A read of the cache on the main thread may fall inside a write on the
  session's queue. Two requests for one URL may be answered out of order. Promises: a
  completion runs at most once, results arrive on the main thread, belong to their
  URL and do not go back in time; every call ends.
- **Search.** Timers race text changes, answers race each other. Promises: only the
  current text is searched, it *is* searched, and at rest the list belongs to the text.
- **Details.** Completions come before or after `viewDidLoad`, in any order. Promises:
  the screen shows what has arrived; a visit is recorded, and not over and over.
- **History.** Read, append and write back is not atomic; devices go offline, processes die and
  users sign out in between; writes are sent again and refused. Promises: a recorded entry whose write
  was not refused is read again, in order, by the device that recorded it at once; what the server
  acknowledged stays.
- **Accounts.** Signing up takes two requests to two services, callbacks outlive
  their screens, sessions change under requests. Promises: the screen follows the
  session, success is reported only for the whole sign-up, the keychain holds only
  passwords that work or once worked.
- **Profile photo.** Three requests to two services, one after the other, for a user who may
  be another one by the end. Promises: the document refers to the photo that is stored, or at least never to
  one that was uploaded for somebody else, and the user sees his own.
- **Images in cells.** Nothing cancels a download or checks where its image goes. Promises:
  image and text of a cell belong to one item, and the image comes.

Every place where this can go wrong is listed with its line under `hazards` in
`PROJECT.json`.

## 2. Modules

| Module | Models | Composed with |
|---|---|---|
| `NetworkService` | the loader, its two queues, the server | – |
| `NetworkServiceProofs` | theorems about it, and the proof that it keeps its contract | extends `NetworkRefinement`, `TLAPS` |
| `LoadContract` | what `load` promises its callers: the abstract specification | – |
| `NetworkRefinement` | the refinement mapping from the loader to its contract | extends `NetworkService`, instantiates `LoadContract` |
| `SearchScreen` | search as you type | extends `NetworkService`: its actions call `Load`, its `Deliver` is the loader's `RunMain` with the screen's completion |
| `DetailsScreen` | one visit to the details screen | extends `NetworkService` the same way |
| `MainMenu` | the menu with its reusable cells | extends `NetworkService` the same way |
| `HistoryStore` | recording and showing the history, on several devices | stands alone (it uses Firestore, not the loader) |
| `Account` | registration, login and the session part of the profile screen | stands alone |
| `ProfilePhoto` | the photo part of the profile screen | stands alone; sessions as in `Account`, a simpler queue of writes than in `HistoryStore` |
| `ImageCells` | image downloads into reused cells | stands alone |
| `SearchScreenProofs`, `DetailsScreenProofs`, `MainMenuProofs` | theorems about the three screens | extend the screen and `NetworkServiceProofs` |
| `HistoryStoreProofs`, `AccountProofs`, `ProfilePhotoProofs`, `ImageCellsProofs` | theorems about the others | extend the module they name, and `TLAPS` |
| `MC*` | model values and symmetry for TLC | extend the module they name |

Conventions. Nil is 0 for version numbers; a model value elsewhere. Variables marked
*history* record the past for the properties and influence no step; variables marked
*external* belong to a server, the keychain or the operating system. Operators
commented *Mutant* are the plausible bugs used to show that each property can fail;
no specification uses them. A block that runs on the main thread is one atomic
action, as it is in the program, except where another thread can see it half done:
the loader's handler on the session's queue is split at every statement that touches
shared state, and the taps of the details screen are split at every call of `load`.

### NetworkService

`Load` is `load(url:model:completion:)` on the main thread, with one alternative per
path through it: no URL (`LoadNoUrl`), a cached result (`LoadHit`), a request
(`LoadMiss`). The completion handler of the request is `Decoded`, `StoreResult`,
`HopToMain` in this order, or `Undecodable` (the error is printed, completion is never
called), or `NoData` (completion runs right there, on the session's queue).
`RunMain` runs the oldest block on the main queue. `URLSession.shared` has a serial
delegate queue: `SessionIdle`.

The cache is a Swift dictionary without synchronisation. Between `Decoded` and
`StoreResult` the write is under way, and a read then has every outcome the race can
have: the entry, nothing, the new value if it is the same URL (`LookUp`), or a fault
that ends the process (`LoadTrap`, `trapped`). Contents are version numbers that grow
at the server, at most to `MaxVersion`; that makes "belongs to its URL" and "older
than" expressible without modelling JSON.

A URL is *contended* once two fetches of it were under way at once, or a read of it
fell into the write of its own entry. That is exactly when the order of answers is
lost, and the model needs the notion because the code does nothing about it: the
older of two answers may be stored last and, since entries never expire, be served
for the rest of the process's life.

### LoadContract and NetworkRefinement

`LoadContract` forgets the cache, the requests, both queues and the race. A call waits, and then
completes on the main thread with content of its URL (`Complete`), fails on the session's
queue (`Fail`) or is dropped without a word (`Drop`). Content of a URL is handed out from old to new
unless the URL is contended, and a URL can become contended only by a call that was made
while another call for it was waiting. The process can die only while a call is waiting.
`ImplementsContract` says that the loader, with `Status` in place of its phases, does nothing
else and that every call ends: the contract with its own fairness follows from the fairness of the
queues. It says more than the loader's own invariants: which step may change what, and that the
contention the loader records comes from overlapping calls and from nothing else.

### SearchScreen

`TextDidChange` invalidates the timer and schedules another; `TimerFires` is
`findMovie`: `FindByPhrase` or, for the empty text, `ClearMovies`. `Deliver` assigns
the list. A phrase that does not form a URL (a space is enough) is `NoUrl`, and its
search silently does nothing. The user stops typing when the calls of `load` in the
instance are used up (`LoadsLeft`), so the last text always has a call left.

### DetailsScreen

`DidSelect` is the tap in any of the three lists: `loadMovie`, `loadCast`,
`loadReviews`, push; `CallLoad` makes the calls one by one because the session's queue
runs meanwhile (and as long as the instance has a call left, `Idle`). `ViewDidLoad` comes at any time after the tap; it starts cast and
reviews again if the movie is there already, and only from then on do the bindings
exist. `CastDidChange` sets the header and records the visit, provided that the movie
is there; nothing repeats it if it is not. The cache may hold any of the three
responses from an earlier visit.

### HistoryStore

An operation is a visit (a call of `uploadHistoryToFirebase`) or a look at the history (a new
`HistoryVC`, whose `viewDidLoad` calls `getDataFromFirebase`): `GetDocument`, an answer, then the
callback (`RecordVisit`, `ShowHistory`). A read is answered by the server (`ReadServer`), from the
device (`ReadCached`), or fails (`ReadFailed`), which the callbacks take for an empty history. An entry is the
call that recorded it, so that a lost one shows; one visit may make two calls (see `DetailsScreen`).

Firestore's server is external; what its client does to a history is modelled from its source
(`document_reference.cc`, `query_listener.cc`, `local_documents_view.cc`, `patch_mutation.cc`,
`local_store.cc`, `sync_engine.cc`, `remote_store.cc`). A device keeps the document it last saw (`known`)
and a queue of writes per account, both on disk; its reads see the queue of the account that is signed in
(`Overlay`). The queue is sent without waiting for answers, and `Commit` takes its next write. `Acknowledge` takes
the oldest out of the queue when its answer comes. `Break`, `Crash` and `SwitchAccount` end the
stream, and the next one sends all that is unanswered again, from the first: the server then goes back
to an older list before it goes forward. `Reject` drops a write that the server refuses for good
(no document, rules, size), and a new stream begins. Since the answers of a stream come in order, a refusal
finds the refused write at the front. Assumed of the server: what a stream that
broke had carried is committed before the break or not at all. The limit of ten writes in the pipeline is left out,
as is the coalescing of reads.

`tainted` is set when visits overlap, when the account of a device changes under one of its operations,
or when a visit relied on a failed read or on a local document that another device had outdated.
`rejected` holds the calls whose write was refused: a later visit that had read the entry carries it along
all the same, so the properties say nothing of it.

### Account

An attempt is one tap on *Log in*, *Sign up* or *Sign in with last account*.
`AuthDecides` is the server's decision, `AuthAnswers` its arrival: `currentUser`
changes, and a notification and the callback go onto the main queue. The answer may also be lost after
the server accepted (`AuthAnswerLost`): the callback then gets an error. `RunListener` is
the state listener of the profile screen, `RunAuth` the callbacks of the three kinds
of attempt, `DocumentWritten` and `RunSaved` the profile document, `ProfileRead` and
`RunProfile` the profile that the listener asked for. A screen may be left
(`LeaveScreen`): its weak self is then nil, and a sign-up that has not got to its
second step never will. `Relaunch` ends the process and starts it again.

### MainMenu

`ViewDidLoad` asks for the genre names and lays the table out. UITableView is external: a
row that comes onto the screen (`RowEnters`), or every visible row when the table is reloaded
(`Layout`), gets any free cell, with the movies it last showed and with loads it started for
another row. `CellForRow` sets it up: `Setup` starts the load of the category, and the cell gets
the genre names the menu has so far. `Deliver` is the completion of the genres
(`GenresDidChange`, which reloads the table) or of a list (`MoviesDidChange`, which goes to the cell
that asked, whatever it shows by now).

### ProfilePhoto

`PickPhoto` puts the picked photo onto the screen and starts the upload for whoever is signed in at
that moment: `StorePhoto` (`putData`), `AskUrl` (`downloadURL`), `UpdateAvatar` (`updateData`, which
only queues the write) and `SendWrite`, each of the first three with an error path
(`UploadFails`). The write is queued for the user signed in *then* and sent while that user is
signed in, though it goes to the document of the user of the pick. A write counts as sent when it is
answered; resending it changes nothing here, because two unanswered writes to one user's document mean that his
uploads overlap (`torn`), and one write has the same effect twice. A session's avatar is asked
for by the listener (`ListenerIn`), read from the document (`ReadAvatar`), served by Storage
(`ServeAvatar`) and put into the image view by a block on the main queue (`ShowAvatar`), whoever is
signed in by then. The second read of `currentUser`, in `getProfileFromFirebase`, is taken to
return what the listener was called with.

`torn` names the users whose uploads overlapped, failed half-way, or ended under another user;
`raced` is set when a session or a pick begins with an avatar under way, with an upload of that user
under way, or between a change of user and the listener's call.

### ImageCells

`CellForItem` sets a cell up for an item: `PrepareForReuse`, the text (`NameOf`), the download
(`Download`). The constants say which cells are of a class that clears the image (films, actors) and
which show actors, whose name is set only if it has one word or two. `ImageArrives`, `ImageRefused`
and `ShowImage` are the completion handler and its block on the main queue. `crossed` names the
cells that were set up while one of their downloads for another item was under way.

## 3. Runs

| Run | Instance | Checks |
|---|---|---|
| `network_safety` | 5 calls, 2 URLs, 2 versions | `TypeOK`, `CompletesOnce`, `ResultsOnMain`, `ResultsAreServed`, `NoRegression`, `CacheNeverRegresses` |
| `network_liveness` | 3 calls, 2 URLs, 2 versions | `LoadsSettle`, `ImplementsContract` |
| `search` | 3 searches, texts `""`, `a`, `b`, `a b` | `SearchTypeOK`, `ListMatchesText`, `ListNeverRegresses`, `TextIsSearched` |
| `menu_safety` | 2 categories, 2 cells, 5 loads, 1 version | `MenuTypeOK`, `GenresReachCells`, `MoviesMatchTitle` |
| `details` | one visit, 5 loads, 2 versions of movie and cast, any cache | `TableFresh`, `VisitRecorded`, `RecordedAtMostTwice`, `MovieIsShown` |
| `history` | 2 devices, 2 operations | `HistoryTypeOK`, `HistoryComplete`, `AcknowledgedKept`, `ReadsOwnWrites`, `VisitsArrive` |
| `history_failed_read` | 2 devices, 2 operations | `WritesFollowSuccessfulReads`: **violated** |
| `account_safety` | 2 users, 2 attempts, 2 passwords | `AccountTypeOK`, `ViewFollowsSession`, `NameIsUsers`, `SavedPasswordsVerified`, `RegisteredMeansBoth`, `AccountsComplete` |
| `account_liveness` | 1 user, 2 attempts, 2 passwords | `AttemptsAnswered` |
| `account_forms` | 1 user, 1 attempt | `AccountsFromCompleteForms`: **violated** |
| `images` | 2 cells, 3 items, 3 downloads | `CellTypeOK`, `NameAndImageAgree`, `NoForeignImage`, `RowGetsImage` |
| `photo` | 2 users, 2 photos, 2 sessions, any number of relaunches | `PhotoTypeOK`, `AvatarIsStoredPhoto`, `AvatarIsOwn`, `OwnPhotoShown`, `UploadsEnd` |

What they show, beyond that the properties hold:

- The loader keeps its promises *except* for contended URLs. The exception in
  `NoRegression` and `CacheNeverRegresses` is needed: without it TLC finds two
  requests for one URL whose answers cross. The race on the cache can end the process
  but cannot mix up URLs.
- A search list belongs to the text at rest unless earlier searches were still under
  way. With them, any of the old answers may come last; an answer may even refill a
  list that was cleared. And a search that yields nothing leaves the old list.
- A menu cell shows the movies of its category at rest unless it was reused while a load for its
  former row was under way. The exception is needed: the arrival of the genre names reloads the table, which may
  hand the cells out in another order, and the first row's answer then comes under the second's title.
- A visit whose cast arrives before its movie is neither recorded nor given a header,
  and nothing makes up for it; a visit whose movie arrives before `viewDidLoad` loads
  the cast twice, and may be recorded twice.
- The history is complete as long as visits do not overlap, on however many devices
  and through crashes, offline periods, sign-outs and queues that are sent again. It is complete for the
  device that has unanswered writes and for all of them when nobody has any; the server itself may go back from
  `<<o1, o2>>` to `<<o1>>` when a queue is sent again, but never behind what it acknowledged. Overlapping
  visits lose entries, and a refused write loses its entry without a word to the user.
- Sign-ups cut short between account and document, by a lost answer too, stay incomplete; nothing in the
  application repairs them. The old user's name, which nothing clears, can be left in
  the label.

- The avatar in the document is the stored photo unless an upload was torn: two photos picked in a
  row, a failure or the end of the process between storing and writing, or a user who signed out
  meanwhile. Whatever happens, a document never refers to a photo uploaded for another user, because the
  callback captured the user of the pick, nor to one that is still on its way to Storage; but the photo it
  refers to may be one that a later pick has replaced. On the screen an avatar that was under way may replace a photo the user
  picked since, or come up under the next user.
- A cell shows another item's image only if a download was under way when it was reused or, in the
  lists that do not clear it, until its own arrives (for good, if it has none). An
  actor with a name of three words appears under the name of the cell's former actor.

Two runs are violated, and each is a finding about the code:

1. `history_failed_read`. The callback of `getDocument` ignores its error and takes a
   failed read for an empty history; its write then replaces the whole history. The
   documentation of `getDocument` describes the callback as one that runs "once the
   document has been successfully read".
2. `account_forms`. The registration screen says "Please fill in all fiels" and creates
   the account all the same; the login screen, with the same check, returns.

### Bounds

- *Loader*: five calls give two overlapping requests for one URL, a hit in between, and
  a second URL whose write is under way meanwhile; two versions give "older" and
  "newer". A third URL or version adds no new relation between any two calls. The
  theorems lift all three bounds.
- *Search*: three searches allow a phrase, another, and the first again or a cleared list,
  with answers crossing. One text has no URL.
- *Menu*: five loads are the genre names, two rows and their reload; or one row, another that takes
  its cell, and the reload. `LoadsLeft` is the bound on scrolling. One version is enough: the properties
  tell categories apart, not versions.
- *Details*: a visit makes at most five loads, so five is exact. Versions matter when the
  second load of the cast returns something else than the first, or the movie is newer than what
  the cache holds: `Changing` names the two URLs whose content changes; the reviews take no part in a
  guard.
- *History*: two devices and two operations: a visit on each device, two on one with both writes on the
  stream, or a visit and a look. The account, crashes, breaks and refusals are unbounded. With three operations
  (two visits and a look, or a visit behind a queue of two) there are 5,279,240 states, too many for
  `VisitsArrive` in the time of a run; the three invariants, `ReadsOwnWrites` and `HistoryInv` were checked on them once, with no
  violation, and the theorems hold for any number.
- *Accounts*: two users and two attempts: one user signing in over the other, or one
  signing up twice. Two passwords: a current and an outdated one.
- *Photo*: two photos of one user overlap, or one of each user cross; two sessions are a user and
  the next, or the same one again. One user has a photo from former times, one has none. The
  process may be restarted any number of times before the last session. Photos are
  picked in a fixed order, since which is which makes no difference.
- *Images*: a cell that clears and one that does not; three downloads are two that cross in one
  cell and one in the other. The items: with an image and a short name, with an image and a long
  name, without an image.

Calls, cells, operations, devices, attempts and users are interchangeable; the runs without
liveness use that symmetry, the others cannot. `SearchScreen`, `DetailsScreen` and `MainMenu` pick the
next call with `CHOOSE`, so their calls are numbers and take no part in a symmetry; the same holds for the
downloads of `ImageCells`.

Deadlock is not checked where the system may rest: nothing makes a user tap or type.

### Fairness

- The main run loop drains its queue and fires timers: weak fairness of `RunMain`,
  `Deliver`, `TimerFires`, of UIKit laying out a pushed screen, and of the handler that is
  running.
- `URLSession` ends every task, with an answer or at its timeout, and runs its handlers:
  weak fairness of each call's `Answer` or session step.
- Firestore calls back for every `getDocument`. In `HistoryStore` streams may break and the user sign out
  any number of times, so the server's next commit and answer are not enabled all the time: strong fairness of
  `Commit` and `Acknowledge`. It says that if a stream is open time and again, one lives long enough for the next write, which is
  what the retries with growing delays (`remote_store.cc`, `HandleWriteError`) work towards. Where the queue is a
  simple one (`ProfilePhoto`), weak fairness of `SendWrite`: it is sent while its user is signed in. Auth answers every request, and so does
  Storage.
- The user is never assumed to act, the server never to change its content, and no
  document write to be committed within any time (`AttemptsAnswered` counts a sign-up that
  is waiting for its document as answered).

`trapped`, the end of the process in the race on the cache, is an accepted end in every
liveness property of the loader and the screens above it: the code cannot exclude it.

## 4. Proofs

TLC checks small instances; the theorems hold for every value of the constants that satisfies the
named assumptions of the modules. These assumptions say that the special values (`NoUrl`, `NoUser`, `NoRow`,
`NoPhoto`...) are none of the ordinary ones, that bounds are natural numbers, and which URL belongs
to what; TLC evaluates them in every run. The sets need not be finite.

Each proof module has the same layout: the inductive invariant as a conjunction of named parts, one
lemma per action (or group of actions that change the same variables) saying that it keeps the
invariant, the theorem that the invariant always holds, and the properties as its consequences. Every
inductive invariant was also checked by TLC, with no violation, on the instance of the component's run.

| Module | Invariant | Theorems, with the property each states |
|---|---|---|
| `NetworkServiceProofs` | `IInv` | `TypeCorrect` (`TypeOK`), `CompletionOnce` (`CompletesOnce`), `OffMainIsEmpty` (`ResultsOnMain`), `ResultsServed` (`ResultsAreServed`), `DeliveriesInOrder` (`NoRegression`), `CacheMonotone` (`CacheNeverRegresses`), `LoaderKeepsContract` (`Spec => ContractSpec`) |
| `SearchScreenProofs` | `SearchInv` | `SearchUsesLoader` (`SearchSpec => Spec`), `OneTimer` (`SearchTypeOK`), `RestingListMatches` (`ListMatchesText`), `ListMonotone` (`ListNeverRegresses`) |
| `DetailsScreenProofs` | `DetailsInv` | `TableShowsModel` (`TableFresh`), `VisitGetsRecorded` (`VisitRecorded`), `NeverRecordedThrice` (`RecordedAtMostTwice`) |
| `MainMenuProofs` | `MenuInv` | `MenuUsesLoader` (`MenuSpec => Spec`), `OneCellPerRow` (`MenuTypeOK`), `GenresEverywhere` (`GenresReachCells`), `MoviesUnderTheirTitle` (`MoviesMatchTitle`) |
| `HistoryStoreProofs` | `HistoryInv` | `HistoryTypeCorrect` (`HistoryTypeOK`), `UntaintedHistoryComplete` (`HistoryComplete`), `AcknowledgedStay` (`AcknowledgedKept`), `DeviceReadsOwnWrites` (`ReadsOwnWrites`) |
| `AccountProofs` | `AccountInv` | `AccountTypeCorrect` (`AccountTypeOK`), `ButtonsFollowSession` (`ViewFollowsSession`), `NameOfSession` (`NameIsUsers`), `OnlyVerifiedSaved` (`SavedPasswordsVerified`), `ReportedMeansRegistered` (`RegisteredMeansBoth`), `NoOtherHalfRegistration` (`AccountsComplete`) |
| `ProfilePhotoProofs` | `PhotoInv` | `PhotoTypeCorrect` (`PhotoTypeOK`), `AvatarOfOwner` (`AvatarIsOwn`), `DocumentFollowsStorage` (`AvatarIsStoredPhoto`), `OwnPhotoOnScreen` (`OwnPhotoShown`) |
| `ImageCellsProofs` | `CellsInv` | `CellTypeCorrect` (`CellTypeOK`), `TextAndImageOfOneItem` (`NameAndImageAgree`), `NoForeignImageComes` (`NoForeignImage`) |

### The loader

None of the properties is inductive by itself. That a completion runs once depends on the
main queue holding each call once and only calls that are still waiting; that a result
belongs to its URL depends on what the cache and the calls under way hold. `IInv` adds:

- `QueueInv`: the main queue holds only queued calls, each once; completed calls are
  out of it; at most one handler is inside the session's queue.
- `ServedInv`: neither the cache nor a call in hand holds content the server did not
  have for that URL.
- `OrderInv`: for an uncontended URL, there is at most one fetch, and along
  *delivered, queued, cached, being fetched* contents go from old to new. This is the heart:
  a delivery takes the oldest queued element, which is no older than anything delivered; a hit
  appends a copy of the cache, which is no older than anything queued; and a fetch that is
  stored, hopped and queued is the newest there is. Racing reads fit in because inside the
  write of *another* entry they return the entry or nothing, and a read inside the write of
  its own entry makes the URL contended.

The order is split into one predicate per pair of neighbours (`OneFetch`, `FetchedNewest`,
`QueuedOlder`, `QueueSorted`, `DoneOlder`, `DoneBeforeQueue`), and three lemmas say what a
step does to them: it leaves the order alone (`OrderFrame`), puts the newest content on the
queue (`OrderQueue`), or moves the head of the queue to the deliveries (`OrderDone`).

`LoaderKeepsContract`: with `Status` in place of the phases, the initial state is the contract's and every step
(`RefinementStep`) is one of the contract's or leaves all its variables alone. A call made while
the URL is written or fetched is a `Call` that may spoil the order, because a writing or fetching call
waits; the race that ends the process is `Die` for the same reason; `RunMain` is a `Complete`,
because by `ServedInv` and `DoneBeforeQueue` the block at the head carries content of its URL that
is no older than anything delivered for it. One fact is missing from `IInv`: that the content is not nil
(`BodyPositive`), proved beside it. The fairness half of `ImplementsContract` is left to
the run `network_liveness`. The sequences enter only through `AppendElems` and `TailElems`.

### The screens above the loader

Each of the three first shows that its steps are steps of the loader, or none; the work is in the
call that `FreshLoad` stands for, which exists because the screen acts only while one is left. So `IInv` holds under
the screen, and for search and menu the whole of the loader's specification does
(`SearchUsesLoader`, `MenuUsesLoader`). The details screen starts with a cache that an earlier visit filled, which is not
the loader's initial state, so `IInv` is shown for its own. What the loader's steps do to
the calls of a screen is said once, by `LoadFrame`, `BackgroundFrame` and `RunMainFrame`.

- *Search.* `ListMatchesText` is about rest, so the invariant has to say what holds on the way: with no timer
  pending the text was searched for (`TextSearched`); and if the last search overlapped none, the only call
  under way is its own, and the list is its result once that has come (`AloneInv`). `ListNeverRegresses` needs that the
  list was delivered (`ListDelivered`); the loader's `DoneBeforeQueue` then orders it before whatever comes next.
- *Details.* `VisitRecorded` looks at the end of a visit. `RecordInv` says how it gets there: before
  `viewDidLoad` a cast that came found the movie, so `viewDidLoad` will ask for the cast again; after it, until
  the visit is recorded, a cast is still to be asked for or to come. `CallsInv` counts the calls for the cast by
  stage (none, one, at most two) and `UploadsInv` ties each record to a call of its own, which gives the bound of two.
  A movie that arrives is a movie (`BodyPositive`), or a later `viewDidLoad` would not load again.
- *Menu.* `HandOutInv`: cells in use show rows on the screen, and those about to be set up are free, for rows that no
  cell shows; without it two cells could show one row after a reload. `RowInv`: a cell that is not stale asked last for
  the movies of its row and waits for those of no other row, so whatever comes into it is its row's. This also
  shows that the rest asked for in `MoviesMatchTitle` (`Pending = {}`) is not needed for a single cell.

### The others

- *History.* Whatever overlaps or fails, every list anywhere is in the order of recording (`OrderInv`), because a
  list grows only at its end and by the call recorded last. While nothing is tainted, one device at a time has
  unanswered writes (`AloneInv`), and each write in its queue has every recorded entry that was not refused, except those
  written behind it (`WritesInv`). That is what makes sending again harmless: wherever in the queue the stream has got, the
  server is at that write (`ServerInv`), so what it lacks is still queued. The invariant survives an
  answer because the server was at a later write or the same; a refusal, because the refused call moves to `rejected`; and a new
  visit, because it read the end of the queue or, if that was empty, a server that lacked nothing (`SnapInv`). A device's
  own document lacks none of its entries but queued ones (`KnownInv`): an answer brings the document to the answered write, unless it
  came over the stream after a later one (`seen`).
- *Accounts.* `currentUser` never changes without a notification behind it on the queue (`FollowInv`), and the only
  profile on its way is that of the user last notified of, unless `mixed` (`NameInv`). An attempt's answer is on the queue
  once, and only while the attempt waits for it (`FormInv`). An accepted password does not exceed the account's, which only grows
  (`PasswordInv`). A new account has its document, was abandoned, or has exactly one attempt that still owes it one
  (`DocumentInv`): exactly one, because an account is created once.
- *Photo.* `OwnInv` carries the owner along: what is stored, what a URL refers to and what is in a document are
  of the user of the pick, whose upload has left `putting`, and Storage has a photo of every user whose document or URL refers to one. `QueueInv`: a queued write belongs to
  an upload in its last step and is queued once. `UploadInv`: an untorn user has one upload, which finds document and
  Storage in agreement, and takes first Storage and then the document further. `ScreenInv`: a session that began at rest has one
  download, its own, and nothing of its user is uploaded meanwhile, so that what it brings is what is stored;
  afterwards the view shows that or a later pick.
- *Images.* `PendingInv`: what is on its way to a cell that was not reused amid a download is for the item the cell
  shows. `QueueInv` keeps the image on the main queue one that has arrived and was not shown.

Only model-checked, because the prover does not reason about fairness: `LoadsSettle`, the fairness half of
`ImplementsContract`, `TextIsSearched`, `MovieIsShown`, `VisitsArrive`, `AttemptsAnswered`, `RowGetsImage`,
`UploadsEnd`. The two properties that are violated, `WritesFollowSuccessfulReads` and `AccountsFromCompleteForms`, have
nothing to prove.

## 5. Not modelled

- Decoding of responses: a response decodes or it does not (`Undecodable`). The cache stores
  one type per URL, because every URL is loaded with one model type, so the cast `as? T`
  fails only for a missing entry. `genresId[0]` in the menu's cells traps on an empty genre list;
  which lists the server sends is not part of the model.
- Layout, navigation styling, xibs, focus and keyboard: no state the properties depend on.
- `App/` and the unused views.
- `Pods/`: 670,000 lines of third-party libraries (Firebase, gRPC, BoringSSL, LevelDB, Abseil,
  Locksmith), nearly all of the repository by size and none of it this program's logic. Only
  the client functions that decide what the application sees are modelled: Auth's sign-in callback
  and state listener in `Account`, Firestore's reads, local view, queues of writes and write stream in
  `HistoryStore`, and the queue in `ProfilePhoto`.
- Details screen and history together: `RecordedAtMostTwice` bounds the calls of
  `uploadHistoryToFirebase` that one visit makes, and `HistoryStore` shows what overlapping calls do; the
  two calls of one visit overlap like the calls of two visits.

## 6. Plan

Done: all modules of section 2, and a theorem for every safety property of the passing runs.

Several safety properties except the race that their hazard names (`contended`, `castFirst`, `mixed`, `stale`, `crossed`,
`torn`, `raced`, `tainted`), because the code does break the relation there and neither a comment nor a test claims otherwise:
such a property says that nothing else breaks it. The notes of the hazards in `PROJECT.json` say which.

Left: contracts for the history and the accounts, as `LoadContract` is one for the loader, with their refinement
proved; and shorter proofs of `AccountProofs` and `ProfilePhotoProofs`, where several lemmas say for one action what a common
frame lemma could say for all.
