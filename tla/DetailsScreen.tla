--------------------------- MODULE DetailsScreen ---------------------------
(***************************************************************************)
(* Screens/DetailsVC/DetailsVC.swift and DetailsViewModel.swift: one       *)
(* details screen, from the tap on a movie in the menu, search or history  *)
(* screen to its last completion, on top of NetworkService.                *)
(*                                                                         *)
(* The tap starts three loads (movie, cast, reviews) on a screen whose     *)
(* view does not exist yet; UIKit (external) calls viewDidLoad when it     *)
(* lays the pushed screen out, after the tap's handler and before or after *)
(* any completion.  viewDidLoad reloads cast and reviews if the movie is   *)
(* there already, then binds the view to the view model.  The arrival of   *)
(* the cast is what sets the header and records the movie in the user's    *)
(* history (see HistoryStore), and only if the movie is there by then.     *)
(***************************************************************************)
EXTENDS NetworkService

CONSTANTS Movie, Cast, Reviews,  \* the three URLs of the movie
          Changing               \* bound: the URLs whose content changes

ASSUME ResourcesAssumption ==
  /\ {Movie, Cast, Reviews} = Urls
  /\ Movie # Cast /\ Movie # Reviews /\ Cast # Reviews
  /\ Changing \subseteq Urls

VARIABLES
  stage,      \* "none", "pushed" or "loaded" (viewDidLoad has run: bound)
  todo,       \* the loads the handler on the main thread still has to start
  model,      \* viewModel.movie, .cast and .reviews; Nil where still absent
  table,      \* what the table was last filled from
  header,     \* headerView.setup has been called
  uploads,    \* history: calls of uploadHistoryToFirebase
  castFirst   \* history: a cast arrived before the movie

detailsVars == <<stage, todo, model, table, header, uploads, castFirst>>
allVars == <<vars, detailsVars>>

Blank == [u \in Urls |-> Nil]

\* The cache may hold any of the three from an earlier visit.
DetailsInit ==
  /\ server = [u \in Urls |-> 1]
  /\ cache \in [Urls -> {Nil, 1}]
  /\ phase = [l \in Loads |-> "idle"]
  /\ url = [l \in Loads |-> NoUrl]
  /\ body = [l \in Loads |-> Nil]
  /\ main = <<>>
  /\ done = <<>>
  /\ contended = {}
  /\ trapped = FALSE
  /\ stage = "none"
  /\ todo = <<>>
  /\ model = Blank
  /\ table = Blank
  /\ header = FALSE
  /\ uploads = 0
  /\ castFirst = FALSE

-----------------------------------------------------------------------------
\* didSelect and didSelectRowAt: loadMovie, loadCast, loadReviews, push.
DidSelect ==
  /\ stage = "none"
  /\ stage' = "pushed"
  /\ todo' = <<Movie, Cast, Reviews>>
  /\ UNCHANGED <<vars, model, table, header, uploads, castFirst>>

Idle == {l \in Loads : phase[l] = "idle"}

\* The next call of load; which element of Loads stands for it is immaterial.
FreshLoad == CHOOSE l \in Idle : TRUE

\* The handler on the main thread makes its next call of load; meanwhile no
\* other block runs on the main thread, but the session's queue goes on.
\* Bound: Loads has an element for every call of a visit.
CallLoad ==
  /\ todo # <<>> /\ Idle # {}
  /\ Load(FreshLoad, Head(todo))
  /\ todo' = Tail(todo)
  /\ UNCHANGED <<stage, model, table, header, uploads, castFirst>>

\* Mutant: viewDidLoad loads nothing.
ReloadNothing == <<>>

\* DetailsVC.load(): guard let id = viewModel.movie?.id else { return }
Reload == IF model[Movie] = Nil THEN <<>> ELSE <<Cast, Reviews>>

\* numberOfRowsInSection and cellForRowAt: one row for the movie, empty while there
\* is none, and one for cast and reviews.
Rows == model

\* viewDidLoad: setupTableView, load, bind; the table then asks for its rows.
ViewDidLoad ==
  /\ stage = "pushed"
  /\ todo = <<>>
  /\ stage' = "loaded"
  /\ todo' = Reload
  /\ table' = Rows
  /\ UNCHANGED <<vars, model, header, uploads, castFirst>>

\* Mutant: only the movie's arrival reloads the table.
OnlyMovieReloads(u) ==
  /\ u # Cast
  /\ table' = IF stage = "loaded" /\ u = Movie THEN model' ELSE table
  /\ UNCHANGED <<header, uploads, castFirst>>

\* Mutant: the movie's arrival records it, too.
MovieAlsoRecords(u) ==
  /\ u # Cast
  /\ table' = IF stage = "loaded" THEN model' ELSE table
  /\ uploads' = IF stage = "loaded" /\ u = Movie THEN uploads + 1 ELSE uploads
  /\ UNCHANGED <<header, castFirst>>

\* Mutant: the movie's arrival reloads nothing.
OnlyReviewsReload(u) ==
  /\ u # Cast
  /\ table' = IF stage = "loaded" /\ u = Reviews THEN model' ELSE table
  /\ UNCHANGED <<header, uploads, castFirst>>

\* movieDidChange and reviewsDidChange: reloadData, once bound.
MovieOrReviewsDidChange(u) ==
  /\ u # Cast
  /\ table' = IF stage = "loaded" THEN Rows' ELSE table
  /\ UNCHANGED <<header, uploads, castFirst>>

\* castDidChange: the guard returns, with no reload, while there is no movie.
CastDidChange(u) ==
  /\ u = Cast
  /\ IF stage = "loaded" /\ model[Movie] # Nil
     THEN header' = TRUE /\ uploads' = uploads + 1 /\ table' = Rows'
     ELSE UNCHANGED <<header, uploads, table>>
  /\ castFirst' = (castFirst \/ model[Movie] = Nil)

\* A completion on the main thread sets movie, cast or reviews, whose didSet
\* calls the binding.  (A completion without a result only prints.)
Deliver ==
  /\ todo = <<>>
  /\ RunMain
  /\ LET l == Head(main)
         u == url[l]
     IN  /\ model' = [model EXCEPT ![u] = body[l]]
         /\ MovieOrReviewsDidChange(u) \/ CastDidChange(u)
  /\ UNCHANGED <<stage, todo>>

Background ==
  /\ \/ \E u \in Changing : ServerChange(u)
     \/ \E l \in Loads : Answer(l) \/ SessionStep(l)
  /\ UNCHANGED detailsVars

DetailsNext ==
  /\ ~trapped
  /\ DidSelect \/ CallLoad \/ ViewDidLoad \/ Deliver \/ Background

\* The main thread runs its handlers to the end, lays out the pushed screen and
\* drains its queue; URLSession ends every task.  Nothing makes the user tap.
DetailsFairness ==
  /\ WF_allVars(~trapped /\ (CallLoad \/ ViewDidLoad))
  /\ WF_allVars(~trapped /\ Deliver)
  /\ \A l \in Loads :
        WF_allVars(~trapped /\ (Answer(l) \/ SessionStep(l)) /\ UNCHANGED detailsVars)

DetailsSpec == DetailsInit /\ [][DetailsNext]_allVars
DetailsFairSpec == DetailsSpec /\ DetailsFairness

-----------------------------------------------------------------------------
(* Properties.                                                             *)

\* Once the screen is up and the movie is there, the table shows exactly what
\* the view model holds: no arrival is left out, although arrivals before
\* viewDidLoad find no binding and a cast without a movie reloads nothing.
TableFresh == stage = "loaded" /\ model[Movie] # Nil => table = model

CastLoads == {l \in Loads : url[l] = Cast}
CastDelivered == CastLoads # {} /\ \A l \in CastLoads : phase[l] = "completed"

\* When the movie came before the cast, in whatever order the two relate to
\* viewDidLoad, the visit is recorded in the history and the header is set by
\* the time every load of the cast has been delivered.  (When the cast comes
\* first, and stays first, neither ever happens: nothing repeats castDidChange.)
VisitRecorded ==
  (stage = "loaded" /\ todo = <<>> /\ model[Movie] # Nil /\ CastDelivered /\ ~castFirst)
    => uploads >= 1 /\ header

\* A visit is recorded at most once per load of the cast: twice only when
\* viewDidLoad found the movie and loaded the cast a second time.
RecordedAtMostTwice ==
  uploads <= 2 /\ (uploads = 2 => Cardinality(CastLoads) = 2)

\* The movie gets onto the screen once it has arrived.
MovieIsShown == (model[Movie] # Nil) ~> (table[Movie] # Nil \/ trapped)
=============================================================================
