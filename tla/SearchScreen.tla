---------------------------- MODULE SearchScreen ----------------------------
(***************************************************************************)
(* Screens/SearchVC/SearchVC.swift and SearchViewModel.swift: search while *)
(* you type, on top of NetworkService.                                     *)
(*                                                                         *)
(* Each change of the text invalidates the pending timer and schedules a   *)
(* new one for half a second later; the timer calls findMovie, which loads *)
(* the results of the phrase or, for an empty phrase, clears the list.  A  *)
(* load is neither cancelled nor compared with the current phrase, so a    *)
(* late answer to an old phrase replaces the list.                         *)
(*                                                                         *)
(* The screen is never released (its bindings capture self strongly), so   *)
(* `self?` is always there.  The list is [] or the results of one URL.     *)
(***************************************************************************)
EXTENDS NetworkService

CONSTANTS Phrases,   \* what can stand in the search bar
          Empty,     \* the empty text
          UrlOf      \* URL(string: "...&query=\(searchPhrase)"): NoUrl for
                     \* the phrases that do not form a URL (a space, an umlaut)

ASSUME PhrasesAssumption ==
  /\ Empty \in Phrases
  /\ UrlOf \in [Phrases -> Urls \cup {NoUrl}]

VARIABLES
  text,      \* searchBar.text
  timers,    \* the live timers, each with the text its block captured
  movies,    \* viewModel.movies: NoMovies or the results of a load
  searched,  \* history: the phrase of the last findMovie
  latest,    \* history: the load the last findMovie started, if any
  overlap    \* history: earlier loads were under way at the last findMovie

screenVars == <<text, timers, movies, searched, latest, overlap>>
allVars == <<vars, screenVars>>

NoMovies == [url |-> NoUrl, val |-> Nil]

\* Types; and however the user types, what a pending timer will search for is what
\* the search bar shows: textDidChange never leaves an older timer alive.
SearchTypeOK ==
  /\ TypeOK
  /\ text \in Phrases
  /\ timers \in {<<>>, <<text>>}   \* at most one, for the text in the search bar
  /\ movies \in [url : Urls \cup {NoUrl}, val : Nat]
  /\ searched \in Phrases
  /\ latest \in SUBSET Loads
  /\ overlap \in BOOLEAN

SearchInit ==
  /\ Init
  /\ text = Empty
  /\ timers = <<>>
  /\ movies = NoMovies
  /\ searched = Empty
  /\ latest = {}
  /\ overlap = FALSE

-----------------------------------------------------------------------------
\* Bound: the user stops typing when no call of load is left for the phrase.
LoadsLeft == \E l \in Loads : phase[l] = "idle"

\* The loads whose completion may still run.
Pending == {l \in Loads : phase[l] \notin {"idle", "completed", "failed", "dropped"}}

\* Mutant: the old timer is not invalidated.
TextDidChangeKeepingTimer(p) ==
  /\ LoadsLeft
  /\ Len(timers) < 2
  /\ text' = p
  /\ timers' = Append(timers, p)
  /\ UNCHANGED <<vars, movies, searched, latest, overlap>>

\* Mutant: the old timer is invalidated and none is scheduled for a shorter text.
TextDidChangeWithoutTimer(p) ==
  /\ LoadsLeft
  /\ text' = p
  /\ timers' = IF p = Empty THEN <<>> ELSE <<p>>
  /\ UNCHANGED <<vars, movies, searched, latest, overlap>>

\* searchBar(_:textDidChange:)
TextDidChange(p) ==
  /\ LoadsLeft
  /\ text' = p
  /\ timers' = <<p>>
  /\ UNCHANGED <<vars, movies, searched, latest, overlap>>

\* The next call of load; which element of Loads stands for it is immaterial.
FreshLoad == CHOOSE l \in Loads : phase[l] = "idle"

\* findMovie of a non-empty phrase: loadMovies
FindByPhrase(p) ==
  /\ p # Empty
  /\ Load(FreshLoad, UrlOf[p])
  /\ latest' = {FreshLoad}
  /\ UNCHANGED movies

\* Mutant: nothing is done for an empty phrase.
ClearNothing(p) ==
  /\ p = Empty
  /\ latest' = {}
  /\ UNCHANGED <<vars, movies>>

\* findMovie(""): movies = []
ClearMovies(p) ==
  /\ p = Empty
  /\ movies' = NoMovies
  /\ latest' = {}
  /\ UNCHANGED vars

\* The timer's block runs on the main run loop.
TimerFires ==
  /\ timers # <<>>
  /\ LET p == Head(timers) IN
       /\ FindByPhrase(p) \/ ClearMovies(p)
       /\ searched' = p
  /\ timers' = Tail(timers)
  /\ overlap' = (Pending # {})
  /\ UNCHANGED text

\* A completion on the main thread: self?.movies = movies.results
Deliver ==
  /\ RunMain
  /\ LET l == Head(main) IN movies' = [url |-> url[l], val |-> body[l]]
  /\ UNCHANGED <<text, timers, searched, latest, overlap>>

\* Steps of the network and of the session's queue.  A completion without a
\* result only prints the error.
Background ==
  /\ \/ \E u \in Urls : ServerChange(u)
     \/ \E l \in Loads : Answer(l) \/ SessionStep(l)
  /\ UNCHANGED screenVars

SearchNext ==
  /\ ~trapped
  /\ \/ \E p \in Phrases : TextDidChange(p)
     \/ TimerFires
     \/ Deliver
     \/ Background

\* The run loop fires timers and drains the main queue; URLSession ends every
\* task.  Nothing makes the user type.
SearchFairness ==
  /\ WF_allVars(~trapped /\ TimerFires)
  /\ WF_allVars(~trapped /\ Deliver)
  /\ \A l \in Loads :
        WF_allVars(~trapped /\ (Answer(l) \/ SessionStep(l)) /\ UNCHANGED screenVars)

SearchSpec == SearchInit /\ [][SearchNext]_allVars
SearchFairSpec == SearchSpec /\ SearchFairness

-----------------------------------------------------------------------------
(* Properties.                                                             *)

Quiet == timers = <<>> /\ Pending = {} /\ ~trapped

\* When everything has come to rest, the list belongs to the text in the search
\* bar: it is empty for an empty text, and the content its load returned for a
\* phrase.  Two cases are excepted, and they are the ways this screen goes wrong:
\* earlier loads were still under way when the phrase was searched (any of them
\* may answer last, and even refill a list that was cleared), or the load of the
\* phrase gave no result (the old list then stays).
ListMatchesText ==
  (Quiet /\ ~overlap) =>
     IF text = Empty THEN movies = NoMovies
     ELSE \A l \in latest :
            phase[l] = "completed" => movies = [url |-> UrlOf[text], val |-> body[l]]

\* While a phrase's list is shown, a later completion for the same phrase (typed
\* again, so served by a second load or by the cache) never puts an older list in
\* its place, unless its URL was contended (see NetworkService).
ListNeverRegresses ==
  [][movies'.url = movies.url /\ movies.url \notin contended => movies'.val >= movies.val]_movies

\* The text the user leaves in the search bar is searched for, unless the user
\* types on (or the process died in the race on the cache).
TextIsSearched ==
  \A p \in Phrases : (text = p) ~> (searched = p \/ text # p \/ trapped)
=============================================================================
