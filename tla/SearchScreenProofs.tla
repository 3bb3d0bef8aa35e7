------------------------- MODULE SearchScreenProofs -------------------------
(***************************************************************************)
(* What the search screen promises, for any phrases, URLs and calls.       *)
(*                                                                         *)
(* The screen takes steps of the loader, so the loader's inductive         *)
(* invariant holds under it (SearchRefinesLoader).  On top of it SearchInv *)
(* relates the list on the screen to the calls the screen has made.        *)
(***************************************************************************)
EXTENDS SearchScreen, NetworkServiceProofs

\* There is a call of load left for the pending timer.
TimerHasLoad == timers # <<>> => LoadsLeft

\* The list is empty or some completion's result.
ListDelivered ==
  \/ movies = NoMovies
  \/ \E i \in DOMAIN done : movies = [url |-> url[done[i].load], val |-> done[i].val]

\* No timer is pending: the text in the search bar was searched for.
TextSearched == timers = <<>> => searched = text

\* The last search's call is for its phrase; the empty phrase makes none.
LatestInv ==
  /\ searched = Empty => latest = {}
  /\ \A l \in latest : /\ \A m \in latest : l = m
                       /\ phase[l] # "idle"
                       /\ phase[l] # "dropped" => url[l] = UrlOf[searched]

\* If the last search overlapped no earlier one, only its own call may be under
\* way, and the list is empty after a search of nothing and the call's result
\* after its completion.
AloneInv ==
  ~overlap =>
    /\ \A l \in Pending : l \in latest
    /\ searched = Empty => movies = NoMovies
    /\ \A l \in latest :
         phase[l] = "completed" => movies = [url |-> UrlOf[searched], val |-> body[l]]

SearchInv ==
  /\ IInv /\ SearchTypeOK
  /\ TimerHasLoad /\ ListDelivered /\ TextSearched
  /\ ~trapped => LatestInv /\ AloneInv

-----------------------------------------------------------------------------
\* The call FreshLoad stands for exists and is unused while one is left.
LEMMA FreshLoadIdle ==
  ASSUME LoadsLeft
  PROVE  FreshLoad \in Loads /\ phase[FreshLoad] = "idle"
  BY DEF LoadsLeft, FreshLoad

\* The timer that fires searches for the text in the search bar.
LEMMA TimerText ==
  ASSUME SearchInv, TimerFires
  PROVE  /\ Head(timers) = text /\ timers' = <<>>
         /\ LoadsLeft
         /\ UrlOf[text] \in Urls \cup {NoUrl}
<1>1. timers = <<text>>
  BY DEF SearchInv, SearchTypeOK, TimerFires
<1>2. LoadsLeft
  BY DEF SearchInv, TimerHasLoad, TimerFires
<1>3. timers' = Tail(timers)
  BY DEF TimerFires
<1> QED
  BY <1>1, <1>2, <1>3, PhrasesAssumption DEF SearchInv, SearchTypeOK

\* Every step of the screen is a step of the loader, or none.
LEMMA SearchRefinesLoader ==
  ASSUME SearchInv, [SearchNext]_allVars
  PROVE  [Next]_vars
<1>1. ASSUME TimerFires, ~trapped PROVE [Next]_vars
  <2>1. FreshLoad \in Loads /\ UrlOf[text] \in Urls \cup {NoUrl}
    BY <1>1, TimerText, FreshLoadIdle
  <2>2. FindByPhrase(text) \/ ClearMovies(text)
    BY <1>1, TimerText DEF TimerFires
  <2>3. CASE FindByPhrase(text)
    BY <1>1, <2>1, <2>3 DEF FindByPhrase, Next
  <2>4. CASE ClearMovies(text)
    BY <2>4 DEF ClearMovies
  <2> QED
    BY <2>2, <2>3, <2>4
<1> QED
  BY <1>1 DEF SearchNext, TextDidChange, Deliver, Background, Next, allVars

\* The initial state satisfies the invariant.
LEMMA SearchInitInv == SearchInit => SearchInv
<1> SUFFICES ASSUME SearchInit PROVE SearchInv
  OBVIOUS
<1>1. IInv /\ TypeOK
  BY InitIInv DEF SearchInit, IInv
<1>2. overlap \in BOOLEAN
  BY Zenon DEF SearchInit
<1>3. SearchTypeOK
  BY <1>1, <1>2, PhrasesAssumption DEF SearchInit, SearchTypeOK, NoMovies, Nil
<1>4. \A l \in Loads : phase[l] = "idle"
  BY DEF SearchInit, Init
<1>5. LatestInv /\ AloneInv
  BY <1>4 DEF SearchInit, LatestInv, AloneInv, Pending
<1> QED
  BY <1>1, <1>3, <1>5 DEF SearchInit, SearchInv, TimerHasLoad, ListDelivered, TextSearched

\* What was delivered stays in the history, so an unchanged list stays delivered.
LEMMA ListDeliveredKept ==
  ASSUME SearchInv, [Next]_vars, movies' = movies
  PROVE  ListDelivered'
<1>1. TypeOK /\ QueueInv /\ ListDelivered
  BY DEF SearchInv, IInv
<1>2. \A i \in DOMAIN done : /\ i \in DOMAIN done' /\ done'[i] = done[i]
                             /\ url'[done[i].load] = url[done[i].load]
  BY <1>1, DoneKept, Frame, QueueFacts
<1> QED
  BY <1>1, <1>2 DEF ListDelivered, NoMovies

\* The user types: only text and timer change.
LEMMA TypingStep ==
  ASSUME SearchInv, NEW p \in Phrases, TextDidChange(p)
  PROVE  SearchInv'
<1>1. /\ UNCHANGED <<server, cache, phase, url, body, main, done, contended, trapped>>
      /\ UNCHANGED <<movies, searched, latest, overlap>>
      /\ text' = p /\ timers' = <<p>> /\ LoadsLeft
  BY DEF TextDidChange, vars
<1>2. IInv'
  BY <1>1, IInvStep DEF SearchInv, vars
<1>3. SearchTypeOK'
  BY <1>1, <1>2 DEF SearchInv, SearchTypeOK, IInv
<1>4. TimerHasLoad' /\ ListDelivered' /\ TextSearched'
  BY <1>1 DEF SearchInv, TimerHasLoad, LoadsLeft, ListDelivered, TextSearched, NoMovies
<1>5. ~trapped' => LatestInv' /\ AloneInv'
  BY <1>1 DEF SearchInv, LatestInv, AloneInv, Pending
<1> QED
  BY <1>2, <1>3, <1>4, <1>5 DEF SearchInv

\* The timer fires.
LEMMA TimerStep ==
  ASSUME SearchInv, ~trapped, TimerFires
  PROVE  SearchInv'
<1>a. TypeOK /\ QueueInv /\ SearchTypeOK /\ LatestInv /\ AloneInv
  BY DEF SearchInv, IInv
<1>b. [Next]_vars
  BY SearchRefinesLoader DEF SearchNext
<1>1. /\ searched' = text /\ text' = text /\ timers' = <<>>
      /\ overlap' = (Pending # {})
      /\ FindByPhrase(text) \/ ClearMovies(text)
  BY TimerText DEF TimerFires
<1>2. FreshLoad \in Loads /\ phase[FreshLoad] = "idle" /\ UrlOf[text] \in Urls \cup {NoUrl}
  BY TimerText, FreshLoadIdle
<1>3. IInv' /\ TypeOK'
  BY <1>b, IInvStep DEF SearchInv, IInv
<1>4. overlap' \in BOOLEAN
  BY <1>1, Zenon
<1>5. NoMovies \in [url : Urls \cup {NoUrl}, val : Nat]
  BY DEF NoMovies, Nil
<1>6. SearchTypeOK' /\ TimerHasLoad' /\ TextSearched'
  BY <1>a, <1>1, <1>2, <1>3, <1>4, <1>5
     DEF SearchTypeOK, TimerHasLoad, TextSearched, FindByPhrase, ClearMovies
<1>7. ListDelivered'
  <2>1. CASE FindByPhrase(text)
    BY <1>b, <2>1, ListDeliveredKept DEF FindByPhrase
  <2>2. CASE ClearMovies(text)
    BY <2>2 DEF ClearMovies, ListDelivered, NoMovies
  <2> QED
    BY <1>1, <2>1, <2>2
<1>8. ASSUME ~trapped' PROVE LatestInv' /\ AloneInv'
  <2>1. CASE ClearMovies(text)
    <3>1. /\ text = Empty /\ movies' = NoMovies /\ latest' = {}
          /\ phase' = phase
      BY <2>1 DEF ClearMovies, vars
    <3>2. Pending' = Pending
      BY <3>1 DEF Pending
    <3>3. ~overlap' => Pending' = {}
      BY <1>1, <3>2
    <3> QED
      BY <1>1, <3>1, <3>3 DEF LatestInv, AloneInv, NoMovies
  <2>2. CASE FindByPhrase(text)
    <3> DEFINE l == FreshLoad
    <3>1. text # Empty /\ latest' = {l} /\ Load(l, UrlOf[text])
      BY <2>2 DEF FindByPhrase
    <3>2. /\ \A m \in Loads : m # l => phase'[m] = phase[m]
          /\ \/ phase'[l] = "dropped"
             \/ phase'[l] \in {"queued", "sent"} /\ url'[l] = UrlOf[text]
      BY <1>a, <1>2, <1>8, <3>1, LoadFrame
    <3> HIDE DEF l
    <3>3. LatestInv'
      BY <1>1, <3>1, <3>2 DEF LatestInv
    <3>4. ~overlap' => \A m \in Pending' : m = l
      BY <1>1, <3>2 DEF Pending
    <3> QED
      BY <1>1, <3>1, <3>2, <3>3, <3>4 DEF AloneInv
  <2> QED
    BY <1>1, <2>1, <2>2
<1> QED
  BY <1>3, <1>6, <1>7, <1>8 DEF SearchInv

\* A completion on the main thread.
LEMMA DeliverStep ==
  ASSUME SearchInv, ~trapped, Deliver
  PROVE  SearchInv'
<1>a. TypeOK /\ QueueInv /\ SearchTypeOK /\ LatestInv /\ AloneInv /\ TimerHasLoad /\ TextSearched
  BY DEF SearchInv, IInv
<1>b. [Next]_vars
  BY SearchRefinesLoader DEF SearchNext
<1>c. IInv' /\ TypeOK'
  BY <1>b, IInvStep DEF SearchInv, IInv
<1> DEFINE l == Head(main)
<1>1. /\ l \in Loads /\ phase[l] = "queued" /\ url[l] \in Urls /\ body[l] \in Nat
      /\ phase' = [phase EXCEPT ![l] = "completed"]
      /\ UNCHANGED <<url, body, contended, trapped>>
  BY <1>a, RunMainFrame DEF Deliver
<1>2. /\ movies' = [url |-> url[l], val |-> body[l]]
      /\ UNCHANGED <<text, timers, searched, latest, overlap>>
      /\ done' = Append(done, [load |-> l, val |-> body[l], on |-> "main"])
  BY DEF Deliver, RunMain
<1> HIDE DEF l
<1>3. /\ \A m \in Loads : m # l => phase'[m] = phase[m]
      /\ phase'[l] = "completed"
  BY <1>a, <1>1 DEF TypeOK
<1>4. SearchTypeOK'
  BY <1>a, <1>c, <1>1, <1>2 DEF SearchTypeOK
<1>5. TimerHasLoad' /\ TextSearched'
  BY <1>a, <1>1, <1>2, <1>3 DEF TimerHasLoad, TextSearched, LoadsLeft
<1>6. ListDelivered'
  <2> DEFINE c == [load |-> l, val |-> body[l], on |-> "main"]
             i == Len(done) + 1
  <2>1. c \in Completion /\ c.load = l /\ c.val = body[l]
    BY <1>1, CompletionType
  <2>2. i \in DOMAIN done' /\ done'[i] = c
    BY <1>a, <1>2, <2>1, AppendElems DEF TypeOK
  <2> HIDE DEF c, i
  <2> QED
    BY <1>1, <1>2, <2>1, <2>2 DEF ListDelivered
<1>7. LatestInv'
  BY <1>a, <1>1, <1>2, <1>3 DEF LatestInv, SearchTypeOK
<1>8. AloneInv'
  <2> SUFFICES ASSUME ~overlap
               PROVE  /\ \A m \in Pending' : m \in latest'
                      /\ searched' = Empty => movies' = NoMovies'
                      /\ \A m \in latest' : phase'[m] = "completed" =>
                           movies' = [url |-> UrlOf[searched'], val |-> body'[m]]
    BY <1>2 DEF AloneInv
  <2>1. l \in Pending
    BY <1>1 DEF Pending
  <2>2. l \in latest /\ searched # Empty
    BY <1>a, <2>1 DEF AloneInv, LatestInv
  <2>3. \A m \in latest : m = l
    BY <1>a, <2>2 DEF LatestInv
  <2>4. url[l] = UrlOf[searched]
    BY <1>a, <1>1, <2>2 DEF LatestInv
  <2>5. \A m \in Pending' : m \in latest
    BY <1>a, <1>3 DEF AloneInv, Pending
  <2> QED
    BY <1>1, <1>2, <2>2, <2>3, <2>4, <2>5
<1> QED
  BY <1>c, <1>4, <1>5, <1>6, <1>7, <1>8 DEF SearchInv

\* The network and the session's queue.
LEMMA BackgroundStep ==
  ASSUME SearchInv, ~trapped, Background
  PROVE  SearchInv'
<1>a. /\ TypeOK /\ QueueInv /\ SearchTypeOK /\ LatestInv /\ AloneInv
      /\ TimerHasLoad /\ TextSearched
  BY DEF SearchInv, IInv
<1>b. [Next]_vars
  BY SearchRefinesLoader DEF SearchNext
<1>c. IInv' /\ TypeOK'
  BY <1>b, IInvStep DEF SearchInv, IInv
<1>1. UNCHANGED <<text, timers, movies, searched, latest, overlap>>
  BY DEF Background, screenVars
<1>2. /\ UNCHANGED <<url, contended, trapped>>
      /\ \A m \in Loads :
            /\ phase'[m] = "idle" <=> phase[m] = "idle"
            /\ phase[m] \in {"completed", "failed", "dropped"} =>
                 phase'[m] = phase[m] /\ body'[m] = body[m]
            /\ phase'[m] = "completed" => phase[m] = "completed"
  BY <1>a, BackgroundFrame DEF Background
<1>3. SearchTypeOK' /\ TimerHasLoad' /\ TextSearched'
  BY <1>a, <1>c, <1>1, <1>2 DEF SearchTypeOK, TimerHasLoad, TextSearched, LoadsLeft
<1>4. ListDelivered'
  BY <1>b, <1>1, ListDeliveredKept
<1>5. LatestInv' /\ AloneInv'
  <2>1. \A m \in latest : m \in Loads
    BY <1>a DEF SearchTypeOK
  <2>2. LatestInv'
    BY <1>a, <1>1, <1>2, <2>1 DEF LatestInv
  <2>3. Pending' \subseteq Pending
    BY <1>2 DEF Pending
  <2>4. AloneInv'
    BY <1>a, <1>1, <1>2, <2>1, <2>3 DEF AloneInv, NoMovies
  <2> QED
    BY <2>2, <2>4
<1> QED
  BY <1>c, <1>3, <1>4, <1>5 DEF SearchInv

\* Every step keeps the invariant.
LEMMA SearchStep == SearchInv /\ [SearchNext]_allVars => SearchInv'
<1> SUFFICES ASSUME SearchInv, [SearchNext]_allVars PROVE SearchInv'
  OBVIOUS
<1>1. CASE UNCHANGED allVars
  <2>1. UNCHANGED vars /\ UNCHANGED screenVars
    BY <1>1 DEF allVars
  <2>2. IInv'
    BY <2>1, IInvStep DEF SearchInv
  <2> QED
    BY <2>1, <2>2 DEF SearchInv, vars, screenVars, SearchTypeOK, IInv, TimerHasLoad, LoadsLeft,
                      ListDelivered, NoMovies, TextSearched, LatestInv, AloneInv, Pending
<1> QED
  BY <1>1, TypingStep, TimerStep, DeliverStep, BackgroundStep DEF SearchNext

-----------------------------------------------------------------------------
(* The theorems.                                                           *)

\* SearchInv is an invariant of the screen with the loader under it.
THEOREM SearchInvariant == SearchSpec => []SearchInv
  BY SearchInitInv, SearchStep, PTL DEF SearchSpec

\* The screen uses the loader as the loader expects, so all that is proved of the
\* loader's specification holds under it.
THEOREM SearchUsesLoader == SearchSpec => Spec
<1>1. SearchInit => Init
  BY DEF SearchInit
<1>2. SearchInv /\ [SearchNext]_allVars => [Next]_vars
  BY SearchRefinesLoader
<1> QED
  BY <1>1, <1>2, SearchInvariant, PTL DEF SearchSpec, Spec

\* The variables keep their types, and however the user types at most one timer
\* is alive, for the text in the search bar.
THEOREM OneTimer == SearchSpec => []SearchTypeOK
<1>1. SearchInv => SearchTypeOK
  BY DEF SearchInv
<1> QED
  BY SearchInvariant, <1>1, PTL

\* At rest the list belongs to the text in the search bar, unless the search
\* overlapped an earlier one.
THEOREM RestingListMatches == SearchSpec => []ListMatchesText
<1>1. SearchInv => ListMatchesText
  <2> SUFFICES ASSUME SearchInv, Quiet, ~overlap
               PROVE  IF text = Empty THEN movies = NoMovies
                      ELSE \A l \in latest : phase[l] = "completed" =>
                             movies = [url |-> UrlOf[text], val |-> body[l]]
    BY DEF ListMatchesText
  <2>1. AloneInv /\ searched = text
    BY DEF SearchInv, Quiet, TextSearched
  <2> QED
    BY <2>1 DEF AloneInv
<1> QED
  BY SearchInvariant, <1>1, PTL

\* The list of a phrase is never replaced by an older list of the same phrase,
\* unless its URL was contended.
THEOREM ListMonotone == SearchSpec => ListNeverRegresses
<1>1. SearchInv /\ [SearchNext]_allVars =>
        [movies'.url = movies.url /\ movies.url \notin contended
           => movies'.val >= movies.val]_movies
  <2> SUFFICES ASSUME SearchInv, [SearchNext]_allVars, movies' # movies,
                      movies'.url = movies.url, movies.url \notin contended
               PROVE  movies'.val >= movies.val
    OBVIOUS
  <2>a. TypeOK /\ QueueInv /\ OrderInv /\ ListDelivered
    BY DEF SearchInv, IInv
  <2>b. \A i \in DOMAIN done : url[done[i].load] \in Urls
    BY <2>a, QueueFacts DEF TypeOK
  <2>1. CASE movies' = NoMovies
    <3>1. movies.url = NoUrl
      BY <2>1 DEF NoMovies
    <3> QED
      BY <2>a, <2>b, <2>1, <3>1, NoUrlAssumption DEF ListDelivered, NoMovies
  <2>2. CASE Deliver
    <3> DEFINE l == Head(main)
    <3>1. l \in Loads /\ url[l] \in Urls /\ l = main[1] /\ 1 \in DOMAIN main
      BY <2>a, <2>2, RunMainFrame, TailElems DEF Deliver, RunMain, TypeOK
    <3>2. movies' = [url |-> url[l], val |-> body[l]]
      BY <2>2 DEF Deliver
    <3> HIDE DEF l
    <3>3. movies.url = url[l] /\ url[l] # NoUrl
      BY <3>1, <3>2, NoUrlAssumption
    <3>4. PICK i \in DOMAIN done : movies = [url |-> url[done[i].load], val |-> done[i].val]
      BY <2>a, <3>3 DEF ListDelivered, NoMovies
    <3>5. DoneBeforeQueue(url[l])
      BY <2>a, <3>1, <3>3 DEF OrderInv
    <3>6. done[i].val <= body[l]
      BY <3>1, <3>3, <3>4, <3>5 DEF DoneBeforeQueue
    <3>7. done[i].val \in Nat /\ body[l] \in Nat
      BY <2>a, <3>1, <3>4, QueueFacts DEF TypeOK
    <3> QED
      BY <3>2, <3>4, <3>6, <3>7
  <2>3. movies' = NoMovies \/ Deliver
    BY DEF SearchNext, TextDidChange, TimerFires, FindByPhrase, ClearMovies, Background,
           screenVars, allVars
  <2> QED
    BY <2>1, <2>2, <2>3
<1> QED
  BY SearchInvariant, <1>1, PTL DEF SearchSpec, ListNeverRegresses
=============================================================================
