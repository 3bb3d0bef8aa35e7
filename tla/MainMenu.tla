------------------------------ MODULE MainMenu ------------------------------
(***************************************************************************)
(* Screens/MainMenuVC: MainMenuVC, MainMenuViewModel, MenuTableViewCell    *)
(* and MenuTableViewCellViewModel, on top of NetworkService.               *)
(*                                                                         *)
(* The menu is a table with one row per category; the cell of a row loads  *)
(* the category's movies when it is set up.  UITableView (external) reuses *)
(* cells: when a row comes onto the screen, or the table is reloaded, it   *)
(* hands out any free cell, with the movies it last showed and with loads  *)
(* that it started for another row.  The genre names arrive once and make  *)
(* the whole table reload.                                                 *)
(*                                                                         *)
(* A cell and its view model live as long as the table, so `self?` is      *)
(* always there.                                                           *)
(***************************************************************************)
EXTENDS NetworkService

CONSTANTS Rows,     \* the categories (MoviePath), one row each
          NoRow,    \* what a cell in the reuse pool shows
          Cells,    \* the table's cells
          NoCell,   \* the owner of the load of the genres
          Genres,   \* the URL of the genre names
          UrlOf     \* the URL of each category

ASSUME MenuAssumption ==
  /\ NoRow \notin Rows /\ NoCell \notin Cells
  /\ Genres \in Urls
  /\ UrlOf \in [Rows -> Urls \ {Genres}]
  /\ \A r, s \in Rows : UrlOf[r] = UrlOf[s] => r = s

VARIABLES
  started,    \* viewDidLoad has run
  genres,     \* MainMenuViewModel.genresDictionary; Nil while it is empty
  layoutDue,  \* reloadData was called and the table not laid out since
  visible,    \* external: the rows on the screen
  todo,       \* the rows the table is about to set up, each with its cell
  cell,       \* each cell's category, movies and genresDictionary
  owner,      \* the cell whose completion each load calls
  last,       \* history: the load each cell started last
  stale       \* history: cells set up while a load for another row was pending

menuVars == <<started, genres, layoutDue, visible, todo, cell, owner, last, stale>>
allVars == <<vars, menuVars>>

NoMovies == [url |-> NoUrl, val |-> Nil]
Free(c) == cell[c].row = NoRow

\* No two cells show the same row.
MenuTypeOK ==
  /\ TypeOK
  /\ started \in BOOLEAN
  /\ genres \in Nat
  /\ layoutDue \in BOOLEAN
  /\ visible \in SUBSET Rows
  /\ todo \in SUBSET (Cells \X Rows)
  /\ cell \in [Cells -> [row : Rows \cup {NoRow},
                         movies : [url : Urls \cup {NoUrl}, val : Nat],
                         genres : Nat]]
  /\ \A c, d \in Cells : cell[c].row = cell[d].row /\ ~Free(c) => c = d
  /\ owner \in [Loads -> Cells \cup {NoCell}]
  /\ last \in [Cells -> SUBSET Loads]
  /\ stale \in SUBSET Cells

MenuInit ==
  /\ Init
  /\ started = FALSE
  /\ genres = Nil
  /\ layoutDue = FALSE
  /\ visible \in SUBSET Rows \ {{}}
  /\ todo = {}
  /\ cell = [c \in Cells |-> [row |-> NoRow, movies |-> NoMovies, genres |-> Nil]]
  /\ owner = [l \in Loads |-> NoCell]
  /\ last = [c \in Cells |-> {}]
  /\ stale = {}

-----------------------------------------------------------------------------
Idle == {l \in Loads : phase[l] = "idle"}

\* The next call of load; which element of Loads stands for it is immaterial.
FreshLoad == CHOOSE l \in Idle : TRUE

\* load(url: u), while the bound on the calls allows it.
CallLoad(u) == Idle # {} /\ Load(FreshLoad, u)

\* The loads whose completion may still run.
Pending == {l \in Loads : phase[l] \notin {"idle", "completed", "failed", "dropped"}}

\* MainMenuVC.viewDidLoad: the genres are asked for before their binding
\* exists; the table is then laid out for the first time.
ViewDidLoad ==
  /\ ~started
  /\ started' = TRUE
  /\ CallLoad(Genres)
  /\ layoutDue' = TRUE
  /\ UNCHANGED <<genres, visible, todo, cell, owner, last, stale>>

\* The table (external) lays itself out after reloadData: every cell goes back
\* into the pool, and each row on the screen gets one.
Layout ==
  /\ layoutDue /\ todo = {}
  /\ layoutDue' = FALSE
  /\ \E f \in [visible -> Cells] :
       /\ \A r, s \in visible : f[r] = f[s] => r = s
       /\ todo' = {<<f[r], r>> : r \in visible}
  /\ cell' = [c \in Cells |-> [cell[c] EXCEPT !.row = NoRow]]
  /\ UNCHANGED <<vars, started, genres, visible, owner, last, stale>>

MayScroll == started /\ ~layoutDue /\ todo = {}

\* Bound on scrolling: before the reload it leaves a load for each row, and
\* after it the last load is not used.
LoadsLeft ==
  Cardinality(Idle) > IF \E l \in Pending : url[l] = Genres THEN Cardinality(Rows) ELSE 1

\* A row is scrolled onto the screen (external) and gets any cell of the pool.
RowEnters(r) ==
  /\ MayScroll /\ LoadsLeft
  /\ r \notin visible
  /\ visible' = visible \cup {r}
  /\ \E c \in Cells : Free(c) /\ todo' = {<<c, r>>}
  /\ UNCHANGED <<vars, started, genres, layoutDue, cell, owner, last, stale>>

\* A row is scrolled off the screen (external).
RowLeaves(r) ==
  /\ MayScroll
  /\ r \in visible
  /\ visible' = visible \ {r}
  /\ cell' = [c \in Cells |-> IF cell[c].row = r THEN [cell[c] EXCEPT !.row = NoRow] ELSE cell[c]]
  /\ UNCHANGED <<vars, started, genres, layoutDue, todo, owner, last, stale>>

\* MenuTableViewCell.setup and MenuTableViewCellViewModel.loadMovies
Setup(c, r) ==
  /\ CallLoad(UrlOf[r])
  /\ owner' = [owner EXCEPT ![FreshLoad] = c]
  /\ last' = [last EXCEPT ![c] = {FreshLoad}]
  /\ stale' = IF \E l \in Pending : owner[l] = c /\ url[l] # UrlOf[r]
              THEN stale \cup {c} ELSE stale \ {c}

\* Mutant: a cell that has movies does not load.
CellForRowLazy(c, r) ==
  /\ IF cell[c].movies = NoMovies
     THEN Setup(c, r)
     ELSE stale' = stale \ {c} /\ UNCHANGED <<vars, owner, last>>
  /\ cell' = [cell EXCEPT ![c].row = r, ![c].genres = genres]

\* Mutant: every row gets the first category.
CellForRowFirst(c, r) ==
  /\ Setup(c, r)
  /\ cell' = [cell EXCEPT ![c].row = CHOOSE s \in Rows : TRUE, ![c].genres = genres]

\* Mutant: the genre names are not handed on.
CellForRowWithoutGenres(c, r) ==
  /\ Setup(c, r)
  /\ cell' = [cell EXCEPT ![c].row = r]

\* tableView(_:cellForRowAt:)
CellForRow(c, r) ==
  /\ Setup(c, r)
  /\ cell' = [cell EXCEPT ![c].row = r, ![c].genres = genres]

SetUpNext ==
  /\ \E p \in todo : CellForRow(p[1], p[2]) /\ todo' = todo \ {p}
  /\ UNCHANGED <<started, genres, layoutDue, visible>>

\* The completion of loadGenresOfMovie: the dictionary's didSet reloads the table.
GenresDidChange(l) ==
  /\ url[l] = Genres
  /\ genres' = body[l]
  /\ layoutDue' = TRUE
  /\ UNCHANGED cell

\* The completion of loadMovies: self?.movies = movies.results, and the cell's
\* collection view reloads.
MoviesDidChange(l) ==
  /\ url[l] # Genres
  /\ cell' = [cell EXCEPT ![owner[l]].movies = [url |-> url[l], val |-> body[l]]]
  /\ UNCHANGED <<genres, layoutDue>>

\* A completion on the main thread.  (One without a result only prints.)
Deliver ==
  /\ todo = {}
  /\ RunMain
  /\ GenresDidChange(Head(main)) \/ MoviesDidChange(Head(main))
  /\ UNCHANGED <<started, visible, todo, owner, last, stale>>

\* Steps of the network and of the session's queue.
Background ==
  /\ \/ \E u \in Urls : ServerChange(u)
     \/ \E l \in Loads : Answer(l) \/ SessionStep(l)
  /\ UNCHANGED menuVars

MenuNext ==
  /\ ~trapped
  /\ \/ ViewDidLoad \/ Layout \/ SetUpNext \/ Deliver \/ Background
     \/ \E r \in Rows : RowEnters(r) \/ RowLeaves(r)

MenuSpec == MenuInit /\ [][MenuNext]_allVars

-----------------------------------------------------------------------------
(* Properties.                                                             *)

LaidOut == started /\ ~layoutDue /\ todo = {}

\* However rows are scrolled and cells handed out, and whenever the genre names
\* arrive, the cells on the screen have the names that the menu has: the cells
\* set up before get them with the reload, the later ones when they are set up.
GenresReachCells == LaidOut => \A c \in Cells : ~Free(c) => cell[c].genres = genres

\* When no load is under way, a cell on the screen shows the movies of the
\* category in its title, whatever it showed in its earlier rows.  Two cases are
\* excepted, and they are the ways this screen goes wrong: the cell was reused
\* while a load for its former row was under way, which nothing cancels and which
\* may answer last; or its own load gave no result, and the old movies stay.
MoviesMatchTitle ==
  (LaidOut /\ Pending = {}) =>
     \A c \in Cells \ stale :
        (~Free(c) /\ \A l \in last[c] : phase[l] = "completed")
          => cell[c].movies.url = UrlOf[cell[c].row]
=============================================================================
