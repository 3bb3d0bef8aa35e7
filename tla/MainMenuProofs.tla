--------------------------- MODULE MainMenuProofs ---------------------------
(***************************************************************************)
(* What the main menu promises, for any categories, cells and calls.       *)
(*                                                                         *)
(* The menu takes steps of the loader, so the loader's inductive invariant *)
(* holds under it.  MenuInv adds how the table hands out its cells, and    *)
(* that a cell which is not stale has asked last for the movies of the row *)
(* it shows and waits for those of no other row.                           *)
(***************************************************************************)
EXTENDS MainMenu, NetworkServiceProofs

CellState == [row : Rows \cup {NoRow},
              movies : [url : Urls \cup {NoUrl}, val : Nat],
              genres : Nat]

\* A cell in use shows a row on the screen; the cells about to be set up are free,
\* each for a row of its own that no cell shows.
HandOutInv ==
  /\ \A c \in Cells : ~Free(c) => cell[c].row \in visible
  /\ \A p \in todo : /\ Free(p[1]) /\ p[2] \in visible
                     /\ \A c \in Cells : cell[c].row # p[2]
  /\ \A p, q \in todo : p[1] = q[1] \/ p[2] = q[2] => p = q

\* The cells in use have the menu's genre names, unless a reload is due.
GenresInv == ~layoutDue => \A c \in Cells : ~Free(c) => cell[c].genres = genres

\* A call that was not made belongs to no cell.
OwnerInv == ~trapped => \A l \in Loads : phase[l] = "idle" => owner[l] = NoCell

\* A cell in use that is not stale waits for movies of its row only; it asked for
\* them last, and shows them if that call has come.
AskedFor(c, u) ==
  \E l \in Loads :
    /\ last[c] = {l}
    /\ ~trapped => owner[l] = c /\ phase[l] # "idle" /\ url[l] = u

RowInv(c) ==
  LET u == UrlOf[cell[c].row] IN
    /\ \A l \in Pending : owner[l] = c => url[l] = u
    /\ AskedFor(c, u)
    /\ (\A l \in last[c] : phase[l] = "completed") => cell[c].movies.url = u

MoviesInv == \A c \in Cells \ stale : ~Free(c) => RowInv(c)

MenuInv ==
  /\ IInv
  /\ MenuTypeOK
  /\ HandOutInv
  /\ GenresInv
  /\ OwnerInv
  /\ MoviesInv

-----------------------------------------------------------------------------
(* Calls of the menu are calls of the loader.                              *)

\* The types of the cells, by their short name.
LEMMA CellTypes ==
  ASSUME MenuTypeOK
  PROVE  /\ cell \in [Cells -> CellState]
         /\ \A c \in Cells : ~Free(c) => cell[c].row \in Rows
  BY DEF MenuTypeOK, CellState, Free

\* A call of the menu takes a call that was not made, and nothing else of the loader
\* moves; the read of the cache may end the process instead.
LEMMA MenuCall ==
  ASSUME TypeOK, NEW u \in Urls, CallLoad(u)
  PROVE  /\ FreshLoad \in Loads /\ phase[FreshLoad] = "idle" /\ Load(FreshLoad, u)
         /\ \A m \in Loads : m # FreshLoad => phase'[m] = phase[m] /\ url'[m] = url[m]
         /\ \/ trapped' = TRUE /\ UNCHANGED <<phase, url>>
            \/ phase'[FreshLoad] \in {"queued", "sent"} /\ url'[FreshLoad] = u
<1>1. FreshLoad \in Loads /\ Load(FreshLoad, u)
  BY DEF CallLoad, FreshLoad, Idle
<1>2. u # NoUrl
  BY NoUrlAssumption
<1> QED
  BY <1>1, <1>2, LoadFrame

\* Every step of the menu is a step of the loader, or none.
LEMMA MenuRefinesLoader ==
  ASSUME MenuInv, [MenuNext]_allVars
  PROVE  [Next]_vars
<1>0. TypeOK /\ MenuTypeOK
  BY DEF MenuInv, MenuTypeOK
<1>1. ASSUME NEW u \in Urls, CallLoad(u), ~trapped PROVE Next
  BY <1>0, <1>1, MenuCall DEF Next
<1>2. ASSUME ViewDidLoad, ~trapped PROVE Next
  BY <1>1, <1>2, MenuAssumption DEF ViewDidLoad
<1>3. ASSUME SetUpNext, ~trapped PROVE Next
  <2>1. PICK p \in todo : CallLoad(UrlOf[p[2]])
    BY <1>3 DEF SetUpNext, CellForRow, Setup
  <2>2. UrlOf[p[2]] \in Urls
    BY <1>0, <2>1, MenuAssumption DEF MenuTypeOK
  <2> QED
    BY <1>1, <1>3, <2>1, <2>2
<1>4. ASSUME Deliver \/ Background, ~trapped PROVE Next
  BY <1>4 DEF Deliver, Background, Next
<1> QED
  BY <1>2, <1>3, <1>4 DEF MenuNext, Layout, RowEnters, RowLeaves, allVars

\* What the loader promises holds under the menu.
LEMMA MenuLoader ==
  ASSUME MenuInv, [MenuNext]_allVars
  PROVE  IInv' /\ TypeOK'
<1>1. IInv /\ [Next]_vars
  BY MenuRefinesLoader DEF MenuInv
<1>2. IInv'
  BY <1>1, IInvStep
<1> QED
  BY <1>2 DEF IInv

\* The initial state satisfies the invariant.
LEMMA MenuInitInv ==
  ASSUME MenuInit
  PROVE  MenuInv
<1>1. IInv /\ TypeOK
  BY InitIInv DEF MenuInit, IInv
<1>2. \A c \in Cells : cell[c].row = NoRow
  BY DEF MenuInit
<1>3. started \in BOOLEAN /\ layoutDue \in BOOLEAN
  BY Zenon DEF MenuInit
<1>4. MenuTypeOK
  BY <1>1, <1>2, <1>3 DEF MenuInit, MenuTypeOK, Free, NoMovies, Nil
<1>5. HandOutInv /\ GenresInv /\ OwnerInv /\ MoviesInv
  BY <1>2 DEF MenuInit, HandOutInv, GenresInv, OwnerInv, MoviesInv, Free
<1> QED
  BY <1>1, <1>4, <1>5 DEF MenuInv

\* A cell keeps what RowInv says of it when its row, its movies and its last call stay,
\* and no call becomes its own, or comes, that was not before.
LEMMA RowKept ==
  ASSUME NEW c \in Cells, RowInv(c), last[c] \subseteq Loads,
         cell'[c].row = cell[c].row, cell'[c].movies = cell[c].movies, last'[c] = last[c],
         trapped => trapped',
         \A l \in Pending' : owner'[l] = c => l \in Pending /\ owner[l] = c /\ url'[l] = url[l],
         \A l \in Loads : phase[l] # "idle" =>
           phase'[l] # "idle" /\ url'[l] = url[l] /\ owner'[l] = owner[l],
         \A l \in Loads : phase'[l] = "completed" => phase[l] = "completed"
  PROVE  RowInv(c)'
<1> DEFINE u == UrlOf[cell[c].row]
<1>1. \A l \in Pending' : owner'[l] = c => url'[l] = u
  BY DEF RowInv
<1>2. \E l \in Loads : /\ last'[c] = {l}
                       /\ ~trapped' => owner'[l] = c /\ phase'[l] # "idle" /\ url'[l] = u
  BY DEF RowInv, AskedFor
<1>3. (\A l \in last'[c] : phase'[l] = "completed") => cell'[c].movies.url = u
  BY DEF RowInv
<1> QED
  BY <1>1, <1>2, <1>3 DEF RowInv, AskedFor

-----------------------------------------------------------------------------
(* The table.                                                              *)

\* The table is laid out, rows come and go: the loader and the calls stay.
LEMMA TableStep ==
  ASSUME MenuInv,
         \/ ~trapped /\ (Layout \/ \E r \in Rows : RowEnters(r) \/ RowLeaves(r))
         \/ UNCHANGED allVars
  PROVE  MenuInv'
<1>0. /\ IInv /\ MenuTypeOK /\ HandOutInv /\ GenresInv /\ OwnerInv /\ MoviesInv
      /\ cell \in [Cells -> CellState]
  BY CellTypes DEF MenuInv
<1>1. /\ UNCHANGED <<server, cache, phase, url, body, main, done, contended, trapped>>
      /\ UNCHANGED <<started, genres, owner, last, stale>>
  BY DEF Layout, RowEnters, RowLeaves, allVars, menuVars, vars
<1>2. IInv' /\ TypeOK' /\ OwnerInv'
  <2>1. IInv' /\ TypeOK'
    BY MenuLoader DEF MenuNext
  <2> QED
    BY <1>0, <1>1, <2>1 DEF OwnerInv
\* A cell keeps its row or loses it, and keeps the rest.
<1>3. ASSUME cell' \in [Cells -> CellState],
             \A c \in Cells : /\ cell'[c].row \in {cell[c].row, NoRow}
                              /\ cell'[c].movies = cell[c].movies
      PROVE  MoviesInv'
  <2> SUFFICES ASSUME NEW c \in Cells \ stale, ~Free(c)' PROVE RowInv(c)'
    BY <1>1 DEF MoviesInv
  <2>1. ~Free(c) /\ cell'[c].row = cell[c].row /\ cell'[c].movies = cell[c].movies
    BY <1>3 DEF Free
  <2>2. RowInv(c) /\ last[c] \subseteq Loads
    BY <1>0, <2>1 DEF MoviesInv, MenuTypeOK
  <2>3. Pending' = Pending
    BY <1>1 DEF Pending
  <2> QED
    BY <1>1, <2>1, <2>2, <2>3, RowKept
<1>4. CASE Layout
  <2>1. /\ cell' = [c \in Cells |-> [cell[c] EXCEPT !.row = NoRow]]
        /\ layoutDue' = FALSE /\ visible' = visible
    BY <1>4 DEF Layout
  <2>2. PICK f \in [visible -> Cells] :
          /\ \A r, s \in visible : f[r] = f[s] => r = s
          /\ todo' = {<<f[r], r>> : r \in visible}
    BY <1>4 DEF Layout
  <2>3. cell' \in [Cells -> CellState] /\ \A c \in Cells : cell'[c].row = NoRow
    BY <1>0, <2>1 DEF CellState
  <2>4. \A c \in Cells : cell'[c].movies = cell[c].movies
    BY <1>0, <2>1 DEF CellState
  <2>5. visible \subseteq Rows /\ NoRow \notin Rows
    BY <1>0, MenuAssumption DEF MenuTypeOK
  <2>6. MenuTypeOK'
    <3>1. todo' \in SUBSET (Cells \X Rows)
      BY <2>2, <2>5
    <3>2. layoutDue' \in BOOLEAN
      BY <2>1
    <3> QED
      BY <1>0, <1>1, <1>2, <2>1, <2>3, <3>1, <3>2 DEF MenuTypeOK, CellState, Free
  <2>7. HandOutInv'
    <3>1. \A p \in todo' : p[1] \in Cells /\ p[2] \in visible /\ p = <<p[1], p[2]>> /\ p[1] = f[p[2]]
      BY <2>2
    <3>2. \A p, q \in todo' : p[1] = q[1] \/ p[2] = q[2] => p = q
      BY <2>2, <3>1
    <3> QED
      BY <2>1, <2>3, <2>5, <3>1, <3>2 DEF HandOutInv, Free
  <2>8. GenresInv'
    BY <2>3 DEF GenresInv, Free
  <2>9. MoviesInv'
    BY <1>3, <2>3, <2>4
  <2> QED
    BY <1>2, <2>6, <2>7, <2>8, <2>9 DEF MenuInv
<1>5. ASSUME NEW r \in Rows, RowEnters(r) PROVE MenuInv'
  <2>1. /\ r \notin visible /\ visible' = visible \cup {r} /\ UNCHANGED <<layoutDue, cell>>
        /\ \E c \in Cells : Free(c) /\ todo' = {<<c, r>>}
    BY <1>5 DEF RowEnters
  <2>2. PICK c \in Cells : Free(c) /\ todo' = {<<c, r>>}
    BY <2>1
  <2>3. MenuTypeOK'
    <3>1. todo' \in SUBSET (Cells \X Rows) /\ visible' \in SUBSET Rows
      BY <1>0, <2>1, <2>2 DEF MenuTypeOK
    <3> QED
      BY <1>0, <1>1, <1>2, <2>1, <3>1 DEF MenuTypeOK, Free
  <2>4. HandOutInv'
    <3>1. \A d \in Cells : cell[d].row # r
      BY <1>0, <2>1, MenuAssumption DEF HandOutInv, Free
    <3> QED
      BY <1>0, <2>1, <2>2, <3>1 DEF HandOutInv, Free
  <2>5. GenresInv'
    BY <1>0, <1>1, <2>1 DEF GenresInv, Free
  <2>6. MoviesInv'
    BY <1>0, <1>3, <2>1
  <2> QED
    BY <1>2, <2>3, <2>4, <2>5, <2>6 DEF MenuInv
<1>6. ASSUME NEW r \in Rows, RowLeaves(r) PROVE MenuInv'
  <2>1. /\ todo = {} /\ todo' = {} /\ visible' = visible \ {r} /\ layoutDue' = layoutDue
        /\ cell' = [c \in Cells |-> IF cell[c].row = r THEN [cell[c] EXCEPT !.row = NoRow] ELSE cell[c]]
    BY <1>6 DEF RowLeaves, MayScroll
  <2>2. \A c \in Cells :
          /\ cell'[c] \in CellState
          /\ cell'[c].movies = cell[c].movies /\ cell'[c].genres = cell[c].genres
          /\ cell'[c].row = IF cell[c].row = r THEN NoRow ELSE cell[c].row
    BY <1>0, <2>1 DEF CellState
  <2>3. cell' \in [Cells -> CellState]
    BY <2>1, <2>2
  <2>4. MenuTypeOK'
    <3>1. visible' \in SUBSET Rows
      BY <1>0, <2>1 DEF MenuTypeOK
    <3>2. \A c, d \in Cells : cell'[c].row = cell'[d].row /\ cell'[c].row # NoRow => c = d
      BY <1>0, <2>2 DEF MenuTypeOK, Free
    <3> QED
      BY <1>0, <1>1, <1>2, <2>1, <2>3, <3>1, <3>2 DEF MenuTypeOK, CellState, Free
  <2>5. HandOutInv'
    BY <1>0, <2>1, <2>2 DEF HandOutInv, Free
  <2>6. GenresInv'
    BY <1>0, <1>1, <2>1, <2>2 DEF GenresInv, Free
  <2>7. MoviesInv'
    BY <1>3, <2>2, <2>3
  <2> QED
    BY <1>2, <2>4, <2>5, <2>6, <2>7 DEF MenuInv
<1>7. CASE UNCHANGED allVars
  <2>1. UNCHANGED <<layoutDue, visible, todo, cell>>
    BY <1>7 DEF allVars, menuVars
  <2>2. MenuTypeOK'
    BY <1>0, <1>1, <1>2, <2>1 DEF MenuTypeOK, Free
  <2>3. HandOutInv' /\ GenresInv'
    BY <1>0, <1>1, <2>1 DEF HandOutInv, GenresInv, Free
  <2>4. MoviesInv'
    BY <1>0, <1>3, <2>1
  <2> QED
    BY <1>2, <2>2, <2>3, <2>4 DEF MenuInv
<1> QED
  BY <1>4, <1>5, <1>6, <1>7

-----------------------------------------------------------------------------
(* The calls and their completions.                                        *)

\* viewDidLoad asks for the genre names.
LEMMA ViewStep ==
  ASSUME MenuInv, ~trapped, ViewDidLoad
  PROVE  MenuInv'
<1>0. IInv /\ TypeOK /\ MenuTypeOK /\ HandOutInv /\ GenresInv /\ OwnerInv /\ MoviesInv
  BY DEF MenuInv, MenuTypeOK
<1>1. /\ UNCHANGED <<genres, visible, todo, cell, owner, last, stale>>
      /\ started' = TRUE /\ layoutDue' = TRUE /\ CallLoad(Genres) /\ Genres \in Urls
  BY MenuAssumption DEF ViewDidLoad
<1>2. PICK l \in Loads :
        /\ phase[l] = "idle"
        /\ \A m \in Loads : m # l => phase'[m] = phase[m] /\ url'[m] = url[m]
        /\ \/ trapped' = TRUE /\ UNCHANGED <<phase, url>>
           \/ phase'[l] \in {"queued", "sent"} /\ url'[l] = Genres
  BY <1>0, <1>1, MenuCall
<1>3. IInv' /\ TypeOK'
  BY MenuLoader DEF MenuNext
<1>4. MenuTypeOK'
  <2>1. started' \in BOOLEAN /\ layoutDue' \in BOOLEAN
    BY <1>1
  <2> QED
    BY <1>0, <1>1, <1>3, <2>1 DEF MenuTypeOK, Free
<1>5. HandOutInv' /\ GenresInv'
  BY <1>0, <1>1 DEF HandOutInv, GenresInv, Free
<1>6. OwnerInv'
  BY <1>0, <1>1, <1>2 DEF OwnerInv
<1>7. MoviesInv'
  <2> SUFFICES ASSUME NEW c \in Cells \ stale, ~Free(c) PROVE RowInv(c)'
    BY <1>1 DEF MoviesInv, Free
  <2>1. RowInv(c) /\ last[c] \subseteq Loads
    BY <1>0 DEF MoviesInv, MenuTypeOK
  <2>2. owner[l] # c
    BY <1>0, <1>2, MenuAssumption DEF OwnerInv
  <2>3. \A m \in Pending' : owner'[m] = c => m \in Pending /\ owner[m] = c /\ url'[m] = url[m]
    BY <1>1, <1>2, <2>2 DEF Pending
  <2>4. \A m \in Loads : phase[m] # "idle" =>
          phase'[m] # "idle" /\ url'[m] = url[m] /\ owner'[m] = owner[m]
    BY <1>1, <1>2
  <2>5. \A m \in Loads : phase'[m] = "completed" => phase[m] = "completed"
    BY <1>2
  <2> QED
    BY <1>1, <2>1, <2>3, <2>4, <2>5, RowKept
<1> QED
  BY <1>3, <1>4, <1>5, <1>6, <1>7 DEF MenuInv

\* A free cell is set up for its row and asks for the row's movies.
LEMMA SetUpStep ==
  ASSUME MenuInv, ~trapped, SetUpNext
  PROVE  MenuInv'
<1>0. /\ IInv /\ TypeOK /\ MenuTypeOK /\ HandOutInv /\ GenresInv /\ OwnerInv /\ MoviesInv
      /\ cell \in [Cells -> CellState]
  BY CellTypes DEF MenuInv, MenuTypeOK
<1>1. PICK p \in todo : CellForRow(p[1], p[2]) /\ todo' = todo \ {p}
  BY DEF SetUpNext
<1>2. PICK c \in Cells, r \in Rows : c = p[1] /\ r = p[2]
  BY <1>0, <1>1 DEF MenuTypeOK
<1>3. /\ UNCHANGED <<started, genres, layoutDue, visible>>
      /\ CallLoad(UrlOf[r]) /\ UrlOf[r] \in Urls
      /\ cell' = [cell EXCEPT ![c].row = r, ![c].genres = genres]
      /\ owner' = [owner EXCEPT ![FreshLoad] = c]
      /\ last' = [last EXCEPT ![c] = {FreshLoad}]
      /\ stale' = IF \E m \in Pending : owner[m] = c /\ url[m] # UrlOf[r]
                  THEN stale \cup {c} ELSE stale \ {c}
  BY <1>1, <1>2, MenuAssumption DEF SetUpNext, CellForRow, Setup
<1>4. PICK l \in Loads : l = FreshLoad
  BY <1>0, <1>3, MenuCall
<1>5. /\ phase[l] = "idle"
      /\ \A m \in Loads : m # l => phase'[m] = phase[m] /\ url'[m] = url[m]
      /\ \/ trapped' = TRUE /\ UNCHANGED <<phase, url>>
         \/ phase'[l] \in {"queued", "sent"} /\ url'[l] = UrlOf[r]
  BY <1>0, <1>3, <1>4, MenuCall
<1>6. IInv' /\ TypeOK'
  BY MenuLoader DEF MenuNext
<1>7. /\ cell' \in [Cells -> CellState]
      /\ cell'[c].row = r /\ cell'[c].genres = genres
      /\ \A d \in Cells : d # c => cell'[d] = cell[d]
  <2>1. cell[c] \in CellState /\ genres \in Nat
    BY <1>0 DEF MenuTypeOK
  <2>2. PICK x : x = [cell[c] EXCEPT !.row = r, !.genres = genres]
    OBVIOUS
  <2>3. x \in CellState /\ x.row = r /\ x.genres = genres
    BY <2>1, <2>2 DEF CellState
  <2>4. cell' = [cell EXCEPT ![c] = x]
    BY <1>0, <1>3, <2>2 DEF CellState
  <2> QED
    BY <1>0, <2>3, <2>4
<1>8. /\ owner' \in [Loads -> Cells \cup {NoCell}] /\ owner'[l] = c
      /\ \A m \in Loads : m # l => owner'[m] = owner[m]
      /\ last' \in [Cells -> SUBSET Loads] /\ last'[c] = {l}
      /\ \A d \in Cells : d # c => last'[d] = last[d]
  BY <1>0, <1>3, <1>4 DEF MenuTypeOK
<1>9. /\ Free(c) /\ r \in visible /\ \A d \in Cells : cell[d].row # r
      /\ \A q \in todo' : q \in todo /\ q[1] # c /\ q[2] # r
  BY <1>0, <1>1, <1>2 DEF HandOutInv
<1>10. MenuTypeOK'
  <2>1. todo' \in SUBSET (Cells \X Rows) /\ stale' \in SUBSET Cells
    BY <1>0, <1>1, <1>3 DEF MenuTypeOK
  <2>2. \A d, e \in Cells : cell'[d].row = cell'[e].row /\ cell'[d].row # NoRow => d = e
    BY <1>0, <1>7, <1>9 DEF MenuTypeOK, Free
  <2> QED
    BY <1>0, <1>3, <1>6, <1>7, <1>8, <2>1, <2>2 DEF MenuTypeOK, CellState, Free
<1>11. HandOutInv'
  <2>1. \A d \in Cells : ~Free(d)' => cell'[d].row \in visible'
    BY <1>0, <1>3, <1>7, <1>9 DEF HandOutInv, Free
  <2>2. \A q \in todo' : q[1] \in Cells
    BY <1>0, <1>9 DEF MenuTypeOK
  <2>3. \A q \in todo' : /\ Free(q[1])' /\ q[2] \in visible'
                         /\ \A d \in Cells : cell'[d].row # q[2]
    BY <1>0, <1>3, <1>7, <1>9, <2>2 DEF HandOutInv, Free
  <2> QED
    BY <1>0, <1>9, <2>1, <2>3 DEF HandOutInv
<1>12. GenresInv'
  BY <1>0, <1>3, <1>7 DEF GenresInv, Free
<1>13. OwnerInv'
  BY <1>0, <1>5, <1>8 DEF OwnerInv
<1>14. MoviesInv'
  <2> SUFFICES ASSUME NEW d \in Cells \ stale', ~Free(d)' PROVE RowInv(d)'
    BY DEF MoviesInv
  <2>1. CASE d = c
    <3>1. \A m \in Pending : owner[m] = c => url[m] = UrlOf[r]
      BY <1>3, <2>1
    <3>2. \A m \in Pending' : owner'[m] = c => url'[m] = UrlOf[r]
      BY <1>5, <1>8, <3>1 DEF Pending
    <3>3. ~trapped' => owner'[l] = c /\ phase'[l] # "idle" /\ url'[l] = UrlOf[r]
      BY <1>5, <1>8
    <3>4. phase'[l] # "completed"
      BY <1>5
    <3> QED
      BY <1>7, <1>8, <2>1, <3>2, <3>3, <3>4 DEF RowInv, AskedFor
  <2>2. CASE d # c
    <3>1. d \notin stale /\ ~Free(d) /\ cell'[d] = cell[d]
      BY <1>3, <1>7, <2>2 DEF Free
    <3>2. RowInv(d) /\ last[d] \subseteq Loads
      BY <1>0, <3>1 DEF MoviesInv, MenuTypeOK
    <3>3. \A m \in Pending' : owner'[m] = d => m \in Pending /\ owner[m] = d /\ url'[m] = url[m]
      BY <1>5, <1>8, <2>2 DEF Pending
    <3>4. \A m \in Loads : phase[m] # "idle" =>
            phase'[m] # "idle" /\ url'[m] = url[m] /\ owner'[m] = owner[m]
      BY <1>5, <1>8
    <3>5. \A m \in Loads : phase'[m] = "completed" => phase[m] = "completed"
      BY <1>5
    <3> QED
      BY <1>8, <2>2, <3>1, <3>2, <3>3, <3>4, <3>5, RowKept
  <2> QED
    BY <2>1, <2>2
<1> QED
  BY <1>6, <1>10, <1>11, <1>12, <1>13, <1>14 DEF MenuInv

\* Genre names or movies arrive on the main thread.
LEMMA DeliverStep ==
  ASSUME MenuInv, ~trapped, Deliver
  PROVE  MenuInv'
<1>0. /\ IInv /\ TypeOK /\ QueueInv /\ MenuTypeOK /\ HandOutInv /\ GenresInv /\ OwnerInv /\ MoviesInv
      /\ cell \in [Cells -> CellState]
  BY CellTypes DEF MenuInv, MenuTypeOK, IInv
<1>1. PICK l \in Loads :
        /\ l = Head(main) /\ phase[l] = "queued" /\ url[l] \in Urls /\ body[l] \in Nat
        /\ phase' = [phase EXCEPT ![l] = "completed"]
        /\ UNCHANGED <<url, body, trapped>>
  BY <1>0, RunMainFrame DEF Deliver
<1>2. /\ UNCHANGED <<started, visible, todo, owner, last, stale>> /\ todo = {}
      /\ GenresDidChange(l) \/ MoviesDidChange(l)
  BY <1>1 DEF Deliver
<1>3. (\A m \in Loads : m # l => phase'[m] = phase[m]) /\ phase'[l] = "completed"
  BY <1>0, <1>1 DEF TypeOK
<1>4. IInv' /\ TypeOK'
  BY MenuLoader DEF MenuNext
<1>5. OwnerInv'
  BY <1>0, <1>1, <1>2, <1>3 DEF OwnerInv
<1>6. l \in Pending /\ \A m \in Pending' : m \in Pending
  BY <1>1, <1>3 DEF Pending
\* The cell that the call belongs to gets the movies, if any does; a cell that is not
\* stale gets those of its row.
<1>7. /\ cell' \in [Cells -> CellState]
      /\ \A c \in Cells : cell'[c].row = cell[c].row /\ cell'[c].genres = cell[c].genres
      /\ \A c \in Cells : IF url[l] # Genres /\ c = owner[l] THEN cell'[c].movies.url = url[l]
                                                             ELSE cell'[c] = cell[c]
  <2>1. CASE GenresDidChange(l)
    BY <1>0, <2>1 DEF GenresDidChange
  <2>2. CASE MoviesDidChange(l)
    <3>1. /\ url[l] # Genres
          /\ cell' = [cell EXCEPT ![owner[l]].movies = [url |-> url[l], val |-> body[l]]]
      BY <2>2 DEF MoviesDidChange
    <3>2. CASE owner[l] \in Cells
      <4>1. PICK c \in Cells : c = owner[l]
        BY <3>2
      <4>2. PICK x : x = [cell[c] EXCEPT !.movies = [url |-> url[l], val |-> body[l]]]
        OBVIOUS
      <4>3. [url |-> url[l], val |-> body[l]] \in [url : Urls \cup {NoUrl}, val : Nat]
        BY <1>1
      <4>4. /\ x \in CellState /\ x.row = cell[c].row /\ x.genres = cell[c].genres
            /\ x.movies.url = url[l]
        BY <1>0, <4>2, <4>3 DEF CellState
      <4>5. cell' = [cell EXCEPT ![c] = x]
        BY <3>1, <4>1, <4>2
      <4> QED
        BY <1>0, <3>1, <4>1, <4>4, <4>5
    <3>3. CASE owner[l] \notin Cells
      <4>1. cell' = cell
        BY <1>0, <3>1, <3>3
      <4> QED
        BY <1>0, <3>3, <4>1
    <3> QED
      BY <3>2, <3>3
  <2> QED
    BY <1>2, <2>1, <2>2
<1>8. /\ genres' \in Nat /\ layoutDue' \in BOOLEAN
      /\ layoutDue' = TRUE \/ UNCHANGED <<genres, layoutDue>>
  <2>1. genres' \in Nat
    BY <1>0, <1>1, <1>2 DEF GenresDidChange, MoviesDidChange, MenuTypeOK
  <2>2. layoutDue' = TRUE \/ UNCHANGED <<genres, layoutDue>>
    BY <1>2 DEF GenresDidChange, MoviesDidChange
  <2>3. layoutDue' \in BOOLEAN
    BY <1>0, <2>2, Zenon DEF MenuTypeOK
  <2> QED
    BY <2>1, <2>2, <2>3
<1>9. MenuTypeOK'
  <2>1. \A c, d \in Cells : cell'[c].row = cell'[d].row /\ cell'[c].row # NoRow => c = d
    BY <1>0, <1>7 DEF MenuTypeOK, Free
  <2> QED
    BY <1>0, <1>2, <1>4, <1>7, <1>8, <2>1 DEF MenuTypeOK, CellState, Free
<1>10. HandOutInv' /\ GenresInv'
  BY <1>0, <1>2, <1>7, <1>8 DEF HandOutInv, GenresInv, Free
<1>11. MoviesInv'
  <2> SUFFICES ASSUME NEW c \in Cells \ stale, ~Free(c) PROVE RowInv(c)'
    BY <1>2, <1>7 DEF MoviesInv, Free
  <2>0. PICK u : u = UrlOf[cell[c].row]
    OBVIOUS
  <2>1. /\ \A m \in Pending : owner[m] = c => url[m] = u
        /\ AskedFor(c, u)
        /\ (\A m \in last[c] : phase[m] = "completed") => cell[c].movies.url = u
    BY <1>0, <2>0 DEF MoviesInv, RowInv
  <2>2. u # Genres
    BY <1>0, <2>0, CellTypes, MenuAssumption
  <2>3. \A m \in Pending' : owner'[m] = c => url'[m] = u
    BY <1>1, <1>2, <1>6, <2>1
  <2>4. PICK a \in Loads : last[c] = {a} /\ owner[a] = c /\ phase[a] # "idle" /\ url[a] = u
    BY <2>1 DEF AskedFor
  <2>5. last'[c] = {a} /\ owner'[a] = c /\ phase'[a] # "idle" /\ url'[a] = u
    BY <1>1, <1>2, <1>3, <2>4
  <2>6. ASSUME phase'[a] = "completed" PROVE cell'[c].movies.url = u
    <3>1. CASE owner[l] = c
      <4>1. url[l] = u
        BY <1>6, <2>1, <3>1
      <4> QED
        BY <1>7, <2>2, <3>1, <4>1
    <3>2. CASE owner[l] # c
      <4>1. phase[a] = "completed" /\ cell'[c] = cell[c]
        BY <1>3, <1>7, <2>4, <2>6, <3>2
      <4> QED
        BY <2>1, <2>4, <4>1
    <3> QED
      BY <3>1, <3>2
  <2>7. UrlOf[cell'[c].row] = u
    BY <1>7, <2>0
  <2> QED
    BY <2>3, <2>5, <2>6, <2>7 DEF RowInv, AskedFor
<1> QED
  BY <1>4, <1>5, <1>9, <1>10, <1>11 DEF MenuInv

\* The network and the session's queue.
LEMMA BackgroundStep ==
  ASSUME MenuInv, ~trapped, Background
  PROVE  MenuInv'
<1>0. IInv /\ TypeOK /\ QueueInv /\ MenuTypeOK /\ HandOutInv /\ GenresInv /\ OwnerInv /\ MoviesInv
  BY DEF MenuInv, MenuTypeOK, IInv
<1>1. UNCHANGED <<started, genres, layoutDue, visible, todo, cell, owner, last, stale>>
  BY DEF Background, menuVars
<1>2. /\ UNCHANGED <<url, trapped>>
      /\ \A m \in Loads : /\ phase'[m] = "idle" <=> phase[m] = "idle"
                          /\ phase'[m] = "completed" => phase[m] = "completed"
                          /\ phase[m] \in {"completed", "failed", "dropped"} => phase'[m] = phase[m]
  BY <1>0, BackgroundFrame DEF Background
<1>3. IInv' /\ TypeOK'
  BY MenuLoader DEF MenuNext
<1>4. MenuTypeOK'
  BY <1>0, <1>1, <1>3 DEF MenuTypeOK, Free
<1>5. HandOutInv' /\ GenresInv'
  BY <1>0, <1>1 DEF HandOutInv, GenresInv, Free
<1>6. OwnerInv'
  BY <1>0, <1>1, <1>2 DEF OwnerInv
<1>7. MoviesInv'
  <2> SUFFICES ASSUME NEW c \in Cells \ stale, ~Free(c) PROVE RowInv(c)'
    BY <1>1 DEF MoviesInv, Free
  <2>1. RowInv(c) /\ last[c] \subseteq Loads
    BY <1>0 DEF MoviesInv, MenuTypeOK
  <2>2. \A m \in Pending' : m \in Pending
    BY <1>2 DEF Pending
  <2> QED
    BY <1>1, <1>2, <2>1, <2>2, RowKept DEF Pending
<1> QED
  BY <1>3, <1>4, <1>5, <1>6, <1>7 DEF MenuInv

-----------------------------------------------------------------------------
(* The theorems.                                                           *)

\* MenuInv is an invariant of the menu with the loader under it.
THEOREM MenuInvariant == MenuSpec => []MenuInv
<1>1. MenuInv /\ [MenuNext]_allVars => MenuInv'
  BY TableStep, ViewStep, SetUpStep, DeliverStep, BackgroundStep DEF MenuNext
<1> QED
  BY <1>1, MenuInitInv, PTL DEF MenuSpec

\* The menu uses the loader as the loader expects, so all that is proved of the
\* loader's specification holds under it.
THEOREM MenuUsesLoader == MenuSpec => Spec
<1>1. MenuInit => Init
  BY DEF MenuInit
<1>2. MenuInv /\ [MenuNext]_allVars => [Next]_vars
  BY MenuRefinesLoader
<1> QED
  BY <1>1, <1>2, MenuInvariant, PTL DEF MenuSpec, Spec

\* The variables keep their types, and however cells are handed out and reused no two
\* show the same category.
THEOREM OneCellPerRow == MenuSpec => []MenuTypeOK
<1>1. MenuInv => MenuTypeOK
  BY DEF MenuInv
<1> QED
  BY <1>1, MenuInvariant, PTL

\* The cells on the screen have the genre names of the menu, whenever those arrive.
THEOREM GenresEverywhere == MenuSpec => []GenresReachCells
<1>1. MenuInv => GenresReachCells
  BY DEF MenuInv, GenresInv, GenresReachCells, LaidOut
<1> QED
  BY <1>1, MenuInvariant, PTL

\* At rest a cell shows the movies of the category in its title, unless it was reused
\* amid a load for another row or its own load gave no result.
THEOREM MoviesUnderTheirTitle == MenuSpec => []MoviesMatchTitle
<1>1. MenuInv => MoviesMatchTitle
  BY DEF MenuInv, MoviesInv, RowInv, MoviesMatchTitle
<1> QED
  BY <1>1, MenuInvariant, PTL

=============================================================================
