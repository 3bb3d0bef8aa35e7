-------------------------- MODULE ImageCellsProofs --------------------------
(***************************************************************************)
(* What ImageCells promises, for any number of items, cells and downloads. *)
(*                                                                         *)
(* Neither property is inductive.  What carries them is an invariant about *)
(* the downloads under way: as long as a cell was not reused with another  *)
(* item's image on its way, all its pending downloads are for the item it  *)
(* shows.                                                                  *)
(***************************************************************************)
EXTENDS ImageCells, TLAPS

Started == [cell : Cells, item : Linked, phase : {"sent", "queued", "refused", "shown"}]

\* The main queue holds the arrived images, each once.
QueueInv ==
  /\ \A i \in DOMAIN main : task[main[i]].phase = "queued"
  /\ \A i, j \in DOMAIN main : main[i] = main[j] => i = j

\* What is on its way to a calm cell is for the item it shows.
PendingInv ==
  \A c \in Cells : Calm(c) => \A d \in Pending(c) : task[d].item = row[c]

\* A calm cell of a class that clears its image has none or its item's.
ClearedInv == \A c \in Clearing : Calm(c) => image[c] \in {NoItem, row[c]}

\* A cell shows its item's text, but for the actors with long names.
LabelInv ==
  \A c \in Cells :
     (row[c] # NoItem /\ (c \in Actors => row[c] \in Short)) => label[c] = row[c]

CellsInv == CellTypeOK /\ QueueInv /\ PendingInv /\ ClearedInv /\ LabelInv

-----------------------------------------------------------------------------
(* Types.                                                                  *)

\* A download that is not idle belongs to a cell and to an item with a link.
LEMMA StartedTask ==
  ASSUME CellTypeOK, NEW d \in Downloads, task[d].phase # "idle"
  PROVE  task[d] \in Started
  BY DEF CellTypeOK, NoTask, Started

\* The queue as a function.
LEMMA MainType ==
  ASSUME CellTypeOK
  PROVE  /\ Len(main) \in Nat
         /\ DOMAIN main = 1 .. Len(main)
         /\ \A i \in DOMAIN main : main[i] \in Downloads
  BY DEF CellTypeOK

\* A download that is still free is found while there is one.
LEMMA FreshIsIdle ==
  ASSUME Idle # {}
  PROVE  FreshDownload \in Downloads /\ task[FreshDownload].phase = "idle"
<1>1. FreshDownload \in Idle
  BY DEF FreshDownload
<1> QED
  BY <1>1 DEF Idle

\* What a step that moves one download does to the others.
LEMMA MovedTask ==
  ASSUME CellTypeOK, NEW d \in Downloads, task[d].phase # "idle",
         NEW p \in {"sent", "queued", "refused", "shown"},
         task' = [task EXCEPT ![d].phase = p]
  PROVE  /\ task' \in [Downloads -> {NoTask} \cup Started]
         /\ task'[d].phase = p
         /\ task'[d].cell = task[d].cell
         /\ task'[d].item = task[d].item
         /\ \A e \in Downloads : e # d => task'[e] = task[e]
<1>1. task[d] \in Started
  BY StartedTask
<1>2. task \in [Downloads -> {NoTask} \cup Started]
  BY DEF CellTypeOK, Started
<1>3. [task[d] EXCEPT !.phase = p] \in Started
  BY <1>1 DEF Started
<1> QED
  BY <1>1, <1>2, <1>3 DEF Started

\* The head of the main queue and what is left behind it.
LEMMA HeadOfMain ==
  ASSUME CellTypeOK, QueueInv, main # <<>>
  PROVE  /\ Head(main) \in Downloads
         /\ Head(main) = main[1] /\ 1 \in DOMAIN main
         /\ task[Head(main)].phase = "queued"
         /\ Tail(main) \in Seq(Downloads)
         /\ DOMAIN Tail(main) = 1 .. (Len(main) - 1)
         /\ \A i \in DOMAIN Tail(main) : i + 1 \in DOMAIN main /\ Tail(main)[i] = main[i + 1]
<1>1. /\ Head(main) \in Downloads /\ Head(main) = main[1] /\ 1 \in DOMAIN main
      /\ Tail(main) \in Seq(Downloads)
      /\ DOMAIN Tail(main) = 1 .. (Len(main) - 1)
      /\ \A i \in DOMAIN Tail(main) : i + 1 \in DOMAIN main /\ Tail(main)[i] = main[i + 1]
  BY DEF CellTypeOK
<1> QED
  BY <1>1 DEF QueueInv

-----------------------------------------------------------------------------
\* The initial state satisfies the invariant: no cell shows anything.
LEMMA CellsInit == Init => CellsInv
<1> SUFFICES ASSUME Init PROVE CellsInv
  OBVIOUS
<1>1. main \in Seq(Downloads) /\ DOMAIN main = {}
  BY DEF Init
<1>2. CellTypeOK
  BY <1>1 DEF Init, CellTypeOK
<1>3. QueueInv /\ PendingInv /\ ClearedInv /\ LabelInv
  BY <1>1, CellsAssumption DEF Init, QueueInv, PendingInv, ClearedInv, LabelInv, Calm
<1> QED
  BY <1>2, <1>3 DEF CellsInv

\* A row comes onto the screen.
LEMMA CellForItemStep ==
  ASSUME CellsInv, NEW c \in Cells, NEW i \in Items, CellForItem(c, i)
  PROVE  CellsInv'
<1>a. CellTypeOK /\ QueueInv /\ PendingInv /\ ClearedInv /\ LabelInv
  BY DEF CellsInv
<1>b. i # NoItem /\ Clearing \subseteq Cells /\ Actors \subseteq Cells /\ Linked \subseteq Items
  BY CellsAssumption
<1>1. /\ row[c] = NoItem
      /\ row' = [row EXCEPT ![c] = i]
      /\ image' = [image EXCEPT ![c] = PrepareForReuse(c)]
      /\ label' = [label EXCEPT ![c] = NameOf(c, i)]
      /\ Download(c, i)
      /\ crossed' = IF \E d \in Pending(c) : task[d].item # i
                    THEN crossed \cup {c} ELSE crossed \ {c}
      /\ main' = main
  BY DEF CellForItem
\* The downloads: those that were there are untouched, a new one is for i.
<1>2. /\ task' \in [Downloads -> {NoTask} \cup Started]
      /\ last' \in [Cells -> SUBSET Downloads]
      /\ \A d \in Downloads : \/ task'[d] = task[d]
                              \/ /\ task[d].phase = "idle"
                                 /\ task'[d] = [cell |-> c, item |-> i, phase |-> "sent"]
  <2>1. task \in [Downloads -> {NoTask} \cup Started] /\ last \in [Cells -> SUBSET Downloads]
    BY <1>a DEF CellTypeOK, Started
  <2>2. CASE i \in Linked
    <3>1. /\ FreshDownload \in Downloads
          /\ task[FreshDownload].phase = "idle"
          /\ task' = [task EXCEPT ![FreshDownload] = [cell |-> c, item |-> i, phase |-> "sent"]]
          /\ last' = [last EXCEPT ![c] = {FreshDownload}]
      BY <1>1, <2>2, FreshIsIdle DEF Download
    <3>2. [cell |-> c, item |-> i, phase |-> "sent"] \in Started
      BY <2>2 DEF Started
    <3> QED
      BY <2>1, <3>1, <3>2
  <2>3. CASE i \notin Linked
    BY <1>1, <2>1, <2>3 DEF Download
  <2> QED
    BY <2>2, <2>3
<1>3. CellTypeOK'
  <2>1. PrepareForReuse(c) \in Linked \cup {NoItem} /\ NameOf(c, i) \in Items \cup {NoItem}
    BY <1>a DEF PrepareForReuse, NameOf, CellTypeOK
  <2>2. row' \in [Cells -> Items \cup {NoItem}] /\ main' \in Seq(Downloads)
    BY <1>1, <1>a DEF CellTypeOK
  <2>3. image' \in [Cells -> Linked \cup {NoItem}] /\ label' \in [Cells -> Items \cup {NoItem}]
    BY <1>1, <1>a, <2>1 DEF CellTypeOK
  <2>4. crossed' \in SUBSET Cells
    BY <1>1, <1>a DEF CellTypeOK
  <2> QED
    BY <1>2, <2>2, <2>3, <2>4 DEF CellTypeOK, Started
<1>4. QueueInv'
  <2>1. \A j \in DOMAIN main : task'[main[j]] = task[main[j]]
    BY <1>a, <1>2, MainType DEF QueueInv
  <2> QED
    BY <1>a, <1>1, <2>1 DEF QueueInv
<1>5. \A e \in Cells : e # c => row'[e] = row[e] /\ image'[e] = image[e] /\ label'[e] = label[e]
                                /\ (Calm(e)' => Calm(e))
  BY <1>1, <1>a DEF CellTypeOK, Calm
<1>6. row'[c] = i /\ image'[c] = PrepareForReuse(c) /\ label'[c] = NameOf(c, i)
  BY <1>1, <1>a DEF CellTypeOK
<1>7. PendingInv'
  <2> SUFFICES ASSUME NEW e \in Cells, Calm(e)', NEW d \in Downloads,
                      task'[d].cell = e, task'[d].phase \in {"sent", "queued"}
               PROVE  task'[d].item = row'[e]
    BY DEF PendingInv, Pending
  <2>1. CASE task'[d] = [cell |-> c, item |-> i, phase |-> "sent"]
    BY <1>6, <2>1
  <2>2. CASE task'[d] = task[d] /\ e # c
    BY <1>a, <1>5, <2>2 DEF PendingInv, Pending
  <2>3. CASE task'[d] = task[d] /\ e = c
    <3>1. c \notin crossed'
      BY <2>3 DEF Calm
    <3>2. d \in Pending(c)
      BY <2>3 DEF Pending
    <3> QED
      BY <1>1, <1>6, <2>3, <3>1, <3>2
  <2> QED
    BY <1>2, <2>1, <2>2, <2>3
<1>8. ClearedInv'
  BY <1>a, <1>b, <1>5, <1>6 DEF ClearedInv, PrepareForReuse
<1>9. LabelInv'
  BY <1>a, <1>5, <1>6 DEF LabelInv, NameOf
<1> QED
  BY <1>3, <1>4, <1>7, <1>8, <1>9 DEF CellsInv

\* Every step keeps the invariant.
LEMMA CellsStep == CellsInv /\ [Next]_vars => CellsInv'
<1> SUFFICES ASSUME CellsInv, [Next]_vars PROVE CellsInv'
  OBVIOUS
<1>a. CellTypeOK /\ QueueInv /\ PendingInv /\ ClearedInv /\ LabelInv
  BY DEF CellsInv
<1>1. ASSUME NEW c \in Cells, RowLeaves(c) PROVE CellsInv'
  <2>1. /\ row' = [row EXCEPT ![c] = NoItem]
        /\ UNCHANGED <<image, label, task, main, last, crossed>>
    BY <1>1 DEF RowLeaves
  <2>2. CellTypeOK' /\ QueueInv'
    BY <1>a, <2>1 DEF CellTypeOK, QueueInv
  <2>3. \A e \in Cells : row'[e] \in {row[e], NoItem}
    BY <1>a, <2>1 DEF CellTypeOK
  <2>4. PendingInv' /\ ClearedInv' /\ LabelInv'
    BY <1>a, <2>1, <2>3, CellsAssumption
       DEF PendingInv, Pending, ClearedInv, LabelInv, Calm
  <2> QED
    BY <2>2, <2>4 DEF CellsInv
<1>2. ASSUME NEW d \in Downloads, ImageArrives(d) \/ ImageRefused(d) PROVE CellsInv'
  <2>1. /\ task[d].phase = "sent"
        /\ UNCHANGED <<row, image, label, last, crossed>>
        /\ \/ task' = [task EXCEPT ![d].phase = "queued"] /\ main' = Append(main, d)
           \/ task' = [task EXCEPT ![d].phase = "refused"] /\ main' = main
    BY <1>2 DEF ImageArrives, ImageRefused
  <2>2. /\ task' \in [Downloads -> {NoTask} \cup Started]
        /\ task'[d].phase \in {"queued", "refused"}
        /\ main' = Append(main, d) => task'[d].phase = "queued"
        /\ task'[d].cell = task[d].cell /\ task'[d].item = task[d].item
        /\ \A e \in Downloads : e # d => task'[e] = task[e]
    <3>1. CASE task' = [task EXCEPT ![d].phase = "queued"]
      BY <1>a, <2>1, <3>1, MovedTask
    <3>2. CASE task' = [task EXCEPT ![d].phase = "refused"] /\ main' = main
      <4>1. main # Append(main, d)
        BY <1>a DEF CellTypeOK
      <4> QED
        BY <1>a, <2>1, <3>2, <4>1, MovedTask
    <3> QED
      BY <2>1, <3>1, <3>2
  <2>3. CellTypeOK'
    <3>1. main' \in Seq(Downloads)
      BY <1>a, <2>1 DEF CellTypeOK
    <3> QED
      BY <1>a, <2>1, <2>2, <3>1 DEF CellTypeOK, Started
  <2>4. \A i \in DOMAIN main : main[i] \in Downloads /\ main[i] # d
    BY <1>a, <2>1, MainType DEF QueueInv
  <2>5. QueueInv'
    <3>1. CASE main' = main
      BY <1>a, <2>2, <2>4, <3>1 DEF QueueInv
    <3>2. CASE main' = Append(main, d)
      <4>1. /\ DOMAIN main' = 1 .. (Len(main) + 1)
            /\ \A i \in 1 .. Len(main) : main'[i] = main[i]
            /\ main'[Len(main) + 1] = d
        BY <1>a, <3>2 DEF CellTypeOK
      <4> QED
        BY <1>a, <2>2, <2>4, <3>2, <4>1, MainType DEF QueueInv
    <3> QED
      BY <2>1, <3>1, <3>2
  <2>6. PendingInv'
    <3>1. \A c \in Cells : Pending(c)' \subseteq Pending(c)
      BY <2>1, <2>2 DEF Pending
    <3> QED
      BY <1>a, <2>1, <2>2, <3>1 DEF PendingInv, Pending, Calm
  <2>7. ClearedInv' /\ LabelInv'
    BY <1>a, <2>1 DEF ClearedInv, LabelInv, Calm
  <2> QED
    BY <2>3, <2>5, <2>6, <2>7 DEF CellsInv
<1>3. CASE ShowImage
  <2> DEFINE d == Head(main)
  <2>1. /\ main # <<>>
        /\ image' = [image EXCEPT ![task[d].cell] = task[d].item]
        /\ task' = [task EXCEPT ![d].phase = "shown"]
        /\ main' = Tail(main)
        /\ UNCHANGED <<row, label, last, crossed>>
    BY <1>3 DEF ShowImage, IntoView
  <2>2. d \in Downloads /\ task[d].phase = "queued" /\ d = main[1] /\ 1 \in DOMAIN main
    BY <1>a, <2>1, HeadOfMain
  <2>3. main' \in Seq(Downloads) /\
        \A i \in DOMAIN main' : i + 1 \in DOMAIN main /\ main'[i] = main[i + 1]
    BY <1>a, <2>1, HeadOfMain
  <2> HIDE DEF d
  <2>4. task[d].cell \in Cells /\ task[d].item \in Linked
    BY <1>a, <2>2, StartedTask DEF Started
  <2>5. /\ task' \in [Downloads -> {NoTask} \cup Started]
        /\ task'[d].phase = "shown"
        /\ \A e \in Downloads : e # d => task'[e] = task[e]
    BY <1>a, <2>1, <2>2, MovedTask
  <2>6. CellTypeOK'
    BY <1>a, <2>1, <2>3, <2>4, <2>5 DEF CellTypeOK, Started
  <2>7. QueueInv'
    <3>1. \A i \in DOMAIN main' : main'[i] \in Downloads /\ main'[i] # d
                                  /\ task[main'[i]].phase = "queued"
      BY <1>a, <2>2, <2>3, <2>6, MainType DEF QueueInv, CellTypeOK
    <3>2. \A i, j \in DOMAIN main' : main'[i] = main'[j] => i = j
      <4>1. \A i \in DOMAIN main' : i \in Nat
        BY <2>6, MainType DEF CellTypeOK
      <4> QED
        BY <1>a, <2>3, <4>1 DEF QueueInv
    <3> QED
      BY <2>5, <3>1, <3>2 DEF QueueInv
  <2>8. PendingInv'
    BY <1>a, <2>1, <2>5 DEF PendingInv, Pending, Calm
  <2>9. ClearedInv'
    <3>1. d \in Pending(task[d].cell)
      BY <2>2 DEF Pending
    <3>2. Calm(task[d].cell) => task[d].item = row[task[d].cell]
      BY <1>a, <2>4, <3>1 DEF PendingInv
    <3> QED
      BY <1>a, <2>1, <2>4, <3>2, CellsAssumption DEF ClearedInv, Calm, CellTypeOK
  <2>10. LabelInv'
    BY <1>a, <2>1 DEF LabelInv
  <2> QED
    BY <2>6, <2>7, <2>8, <2>9, <2>10 DEF CellsInv
<1>4. CASE UNCHANGED vars
  BY <1>4 DEF vars, CellsInv, CellTypeOK, QueueInv, PendingInv, Pending, ClearedInv, LabelInv, Calm
<1> QED
  BY <1>1, <1>2, <1>3, <1>4, CellForItemStep DEF Next

-----------------------------------------------------------------------------
(* The theorems.                                                           *)

\* CellsInv is an invariant of the cells.
THEOREM CellsInvariant == Spec => []CellsInv
  BY CellsInit, CellsStep, PTL DEF Spec

\* The variables keep their types.
THEOREM CellTypeCorrect == Spec => []CellTypeOK
<1>1. CellsInv => CellTypeOK
  BY DEF CellsInv
<1> QED
  BY CellsInvariant, <1>1, PTL

\* A calm cell that clears its image shows text and image of one item.
THEOREM TextAndImageOfOneItem == Spec => []NameAndImageAgree
<1>1. CellsInv => NameAndImageAgree
  BY CellsAssumption DEF CellsInv, ClearedInv, LabelInv, NameAndImageAgree, Calm
<1> QED
  BY CellsInvariant, <1>1, PTL

\* No image of another item comes into a calm cell.
THEOREM NoForeignImageComes == Spec => NoForeignImage
<1>1. CellsInv /\ [Next]_vars =>
        [\A c \in Cells :
            (Calm(c) /\ row'[c] = row[c] /\ image'[c] # image[c]) => image'[c] = row[c]]_vars
  <2> SUFFICES ASSUME CellsInv, [Next]_vars, NEW c \in Cells,
                      Calm(c), row'[c] = row[c], image'[c] # image[c]
               PROVE  image'[c] = row[c]
    OBVIOUS
  <2>a. CellTypeOK /\ QueueInv /\ PendingInv
    BY DEF CellsInv
  <2>1. ASSUME NEW e \in Cells, NEW i \in Items, CellForItem(e, i) PROVE image'[c] = row[c]
    <3>1. CASE e = c
      BY <2>a, <2>1, <3>1, CellsAssumption DEF CellForItem, Calm, CellTypeOK
    <3>2. CASE e # c
      BY <2>a, <2>1, <3>2 DEF CellForItem, CellTypeOK
    <3> QED
      BY <3>1, <3>2
  <2>2. CASE ShowImage
    <3> DEFINE d == Head(main)
    <3>1. d \in Downloads /\ task[d].phase = "queued"
      BY <2>a, <2>2, HeadOfMain DEF ShowImage
    <3>2. image' = [image EXCEPT ![task[d].cell] = task[d].item]
      BY <2>2 DEF ShowImage, IntoView
    <3> HIDE DEF d
    <3>3. task[d].cell = c /\ image'[c] = task[d].item
      BY <2>a, <3>2 DEF CellTypeOK
    <3> QED
      BY <2>a, <3>1, <3>3 DEF PendingInv, Pending
  <2>3. image' = image \/ ShowImage \/ \E e \in Cells, i \in Items : CellForItem(e, i)
    BY DEF Next, vars, RowLeaves, ImageArrives, ImageRefused
  <2> QED
    BY <2>1, <2>2, <2>3
<1> QED
  BY CellsInvariant, <1>1, PTL DEF Spec, NoForeignImage
=============================================================================
