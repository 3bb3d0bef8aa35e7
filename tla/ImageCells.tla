----------------------------- MODULE ImageCells -----------------------------
(***************************************************************************)
(* Extensions/UIImageView+Utils.swift and the cells that use it: movies    *)
(* (FilmsCollectionViewCell), actors (CastCollectionViewCell), reviews     *)
(* (ReviewsCollectionViewCell) and search results (SearchTableViewCell).   *)
(*                                                                         *)
(* UIKit (external) takes a cell that left the screen out of a pool and    *)
(* has it set up for another item: a text and a download that puts its     *)
(* image into the cell's image view.  A download is neither cancelled when *)
(* the cell leaves the screen nor compared with the item the cell shows by *)
(* the time the image is there.                                            *)
(*                                                                         *)
(* The classes differ in two ways.  Films and actors clear the image in    *)
(* prepareForReuse, reviews and search results do not.  And the name of an *)
(* actor is set only if it is one word or two.                             *)
(*                                                                         *)
(* An item stands for its text and for its image, too.  Cells live as long *)
(* as their table or collection, so the weak self is always there.         *)
(***************************************************************************)
EXTENDS Naturals, Sequences, FiniteSets

CONSTANTS Items, NoItem,   \* NoItem: nothing shown, no image, no text
          Cells,
          Clearing,        \* the cells whose class overrides prepareForReuse
          Actors,          \* the cells that show actors
          Linked,          \* the items with an image path that forms a URL
          Short,           \* the items with a name of one or two words
          Downloads        \* bound: the calls of downloaded(from:)

ASSUME CellsAssumption ==
  /\ NoItem \notin Items
  /\ Clearing \subseteq Cells /\ Actors \subseteq Clearing
  /\ Linked \subseteq Items /\ Short \subseteq Items

VARIABLES
  row,      \* the item each cell shows; NoItem in the pool
  image,    \* imageView.image of each cell
  label,    \* nameLabel.text of each cell
  task,     \* the downloads: whose, for which item, and how far
  main,     \* the blocks on the main queue, oldest first
  last,     \* history: the download each cell's last setup started, if any
  crossed   \* history: cells set up while a download for another item of
            \* theirs was under way

vars == <<row, image, label, task, main, last, crossed>>

NoTask == [cell |-> NoItem, item |-> NoItem, phase |-> "idle"]

CellTypeOK ==
  /\ row \in [Cells -> Items \cup {NoItem}]
  /\ image \in [Cells -> Linked \cup {NoItem}]
  /\ label \in [Cells -> Items \cup {NoItem}]
  /\ task \in [Downloads -> {NoTask} \cup
                 [cell : Cells, item : Linked, phase : {"sent", "queued", "refused", "shown"}]]
  /\ main \in Seq(Downloads)
  /\ last \in [Cells -> SUBSET Downloads]
  /\ crossed \in SUBSET Cells

Init ==
  /\ row = [c \in Cells |-> NoItem]
  /\ image = [c \in Cells |-> NoItem]
  /\ label = [c \in Cells |-> NoItem]
  /\ task = [d \in Downloads |-> NoTask]
  /\ main = <<>>
  /\ last = [c \in Cells |-> {}]
  /\ crossed = {}

-----------------------------------------------------------------------------
Pending(c) == {d \in Downloads : task[d].cell = c /\ task[d].phase \in {"sent", "queued"}}

Idle == {d \in Downloads : task[d].phase = "idle"}
FreshDownload == CHOOSE d \in Idle : TRUE

\* Mutant: the image path is not looked at.
DownloadUnguarded(c, i) ==
  /\ Idle # {}
  /\ task' = [task EXCEPT ![FreshDownload] = [cell |-> c, item |-> i, phase |-> "sent"]]
  /\ last' = [last EXCEPT ![c] = {FreshDownload}]

\* downloaded(from:): without a link, or a link that forms no URL, it returns.
Download(c, i) ==
  IF i \in Linked
  THEN /\ Idle # {}
       /\ task' = [task EXCEPT ![FreshDownload] = [cell |-> c, item |-> i, phase |-> "sent"]]
       /\ last' = [last EXCEPT ![c] = {FreshDownload}]
  ELSE /\ last' = [last EXCEPT ![c] = {}]
       /\ UNCHANGED task

\* Mutant: prepareForReuse is not overridden.
PrepareNothing(c) == image[c]

\* prepareForReuse: no image, or the one named "no image".
PrepareForReuse(c) == IF c \in Clearing THEN NoItem ELSE image[c]

\* The text is set, but not for an actor whose name has three words or none.
NameOf(c, i) == IF c \in Actors /\ i \notin Short THEN label[c] ELSE i

\* A row comes onto the screen: UIKit takes a cell out of the pool and the data
\* source sets it up.
CellForItem(c, i) ==
  /\ row[c] = NoItem
  /\ row' = [row EXCEPT ![c] = i]
  /\ image' = [image EXCEPT ![c] = PrepareForReuse(c)]
  /\ label' = [label EXCEPT ![c] = NameOf(c, i)]
  /\ Download(c, i)
  /\ crossed' = IF \E d \in Pending(c) : task[d].item # i
                THEN crossed \cup {c} ELSE crossed \ {c}
  /\ UNCHANGED main

\* The row leaves the screen, or the table is reloaded (external).
RowLeaves(c) ==
  /\ row[c] # NoItem
  /\ row' = [row EXCEPT ![c] = NoItem]
  /\ UNCHANGED <<image, label, task, main, last, crossed>>

\* The data task's handler with an image: DispatchQueue.main.async
ImageArrives(d) ==
  /\ task[d].phase = "sent"
  /\ task' = [task EXCEPT ![d].phase = "queued"]
  /\ main' = Append(main, d)
  /\ UNCHANGED <<row, image, label, last, crossed>>

\* The handler's guard: an error, another status than 200, no image.
ImageRefused(d) ==
  /\ task[d].phase = "sent"
  /\ task' = [task EXCEPT ![d].phase = "refused"]
  /\ UNCHANGED <<row, image, label, main, last, crossed>>

\* Mutant: the image goes only into an empty image view.
IntoEmptyView(d) ==
  [image EXCEPT ![task[d].cell] = IF @ = NoItem THEN task[d].item ELSE @]

\* Mutant: the image goes into whatever cell shows something now.
IntoVisibleCells(d) ==
  [c \in Cells |-> IF row[c] # NoItem THEN task[d].item ELSE image[c]]

\* self?.image = image
IntoView(d) == [image EXCEPT ![task[d].cell] = task[d].item]

\* The block on the main queue.
ShowImage ==
  /\ main # <<>>
  /\ image' = IntoView(Head(main))
  /\ task' = [task EXCEPT ![Head(main)].phase = "shown"]
  /\ main' = Tail(main)
  /\ UNCHANGED <<row, label, last, crossed>>

Next ==
  \/ \E c \in Cells : RowLeaves(c) \/ \E i \in Items : CellForItem(c, i)
  \/ \E d \in Downloads : ImageArrives(d) \/ ImageRefused(d)
  \/ ShowImage

\* URLSession ends every task and the main run loop drains its queue.  Nothing
\* makes the user scroll.
Fairness ==
  /\ \A d \in Downloads : WF_vars(ImageArrives(d) \/ ImageRefused(d))
  /\ WF_vars(ShowImage)

Spec == Init /\ [][Next]_vars
FairSpec == Spec /\ Fairness

-----------------------------------------------------------------------------
(* Properties.                                                             *)

\* The cell was not reused with an image of another item on its way.
Calm(c) == row[c] # NoItem /\ c \notin crossed

\* A cell that clears its image shows the image and the text of one item,
\* whatever it showed before and whenever images arrive.  Two cases are excepted,
\* and they are the ways these cells go wrong: a download for the item before was
\* under way when the cell was set up and may come last; or the cell shows an
\* actor whose name has more than two words, under the name of the actor before.
NameAndImageAgree ==
  \A c \in Clearing :
     (Calm(c) /\ (c \in Actors => row[c] \in Short)) => image[c] \in {NoItem, label[c]}

\* While a row stays on the screen no other item's image comes into it, unless a
\* download for the item before was under way when the cell was set up.
NoForeignImage ==
  [][\A c \in Cells :
        (Calm(c) /\ row'[c] = row[c] /\ image'[c] # image[c]) => image'[c] = row[c]]_vars

\* A row with an image path that stays on the screen gets its image, unless the
\* download is refused or the cell was reused too early.
RowGetsImage ==
  \A c \in Cells, i \in Linked :
    (row[c] = i) ~> \/ row[c] # i \/ image[c] = i \/ c \in crossed
                    \/ \E d \in last[c] : task[d].phase = "refused"
=============================================================================
