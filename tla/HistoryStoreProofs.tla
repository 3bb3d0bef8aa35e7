------------------------- MODULE HistoryStoreProofs -------------------------
(***************************************************************************)
(* What HistoryStore promises, for any number of devices, visits and looks.*)
(*                                                                         *)
(* Whatever overlaps or fails, every list anywhere (at the server, on a    *)
(* device, in a queue, in a callback) has its entries in the order they    *)
(* were recorded.  As long as nothing is tainted, one device at a time has *)
(* unanswered writes, and each write in its queue carries every entry that *)
(* was not refused except those written behind it.  So whichever of them   *)
(* the server is at, after however many streams, what it lacks is still in *)
(* the queue.                                                              *)
(***************************************************************************)
EXTENDS HistoryStore, TLAPS

Own(d) == pending[d]["own"]

\* A document that exists has its entries in order.
Ordered(doc, rec) == doc \in History => InOrder(doc, rec)

\* Every list anywhere is in order, and a recorded call is over.
OrderInv ==
  /\ \A j \in DOMAIN recorded : phase[recorded[j]] = "done"
  /\ Ordered(server, recorded)
  /\ \A d \in Devices : Ordered(known[d], recorded)
  /\ \A d \in Devices, a \in Accounts :
       \A i \in DOMAIN pending[d][a] : Ordered(pending[d][a][i].field, recorded)
  /\ \A o \in Ops : Ordered(snap[o], recorded)

\* A queued write is that of a recorded call on this device.
QueueInv ==
  \A d \in Devices, a \in Accounts : \A i \in DOMAIN pending[d][a] :
     Holds(recorded, pending[d][a][i].op) /\ device[pending[d][a][i].op] = d

Visiting(o) == kind[o] = "visit" /\ Busy(o)

\* Only the user's own queues are used, on one device at a time; a visit under way is
\* the only one and on that device, where the user is signed in.
AloneInv ==
  /\ \A d \in Devices : pending[d]["other"] = <<>>
  /\ \A d, e \in Devices : Own(d) # <<>> /\ Own(e) # <<>> => d = e
  /\ \A o, p \in Ops : Visiting(o) /\ Visiting(p) => o = p
  /\ \A o \in Ops : Visiting(o) => \A e \in Devices \ {device[o]} : Own(e) = <<>>
  /\ \A o \in Ops : Busy(o) => account[device[o]] = "own"

Covered(doc, p) == p \in rejected \/ Holds(doc, p)

\* p is written behind the first j writes of d's queue.
Behind(d, j, p) == \E i \in DOMAIN Own(d) : i > j /\ Own(d)[i].op = p

\* What the server lacks is queued, and the server is where the open stream has got.
ServerInv ==
  /\ \A p \in Ops : Holds(recorded, p) => Covered(server, p) \/ Unanswered(p)
  /\ \A d \in Devices : sent[d] > 0 => server = Own(d)[sent[d]].field

\* What a queued write lacks is written behind it.
WritesInv ==
  \A d \in Devices : \A j \in DOMAIN Own(d) : \A p \in Ops :
     Holds(recorded, p) => Covered(Own(d)[j].field, p) \/ Behind(d, j, p)

\* A visit has read everything recorded so far.
SnapInv ==
  \A o \in Ops : Visiting(o) /\ phase[o] = "read" =>
     \/ snap[o] = Failed
     \/ snap[o] \in History /\ \A p \in Ops : Holds(recorded, p) => Covered(snap[o], p)

\* What the local document lacks of the device's own entries is queued; the document
\* that came over an open stream is where that stream was.
KnownInv ==
  \A d \in Devices :
     /\ Exists(known[d]) => \A p \in Ops : (Holds(recorded, p) /\ device[p] = d) =>
                               Covered(known[d], p) \/ Behind(d, 0, p)
     /\ seen[d] > 0 => known[d] = Own(d)[seen[d]].field

StoreInv == ServerInv /\ WritesInv /\ SnapInv /\ KnownInv

HistoryInv ==
  /\ HistoryTypeOK
  /\ OrderInv
  /\ QueueInv
  /\ ~tainted => AloneInv
  /\ ~tainted /\ server # Missing => StoreInv

-----------------------------------------------------------------------------
(* Lists.                                                                  *)

\* The empty list is in order, and no absent document is a list.
LEMMA MarkerFacts ==
  /\ \A rec : Ordered(<<>>, rec)
  /\ <<>> \in History
  /\ Missing \notin History /\ Unknown \notin History /\ Failed \notin History
  /\ \A doc \in History : Exists(doc)
  /\ \A doc \in History \cup {Missing, Unknown} : Exists(doc) => doc \in History
<1>1. /\ <<>> \in History
      /\ Missing \notin History /\ Unknown \notin History /\ Failed \notin History
  BY MarkersAssumption DEF History
<1>2. \A rec : Ordered(<<>>, rec)
  BY DEF Ordered, InOrder
<1> QED
  BY <1>1, <1>2 DEF Exists

\* What one more element does to a list.
LEMMA ListAppend ==
  ASSUME NEW s \in History, NEW o \in Ops
  PROVE  /\ Append(s, o) \in History
         /\ Len(s) \in Nat /\ DOMAIN s = 1 .. Len(s)
         /\ DOMAIN Append(s, o) = 1 .. (Len(s) + 1)
         /\ \A i \in 1 .. Len(s) : Append(s, o)[i] = s[i] /\ s[i] \in Ops
         /\ Append(s, o)[Len(s) + 1] = o
         /\ \A p : Holds(Append(s, o), p) <=> Holds(s, p) \/ p = o
<1>1. /\ Append(s, o) \in History
      /\ Len(s) \in Nat /\ DOMAIN s = 1 .. Len(s)
      /\ DOMAIN Append(s, o) = 1 .. (Len(s) + 1)
      /\ \A i \in 1 .. Len(s) : Append(s, o)[i] = s[i] /\ s[i] \in Ops
      /\ Append(s, o)[Len(s) + 1] = o
  BY DEF History
<1>2. \A p : Holds(Append(s, o), p) <=> Holds(s, p) \/ p = o
  BY <1>1 DEF Holds
<1> QED
  BY <1>1, <1>2

\* Recording another call leaves a list in order.
LEMMA OrderKept ==
  ASSUME NEW doc, NEW rec \in History, NEW o \in Ops, Ordered(doc, rec), ~Holds(rec, o)
  PROVE  Ordered(doc, Append(rec, o))
<1> SUFFICES ASSUME doc \in History PROVE InOrder(doc, Append(rec, o))
  BY DEF Ordered
<1>1. InOrder(doc, rec)
  BY DEF Ordered
<1>2. \A i \in DOMAIN doc : doc[i] # o /\ Holds(Append(rec, o), doc[i])
  BY <1>1, ListAppend DEF InOrder
<1>3. \A i \in DOMAIN doc, a \in DOMAIN Append(rec, o) :
        Append(rec, o)[a] = doc[i] => a \in DOMAIN rec /\ rec[a] = doc[i]
  BY <1>2, ListAppend
<1> QED
  BY <1>1, <1>2, <1>3 DEF InOrder

\* A list that ends with the call recorded last is in order.
LEMMA OrderGrows ==
  ASSUME NEW doc \in History, NEW rec \in History, NEW o \in Ops,
         Ordered(doc, rec), ~Holds(rec, o)
  PROVE  Ordered(Append(doc, o), Append(rec, o))
<1> DEFINE doc1 == Append(doc, o)
           rec1 == Append(rec, o)
<1>1. InOrder(doc, rec)
  BY DEF Ordered
<1>2. \A i \in DOMAIN doc1 : Holds(rec1, doc1[i])
  BY <1>1, ListAppend DEF InOrder
<1>3. \A a \in DOMAIN rec1 : \/ a \in DOMAIN rec /\ rec1[a] = rec[a] /\ rec[a] # o
                             \/ a = Len(rec) + 1 /\ rec1[a] = o
  BY ListAppend DEF Holds
<1>4. \A i \in DOMAIN doc1 : \/ i \in DOMAIN doc /\ doc1[i] = doc[i] /\ doc[i] # o
                             \/ i = Len(doc) + 1 /\ doc1[i] = o
  <2>1. \A i \in DOMAIN doc : doc[i] # o
    BY <1>1 DEF InOrder
  <2> QED
    BY <2>1, ListAppend
<1>5. ASSUME NEW i \in DOMAIN doc1, NEW j \in DOMAIN doc1,
             NEW a \in DOMAIN rec1, NEW b \in DOMAIN rec1,
             i < j, rec1[a] = doc1[i], rec1[b] = doc1[j]
      PROVE  a < b
  <2>1. Len(doc) \in Nat /\ Len(rec) \in Nat /\ DOMAIN rec = 1 .. Len(rec)
        /\ DOMAIN doc = 1 .. Len(doc) /\ DOMAIN doc1 = 1 .. (Len(doc) + 1)
    BY ListAppend
  <2>2. i \in DOMAIN doc /\ doc1[i] = doc[i] /\ doc[i] # o
    BY <1>4, <1>5, <2>1
  <2>3. a \in DOMAIN rec /\ rec[a] = doc[i]
    BY <1>3, <1>5, <2>2
  <2>4. CASE j = Len(doc) + 1 /\ doc1[j] = o
    BY <1>3, <1>5, <2>1, <2>3, <2>4
  <2>5. CASE j \in DOMAIN doc /\ doc1[j] = doc[j] /\ doc[j] # o
    BY <1>1, <1>3, <1>5, <2>2, <2>3, <2>5 DEF InOrder
  <2> QED
    BY <1>4, <2>4, <2>5
<1> QED
  BY <1>2, <1>5 DEF Ordered, InOrder

-----------------------------------------------------------------------------
(* Queues.                                                                 *)

\* A write at the end of a queue.
LEMMA QueueAppend ==
  ASSUME NEW q \in Seq(Write), NEW w \in Write
  PROVE  /\ Append(q, w) \in Seq(Write) /\ Append(q, w) # <<>>
         /\ Len(q) \in Nat /\ DOMAIN q = 1 .. Len(q)
         /\ Len(Append(q, w)) = Len(q) + 1
         /\ DOMAIN Append(q, w) = 1 .. (Len(q) + 1)
         /\ \A i \in 1 .. Len(q) : Append(q, w)[i] = q[i] /\ q[i] \in Write
         /\ Append(q, w)[Len(q) + 1] = w
  OBVIOUS

\* The head of a queue, and the queue behind it.
LEMMA QueueTail ==
  ASSUME NEW q \in Seq(Write), q # <<>>
  PROVE  /\ Head(q) \in Write /\ Head(q) = q[1]
         /\ Tail(q) \in Seq(Write)
         /\ Len(q) \in Nat \ {0} /\ DOMAIN q = 1 .. Len(q)
         /\ Len(Tail(q)) = Len(q) - 1
         /\ DOMAIN Tail(q) = 1 .. (Len(q) - 1)
         /\ \A i \in 1 .. (Len(q) - 1) : Tail(q)[i] = q[i + 1]
  OBVIOUS

\* The elements of a queue.
LEMMA QueueFacts ==
  ASSUME NEW q \in Seq(Write)
  PROVE  /\ Len(q) \in Nat /\ DOMAIN q = 1 .. Len(q)
         /\ \A i \in DOMAIN q : q[i] \in Write /\ q[i].op \in Ops /\ q[i].field \in History
         /\ q = <<>> <=> Len(q) = 0
         /\ q # <<>> => Len(q) \in DOMAIN q
<1>1. /\ Len(q) \in Nat /\ DOMAIN q = 1 .. Len(q)
      /\ \A i \in DOMAIN q : q[i] \in Write
      /\ q = <<>> <=> Len(q) = 0
      /\ q # <<>> => Len(q) \in DOMAIN q
  OBVIOUS
<1>2. \A w \in Write : w.op \in Ops /\ w.field \in History
  BY DEF Write
<1> QED
  BY <1>1, <1>2

\* One queue of one device is replaced.
LEMMA PendingUpdate ==
  ASSUME pending \in [Devices -> [Accounts -> Seq(Write)]],
         NEW d \in Devices, NEW a \in Accounts, NEW q \in Seq(Write),
         pending' = [pending EXCEPT ![d][a] = q]
  PROVE  /\ pending' \in [Devices -> [Accounts -> Seq(Write)]]
         /\ pending'[d][a] = q
         /\ \A e \in Devices, b \in Accounts : (e # d \/ b # a) => pending'[e][b] = pending[e][b]
<1>1. pending[d] \in [Accounts -> Seq(Write)]
  OBVIOUS
<1>2. [pending[d] EXCEPT ![a] = q] \in [Accounts -> Seq(Write)]
  BY <1>1
<1>3. pending' = [pending EXCEPT ![d] = [pending[d] EXCEPT ![a] = q]]
  OBVIOUS
<1> QED
  BY <1>1, <1>2, <1>3

-----------------------------------------------------------------------------
(* Reads.                                                                  *)

\* A read returns a document or its absence; lists stay in order.
LEMMA OverlayFacts ==
  ASSUME HistoryTypeOK, OrderInv, NEW d \in Devices,
         NEW doc \in History \cup {Missing}, Ordered(doc, recorded)
  PROVE  /\ Overlay(d, doc) \in History \cup {Missing}
         /\ Ordered(Overlay(d, doc), recorded)
         /\ doc \in History => Overlay(d, doc) \in History
<1>1. account[d] \in Accounts /\ Queue(d) \in Seq(Write)
  BY DEF HistoryTypeOK, Queue
<1>2. CASE Queue(d) = <<>>
  BY <1>2 DEF Overlay
<1>3. CASE Queue(d) # <<>>
  <2>1. Len(Queue(d)) \in DOMAIN Queue(d) /\ Queue(d)[Len(Queue(d))].field \in History
    BY <1>1, <1>3, QueueFacts
  <2>2. Ordered(Queue(d)[Len(Queue(d))].field, recorded)
    BY <1>1, <2>1 DEF OrderInv, Queue
  <2> QED
    BY <1>3, <2>1, <2>2 DEF Overlay, ApplyToLocalView
<1> QED
  BY <1>2, <1>3

\* Untainted, where the user is signed in, the end of the queue is what is read, and
\* it covers everything.
LEMMA OverlayOfQueue ==
  ASSUME HistoryInv, ~tainted, server # Missing, NEW d \in Devices, account[d] = "own",
         NEW doc \in History
  PROVE  /\ Own(d) = <<>> => Overlay(d, doc) = doc
         /\ Own(d) # <<>> => \A p \in Ops : Holds(recorded, p) => Covered(Overlay(d, doc), p)
<1>1. Queue(d) = Own(d) /\ Own(d) \in Seq(Write) /\ Exists(doc)
  BY MarkerFacts DEF HistoryInv, HistoryTypeOK, Queue, Own, Accounts
<1>2. CASE Own(d) = <<>>
  BY <1>1, <1>2 DEF Overlay
<1>3. CASE Own(d) # <<>>
  <2>1. /\ Len(Own(d)) \in DOMAIN Own(d) /\ DOMAIN Own(d) = 1 .. Len(Own(d))
        /\ Len(Own(d)) \in Nat
    BY <1>1, <1>3, QueueFacts
  <2>2. \A p : ~Behind(d, Len(Own(d)), p)
    BY <2>1 DEF Behind
  <2>3. Overlay(d, doc) = Own(d)[Len(Own(d))].field
    BY <1>1, <1>3 DEF Overlay, ApplyToLocalView
  <2> QED
    BY <1>3, <2>1, <2>2, <2>3 DEF HistoryInv, StoreInv, WritesInv
<1> QED
  BY <1>2, <1>3

\* Untainted, what the server lacks of a device's entries is in the device's own queue.
LEMMA ServerLacks ==
  ASSUME HistoryInv, ~tainted, server # Missing, NEW p \in Ops, Holds(recorded, p)
  PROVE  Covered(server, p) \/ Behind(device[p], 0, p)
<1>1. HistoryTypeOK /\ QueueInv /\ AloneInv /\ ServerInv
  BY DEF HistoryInv, StoreInv
<1>2. CASE Covered(server, p)
  BY <1>2
<1>3. CASE Unanswered(p)
  <2>1. PICK d \in Devices, a \in Accounts :
          \E i \in DOMAIN pending[d][a] : pending[d][a][i].op = p
    BY <1>3 DEF Unanswered
  <2>2. PICK i \in DOMAIN pending[d][a] : pending[d][a][i].op = p
    BY <2>1
  <2>3. pending[d][a] \in Seq(Write)
    BY <1>1 DEF HistoryTypeOK
  <2>4. pending[d][a] # <<>> /\ i > 0
    BY <2>2, <2>3, QueueFacts
  <2>5. a = "own"
    BY <1>1, <2>4 DEF AloneInv, Accounts
  <2>6. device[p] = d
    BY <1>1, <2>2 DEF QueueInv
  <2> QED
    BY <2>2, <2>4, <2>5, <2>6 DEF Behind, Own
<1> QED
  BY <1>1, <1>2, <1>3 DEF ServerInv

\* Untainted, a device that alone may have unanswered writes reads everything.
LEMMA OverlayComplete ==
  ASSUME HistoryInv, ~tainted, server # Missing, NEW d \in Devices, account[d] = "own",
         \A e \in Devices \ {d} : Own(e) = <<>>
  PROVE  \A p \in Ops : Holds(recorded, p) => Covered(Overlay(d, server), p)
<1>1. server \in History /\ device \in [Ops -> Devices]
  BY DEF HistoryInv, HistoryTypeOK
<1>2. CASE Own(d) = <<>>
  <2>1. \A e \in Devices : \A p : ~Behind(e, 0, p)
    BY <1>2 DEF Behind
  <2> QED
    BY <1>1, <1>2, <2>1, OverlayOfQueue, ServerLacks
<1>3. CASE Own(d) # <<>>
  BY <1>1, <1>3, OverlayOfQueue
<1> QED
  BY <1>2, <1>3

\* Untainted, a device reads its own entries from the server and from its document.
LEMMA OverlayOwn ==
  ASSUME HistoryInv, ~tainted, server # Missing, NEW d \in Devices, account[d] = "own",
         NEW doc, doc = server \/ (doc = known[d] /\ Exists(known[d]))
  PROVE  \A p \in Ops : (Holds(recorded, p) /\ device[p] = d) => Covered(Overlay(d, doc), p)
<1>1. doc \in History
  BY MarkerFacts DEF HistoryInv, HistoryTypeOK
<1>2. CASE Own(d) = <<>>
  <2>1. \A p : ~Behind(d, 0, p)
    BY <1>2 DEF Behind
  <2>2. CASE doc = server
    BY <1>1, <1>2, <2>1, <2>2, OverlayOfQueue, ServerLacks
  <2>3. CASE doc = known[d] /\ Exists(known[d])
    BY <1>1, <1>2, <2>1, <2>3, OverlayOfQueue DEF HistoryInv, StoreInv, KnownInv
  <2> QED
    BY <2>2, <2>3
<1>3. CASE Own(d) # <<>>
  BY <1>1, <1>3, OverlayOfQueue
<1> QED
  BY <1>2, <1>3

\* What a callback finds is a list in order.
LEMMA FoundFacts ==
  ASSUME HistoryTypeOK, OrderInv, NEW o \in Ops
  PROVE  /\ Found(o) \in History /\ Ordered(Found(o), recorded)
         /\ snap[o] \in History => Found(o) = snap[o]
  BY MarkerFacts DEF Found, HistoryTypeOK, OrderInv

-----------------------------------------------------------------------------
(* One lemma per kind of step.                                             *)

\* The initial state satisfies the invariant: nothing was recorded.
LEMMA HistoryInit == Init => HistoryInv
<1> SUFFICES ASSUME Init PROVE HistoryInv
  OBVIOUS
<1>1. tainted \in BOOLEAN
  BY Zenon DEF Init
<1>2. <<>> \in Seq(Write) /\ Len(<<>>) = 0
  OBVIOUS
<1>3. /\ \A d \in Devices, a \in Accounts : pending[d][a] = <<>>
      /\ pending \in [Devices -> [Accounts -> Seq(Write)]]
      /\ account \in [Devices -> Accounts]
      /\ \A d \in Devices : Queue(d) = <<>> /\ Own(d) = <<>>
  BY <1>2 DEF Init, Accounts, Queue, Own
<1>4. device \in [Ops -> Devices]
  BY DEF Init
<1>5. HistoryTypeOK
  BY <1>1, <1>2, <1>3, <1>4, MarkerFacts DEF Init, HistoryTypeOK, Phases
<1>6. \A p : ~Holds(recorded, p)
  BY DEF Init, Holds
<1>7. OrderInv
  BY <1>3, MarkerFacts DEF Init, OrderInv, Ordered
<1>8. QueueInv
  BY <1>3 DEF QueueInv
<1>9. AloneInv
  BY <1>3 DEF Init, AloneInv, Visiting, Busy, Accounts
<1>10. StoreInv
  BY <1>3, <1>6 DEF Init, StoreInv, ServerInv, WritesInv, SnapInv, KnownInv, Visiting, Busy
<1> QED
  BY <1>5, <1>7, <1>8, <1>9, <1>10 DEF HistoryInv

\* A visit or a look begins.
LEMMA BeginStep ==
  ASSUME HistoryInv, NEW o \in Ops, NEW k \in {"visit", "look"}, NEW d \in Devices,
         GetDocument(o, k, d)
  PROVE  HistoryInv'
<1>1. /\ phase[o] = "idle" /\ account[d] = "own"
      /\ phase' = [phase EXCEPT ![o] = "asked"]
      /\ kind' = [kind EXCEPT ![o] = k]
      /\ device' = [device EXCEPT ![o] = d]
      /\ tainted' = (tainted \/ (k = "visit" /\ Overlapping(d)))
      /\ UNCHANGED <<server, known, account, pending, sent, seen, snap, shown, recorded, rejected>>
  BY DEF GetDocument, store
<1>2. HistoryTypeOK /\ OrderInv /\ QueueInv
  BY DEF HistoryInv
<1>3. tainted' \in BOOLEAN
  BY <1>1, <1>2, Zenon DEF HistoryTypeOK
<1>4. HistoryTypeOK'
  BY <1>1, <1>2, <1>3 DEF HistoryTypeOK, Phases, Queue
<1>5. \A p \in Ops : p # o => /\ phase'[p] = phase[p] /\ kind'[p] = kind[p] /\ device'[p] = device[p]
                              /\ Visiting(p)' <=> Visiting(p)
                              /\ Busy(p)' <=> Busy(p)
  BY <1>1, <1>2 DEF Visiting, Busy, HistoryTypeOK
<1>6. /\ ~Busy(o) /\ phase'[o] = "asked" /\ device'[o] = d /\ kind'[o] = k
      /\ ~Holds(recorded, o)
  BY <1>1, <1>2 DEF Busy, HistoryTypeOK, OrderInv, Holds
<1>7. \A p : Holds(recorded, p) => p \in Ops /\ p # o
  BY <1>2, <1>6 DEF HistoryTypeOK, Holds, History
<1>8. OrderInv'
  <2>1. \A j \in DOMAIN recorded : phase'[recorded[j]] = "done"
    BY <1>2, <1>5, <1>7 DEF OrderInv, Holds
  <2> QED
    BY <1>1, <1>2, <2>1 DEF OrderInv
<1>9. QueueInv'
  BY <1>1, <1>2, <1>5, <1>7 DEF QueueInv
<1>10. ASSUME ~tainted' PROVE ~tainted /\ (Visiting(o)' => ~Overlapping(d))
  BY <1>1, <1>6, <1>10 DEF Visiting
<1>11. ASSUME ~tainted' PROVE AloneInv'
  <2>1. AloneInv /\ (Visiting(o)' => ~Overlapping(d))
    BY <1>10, <1>11 DEF HistoryInv
  <2>2. ~Overlapping(d) => /\ \A p \in Ops : ~Visiting(p)
                           /\ \A e \in Devices \ {d} : Own(e) = <<>>
    BY DEF Overlapping, Visiting, Own
  <2>3. \A e \in Devices : Own(e)' = Own(e)
    BY <1>1 DEF Own
  <2>4. /\ \A p, q \in Ops : Visiting(p)' /\ Visiting(q)' => p = q
        /\ \A p \in Ops : Visiting(p)' => \A e \in Devices \ {device'[p]} : Own(e)' = <<>>
    BY <1>5, <1>6, <2>1, <2>2, <2>3 DEF AloneInv
  <2>5. \A p \in Ops : Busy(p)' => account'[device'[p]] = "own"
    BY <1>1, <1>5, <1>6, <2>1 DEF AloneInv
  <2> QED
    BY <1>1, <2>1, <2>3, <2>4, <2>5 DEF AloneInv
<1>12. ASSUME ~tainted', server' # Missing PROVE StoreInv'
  <2>1. ServerInv /\ WritesInv /\ SnapInv /\ KnownInv
    BY <1>1, <1>10, <1>12 DEF HistoryInv, StoreInv
  <2>2. /\ \A doc, p : Covered(doc, p)' <=> Covered(doc, p)
        /\ \A e, j, p : Behind(e, j, p)' <=> Behind(e, j, p)
        /\ \A p : Unanswered(p)' <=> Unanswered(p)
        /\ \A e : Own(e)' = Own(e)
    BY <1>1 DEF Covered, Behind, Unanswered, Own
  <2>3. ServerInv' /\ WritesInv'
    BY <1>1, <2>1, <2>2 DEF ServerInv, WritesInv, Covered, Behind, Own, Unanswered
  <2>4. SnapInv'
    BY <1>1, <1>5, <1>6, <2>1 DEF SnapInv, Covered
  <2>5. KnownInv'
    BY <1>1, <1>5, <1>7, <2>1 DEF KnownInv, Covered, Behind, Own
  <2> QED
    BY <2>3, <2>4, <2>5 DEF StoreInv
<1> QED
  BY <1>4, <1>8, <1>9, <1>11, <1>12 DEF HistoryInv

\* getDocument answers.
LEMMA ReadStepKeeps ==
  ASSUME HistoryInv, NEW o \in Ops, ReadStep(o)
  PROVE  HistoryInv'
<1> DEFINE d == device[o]
<1>a. HistoryTypeOK /\ OrderInv /\ QueueInv
  BY DEF HistoryInv
<1>b. d \in Devices
  BY <1>a DEF HistoryTypeOK
\* What the three ways to answer have in common.
<1>1. /\ \E doc \in History \cup {Missing, Failed} :
           /\ Ordered(doc, recorded)
           /\ Answered(o, doc)
           /\ doc = Failed \/ doc = Overlay(d, server)
              \/ (Exists(known[d]) /\ doc = Overlay(d, known[d]))
           /\ ~tainted' /\ kind[o] = "visit" => doc = Failed \/ doc = Overlay(d, server)
      /\ \/ known' = known /\ seen' = seen
         \/ known' = [known EXCEPT ![d] = server] /\ seen' = [seen EXCEPT ![d] = sent[d]]
      /\ tainted' \in BOOLEAN
      /\ ~tainted' => ~tainted
  <2>1. CASE ReadServer(o)
    <3>1. /\ Overlay(d, server) \in History \cup {Missing}
          /\ Ordered(Overlay(d, server), recorded)
      BY <1>a, <1>b, OverlayFacts DEF HistoryTypeOK, OrderInv
    <3>2. /\ Answered(o, Overlay(d, server)) /\ tainted' = tainted
          /\ known' = [known EXCEPT ![d] = server] /\ seen' = [seen EXCEPT ![d] = sent[d]]
      BY <2>1 DEF ReadServer
    <3> QED
      BY <1>a, <3>1, <3>2 DEF HistoryTypeOK
  <2>2. CASE ReadCached(o)
    <3>1. /\ Exists(known[d]) /\ Answered(o, Overlay(d, known[d])) /\ known' = known /\ seen' = seen
          /\ tainted' = (tainted \/ (kind[o] = "visit" /\ Overlay(d, known[d]) # Overlay(d, server)))
      BY <2>2 DEF ReadCached
    <3>2. known[d] \in History
      BY <1>a, <1>b, <3>1, MarkerFacts DEF HistoryTypeOK
    <3>3. Overlay(d, known[d]) \in History /\ Ordered(Overlay(d, known[d]), recorded)
      BY <1>a, <1>b, <3>2, OverlayFacts DEF OrderInv
    <3>4. tainted' \in BOOLEAN
      BY <3>1, <1>a, Zenon DEF HistoryTypeOK
    <3>5. ~tainted' => ~tainted /\ (kind[o] = "visit" => Overlay(d, known[d]) = Overlay(d, server))
      BY <3>1
    <3> QED
      BY <3>1, <3>3, <3>4, <3>5
  <2>3. CASE ReadFailed(o)
    <3>1. Ordered(Failed, recorded)
      BY MarkerFacts DEF Ordered
    <3>2. Answered(o, Failed) /\ known' = known /\ seen' = seen /\ tainted' = tainted
      BY <2>3 DEF ReadFailed
    <3> QED
      BY <1>a, <3>1, <3>2 DEF HistoryTypeOK
  <2> QED
    BY <2>1, <2>2, <2>3 DEF ReadStep
<1>2. PICK doc \in History \cup {Missing, Failed} :
           /\ Ordered(doc, recorded)
           /\ Answered(o, doc)
           /\ ~tainted' /\ kind[o] = "visit" => doc = Failed \/ doc = Overlay(d, server)
  BY <1>1
<1>3. /\ phase[o] = "asked" /\ phase' = [phase EXCEPT ![o] = "read"]
      /\ snap' = [snap EXCEPT ![o] = doc]
      /\ UNCHANGED <<server, account, pending, sent, kind, device, shown, recorded, rejected>>
  BY <1>2 DEF Answered
<1>4. /\ \A e \in Devices : e # d => known'[e] = known[e] /\ seen'[e] = seen[e]
      /\ \/ known'[d] = known[d] /\ seen'[d] = seen[d]
         \/ known'[d] = server /\ seen'[d] = sent[d]
      /\ known' \in [Devices -> History \cup {Missing, Unknown}]
      /\ seen' \in [Devices -> Nat]
  <2>1. /\ known \in [Devices -> History \cup {Missing, Unknown}] /\ seen \in [Devices -> Nat]
        /\ server \in History \cup {Missing} /\ sent[d] \in Nat
    BY <1>a, <1>b DEF HistoryTypeOK
  <2>2. CASE known' = known /\ seen' = seen
    BY <2>1, <2>2
  <2>3. CASE known' = [known EXCEPT ![d] = server] /\ seen' = [seen EXCEPT ![d] = sent[d]]
    BY <1>b, <2>1, <2>3
  <2> QED
    BY <1>1, <2>2, <2>3
<1>5. HistoryTypeOK'
  <2>1. /\ \A e \in Devices : seen[e] <= sent[e] /\ sent[e] <= Len(Queue(e))
        /\ sent \in [Devices -> Nat]
    BY <1>a DEF HistoryTypeOK
  <2>2. ASSUME NEW e \in Devices PROVE seen'[e] <= sent'[e]
    <3>1. seen'[e] = seen[e] \/ seen'[e] = sent[e]
      BY <1>4
    <3> QED
      BY <1>3, <2>1, <3>1
  <2>3. \A e \in Devices : Queue(e)' = Queue(e)
    BY <1>3 DEF Queue
  <2>4. \A e \in Devices : sent'[e] <= Len(Queue(e))'
    BY <1>3, <2>1, <2>3
  <2>5. /\ phase' \in [Ops -> Phases]
        /\ snap' \in [Ops -> History \cup {Missing, Failed}]
    BY <1>a, <1>2, <1>3 DEF HistoryTypeOK, Phases
  <2> QED
    BY <1>a, <1>1, <1>3, <1>4, <2>2, <2>4, <2>5 DEF HistoryTypeOK
<1>6. OrderInv'
  <2>1. \A j \in DOMAIN recorded : recorded[j] \in Ops
    BY <1>a DEF HistoryTypeOK, History
  <2>2. \A j \in DOMAIN recorded : phase'[recorded[j]] = "done"
    BY <1>a, <1>3, <2>1 DEF HistoryTypeOK, OrderInv
  <2>3. \A p \in Ops : Ordered(snap'[p], recorded)
    BY <1>a, <1>2, <1>3 DEF HistoryTypeOK, OrderInv
  <2>4. \A e \in Devices : Ordered(known'[e], recorded)
    BY <1>a, <1>4 DEF OrderInv
  <2> QED
    BY <1>a, <1>3, <2>2, <2>3, <2>4 DEF OrderInv
<1>7. QueueInv'
  BY <1>a, <1>3 DEF QueueInv
<1>8. /\ \A p \in Ops : (Visiting(p)' <=> Visiting(p)) /\ (Busy(p)' <=> Busy(p))
      /\ \A p \in Ops : p # o => phase'[p] = phase[p] /\ snap'[p] = snap[p]
      /\ snap'[o] = doc
  BY <1>a, <1>3 DEF Visiting, Busy, HistoryTypeOK
<1>9. ASSUME ~tainted' PROVE AloneInv'
  BY <1>1, <1>3, <1>8, <1>9 DEF HistoryInv, AloneInv, Own
<1>10. ASSUME ~tainted', server' # Missing PROVE StoreInv'
  <2>1. ~tainted /\ server # Missing /\ AloneInv /\ ServerInv /\ WritesInv /\ SnapInv /\ KnownInv
    BY <1>1, <1>3, <1>10 DEF HistoryInv, StoreInv
  <2>2. server \in History
    BY <1>a, <2>1 DEF HistoryTypeOK
  <2>3. ServerInv' /\ WritesInv'
    BY <1>3, <2>1 DEF ServerInv, WritesInv, Covered, Behind, Own, Unanswered
  <2>4. ASSUME Visiting(o)
        PROVE  doc = Failed \/ (doc \in History /\ \A p \in Ops : Holds(recorded, p) => Covered(doc, p))
    <3>1. account[d] = "own" /\ \A e \in Devices \ {d} : Own(e) = <<>>
      BY <2>1, <2>4 DEF AloneInv, Visiting
    <3>2. \A p \in Ops : Holds(recorded, p) => Covered(Overlay(d, server), p)
      BY <1>b, <2>1, <3>1, OverlayComplete
    <3>3. Overlay(d, server) \in History
      BY <1>a, <1>b, <2>2, OverlayFacts DEF OrderInv
    <3> QED
      BY <1>2, <1>10, <2>4, <3>2, <3>3 DEF Visiting
  <2>5. SnapInv'
    BY <1>3, <1>8, <2>1, <2>4 DEF SnapInv, Covered
  <2>6. KnownInv'
    <3>1. \A p \in Ops : (Holds(recorded, p) /\ device[p] = d) => Covered(server, p) \/ Behind(d, 0, p)
      BY <2>1, ServerLacks
    <3>2. sent[d] > 0 => server = Own(d)[sent[d]].field
      BY <1>b, <2>1 DEF ServerInv
    <3>3. \A e \in Devices :
            /\ Exists(known'[e]) => \A p \in Ops : (Holds(recorded, p) /\ device[p] = e) =>
                                      Covered(known'[e], p) \/ Behind(e, 0, p)
            /\ seen'[e] > 0 => known'[e] = Own(e)[seen'[e]].field
      BY <1>4, <2>1, <3>1, <3>2 DEF KnownInv
    <3> QED
      BY <1>3, <3>3 DEF KnownInv, Covered, Behind, Own
  <2> QED
    BY <2>3, <2>5, <2>6 DEF StoreInv
<1> QED
  BY <1>5, <1>6, <1>7, <1>9, <1>10 DEF HistoryInv

\* Untainted, a stream that the server took writes from is that of the user's own
\* queue.
LEMMA OpenStream ==
  ASSUME HistoryTypeOK, AloneInv, NEW d \in Devices, sent[d] > 0
  PROVE  /\ Queue(d) = Own(d) /\ Own(d) # <<>> /\ account[d] = "own"
         /\ sent[d] \in DOMAIN Own(d)
         /\ seen[d] > 0 => seen[d] \in DOMAIN Own(d)
<1>1. /\ sent[d] <= Len(Queue(d)) /\ sent[d] \in Nat /\ Queue(d) \in Seq(Write)
      /\ seen[d] <= sent[d] /\ seen[d] \in Nat
  BY DEF HistoryTypeOK, Queue
<1>2. /\ Queue(d) # <<>> /\ sent[d] \in DOMAIN Queue(d)
      /\ seen[d] > 0 => seen[d] \in DOMAIN Queue(d)
  BY <1>1, QueueFacts
<1>3. account[d] = "own"
  BY <1>2 DEF HistoryTypeOK, AloneInv, Queue, Accounts
<1> QED
  BY <1>1, <1>2, <1>3, QueueFacts DEF Queue, Own

\* The callback of uploadHistoryToFirebase queues its write.
LEMMA RecordStep ==
  ASSUME HistoryInv, NEW o \in Ops, RecordVisit(o)
  PROVE  HistoryInv'
<1>a. HistoryTypeOK /\ OrderInv /\ QueueInv
  BY DEF HistoryInv
<1>b. PICK d \in Devices, a \in Accounts, q \in Seq(Write) :
        d = device[o] /\ a = account[d] /\ q = pending[d][a]
  BY <1>a DEF HistoryTypeOK
<1>c. PICK f \in History, w \in Write :
        f = Append(Found(o), o) /\ w = [op |-> o, field |-> f] /\ w.op = o /\ w.field = f
  <2>1. Append(Found(o), o) \in History
    BY <1>a, FoundFacts, ListAppend
  <2>2. [op |-> o, field |-> Append(Found(o), o)] \in Write
    BY <2>1 DEF Write
  <2> QED
    BY <2>1, <2>2
<1>1. /\ phase[o] = "read" /\ kind[o] = "visit"
      /\ phase' = [phase EXCEPT ![o] = "done"]
      /\ pending' = [pending EXCEPT ![d][a] = Append(q, w)]
      /\ recorded' = Append(recorded, o)
      /\ tainted' = (tainted \/ snap[o] = Failed)
      /\ UNCHANGED <<server, known, account, sent, seen, kind, device, snap, shown, rejected>>
  BY <1>b, <1>c DEF RecordVisit, NewHistory
<1>2. recorded \in History /\ ~Holds(recorded, o)
  BY <1>a, <1>1 DEF HistoryTypeOK, OrderInv, Holds
<1>4. PICK r \in Seq(Write) :
        /\ r = Append(q, w) /\ r # <<>>
        /\ Len(q) \in Nat /\ DOMAIN q = 1 .. Len(q)
        /\ Len(r) = Len(q) + 1
        /\ DOMAIN r = 1 .. (Len(q) + 1)
        /\ \A i \in 1 .. Len(q) : r[i] = q[i] /\ q[i] \in Write
        /\ r[Len(q) + 1].op = o /\ r[Len(q) + 1].field = f
  <2>1. Append(q, w)[Len(q) + 1].op = o /\ Append(q, w)[Len(q) + 1].field = f
    BY <1>c, QueueAppend
  <2> QED
    BY <2>1, QueueAppend
<1>3. /\ \A i \in DOMAIN q : i \in DOMAIN r /\ r[i] = q[i]
      /\ Len(q) + 1 \in DOMAIN r
      /\ \A i \in DOMAIN r : i \in DOMAIN q \/ i = Len(q) + 1
  BY <1>4
<1>5. /\ pending' \in [Devices -> [Accounts -> Seq(Write)]]
      /\ pending'[d][a] = r
      /\ \A e \in Devices, b \in Accounts : (e # d \/ b # a) => pending'[e][b] = pending[e][b]
  <2>1. pending \in [Devices -> [Accounts -> Seq(Write)]]
    BY <1>a DEF HistoryTypeOK
  <2>2. pending' = [pending EXCEPT ![d][a] = r]
    BY <1>1, <1>4
  <2> QED
    BY <2>1, <2>2, PendingUpdate
<1>6. /\ recorded' \in History
      /\ \A p : Holds(recorded', p) <=> Holds(recorded, p) \/ p = o
  BY <1>1, <1>2, ListAppend
<1>7. tainted' \in BOOLEAN
  BY <1>1, <1>a, Zenon DEF HistoryTypeOK
\* The elements of the queues after the step.
<1>8. ASSUME NEW e \in Devices, NEW b \in Accounts, NEW i \in DOMAIN pending'[e][b]
      PROVE  \/ i \in DOMAIN pending[e][b] /\ pending'[e][b][i] = pending[e][b][i]
             \/ e = d /\ b = a /\ i = Len(q) + 1 /\ pending'[e][b][i].op = o /\ pending'[e][b][i].field = f
  <2>1. CASE e = d /\ b = a
    <3>1. pending[e][b] = q /\ pending'[e][b] = r
      BY <1>b, <1>5, <2>1
    <3>2. i \in DOMAIN q \/ i = Len(q) + 1
      BY <1>3, <3>1
    <3> QED
      BY <1>3, <1>4, <2>1, <3>1, <3>2
  <2>2. CASE e # d \/ b # a
    BY <1>5, <2>2
  <2> QED
    BY <2>1, <2>2
<1>9. HistoryTypeOK'
  <2>1. \A e \in Devices : sent[e] <= Len(Queue(e)) /\ Len(Queue(e)) \in Nat /\ sent[e] \in Nat
    <3>1. \A e \in Devices : Queue(e) \in Seq(Write)
      BY <1>a DEF HistoryTypeOK, Queue
    <3> QED
      BY <1>a, <3>1, QueueFacts DEF HistoryTypeOK
  <2>2. \A e \in Devices : e # d => Queue(e)' = Queue(e)
    BY <1>a, <1>1, <1>5 DEF Queue, HistoryTypeOK
  <2>3. Len(Queue(d))' = Len(Queue(d)) + 1
    BY <1>b, <1>1, <1>4, <1>5 DEF Queue
  <2>4. \A e \in Devices : sent'[e] <= Len(Queue(e))'
    BY <1>1, <1>b, <2>1, <2>2, <2>3
  <2>5. phase' \in [Ops -> Phases]
    BY <1>a, <1>1 DEF HistoryTypeOK, Phases
  <2> QED
    BY <1>a, <1>1, <1>5, <1>6, <1>7, <2>4, <2>5 DEF HistoryTypeOK
<1>10. OrderInv'
  <2>1. \A doc : Ordered(doc, recorded) => Ordered(doc, recorded')
    BY <1>1, <1>2, OrderKept
  <2>2. Ordered(f, recorded')
    BY <1>a, <1>c, <1>1, <1>2, FoundFacts, OrderGrows
  <2>3. \A j \in DOMAIN recorded' : phase'[recorded'[j]] = "done"
    <3>1. \A j \in DOMAIN recorded' : recorded'[j] = o
                                     \/ (j \in DOMAIN recorded /\ recorded'[j] = recorded[j]
                                         /\ recorded[j] \in Ops)
      BY <1>1, <1>2, ListAppend
    <3>2. phase'[o] = "done" /\ \A p \in Ops : p # o => phase'[p] = phase[p]
      BY <1>a, <1>1 DEF HistoryTypeOK
    <3> QED
      BY <1>a, <3>1, <3>2 DEF OrderInv
  <2>4. \A e \in Devices, b \in Accounts :
          \A i \in DOMAIN pending'[e][b] : Ordered(pending'[e][b][i].field, recorded')
    BY <1>a, <1>8, <2>1, <2>2 DEF OrderInv
  <2> QED
    BY <1>a, <1>1, <2>1, <2>3, <2>4 DEF OrderInv
<1>11. QueueInv'
  <2> SUFFICES ASSUME NEW e \in Devices, NEW b \in Accounts, NEW i \in DOMAIN pending'[e][b]
               PROVE  Holds(recorded', pending'[e][b][i].op) /\ device[pending'[e][b][i].op] = e
    BY <1>1 DEF QueueInv
  <2>1. CASE i \in DOMAIN pending[e][b] /\ pending'[e][b][i] = pending[e][b][i]
    BY <1>a, <1>6, <2>1 DEF QueueInv
  <2>2. CASE e = d /\ pending'[e][b][i].op = o
    BY <1>b, <1>6, <2>2
  <2> QED
    BY <1>8, <2>1, <2>2
<1>12. /\ \A p \in Ops : p # o => /\ phase'[p] = phase[p]
                                  /\ Visiting(p)' <=> Visiting(p)
                                  /\ Busy(p)' <=> Busy(p)
       /\ Visiting(o) /\ Busy(o) /\ ~Busy(o)'
  BY <1>a, <1>1 DEF Visiting, Busy, HistoryTypeOK
<1>13. ASSUME ~tainted'
       PROVE  /\ ~tainted /\ snap[o] # Failed /\ AloneInv /\ a = "own"
              /\ q = Own(d) /\ Own(d)' = r
              /\ \A e \in Devices : e # d => Own(e)' = <<>> /\ Own(e) = <<>>
              /\ \A e \in Devices : pending'[e]["other"] = <<>>
              /\ \A p \in Ops : ~Visiting(p)'
  <2>1. ~tainted /\ snap[o] # Failed
    BY <1>1, <1>13
  <2>2. AloneInv
    BY <2>1 DEF HistoryInv
  <2>3. a = "own"
    BY <1>b, <1>12, <2>2 DEF AloneInv
  <2>4. q = Own(d) /\ Own(d)' = r /\ \A e \in Devices : e # d => Own(e)' = Own(e)
    BY <1>b, <1>5, <2>3 DEF Own, Accounts
  <2>5. \A e \in Devices : e # d => Own(e) = <<>>
    BY <1>b, <1>12, <2>2 DEF AloneInv
  <2>6. \A e \in Devices : pending'[e]["other"] = <<>>
    BY <1>5, <2>2, <2>3 DEF AloneInv, Accounts
  <2>7. \A p \in Ops : ~Visiting(p)'
    BY <1>12, <2>2 DEF AloneInv, Visiting
  <2> QED
    BY <2>1, <2>2, <2>3, <2>4, <2>5, <2>6, <2>7
<1>14. ASSUME ~tainted' PROVE AloneInv'
  BY <1>1, <1>12, <1>13, <1>14 DEF AloneInv
<1>15. ASSUME ~tainted', server' # Missing PROVE StoreInv'
  <2>1. ServerInv /\ WritesInv /\ SnapInv /\ KnownInv
    BY <1>1, <1>13, <1>15 DEF HistoryInv, StoreInv
  <2>2. \A doc, p : Covered(doc, p)' <=> p \in rejected \/ Holds(doc, p)'
    BY <1>1 DEF Covered
  <2>3. \A p \in Ops : Holds(recorded', p) => Covered(f, p)
    <3>1. snap[o] \in History /\ \A p \in Ops : Holds(recorded, p) => Covered(snap[o], p)
      BY <1>1, <1>12, <1>13, <1>15, <2>1 DEF SnapInv
    <3>2. f = Append(snap[o], o)
      BY <1>a, <1>c, <3>1, FoundFacts
    <3> QED
      BY <1>6, <3>1, <3>2, ListAppend DEF Covered
  <2>4. /\ \A e \in Devices : \A j, p : Behind(e, j, p) => Behind(e, j, p)'
        /\ \A j \in 0 .. Len(q) : Behind(d, j, o)'
    <3>1. ASSUME NEW e \in Devices, NEW j, NEW p, Behind(e, j, p) PROVE Behind(e, j, p)'
      BY <1>3, <1>13, <1>15, <3>1 DEF Behind
    <3>2. \A j \in 0 .. Len(q) : Behind(d, j, o)'
      BY <1>4, <1>13, <1>15 DEF Behind
    <3> QED
      BY <3>1, <3>2
  <2>5. ServerInv'
    <3>1. \A p : Unanswered(p) => Unanswered(p)'
      <4>1. \A e \in Devices, b \in Accounts : \A i \in DOMAIN pending[e][b] :
               i \in DOMAIN pending'[e][b] /\ pending'[e][b][i] = pending[e][b][i]
        <5> SUFFICES ASSUME NEW e \in Devices, NEW b \in Accounts, NEW i \in DOMAIN pending[e][b]
                     PROVE  i \in DOMAIN pending'[e][b] /\ pending'[e][b][i] = pending[e][b][i]
          OBVIOUS
        <5>1. CASE e = d /\ b = a
          BY <1>b, <1>3, <1>5, <5>1
        <5>2. CASE e # d \/ b # a
          BY <1>5, <5>2
        <5> QED
          BY <5>1, <5>2
      <4> QED
        BY <4>1 DEF Unanswered
    <3>2. Unanswered(o)'
      BY <1>3, <1>4, <1>5 DEF Unanswered
    <3>3. \A e \in Devices : sent[e] > 0 => server = Own(e)'[sent[e]].field
      <4> SUFFICES ASSUME NEW e \in Devices, sent[e] > 0 PROVE server = Own(e)'[sent[e]].field
        OBVIOUS
      <4>1. e = d /\ sent[e] \in DOMAIN Own(e)
        BY <1>a, <1>13, <1>15, OpenStream
      <4> QED
        BY <1>3, <1>13, <1>15, <2>1, <4>1 DEF ServerInv
    <3> QED
      BY <1>1, <1>6, <2>1, <3>1, <3>2, <3>3 DEF ServerInv, Covered
  <2>6. WritesInv'
    <3> SUFFICES ASSUME NEW e \in Devices, NEW j \in DOMAIN Own(e)', NEW p \in Ops,
                        Holds(recorded', p)
                 PROVE  Covered(Own(e)'[j].field, p) \/ Behind(e, j, p)'
      BY <1>1 DEF WritesInv, Covered
    <3>1. e = d /\ j \in 1 .. (Len(q) + 1) /\ Own(e)' = r
      BY <1>4, <1>13, <1>15
    <3>2. CASE j = Len(q) + 1
      BY <1>4, <2>3, <3>1, <3>2
    <3>3. CASE j \in 1 .. Len(q)
      <4>1. j \in DOMAIN Own(d) /\ Own(e)'[j] = Own(d)[j]
        BY <1>4, <1>13, <1>15, <3>1, <3>3
      <4>2. CASE p = o
        BY <2>4, <3>1, <3>3, <4>2
      <4>3. CASE Holds(recorded, p)
        BY <1>b, <2>1, <2>4, <3>1, <4>1, <4>3 DEF WritesInv
      <4> QED
        BY <1>6, <4>2, <4>3
    <3> QED
      BY <1>4, <3>1, <3>2, <3>3
  <2>7. SnapInv'
    BY <1>13, <1>15 DEF SnapInv
  <2>8. KnownInv'
    <3> SUFFICES ASSUME NEW e \in Devices
                 PROVE  /\ Exists(known[e]) => \A p \in Ops : (Holds(recorded', p) /\ device[p] = e) =>
                                                 Covered(known[e], p) \/ Behind(e, 0, p)'
                        /\ seen[e] > 0 => known[e] = Own(e)'[seen[e]].field
      BY <1>1 DEF KnownInv, Covered
    <3>1. ASSUME Exists(known[e]), NEW p \in Ops, Holds(recorded', p), device[p] = e
          PROVE  Covered(known[e], p) \/ Behind(e, 0, p)'
      <4>1. CASE p = o
        BY <1>b, <1>4, <2>4, <3>1, <4>1
      <4>2. CASE Holds(recorded, p)
        BY <2>1, <2>4, <3>1, <4>2 DEF KnownInv
      <4> QED
        BY <1>6, <3>1, <4>1, <4>2
    <3>2. ASSUME seen[e] > 0 PROVE known[e] = Own(e)'[seen[e]].field
      <4>1. sent[e] > 0
        BY <1>a, <3>2 DEF HistoryTypeOK
      <4>2. e = d /\ seen[e] \in DOMAIN Own(e)
        BY <1>a, <1>13, <1>15, <3>2, <4>1, OpenStream
      <4> QED
        BY <1>3, <1>13, <1>15, <2>1, <3>2, <4>2 DEF KnownInv
    <3> QED
      BY <3>1, <3>2
  <2> QED
    BY <2>5, <2>6, <2>7, <2>8 DEF StoreInv
<1> QED
  BY <1>9, <1>10, <1>11, <1>14, <1>15 DEF HistoryInv

\* A step that leaves the documents, the queues and the reads alone: operations end,
\* streams are opened anew, the account changes.
LEMMA QuietStep ==
  ASSUME HistoryInv,
         UNCHANGED <<server, known, pending, kind, device, snap, recorded, rejected>>,
         tainted' \in BOOLEAN, ~tainted' => ~tainted,
         account' \in [Devices -> Accounts],
         shown' \in [Ops -> History],
         phase' \in [Ops -> Phases],
         \A p \in Ops : phase'[p] = phase[p] \/ (Busy(p) /\ phase'[p] \in {"done", "lost"}),
         sent' \in [Devices -> Nat], seen' \in [Devices -> Nat],
         \A e \in Devices : \/ sent'[e] = sent[e] /\ seen'[e] = seen[e] /\ account'[e] = account[e]
                            \/ sent'[e] = 0 /\ seen'[e] = 0,
         ~tainted' => \A p \in Ops : Busy(p)' => account'[device[p]] = account[device[p]]
  PROVE  HistoryInv'
<1>a. HistoryTypeOK /\ OrderInv /\ QueueInv
  BY DEF HistoryInv
<1>1. HistoryTypeOK'
  <2>1. ASSUME NEW e \in Devices PROVE seen'[e] <= sent'[e] /\ sent'[e] <= Len(Queue(e))'
    <3>1. Queue(e)' \in Seq(Write) /\ Queue(e) \in Seq(Write)
      BY <1>a DEF HistoryTypeOK, Queue
    <3>2. Len(Queue(e))' \in Nat
      BY <3>1, QueueFacts
    <3>3. CASE sent'[e] = sent[e] /\ seen'[e] = seen[e] /\ account'[e] = account[e]
      BY <1>a, <3>3 DEF HistoryTypeOK, Queue
    <3>4. CASE sent'[e] = 0 /\ seen'[e] = 0
      BY <3>2, <3>4
    <3> QED
      BY <3>3, <3>4
  <2> QED
    BY <1>a, <2>1 DEF HistoryTypeOK
<1>2. OrderInv'
  <2>1. ASSUME NEW j \in DOMAIN recorded PROVE phase'[recorded[j]] = "done"
    <3>1. recorded[j] \in Ops /\ phase[recorded[j]] = "done"
      BY <1>a DEF HistoryTypeOK, History, OrderInv
    <3> QED
      BY <3>1 DEF Busy
  <2> QED
    BY <1>a, <2>1 DEF OrderInv
<1>3. QueueInv'
  BY <1>a DEF QueueInv
<1>4. \A p \in Ops : /\ Busy(p)' => Busy(p) /\ phase'[p] = phase[p]
                     /\ Visiting(p)' => Visiting(p)
  BY DEF Busy, Visiting
<1>5. ASSUME ~tainted' PROVE AloneInv'
  <2>1. AloneInv
    BY <1>5 DEF HistoryInv
  <2>2. \A p \in Ops : Busy(p)' => account'[device[p]] = "own"
    BY <1>4, <1>5, <2>1 DEF AloneInv
  <2> QED
    BY <1>4, <2>1, <2>2 DEF AloneInv, Own
<1>6. ASSUME ~tainted', server' # Missing PROVE StoreInv'
  <2>1. ServerInv /\ WritesInv /\ SnapInv /\ KnownInv
    BY <1>6 DEF HistoryInv, StoreInv
  <2>2. \A e \in Devices : (sent'[e] > 0 => sent'[e] = sent[e]) /\ (seen'[e] > 0 => seen'[e] = seen[e])
    OBVIOUS
  <2>3. ServerInv'
    BY <2>1, <2>2 DEF ServerInv, Covered, Unanswered, Own
  <2>4. WritesInv'
    BY <2>1 DEF WritesInv, Covered, Behind, Own
  <2>5. SnapInv'
    BY <1>4, <2>1 DEF SnapInv, Covered, Visiting
  <2>6. KnownInv'
    BY <2>1, <2>2 DEF KnownInv, Covered, Behind, Own
  <2> QED
    BY <2>3, <2>4, <2>5, <2>6 DEF StoreInv
<1> QED
  BY <1>1, <1>2, <1>3, <1>5, <1>6 DEF HistoryInv

\* The server moves on to the next write of an open stream.
LEMMA CommitStep ==
  ASSUME HistoryInv, NEW d \in Devices, Commit(d)
  PROVE  HistoryInv'
<1>a. HistoryTypeOK /\ OrderInv /\ QueueInv
  BY DEF HistoryInv
<1>1. /\ server # Missing /\ sent[d] < Len(Queue(d))
      /\ server' = Queue(d)[sent[d] + 1].field
      /\ sent' = [sent EXCEPT ![d] = sent[d] + 1]
      /\ UNCHANGED <<known, account, pending, seen, ops, recorded, rejected, tainted>>
  BY DEF Commit
<1>2. /\ Queue(d) \in Seq(Write) /\ account[d] \in Accounts
      /\ sent \in [Devices -> Nat] /\ seen \in [Devices -> Nat]
      /\ \A e \in Devices : seen[e] <= sent[e] /\ sent[e] <= Len(Queue(e))
  BY <1>a DEF HistoryTypeOK, Queue
<1>3. /\ sent[d] + 1 \in DOMAIN Queue(d) /\ Len(Queue(d)) \in Nat
      /\ server' \in History
  BY <1>1, <1>2, QueueFacts
<1>4. /\ sent' \in [Devices -> Nat] /\ sent'[d] = sent[d] + 1
      /\ \A e \in Devices : e # d => sent'[e] = sent[e]
  BY <1>1, <1>2
<1>5. HistoryTypeOK'
  <2>1. ASSUME NEW e \in Devices PROVE seen'[e] <= sent'[e] /\ sent'[e] <= Len(Queue(e))'
    <3>1. Queue(e)' = Queue(e) /\ seen'[e] = seen[e]
      BY <1>1 DEF Queue
    <3>2. CASE e = d
      BY <1>1, <1>2, <1>3, <1>4, <3>1, <3>2
    <3>3. CASE e # d
      BY <1>2, <1>4, <3>1, <3>3
    <3> QED
      BY <3>2, <3>3
  <2> QED
    BY <1>a, <1>1, <1>3, <1>4, <2>1 DEF HistoryTypeOK, ops
<1>6. OrderInv'
  <2>1. Ordered(server', recorded)
    BY <1>a, <1>1, <1>2, <1>3 DEF OrderInv, Queue
  <2> QED
    BY <1>a, <1>1, <2>1 DEF OrderInv, ops
<1>7. QueueInv'
  BY <1>a, <1>1 DEF QueueInv, ops
<1>8. ASSUME ~tainted' PROVE AloneInv'
  BY <1>1, <1>8 DEF HistoryInv, AloneInv, Own, Visiting, Busy, ops
<1>9. ASSUME ~tainted', server' # Missing PROVE StoreInv'
  <2>1. AloneInv /\ ServerInv /\ WritesInv /\ SnapInv /\ KnownInv
    BY <1>1, <1>9 DEF HistoryInv, StoreInv
  <2>2. Queue(d) = Own(d)
    BY <1>2, <1>3, <2>1, QueueFacts DEF AloneInv, Queue, Own, Accounts
  <2>3. /\ \A e \in Devices : Own(e)' = Own(e)
        /\ \A p : Unanswered(p)' <=> Unanswered(p)
        /\ \A doc, p : Covered(doc, p)' <=> p \in rejected \/ Holds(doc, p)'
    BY <1>1 DEF Own, Unanswered, Covered
  <2>4. ServerInv'
    <3>1. ASSUME NEW p \in Ops, Holds(recorded, p) PROVE Covered(server', p) \/ Unanswered(p)
      <4>1. Covered(server', p) \/ Behind(d, sent[d] + 1, p)
        BY <1>1, <1>3, <2>1, <2>2, <3>1 DEF WritesInv
      <4>2. Behind(d, sent[d] + 1, p) => Unanswered(p)
        BY DEF Behind, Unanswered, Own, Accounts
      <4> QED
        BY <4>1, <4>2
    <3>2. ASSUME NEW e \in Devices, sent'[e] > 0 PROVE server' = Own(e)[sent'[e]].field
      <4>1. CASE e = d
        BY <1>1, <1>4, <2>2, <4>1
      <4>2. CASE e # d
        <5>1. Own(e) # <<>>
          BY <1>a, <1>4, <2>1, <3>2, <4>2, OpenStream
        <5>2. Own(d) # <<>>
          BY <1>2, <1>3, <2>2, QueueFacts
        <5> QED
          BY <2>1, <4>2, <5>1, <5>2 DEF AloneInv
      <4> QED
        BY <4>1, <4>2
    <3> QED
      BY <1>1, <2>3, <3>1, <3>2 DEF ServerInv, Covered
  <2>5. WritesInv'
    BY <1>1, <2>1 DEF WritesInv, Covered, Behind, Own
  <2>6. SnapInv'
    BY <1>1, <2>1 DEF SnapInv, Covered, Visiting, Busy, ops
  <2>7. KnownInv'
    BY <1>1, <2>1 DEF KnownInv, Covered, Behind, Own, ops
  <2> QED
    BY <2>4, <2>5, <2>6, <2>7 DEF StoreInv
<1> QED
  BY <1>5, <1>6, <1>7, <1>8, <1>9 DEF HistoryInv

\* The oldest write leaves the queue: the server took it and its answer arrived, or
\* it was refused.
LEMMA DequeueStep ==
  ASSUME HistoryInv, NEW d \in Devices, Acknowledge(d) \/ Reject(d)
  PROVE  HistoryInv'
<1>a. HistoryTypeOK /\ OrderInv /\ QueueInv
  BY DEF HistoryInv
<1>b. /\ sent \in [Devices -> Nat] /\ seen \in [Devices -> Nat]
      /\ known \in [Devices -> History \cup {Missing, Unknown}]
      /\ \A e \in Devices : seen[e] <= sent[e] /\ sent[e] <= Len(Queue(e))
  BY <1>a DEF HistoryTypeOK
<1>c. PICK a \in Accounts, q \in Seq(Write) : a = account[d] /\ q = pending[d][a] /\ q = Queue(d)
  BY <1>a DEF HistoryTypeOK, Queue
<1>1. /\ q # <<>> /\ pending' = [pending EXCEPT ![d][a] = Tail(q)]
      /\ UNCHANGED <<server, account, ops, recorded, tainted>>
  <2>1. CASE Acknowledge(d)
    <3>1. Len(q) \in Nat /\ sent[d] \in Nat /\ sent[d] > 0 /\ sent[d] <= Len(q)
      BY <1>b, <1>c, <2>1, QueueFacts DEF Acknowledge
    <3>2. q # <<>>
      BY <3>1
    <3> QED
      BY <1>c, <2>1, <3>2 DEF Acknowledge, Dequeue
  <2>2. CASE Reject(d)
    BY <1>c, <2>2 DEF Reject, Dequeue
  <2> QED
    BY <2>1, <2>2
<1>2. PICK r \in Seq(Write) :
        /\ r = Tail(q) /\ Len(q) \in Nat \ {0} /\ DOMAIN q = 1 .. Len(q)
        /\ Len(r) = Len(q) - 1 /\ DOMAIN r = 1 .. (Len(q) - 1)
        /\ \A i \in 1 .. (Len(q) - 1) : r[i] = q[i + 1]
        /\ Head(q) = q[1] /\ q[1] \in Write
  BY <1>1, QueueTail
<1>3. /\ 1 \in DOMAIN q /\ q[1].op \in Ops /\ q[1].field \in History
      /\ \A i \in DOMAIN r : i + 1 \in DOMAIN q /\ r[i] = q[i + 1]
      /\ \A i \in DOMAIN q : i > 1 => i - 1 \in DOMAIN r /\ r[i - 1] = q[i]
  <2>1. 1 \in DOMAIN q
    BY <1>2
  <2>2. \A i \in DOMAIN r : i + 1 \in DOMAIN q /\ r[i] = q[i + 1]
    BY <1>2
  <2>3. ASSUME NEW i \in DOMAIN q, i > 1 PROVE i - 1 \in DOMAIN r /\ r[i - 1] = q[i]
    <3>1. i - 1 \in 1 .. (Len(q) - 1) /\ (i - 1) + 1 = i
      BY <1>2, <2>3
    <3> QED
      BY <1>2, <3>1
  <2> QED
    BY <2>1, <2>2, <2>3, QueueFacts
<1>4. /\ pending' \in [Devices -> [Accounts -> Seq(Write)]]
      /\ pending'[d][a] = r
      /\ \A e \in Devices, b \in Accounts : (e # d \/ b # a) => pending'[e][b] = pending[e][b]
  <2>1. pending \in [Devices -> [Accounts -> Seq(Write)]]
    BY <1>a DEF HistoryTypeOK
  <2>2. pending' = [pending EXCEPT ![d][a] = r]
    BY <1>1, <1>2
  <2> QED
    BY <2>1, <2>2, PendingUpdate
\* The elements of the queues after the step.
<1>5. ASSUME NEW e \in Devices, NEW b \in Accounts, NEW i \in DOMAIN pending'[e][b]
      PROVE  \E j \in DOMAIN pending[e][b] : pending'[e][b][i] = pending[e][b][j]
  <2>1. CASE e = d /\ b = a
    <3>1. pending[e][b] = q /\ pending'[e][b] = r
      BY <1>c, <1>4, <2>1
    <3> QED
      BY <1>3, <3>1
  <2>2. CASE e # d \/ b # a
    BY <1>4, <2>2
  <2> QED
    BY <2>1, <2>2
\* The two ways the write can leave.
<1>6. \/ /\ sent[d] = 0 /\ sent' = sent /\ seen' = seen /\ known' = known
         /\ rejected' = rejected \cup {q[1].op}
      \/ /\ sent[d] > 0 /\ rejected' = rejected
         /\ sent' = [sent EXCEPT ![d] = sent[d] - 1]
         /\ seen' = [seen EXCEPT ![d] = IF seen[d] = 0 THEN 0 ELSE seen[d] - 1]
         /\ known' = [known EXCEPT ![d] = IF seen[d] = 0 THEN ApplyToLocalView(known[d], q[1].field)
                                                         ELSE known[d]]
  <2>1. CASE Acknowledge(d)
    BY <1>c, <1>2, <2>1 DEF Acknowledge
  <2>2. CASE Reject(d)
    BY <1>c, <1>2, <2>2 DEF Reject
  <2> QED
    BY <2>1, <2>2
<1>7. /\ \A e \in Devices : e # d => sent'[e] = sent[e] /\ seen'[e] = seen[e] /\ known'[e] = known[e]
      /\ sent' \in [Devices -> Nat] /\ seen' \in [Devices -> Nat]
      /\ sent[d] = 0 => /\ sent'[d] = 0 /\ seen'[d] = 0 /\ seen[d] = 0 /\ known'[d] = known[d]
                        /\ rejected' = rejected \cup {q[1].op}
      /\ sent[d] > 0 => sent'[d] = sent[d] - 1 /\ rejected' = rejected
      /\ (sent[d] > 0 /\ seen[d] = 0) => /\ seen'[d] = 0
                                         /\ known'[d] = ApplyToLocalView(known[d], q[1].field)
      /\ seen[d] > 0 => seen'[d] = seen[d] - 1 /\ known'[d] = known[d] /\ sent[d] > 0
      /\ rejected \subseteq rejected'
  <2>1. sent[d] \in Nat /\ seen[d] \in Nat /\ seen[d] <= sent[d]
    BY <1>b
  <2>2. CASE sent[d] = 0
    BY <1>b, <1>6, <2>1, <2>2
  <2>3. CASE sent[d] > 0
    <3>1. /\ rejected' = rejected
          /\ sent' = [sent EXCEPT ![d] = sent[d] - 1]
          /\ seen' = [seen EXCEPT ![d] = IF seen[d] = 0 THEN 0 ELSE seen[d] - 1]
          /\ known' = [known EXCEPT ![d] = IF seen[d] = 0 THEN ApplyToLocalView(known[d], q[1].field)
                                                          ELSE known[d]]
      BY <1>6, <2>1, <2>3
    <3>2. sent[d] - 1 \in Nat /\ (seen[d] > 0 => seen[d] - 1 \in Nat)
      BY <2>1, <2>3
    <3>3. /\ sent' \in [Devices -> Nat] /\ sent'[d] = sent[d] - 1
          /\ \A e \in Devices : e # d => sent'[e] = sent[e]
      BY <1>b, <3>1, <3>2
    <3>4. CASE seen[d] = 0
      <4>1. seen' = [seen EXCEPT ![d] = 0]
            /\ known' = [known EXCEPT ![d] = ApplyToLocalView(known[d], q[1].field)]
        BY <3>1, <3>4
      <4> QED
        BY <1>b, <2>3, <3>1, <3>3, <3>4, <4>1
    <3>5. CASE seen[d] > 0
      <4>1. seen' = [seen EXCEPT ![d] = seen[d] - 1] /\ known' = known
        <5>1. seen[d] # 0
          BY <3>5
        <5> QED
          BY <1>b, <3>1, <5>1
      <4> QED
        BY <1>b, <2>3, <3>1, <3>2, <3>3, <3>5, <4>1
    <3> QED
      BY <2>1, <3>4, <3>5
  <2> QED
    BY <2>1, <2>2, <2>3
<1>8. known' \in [Devices -> History \cup {Missing, Unknown}]
  BY <1>b, <1>3, <1>6 DEF ApplyToLocalView
<1>9. HistoryTypeOK'
  <2>1. rejected' \in SUBSET Ops
    BY <1>a, <1>3, <1>6 DEF HistoryTypeOK
  <2>2. ASSUME NEW e \in Devices PROVE seen'[e] <= sent'[e] /\ sent'[e] <= Len(Queue(e))'
    <3>1. CASE e = d
      <4>1. Queue(e)' = r
        BY <1>c, <1>1, <1>4, <3>1 DEF Queue
      <4>2. /\ sent[d] \in Nat /\ seen[d] \in Nat /\ seen[d] <= sent[d] /\ sent[d] <= Len(q)
            /\ Len(r) = Len(q) - 1 /\ Len(q) \in Nat \ {0}
        BY <1>b, <1>c, <1>2
      <4>3. CASE sent[d] = 0
        BY <1>7, <3>1, <4>1, <4>2, <4>3
      <4>4. CASE sent[d] > 0
        BY <1>7, <3>1, <4>1, <4>2, <4>4
      <4> QED
        BY <4>2, <4>3, <4>4
    <3>2. CASE e # d
      <4>1. Queue(e)' = Queue(e)
        BY <1>a, <1>1, <1>4, <3>2 DEF Queue, HistoryTypeOK
      <4> QED
        BY <1>b, <1>7, <3>2, <4>1
    <3> QED
      BY <3>1, <3>2
  <2> QED
    BY <1>a, <1>1, <1>4, <1>7, <1>8, <2>1, <2>2 DEF HistoryTypeOK, ops
<1>10. OrderInv'
  <2>1. Ordered(q[1].field, recorded)
    BY <1>a, <1>c, <1>3 DEF OrderInv
  <2>2. ASSUME NEW e \in Devices PROVE Ordered(known'[e], recorded)
    <3>1. known'[e] = known[e] \/ known'[e] = q[1].field
      BY <1>b, <1>6 DEF ApplyToLocalView
    <3> QED
      BY <1>a, <2>1, <3>1 DEF OrderInv
  <2>3. ASSUME NEW e \in Devices, NEW b \in Accounts, NEW i \in DOMAIN pending'[e][b]
        PROVE  Ordered(pending'[e][b][i].field, recorded)
    BY <1>a, <1>5 DEF OrderInv
  <2> QED
    BY <1>a, <1>1, <2>2, <2>3 DEF OrderInv, ops
<1>11. QueueInv'
  <2> SUFFICES ASSUME NEW e \in Devices, NEW b \in Accounts, NEW i \in DOMAIN pending'[e][b]
               PROVE  Holds(recorded, pending'[e][b][i].op) /\ device[pending'[e][b][i].op] = e
    BY <1>1 DEF QueueInv, ops
  <2> QED
    BY <1>a, <1>5 DEF QueueInv
<1>12. ASSUME ~tainted'
       PROVE  /\ ~tainted /\ AloneInv /\ a = "own"
              /\ q = Own(d) /\ Own(d)' = r
              /\ \A e \in Devices : e # d => Own(e)' = <<>> /\ Own(e) = <<>>
              /\ \A e \in Devices : pending'[e]["other"] = <<>>
  <2>1. ~tainted
    BY <1>1, <1>12
  <2>2. AloneInv
    BY <2>1 DEF HistoryInv
  <2>3. a = "own"
    BY <1>c, <1>1, <2>2 DEF AloneInv, Accounts
  <2>4. q = Own(d) /\ Own(d)' = r
    BY <1>c, <1>4, <2>3 DEF Own
  <2>5. ASSUME NEW e \in Devices, e # d PROVE Own(e)' = <<>> /\ Own(e) = <<>>
    <3>1. Own(e) = <<>>
      BY <1>1, <2>2, <2>4, <2>5 DEF AloneInv
    <3>2. pending'[e]["own"] = pending[e]["own"]
      BY <1>4, <2>5 DEF Accounts
    <3> QED
      BY <3>1, <3>2 DEF Own
  <2>6. \A e \in Devices : pending'[e]["other"] = <<>>
    BY <1>4, <2>2, <2>3 DEF AloneInv, Accounts
  <2> QED
    BY <2>1, <2>2, <2>3, <2>4, <2>5, <2>6
<1>13. ASSUME ~tainted' PROVE AloneInv'
  <2>1. \A p \in Ops : (Visiting(p)' <=> Visiting(p)) /\ (Busy(p)' <=> Busy(p))
    BY <1>1 DEF Visiting, Busy, ops
  <2>2. \A e \in Devices : Own(e)' # <<>> => Own(e) # <<>>
    BY <1>1, <1>12, <1>13
  <2> QED
    BY <1>1, <1>12, <1>13, <2>1, <2>2 DEF AloneInv, ops
<1>14. ASSUME ~tainted', server' # Missing PROVE StoreInv'
  <2>1. ServerInv /\ WritesInv /\ SnapInv /\ KnownInv
    BY <1>1, <1>12, <1>14 DEF HistoryInv, StoreInv
  <2>2. \A doc, p : Covered(doc, p) => p \in rejected' \/ Holds(doc, p)
    BY <1>7 DEF Covered
  <2>3. \A j \in DOMAIN q, p \in Ops : Holds(recorded, p) =>
           Covered(q[j].field, p) \/ \E i \in DOMAIN q : i > j /\ q[i].op = p
    BY <1>12, <1>14, <2>1 DEF WritesInv, Behind
\* What is behind a write stays behind it, one place further on.
  <2>4. \A j \in DOMAIN q : \A p : (\E i \in DOMAIN q : i > j /\ q[i].op = p) =>
           \E i \in DOMAIN r : i > j - 1 /\ r[i].op = p
    <3> SUFFICES ASSUME NEW j \in DOMAIN q, NEW p, NEW i \in DOMAIN q, i > j, q[i].op = p
                 PROVE  \E m \in DOMAIN r : m > j - 1 /\ r[m].op = p
      OBVIOUS
    <3>1. i > 1 /\ i - 1 > j - 1
      BY <1>2
    <3> QED
      BY <1>3, <3>1
  <2>5. \A j, p : (\E i \in DOMAIN r : i > j /\ r[i].op = p) => Behind(d, j, p)'
    BY <1>12, <1>14 DEF Behind
  <2>6. \A j \in DOMAIN q, p \in Ops : Holds(recorded, p) =>
           p \in rejected' \/ Holds(q[j].field, p) \/ Behind(d, 0, p)'
    <3> SUFFICES ASSUME NEW j \in DOMAIN q, NEW p \in Ops, Holds(recorded, p)
                 PROVE  p \in rejected' \/ Holds(q[j].field, p) \/ Behind(d, 0, p)'
      OBVIOUS
    <3>1. CASE Covered(q[j].field, p)
      BY <2>2, <3>1
    <3>2. CASE \E i \in DOMAIN q : i > j /\ q[i].op = p
      <4>1. PICK i \in DOMAIN r : r[i].op = p
        BY <2>4, <3>2
      <4>2. i > 0
        BY <1>2
      <4> QED
        BY <2>5, <4>1, <4>2
    <3> QED
      BY <2>3, <3>1, <3>2
\* The place the stream, or the known document, was at.
  <2>7. \A n \in Nat : n > 1 /\ n \in DOMAIN q => q[n] = r[n - 1]
    BY <1>3
  <2>8. sent[d] > 0 => sent[d] \in DOMAIN q /\ server = q[sent[d]].field
    BY <1>a, <1>12, <1>14, <2>1, OpenStream DEF ServerInv
  <2>9. seen[d] > 0 => seen[d] \in DOMAIN q /\ known[d] = q[seen[d]].field
    BY <1>a, <1>7, <1>12, <1>14, <2>1, OpenStream DEF KnownInv
  <2>10. \A e \in Devices : e # d => sent[e] = 0 /\ seen[e] = 0
    <3> SUFFICES ASSUME NEW e \in Devices, e # d PROVE sent[e] = 0 /\ seen[e] = 0
      OBVIOUS
    <3>1. ~(sent[e] > 0)
      BY <1>a, <1>12, <1>14, OpenStream
    <3> QED
      BY <1>b, <3>1
  <2>11. ServerInv'
    <3>1. ASSUME NEW p \in Ops, Holds(recorded, p)
          PROVE  p \in rejected' \/ Holds(server, p) \/ Unanswered(p)'
      <4>1. Behind(d, 0, p)' => Unanswered(p)'
        BY DEF Behind, Unanswered, Own, Accounts
      <4>2. CASE sent[d] > 0
        BY <2>6, <2>8, <3>1, <4>1, <4>2
      <4>3. CASE ~(sent[d] > 0)
        <5>1. sent[d] = 0
          BY <1>b, <4>3
        <5>2. CASE Covered(server, p)
          BY <2>2, <5>2
        <5>3. CASE Behind(device[p], 0, p)
          <6>1. PICK i \in DOMAIN Own(device[p]) : Own(device[p])[i].op = p
            BY <5>3 DEF Behind
          <6>2. device[p] = d
            BY <1>a, <1>12, <1>14, <6>1 DEF HistoryTypeOK
          <6>3. i \in DOMAIN q /\ q[i].op = p
            BY <1>12, <1>14, <6>1, <6>2
          <6>4. CASE i = 1
            BY <1>7, <5>1, <6>3, <6>4
          <6>5. CASE i > 1
            <7>1. \E m \in DOMAIN r : m > 1 - 1 /\ r[m].op = p
              BY <1>3, <2>4, <6>3, <6>5
            <7> QED
              BY <2>5, <4>1, <7>1
          <6> QED
            BY <1>2, <6>3, <6>4, <6>5
        <5> QED
          BY <1>1, <1>12, <1>14, <3>1, <5>2, <5>3, ServerLacks
      <4> QED
        BY <4>2, <4>3
    <3>2. ASSUME NEW e \in Devices, sent'[e] > 0 PROVE server = Own(e)'[sent'[e]].field
      <4>1. e = d
        <5>1. ASSUME e # d PROVE FALSE
          <6>1. sent'[e] = 0
            BY <1>7, <2>10, <5>1
          <6> QED
            BY <3>2, <6>1
        <5> QED
          BY <5>1
      <4>2. sent[d] \in Nat /\ sent[d] > 1 /\ sent'[d] = sent[d] - 1
        BY <1>b, <1>7, <3>2, <4>1
      <4> QED
        BY <1>12, <1>14, <2>7, <2>8, <4>1, <4>2
    <3> QED
      BY <1>1, <3>1, <3>2 DEF ServerInv, Covered
  <2>12. WritesInv'
    <3> SUFFICES ASSUME NEW e \in Devices, NEW j \in DOMAIN Own(e)', NEW p \in Ops, Holds(recorded, p)
                 PROVE  (p \in rejected' \/ Holds(Own(e)'[j].field, p)) \/ Behind(e, j, p)'
      BY <1>1 DEF WritesInv, Covered
    <3>1. e = d /\ j \in DOMAIN r /\ Own(e)' = r
      BY <1>12, <1>14
    <3>2. j \in Nat /\ j + 1 \in DOMAIN q /\ r[j] = q[j + 1] /\ (j + 1) - 1 = j
      BY <1>2, <1>3, <3>1
    <3>3. CASE Covered(q[j + 1].field, p)
      BY <2>2, <3>1, <3>2, <3>3
    <3>4. CASE \E i \in DOMAIN q : i > j + 1 /\ q[i].op = p
      <4>1. \E i \in DOMAIN r : i > (j + 1) - 1 /\ r[i].op = p
        BY <2>4, <3>2, <3>4
      <4> QED
        BY <2>5, <3>1, <3>2, <4>1
    <3> QED
      BY <2>3, <3>2, <3>3, <3>4
  <2>13. SnapInv'
    <3>1. \A p \in Ops : Visiting(p)' <=> Visiting(p)
      BY <1>1 DEF Visiting, Busy, ops
    <3> QED
      BY <1>1, <2>1, <2>2, <3>1 DEF SnapInv, Covered, ops
  <2>14. KnownInv'
    <3> SUFFICES ASSUME NEW e \in Devices
                 PROVE  /\ Exists(known'[e]) => \A p \in Ops : (Holds(recorded, p) /\ device[p] = e) =>
                              (p \in rejected' \/ Holds(known'[e], p)) \/ Behind(e, 0, p)'
                        /\ seen'[e] > 0 => known'[e] = Own(e)'[seen'[e]].field
      BY <1>1 DEF KnownInv, Covered, ops
    <3>1. CASE e # d
      <4>1. \A p : ~Behind(e, 0, p)
        BY <1>12, <1>14, <3>1 DEF Behind
      <4> QED
        BY <1>7, <2>1, <2>2, <2>10, <3>1, <4>1 DEF KnownInv
    <3>2. CASE e = d /\ seen[d] > 0
      <4>1. known'[e] = q[seen[d]].field /\ seen[d] \in DOMAIN q /\ seen'[e] = seen[d] - 1
        BY <1>7, <2>9, <3>2
      <4>2. seen'[e] > 0 => known'[e] = Own(e)'[seen'[e]].field
        BY <1>b, <1>12, <1>14, <2>7, <3>2, <4>1
      <4> QED
        BY <2>6, <3>2, <4>1, <4>2
    <3>3. CASE e = d /\ seen[d] = 0 /\ sent[d] > 0
      <4>1. known'[e] = ApplyToLocalView(known[d], q[1].field) /\ seen'[e] = 0
        BY <1>7, <3>3
      <4>2. Exists(known'[e]) => known'[e] = q[1].field
        BY <4>1 DEF ApplyToLocalView
      <4> QED
        BY <1>3, <2>6, <3>3, <4>1, <4>2
    <3>4. CASE e = d /\ sent[d] = 0
      <4>1. known'[e] = known[d] /\ seen'[e] = 0 /\ q[1].op \in rejected'
        BY <1>7, <3>4
      <4>2. ASSUME Exists(known[d]), NEW p \in Ops, Holds(recorded, p), device[p] = d
            PROVE  (p \in rejected' \/ Holds(known[d], p)) \/ Behind(d, 0, p)'
        <5>1. CASE Covered(known[d], p)
          BY <2>2, <5>1
        <5>2. CASE Behind(d, 0, p)
          <6>1. PICK i \in DOMAIN q : q[i].op = p
            BY <1>12, <1>14, <5>2 DEF Behind
          <6>2. CASE i = 1
            BY <4>1, <6>1, <6>2
          <6>3. CASE i > 1
            <7>1. \E m \in DOMAIN r : m > 1 - 1 /\ r[m].op = p
              BY <1>3, <2>4, <6>1, <6>3
            <7> QED
              BY <2>5, <7>1
          <6> QED
            BY <1>2, <6>2, <6>3
        <5> QED
          BY <2>1, <4>2, <5>1, <5>2 DEF KnownInv
      <4> QED
        BY <3>4, <4>1, <4>2
    <3> QED
      BY <1>b, <3>1, <3>2, <3>3, <3>4
  <2> QED
    BY <2>11, <2>12, <2>13, <2>14 DEF StoreInv
<1> QED
  BY <1>9, <1>10, <1>11, <1>13, <1>14 DEF HistoryInv

\* Every step keeps the invariant.
LEMMA HistoryStep == HistoryInv /\ [Next]_vars => HistoryInv'
<1> SUFFICES ASSUME HistoryInv, [Next]_vars PROVE HistoryInv'
  OBVIOUS
<1>a. HistoryTypeOK
  BY DEF HistoryInv
<1>1. ASSUME NEW o \in Ops, NEW d \in Devices, NEW k \in {"visit", "look"}, GetDocument(o, k, d)
      PROVE  HistoryInv'
  BY <1>1, BeginStep
<1>2. ASSUME NEW o \in Ops, ReadStep(o) PROVE HistoryInv'
  BY <1>2, ReadStepKeeps
<1>3. ASSUME NEW o \in Ops, RecordVisit(o) PROVE HistoryInv'
  BY <1>3, RecordStep
<1>4. ASSUME NEW o \in Ops, ShowHistory(o) PROVE HistoryInv'
  <2>1. /\ phase[o] = "read" /\ phase' = [phase EXCEPT ![o] = "done"]
        /\ shown' = [shown EXCEPT ![o] = Found(o)]
        /\ UNCHANGED <<server, known, account, pending, sent, seen>>
        /\ UNCHANGED <<kind, device, snap, recorded, rejected, tainted>>
    BY <1>4 DEF ShowHistory, store
  <2>2. Found(o) \in History
    BY FoundFacts DEF HistoryInv
  <2>3. /\ shown' \in [Ops -> History] /\ phase' \in [Ops -> Phases]
        /\ sent' \in [Devices -> Nat] /\ seen' \in [Devices -> Nat]
        /\ account' \in [Devices -> Accounts] /\ device \in [Ops -> Devices]
    BY <1>a, <2>1, <2>2 DEF HistoryTypeOK, Phases
  <2>4. \A p \in Ops : phase'[p] = phase[p] \/ (Busy(p) /\ phase'[p] \in {"done", "lost"})
    BY <1>a, <2>1 DEF HistoryTypeOK, Busy
  <2>5. tainted' \in BOOLEAN
    BY <1>a, <2>1 DEF HistoryTypeOK
  <2> QED
    BY <2>1, <2>3, <2>4, <2>5, QuietStep
<1>5. ASSUME NEW d \in Devices, Break(d) \/ SwitchAccount(d) \/ Crash(d) PROVE HistoryInv'
  <2>1. /\ sent' = [sent EXCEPT ![d] = 0] /\ seen' = [seen EXCEPT ![d] = 0]
        /\ UNCHANGED <<server, known, pending, kind, device, snap, recorded, rejected>>
    BY <1>5 DEF Break, SwitchAccount, Crash, NewStream, ops
  <2>2. /\ sent' \in [Devices -> Nat] /\ seen' \in [Devices -> Nat]
        /\ \A e \in Devices : \/ e # d /\ sent'[e] = sent[e] /\ seen'[e] = seen[e]
                              \/ e = d /\ sent'[e] = 0 /\ seen'[e] = 0
    BY <1>a, <2>1 DEF HistoryTypeOK
  <2>3. /\ tainted' \in BOOLEAN /\ (~tainted' => ~tainted)
        /\ account' \in [Devices -> Accounts]
        /\ shown' \in [Ops -> History] /\ phase' \in [Ops -> Phases]
        /\ \A p \in Ops : phase'[p] = phase[p] \/ (Busy(p) /\ phase'[p] \in {"done", "lost"})
        /\ \A e \in Devices : e # d => account'[e] = account[e]
        /\ ~tainted' => \A p \in Ops : Busy(p)' => account'[device[p]] = account[device[p]]
    <3>1. CASE Break(d)
      BY <1>a, <3>1 DEF Break, HistoryTypeOK, ops
    <3>2. CASE SwitchAccount(d)
      <4>1. /\ account' = [account EXCEPT ![d] = IF account[d] = "own" THEN "other" ELSE "own"]
            /\ tainted' = (tainted \/ \E o \in Ops : device[o] = d /\ Busy(o))
            /\ UNCHANGED <<phase, shown>>
        BY <3>2 DEF SwitchAccount, ops
      <4>2. tainted' \in BOOLEAN
        BY <1>a, <4>1, Zenon DEF HistoryTypeOK
      <4>3. /\ account' \in [Devices -> Accounts] /\ phase' \in [Ops -> Phases]
            /\ shown' \in [Ops -> History]
            /\ \A e \in Devices : e # d => account'[e] = account[e]
        BY <1>a, <4>1 DEF HistoryTypeOK, Accounts
      <4>4. ASSUME ~tainted' PROVE ~tainted /\ \A p \in Ops : Busy(p) => device[p] # d
        BY <4>1, <4>4
      <4>5. \A p \in Ops : Busy(p)' <=> Busy(p)
        BY <4>1 DEF Busy
      <4>6. \A p \in Ops : device[p] \in Devices
        BY <1>a DEF HistoryTypeOK
      <4> QED
        BY <4>1, <4>2, <4>3, <4>4, <4>5, <4>6
    <3>3. CASE Crash(d)
      <4>1. /\ phase' = [o \in Ops |-> IF device[o] = d /\ Busy(o) THEN "lost" ELSE phase[o]]
            /\ shown' = [o \in Ops |-> IF device[o] = d THEN <<>> ELSE shown[o]]
            /\ UNCHANGED <<account, tainted>>
        BY <3>3 DEF Crash
      <4>2. phase' \in [Ops -> Phases] /\ shown' \in [Ops -> History]
        BY <1>a, <4>1, MarkerFacts DEF HistoryTypeOK, Phases
      <4> QED
        BY <1>a, <4>1, <4>2 DEF HistoryTypeOK
    <3> QED
      BY <1>5, <3>1, <3>2, <3>3
  <2>4. \A e \in Devices : \/ sent'[e] = sent[e] /\ seen'[e] = seen[e] /\ account'[e] = account[e]
                           \/ sent'[e] = 0 /\ seen'[e] = 0
    BY <2>2, <2>3
  <2> QED
    BY <2>1, <2>2, <2>3, <2>4, QuietStep
<1>6. ASSUME NEW d \in Devices, Commit(d) PROVE HistoryInv'
  BY <1>6, CommitStep
<1>7. ASSUME NEW d \in Devices, Acknowledge(d) \/ Reject(d) PROVE HistoryInv'
  BY <1>7, DequeueStep
<1>8. CASE UNCHANGED vars
  <2>1. UNCHANGED <<server, known, account, pending, sent, seen>>
        /\ UNCHANGED <<phase, kind, device, snap, shown, recorded, rejected, tainted>>
    BY <1>8 DEF vars, store, ops
  <2>2. /\ tainted' \in BOOLEAN /\ account' \in [Devices -> Accounts]
        /\ shown' \in [Ops -> History] /\ phase' \in [Ops -> Phases]
        /\ sent' \in [Devices -> Nat] /\ seen' \in [Devices -> Nat]
    BY <1>a, <2>1 DEF HistoryTypeOK
  <2> QED
    BY <2>1, <2>2, QuietStep
<1> QED
  BY <1>1, <1>2, <1>3, <1>4, <1>5, <1>6, <1>7, <1>8 DEF Next, Callback

-----------------------------------------------------------------------------
(* The theorems.                                                           *)

\* The inductive invariant: whatever overlaps or is sent again, every list is in
\* order, and untainted, whatever write the server is at, the entries it lacks are
\* queued behind it (the document of uploadHistoryToFirebase and its queue).
THEOREM HistoryInvariant == Spec => []HistoryInv
<1>1. Init => HistoryInv
  BY HistoryInit
<1>2. HistoryInv /\ [Next]_vars => HistoryInv'
  BY HistoryStep
<1> QED
  BY <1>1, <1>2, PTL DEF Spec

\* The types of the document, of what the devices keep of it and of what
\* uploadHistoryToFirebase and getDataFromFirebase carry from read to callback.
THEOREM HistoryTypeCorrect == Spec => []HistoryTypeOK
<1>1. HistoryInv => HistoryTypeOK
  BY DEF HistoryInv
<1> QED
  BY <1>1, HistoryInvariant, PTL

\* For any number of devices and operations: untainted, a device that alone may have
\* unanswered writes reads every recorded entry whose write was not refused, in order
\* (getDataFromFirebase after any calls of uploadHistoryToFirebase).
THEOREM UntaintedHistoryComplete == Spec => []HistoryComplete
<1>1. HistoryInv => HistoryComplete
  <2> SUFFICES ASSUME HistoryInv, ~tainted, server # Missing,
                      NEW d \in Devices, account[d] = "own",
                      \A e \in Devices \ {d} : pending[e]["own"] = <<>>
               PROVE  /\ \A o \in Ops : Holds(recorded, o) => o \in rejected \/ Holds(Overlay(d, server), o)
                      /\ InOrder(Overlay(d, server), recorded)
    BY DEF HistoryComplete
  <2>1. \A o \in Ops : Holds(recorded, o) => o \in rejected \/ Holds(Overlay(d, server), o)
    BY OverlayComplete DEF Own, Covered
  <2>2. server \in History /\ Ordered(server, recorded)
    BY DEF HistoryInv, HistoryTypeOK, OrderInv
  <2>3. Overlay(d, server) \in History /\ Ordered(Overlay(d, server), recorded)
    BY <2>2, OverlayFacts DEF HistoryInv
  <2> QED
    BY <2>1, <2>3 DEF Ordered
<1> QED
  BY <1>1, HistoryInvariant, PTL

\* For any number of devices and operations: untainted, what the server acknowledged
\* of the calls of uploadHistoryToFirebase stays in the document, however often the
\* rest of the queue is sent again.
THEOREM AcknowledgedStay == Spec => []AcknowledgedKept
<1>1. HistoryInv => AcknowledgedKept
  <2> SUFFICES ASSUME HistoryInv, ~tainted, server # Missing, NEW o \in Ops,
                      Holds(recorded, o), o \notin rejected, ~Unanswered(o)
               PROVE  Holds(server, o)
    BY DEF AcknowledgedKept
  <2> QED
    BY DEF HistoryInv, StoreInv, ServerInv, Covered
<1> QED
  BY <1>1, HistoryInvariant, PTL

\* For any number of devices and operations: untainted, the callbacks of
\* uploadHistoryToFirebase and getDataFromFirebase get every entry recorded on their
\* device before, whether the server or the cache answers.
THEOREM DeviceReadsOwnWrites == Spec => ReadsOwnWrites
<1> DEFINE Step == \A o \in Ops :
       (phase[o] = "asked" /\ phase'[o] = "read" /\ snap'[o] # Failed
          /\ ~tainted' /\ server # Missing) =>
         \A p \in Ops : (Holds(recorded, p) /\ device[p] = device[o]) =>
                           p \in rejected \/ Holds(snap'[o], p)
<1>1. HistoryInv /\ [Next]_vars => [Step]_vars
  <2> SUFFICES ASSUME HistoryInv, Next, NEW o \in Ops,
                      phase[o] = "asked", phase'[o] = "read", snap'[o] # Failed,
                      ~tainted', server # Missing, NEW p \in Ops,
                      Holds(recorded, p), device[p] = device[o]
               PROVE  p \in rejected \/ Holds(snap'[o], p)
    BY DEF vars
  <2>a. HistoryTypeOK
    BY DEF HistoryInv
  <2>1. ReadStep(o)
    <3>1. ASSUME NEW q \in Ops, NEW d \in Devices, NEW k \in {"visit", "look"}, GetDocument(q, k, d)
          PROVE  FALSE
      BY <2>a, <3>1 DEF GetDocument, HistoryTypeOK
    <3>2. ASSUME NEW q \in Ops, ReadStep(q) PROVE q = o
      <4>1. phase' = [phase EXCEPT ![q] = "read"]
        BY <3>2 DEF ReadStep, ReadServer, ReadCached, ReadFailed, Answered
      <4> QED
        BY <2>a, <4>1 DEF HistoryTypeOK
    <3>3. ASSUME NEW q \in Ops, Callback(q) PROVE FALSE
      <4>1. phase' = [phase EXCEPT ![q] = "done"]
        BY <3>3 DEF Callback, RecordVisit, ShowHistory
      <4> QED
        BY <2>a, <4>1 DEF HistoryTypeOK
    <3>4. ASSUME NEW d \in Devices, \/ Commit(d) \/ Acknowledge(d) \/ Reject(d)
                                    \/ Break(d) \/ SwitchAccount(d)
          PROVE  FALSE
      <4>1. phase' = phase
        BY <3>4 DEF Commit, Acknowledge, Reject, Break, SwitchAccount, ops
      <4> QED
        BY <4>1
    <3>5. ASSUME NEW d \in Devices, Crash(d) PROVE FALSE
      <4>1. phase'[o] = "lost" \/ phase'[o] = phase[o]
        BY <3>5 DEF Crash
      <4> QED
        BY <4>1
    <3> QED
      BY <3>1, <3>2, <3>3, <3>4, <3>5 DEF Next
  <2>2. /\ ~tainted /\ device[o] \in Devices
        /\ \/ snap' = [snap EXCEPT ![o] = Overlay(device[o], server)]
           \/ Exists(known[device[o]]) /\ snap' = [snap EXCEPT ![o] = Overlay(device[o], known[device[o]])]
    <3>1. CASE ReadServer(o)
      BY <2>a, <3>1 DEF ReadServer, Answered, HistoryTypeOK
    <3>2. CASE ReadCached(o)
      BY <2>a, <3>2 DEF ReadCached, Answered, HistoryTypeOK
    <3>3. CASE ReadFailed(o)
      <4>1. snap' = [snap EXCEPT ![o] = Failed]
        BY <3>3 DEF ReadFailed, Answered
      <4> QED
        BY <2>a, <4>1 DEF HistoryTypeOK
    <3> QED
      BY <2>1, <3>1, <3>2, <3>3 DEF ReadStep
  <2>3. account[device[o]] = "own"
    BY <2>2 DEF HistoryInv, AloneInv, Busy
  <2>4. CASE snap' = [snap EXCEPT ![o] = Overlay(device[o], server)]
    <3>1. Covered(Overlay(device[o], server), p)
      BY <2>2, <2>3, OverlayOwn
    <3>2. snap'[o] = Overlay(device[o], server)
      BY <2>a, <2>4 DEF HistoryTypeOK
    <3> QED
      BY <3>1, <3>2 DEF Covered
  <2>5. CASE Exists(known[device[o]]) /\ snap' = [snap EXCEPT ![o] = Overlay(device[o], known[device[o]])]
    <3>1. Covered(Overlay(device[o], known[device[o]]), p)
      BY <2>2, <2>3, <2>5, OverlayOwn
    <3>2. snap'[o] = Overlay(device[o], known[device[o]])
      BY <2>a, <2>5 DEF HistoryTypeOK
    <3> QED
      BY <3>1, <3>2 DEF Covered
  <2> QED
    BY <2>2, <2>4, <2>5
<1> QED
  BY <1>1, HistoryInvariant, PTL DEF Spec, ReadsOwnWrites

=============================================================================
