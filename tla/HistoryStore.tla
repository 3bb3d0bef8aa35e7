---------------------------- MODULE HistoryStore ----------------------------
(***************************************************************************)
(* The viewing history of one user: DetailsViewModel.swift,                *)
(* uploadHistoryToFirebase, which appends a movie, and HistoryViewModel    *)
(* .swift / HistoryVC.swift, which show the list.                          *)
(*                                                                         *)
(* The history is one field of the user's Firestore document.  A call of   *)
(* uploadHistoryToFirebase reads the document, appends in the callback and *)
(* writes the whole field back.  The user may be signed in on several      *)
(* devices.                                                                *)
(*                                                                         *)
(* Firestore's server is external; of its client, what the history rests   *)
(* on is modelled.  Each device keeps the last version of the document it  *)
(* saw and, per account, a queue of writes, both on disk.  The queue of    *)
(* the account signed in is visible to reads at once and is sent over a    *)
(* stream without waiting for answers.  When a stream breaks, everything   *)
(* unanswered is sent again from the first, committed or not.  A write the *)
(* server refuses for good (no document, rules, size) is dropped.  What a  *)
(* broken stream carried is committed before the break or not at all.      *)
(*                                                                         *)
(* An entry is the call that recorded it, so that a lost one shows; the    *)
(* details screen may make two calls for one visit (DetailsScreen).  The   *)
(* empty sequence is a document without the history field.                 *)
(***************************************************************************)
EXTENDS Naturals, Sequences, FiniteSets

CONSTANTS Devices,   \* the devices the user is signed in on
          Ops,       \* calls that record a visit, and looks at the history
          Missing,   \* no document
          Unknown,   \* a device that never saw the document
          Failed     \* getDocument called back with an error

ASSUME MarkersAssumption ==
  /\ Cardinality({Missing, Unknown, Failed}) = 3
  /\ {Missing, Unknown, Failed} \cap Seq(Ops) = {}

VARIABLES
  server,    \* external: the document at the server
  known,     \* external: the document as each device last saw it
  account,   \* external: who is signed in on each device
  pending,   \* external: each device's and account's queue of unanswered writes
  sent,      \* external: how many of them the server took from the open stream
  seen,      \* external: how many of those the known document came after
  phase,     \* how far each operation has got
  kind,      \* "visit" (uploadHistoryToFirebase) or "look" (getDataFromFirebase)
  device,    \* the device of each operation
  snap,      \* what getDocument hands to the operation's callback
  shown,     \* viewModel.ids and names of the history screen of each look
  recorded,  \* history: the calls whose write was issued, in order
  rejected,  \* history: the calls whose write the server refused
  tainted    \* history: visits overlapped, the account changed under an operation,
             \* or a visit relied on a failed or an outdated read

ops == <<phase, kind, device, snap, shown>>
store == <<server, known, account, pending, sent, seen>>
vars == <<store, ops, recorded, rejected, tainted>>

History == Seq(Ops)
Accounts == {"own", "other"}   \* the user of the history; anybody else or nobody
Write == [op : Ops, field : History]

Phases == { "idle", "asked",   \* getDocument called
            "read",            \* its callback is on the main queue
            "done", "lost" }   \* the process died first

Queue(d) == pending[d][account[d]]

HistoryTypeOK ==
  /\ server \in History \cup {Missing}
  /\ known \in [Devices -> History \cup {Missing, Unknown}]
  /\ account \in [Devices -> Accounts]
  /\ pending \in [Devices -> [Accounts -> Seq(Write)]]
  /\ sent \in [Devices -> Nat] /\ \A d \in Devices : sent[d] <= Len(Queue(d))
  /\ seen \in [Devices -> Nat] /\ \A d \in Devices : seen[d] <= sent[d]
  /\ phase \in [Ops -> Phases]
  /\ kind \in [Ops -> {"visit", "look"}]
  /\ device \in [Ops -> Devices]
  /\ snap \in [Ops -> History \cup {Missing, Failed}]
  /\ shown \in [Ops -> History]
  /\ recorded \in History
  /\ rejected \in SUBSET Ops
  /\ tainted \in BOOLEAN

\* The document was created at registration, or its creation failed.
Init ==
  /\ server \in {Missing, <<>>}
  /\ known = [d \in Devices |-> Unknown]
  /\ account = [d \in Devices |-> "own"]
  /\ pending = [d \in Devices |-> [a \in Accounts |-> <<>>]]
  /\ sent = [d \in Devices |-> 0]
  /\ seen = [d \in Devices |-> 0]
  /\ phase = [o \in Ops |-> "idle"]
  /\ kind = [o \in Ops |-> "visit"]
  /\ device \in {[o \in Ops |-> d] : d \in Devices}
  /\ snap = [o \in Ops |-> Missing]
  /\ shown = [o \in Ops |-> <<>>]
  /\ recorded = <<>>
  /\ rejected = {}
  /\ tainted = FALSE

-----------------------------------------------------------------------------
Exists(doc) == doc \notin {Missing, Unknown}

\* A queued write sets the field of a document that exists, and is not visible on
\* one the device does not have.
ApplyToLocalView(doc, field) == IF Exists(doc) THEN field ELSE doc

\* Mutant: a read does not see the writes the device has queued.
OverlayNone(d, doc) == doc

\* A document as device d shows it to its own reads: the queued writes are applied
\* in order, each replacing the field, so the last one is what is seen.
Overlay(d, doc) ==
  IF Queue(d) = <<>> THEN doc ELSE ApplyToLocalView(doc, Queue(d)[Len(Queue(d))].field)

Busy(o) == phase[o] \in {"asked", "read"}

\* A visit on d now would overlap another: one is between its read and its write,
\* or another device has unanswered writes.
Overlapping(d) ==
  \/ \E p \in Ops : kind[p] = "visit" /\ Busy(p)
  \/ \E e \in Devices \ {d} : pending[e]["own"] # <<>>

\* uploadHistoryToFirebase, or viewDidLoad of a new HistoryVC with an empty view
\* model and its getDataFromFirebase, up to docRef.getDocument.  Without a user
\* both return at once, and another user's document is none of this history.
GetDocument(o, k, d) ==
  /\ phase[o] = "idle" /\ o = CHOOSE p \in Ops : phase[p] = "idle"
  /\ account[d] = "own"
  /\ phase' = [phase EXCEPT ![o] = "asked"]
  /\ kind' = [kind EXCEPT ![o] = k]
  /\ device' = [device EXCEPT ![o] = d]
  /\ tainted' = (tainted \/ (k = "visit" /\ Overlapping(d)))
  /\ UNCHANGED <<store, snap, shown, recorded, rejected>>

Answered(o, doc) ==
  /\ phase[o] = "asked"
  /\ phase' = [phase EXCEPT ![o] = "read"]
  /\ snap' = [snap EXCEPT ![o] = doc]
  /\ UNCHANGED <<server, account, pending, sent, kind, device, shown, recorded, rejected>>

\* The server answers, with all it has committed.
ReadServer(o) ==
  LET d == device[o] IN
  /\ Answered(o, Overlay(d, server))
  /\ known' = [known EXCEPT ![d] = server]
  /\ seen' = [seen EXCEPT ![d] = sent[d]]
  /\ UNCHANGED tainted

\* Offline: the device's own document, which another device may have outdated.
ReadCached(o) ==
  LET d == device[o] IN
  /\ Exists(known[d])
  /\ Answered(o, Overlay(d, known[d]))
  /\ tainted' = (tainted \/ (kind[o] = "visit" /\ Overlay(d, known[d]) # Overlay(d, server)))
  /\ UNCHANGED <<known, seen>>

\* Offline without a local document, or the server refuses the read: the callback
\* gets doc = nil.
ReadFailed(o) ==
  /\ Answered(o, Failed)
  /\ UNCHANGED <<known, seen, tainted>>

-----------------------------------------------------------------------------
\* The history a callback finds: `doc?.data()?["history"]`, absent for an
\* error, a missing document and a document without the field.
Found(o) == IF snap[o] \in {Failed, Missing} THEN <<>> ELSE snap[o]

\* Mutant: the new movie replaces the old ones.
NewHistoryAlone(o) == <<o>>

\* Mutant: the old history is written back without the new movie.
NewHistoryUnchanged(o) == Found(o)

\* oldID + [id], or [id] when there is no history
NewHistory(o) == Append(Found(o), o)

\* The callback of uploadHistoryToFirebase: docRef.updateData puts the write into
\* the queue of whoever is signed in by now.
RecordVisit(o) ==
  LET d == device[o] IN
  /\ phase[o] = "read" /\ kind[o] = "visit"
  /\ phase' = [phase EXCEPT ![o] = "done"]
  /\ pending' = [pending EXCEPT ![d][account[d]] = Append(@, [op |-> o, field |-> NewHistory(o)])]
  /\ recorded' = Append(recorded, o)
  /\ tainted' = (tainted \/ snap[o] = Failed)
  /\ UNCHANGED <<server, known, account, sent, seen, kind, device, snap, shown, rejected>>

\* Mutant: whatever the callback got is shown.
ShowHistoryUnchecked(o) ==
  /\ phase[o] = "read" /\ kind[o] = "look"
  /\ phase' = [phase EXCEPT ![o] = "done"]
  /\ shown' = [shown EXCEPT ![o] = snap[o]]
  /\ UNCHANGED <<store, kind, device, snap, recorded, rejected, tainted>>

\* The callback of getDataFromFirebase: ids and names, or the screen stays empty.
ShowHistory(o) ==
  /\ phase[o] = "read" /\ kind[o] = "look"
  /\ phase' = [phase EXCEPT ![o] = "done"]
  /\ shown' = [shown EXCEPT ![o] = Found(o)]
  /\ UNCHANGED <<store, kind, device, snap, recorded, rejected, tainted>>

-----------------------------------------------------------------------------
\* The server commits the next write that came over the stream of d, whether or
\* not the ones before it were answered.
Commit(d) ==
  /\ server # Missing /\ sent[d] < Len(Queue(d))
  /\ server' = Queue(d)[sent[d] + 1].field
  /\ sent' = [sent EXCEPT ![d] = @ + 1]
  /\ UNCHANGED <<known, account, pending, seen, ops, recorded, rejected, tainted>>

Dequeue(d) == pending' = [pending EXCEPT ![d][account[d]] = Tail(@)]

\* Mutant: an answered write leaves the queue, and the local document stays as it was.
AcknowledgeForgets(d) ==
  /\ sent[d] > 0
  /\ Dequeue(d)
  /\ sent' = [sent EXCEPT ![d] = @ - 1]
  /\ seen' = [seen EXCEPT ![d] = IF @ = 0 THEN 0 ELSE @ - 1]
  /\ UNCHANGED <<server, known, account, ops, recorded, rejected, tainted>>

\* The answer to the oldest write arrives: it leaves the queue, and the local
\* document takes it over, unless there is none or it is newer than the commit.
Acknowledge(d) ==
  /\ sent[d] > 0
  /\ Dequeue(d)
  /\ known' = [known EXCEPT ![d] =
       IF seen[d] = 0 THEN ApplyToLocalView(@, Head(Queue(d)).field) ELSE @]
  /\ sent' = [sent EXCEPT ![d] = @ - 1]
  /\ seen' = [seen EXCEPT ![d] = IF @ = 0 THEN 0 ELSE @ - 1]
  /\ UNCHANGED <<server, account, ops, recorded, rejected, tainted>>

\* HandleWriteError: the server refuses the first unanswered write for good, it is
\* dropped, and a new stream begins.
Reject(d) ==
  /\ Queue(d) # <<>> /\ sent[d] = 0
  /\ Dequeue(d)
  /\ rejected' = rejected \cup {Head(Queue(d)).op}
  /\ UNCHANGED <<server, known, account, sent, seen, ops, recorded, tainted>>

\* A new stream sends the queue from its first write again.
NewStream(d) ==
  /\ sent' = [sent EXCEPT ![d] = 0]
  /\ seen' = [seen EXCEPT ![d] = 0]

\* The stream breaks, and with it the answers that were on their way.
Break(d) ==
  /\ sent[d] > 0
  /\ NewStream(d)
  /\ UNCHANGED <<server, known, account, pending, ops, recorded, rejected, tainted>>

\* The user signs out on d, or in again: the streams restart with the queue of the
\* new account.
SwitchAccount(d) ==
  /\ account' = [account EXCEPT ![d] = IF @ = "own" THEN "other" ELSE "own"]
  /\ NewStream(d)
  /\ tainted' = (tainted \/ \E o \in Ops : device[o] = d /\ Busy(o))
  /\ UNCHANGED <<server, known, pending, ops, recorded, rejected>>

\* The process on d dies: its callbacks never run, its screens are gone; the
\* account and the documents and writes Firestore keeps on disk stay.
Crash(d) ==
  /\ NewStream(d)
  /\ phase' = [o \in Ops |-> IF device[o] = d /\ Busy(o) THEN "lost" ELSE phase[o]]
  /\ shown' = [o \in Ops |-> IF device[o] = d THEN <<>> ELSE shown[o]]
  /\ UNCHANGED <<server, known, account, pending, kind, device, snap, recorded, rejected, tainted>>

ReadStep(o) == ReadServer(o) \/ ReadCached(o) \/ ReadFailed(o)
Callback(o) == RecordVisit(o) \/ ShowHistory(o)

Next ==
  \/ \E o \in Ops, d \in Devices, k \in {"visit", "look"} : GetDocument(o, k, d)
  \/ \E o \in Ops : ReadStep(o) \/ Callback(o)
  \/ \E d \in Devices : \/ Commit(d) \/ Acknowledge(d) \/ Reject(d)
                        \/ Break(d) \/ SwitchAccount(d) \/ Crash(d)

\* getDocument always calls back, and the main queue runs the callback.  Streams
\* break and are opened again, with a delay that grows: if there is a stream time
\* and again, one lives long enough for the server to take the next write, and one
\* for its answer.  Nothing makes the user visit a movie, nor sign in again.
Fairness ==
  /\ \A o \in Ops : WF_vars(ReadStep(o)) /\ WF_vars(Callback(o))
  /\ \A d \in Devices : SF_vars(Commit(d)) /\ SF_vars(Acknowledge(d))

Spec == Init /\ [][Next]_vars
FairSpec == Spec /\ Fairness

-----------------------------------------------------------------------------
(* Properties.                                                             *)

Holds(doc, o) == \E i \in DOMAIN doc : doc[i] = o

\* All entries of doc are in rec, and in the order of rec.
InOrder(doc, rec) ==
  /\ \A i \in DOMAIN doc : Holds(rec, doc[i])
  /\ \A i, j \in DOMAIN doc, a, b \in DOMAIN rec :
       (i < j /\ rec[a] = doc[i] /\ rec[b] = doc[j]) => a < b

Unanswered(o) ==
  \E d \in Devices, a \in Accounts : \E i \in DOMAIN pending[d][a] : pending[d][a][i].op = o

\* As long as no two visits overlapped, no account changed under an operation and
\* no visit relied on a failed or outdated read, a device that reads the history now
\* and alone may have unanswered writes finds every recorded entry whose write was
\* not refused, in order: on whatever mix of server and cached reads, crashes,
\* sign-outs, refusals and writes sent again.
HistoryComplete ==
  (~tainted /\ server # Missing) =>
    \A d \in Devices :
      (account[d] = "own" /\ \A e \in Devices \ {d} : pending[e]["own"] = <<>>) =>
        /\ \A o \in Ops : Holds(recorded, o) => o \in rejected \/ Holds(Overlay(d, server), o)
        /\ InOrder(Overlay(d, server), recorded)

\* Under the same condition an entry whose write was acknowledged is at the server
\* and stays there: the queue that is sent again after a break may take back what
\* the server had committed of it, but nothing that was answered.
AcknowledgedKept ==
  (~tainted /\ server # Missing) =>
    \A o \in Ops :
      (Holds(recorded, o) /\ o \notin rejected /\ ~Unanswered(o)) => Holds(server, o)

\* Under the same condition a device reads its own writes: what a visit or a history
\* screen gets, online or offline, has every entry recorded on this device before,
\* whose write is queued, sent, sent again or answered, but not refused.
ReadsOwnWrites ==
  [][\A o \in Ops :
       (phase[o] = "asked" /\ phase'[o] = "read" /\ snap'[o] # Failed
          /\ ~tainted' /\ server # Missing) =>
         \A p \in Ops : (Holds(recorded, p) /\ device[p] = device[o]) =>
                           p \in rejected \/ Holds(snap'[o], p)]_vars

\* An issued write arrives, crash or not, and its entry is in the user's document
\* from some time on, if nothing was tainted, the server does not refuse it and the
\* user does not stay signed out on the device.
VisitsArrive ==
  \A o \in Ops :
    Holds(recorded, o)
      ~> [](\/ tainted \/ server = Missing \/ o \in rejected
            \/ account[device[o]] # "own" \/ Holds(server, o))

\* What the documentation of getDocument says of its completion block ("a block
\* to execute once the document has been successfully read"): the write of
\* uploadHistoryToFirebase follows a successful read.
WritesFollowSuccessfulReads ==
  \A o \in Ops : (phase[o] = "done" /\ kind[o] = "visit") => snap[o] # Failed
=============================================================================
