------------------------ MODULE NetworkServiceProofs ------------------------
(***************************************************************************)
(* The safety properties of NetworkService for any number of calls, any    *)
(* set of URLs and any bound on the server's changes, and that it          *)
(* implements LoadContract.                                                *)
(*                                                                         *)
(* The argument is one inductive invariant, IInv, whose parts are proved   *)
(* one lemma each.                                                         *)
(***************************************************************************)
EXTENDS NetworkRefinement, TLAPS

-----------------------------------------------------------------------------
(* The two sequence operations of the module, element by element.          *)

\* Appending keeps the old elements and puts the new one last.
LEMMA AppendElems ==
  ASSUME NEW S, NEW s \in Seq(S), NEW e \in S
  PROVE  /\ Append(s, e) \in Seq(S)
         /\ DOMAIN s = 1 .. Len(s)
         /\ Len(s) \in Nat
         /\ DOMAIN Append(s, e) = 1 .. (Len(s) + 1)
         /\ \A i \in 1 .. Len(s) : s[i] \in S
         /\ \A i \in 1 .. Len(s) : Append(s, e)[i] = s[i]
         /\ Append(s, e)[Len(s) + 1] = e
  OBVIOUS

\* Dropping the head shifts the rest down by one.
LEMMA TailElems ==
  ASSUME NEW S, NEW s \in Seq(S), s # <<>>
  PROVE  /\ Tail(s) \in Seq(S)
         /\ Len(s) \in Nat \ {0}
         /\ DOMAIN s = 1 .. Len(s)
         /\ DOMAIN Tail(s) = 1 .. (Len(s) - 1)
         /\ \A i \in 1 .. Len(s) : s[i] \in S
         /\ \A i \in 1 .. (Len(s) - 1) : Tail(s)[i] = s[i + 1]
         /\ Head(s) = s[1]
         /\ Head(s) \in S
  OBVIOUS

-----------------------------------------------------------------------------
(* Types.                                                                  *)

\* The initial state has the right types.
LEMMA TypeInit == Init => TypeOK
<1> SUFFICES ASSUME Init PROVE TypeOK
  OBVIOUS
<1>1. main \in Seq(Loads) /\ done \in Seq(Completion)
  BY DEF Init
<1>2. trapped \in BOOLEAN
  BY Zenon DEF Init
<1> QED
  BY <1>1, <1>2 DEF Init, TypeOK, Phases, Nil

\* A completion record of the module is one of the type.
LEMMA CompletionType ==
  ASSUME NEW l \in Loads, NEW v \in Nat, NEW t \in {"main", "session"}
  PROVE  [load |-> l, val |-> v, on |-> t] \in Completion
  BY DEF Completion

\* An entry of the history is a completion record.
LEMMA DoneType ==
  ASSUME TypeOK
  PROVE  /\ Len(done) \in Nat
         /\ DOMAIN done = 1 .. Len(done)
         /\ \A i \in DOMAIN done : done[i].load \in Loads /\ done[i].val \in Nat
<1>1. /\ Len(done) \in Nat
      /\ DOMAIN done = 1 .. Len(done)
      /\ \A i \in DOMAIN done : done[i] \in Completion
  BY DEF TypeOK
<1>2. \A c \in Completion : c.load \in Loads /\ c.val \in Nat
  BY DEF Completion
<1> QED
  BY <1>1, <1>2

\* What a racing read of the cache returns is a version.
LEMMA LookUpType ==
  ASSUME TypeOK, NEW u \in Urls
  PROVE  LookUp(u) \subseteq Nat
  BY DEF LookUp, Writing, TypeOK, Nil

\* The type invariant is not inductive alone: the call that completes has a
\* URL because it is on the main queue only if it was queued (QueueInv).
LEMMA TypeStep == TypeOK /\ QueueInv /\ [Next]_vars => TypeOK'
<1> SUFFICES ASSUME TypeOK, QueueInv, [Next]_vars PROVE TypeOK'
  OBVIOUS
<1>1. ASSUME NEW l \in Loads, LoadNoUrl(l) PROVE TypeOK'
  BY <1>1 DEF LoadNoUrl, TypeOK, Phases
<1>2. ASSUME NEW l \in Loads, NEW u \in Urls, LoadHit(l, u) PROVE TypeOK'
  <2>1. PICK v \in LookUp(u) \ {Nil} : body' = [body EXCEPT ![l] = v]
    BY <1>2 DEF LoadHit
  <2>2. v \in Nat
    BY <2>1, LookUpType
  <2>3. main' \in Seq(Loads)
    BY <1>2, AppendElems DEF LoadHit, TypeOK
  <2>4. contended' \in SUBSET Urls
    BY <1>2 DEF LoadHit, TypeOK
  <2> QED
    BY <1>2, <2>1, <2>2, <2>3, <2>4 DEF LoadHit, TypeOK, Phases
<1>3. ASSUME NEW l \in Loads, NEW u \in Urls, LoadMiss(l, u) PROVE TypeOK'
  BY <1>3 DEF LoadMiss, TypeOK, Phases
<1>4. CASE LoadTrap
  BY <1>4 DEF LoadTrap, TypeOK
<1>5. ASSUME NEW u \in Urls, ServerChange(u) PROVE TypeOK'
  BY <1>5 DEF ServerChange, TypeOK
<1>6. ASSUME NEW l \in Loads, Answer(l) PROVE TypeOK'
  <2>1. url[l] \in Urls
    BY <1>6 DEF Answer, TypeOK
  <2> QED
    BY <1>6, <2>1 DEF Answer, TypeOK, Phases
<1>7. ASSUME NEW l \in Loads, Decoded(l) PROVE TypeOK'
  BY <1>7 DEF Decoded, TypeOK, Phases
<1>8. ASSUME NEW l \in Loads, StoreResult(l) PROVE TypeOK'
  BY <1>8 DEF StoreResult, TypeOK, Phases
<1>9. ASSUME NEW l \in Loads, HopToMain(l) PROVE TypeOK'
  <2>1. main' \in Seq(Loads)
    BY <1>9, AppendElems DEF HopToMain, TypeOK
  <2> QED
    BY <1>9, <2>1 DEF HopToMain, TypeOK, Phases
<1>10. ASSUME NEW l \in Loads, Undecodable(l) PROVE TypeOK'
  BY <1>10 DEF Undecodable, TypeOK, Phases
<1>11. ASSUME NEW l \in Loads, NoData(l) PROVE TypeOK'
  <2>1. [load |-> l, val |-> Nil, on |-> "session"] \in Completion
    BY CompletionType DEF Nil
  <2>2. done' \in Seq(Completion)
    BY <1>11, <2>1, AppendElems DEF NoData, TypeOK
  <2> QED
    BY <1>11, <2>2 DEF NoData, TypeOK, Phases
<1>12. CASE RunMain
  <2>1. main' \in Seq(Loads) /\ Head(main) \in Loads
    BY <1>12, TailElems DEF RunMain, TypeOK
  <2>2. [load |-> Head(main), val |-> body[Head(main)], on |-> "main"] \in Completion
    BY <2>1, CompletionType DEF TypeOK
  <2>3. done' \in Seq(Completion)
    BY <1>12, <2>2, AppendElems DEF RunMain, TypeOK
  <2>4. phase[Head(main)] = "queued"
    BY <1>12, TailElems DEF RunMain, TypeOK, QueueInv
  <2> QED
    BY <1>12, <2>1, <2>3, <2>4 DEF RunMain, TypeOK, Phases
<1>13. CASE UNCHANGED vars
  BY <1>13 DEF vars, TypeOK
<1> QED
  BY <1>1, <1>2, <1>3, <1>4, <1>5, <1>6, <1>7, <1>8, <1>9, <1>10, <1>11, <1>12, <1>13
     DEF Next, Load, SessionStep

-----------------------------------------------------------------------------
(* Where the calls are.                                                    *)

\* Every step keeps the main queue free of duplicates and of finished calls, and
\* the session queue serial.
LEMMA QueueStep == TypeOK /\ QueueInv /\ [Next]_vars => QueueInv'
<1> SUFFICES ASSUME TypeOK, QueueInv, [Next]_vars PROVE QueueInv'
  OBVIOUS
<1>a. /\ DOMAIN main = 1 .. Len(main)
      /\ \A i \in DOMAIN main : main[i] \in Loads
      /\ Len(main) \in Nat
  BY DEF TypeOK
<1>b. \A i \in DOMAIN done : done[i].load \in Loads
  BY DoneType
\* A step that moves one call and neither queue nor history.
<1>c. ASSUME NEW l \in Loads, NEW p,
             phase' = [phase EXCEPT ![l] = p],
             phase[l] \notin {"queued", "completed", "failed"},
             p \in {"storing", "stored"} =>
               \A m \in Loads : m # l => phase[m] \notin {"storing", "stored"},
             UNCHANGED <<main, done>>
      PROVE  QueueInv'
  BY <1>a, <1>b, <1>c DEF QueueInv, TypeOK
\* A step that puts a call on the main queue.
<1>d. ASSUME NEW l \in Loads,
             phase' = [phase EXCEPT ![l] = "queued"],
             phase[l] \notin {"queued", "completed", "failed"},
             main' = Append(main, l),
             UNCHANGED done
      PROVE  QueueInv'
  <2>1. /\ DOMAIN main' = 1 .. (Len(main) + 1)
        /\ \A i \in 1 .. Len(main) : main'[i] = main[i]
        /\ main'[Len(main) + 1] = l
    BY <1>d, AppendElems DEF TypeOK
  <2>2. \A i \in DOMAIN main : main[i] # l
    BY <1>d DEF QueueInv
  <2>3. \A i \in DOMAIN main' : phase'[main'[i]] = "queued"
    BY <1>a, <1>d, <2>1, <2>2 DEF QueueInv, TypeOK
  <2>4. \A i, j \in DOMAIN main' : main'[i] = main'[j] => i = j
    BY <1>a, <1>d, <2>1, <2>2 DEF QueueInv
  <2>5. \A i \in DOMAIN done' : phase'[done'[i].load] \in {"completed", "failed"}
    BY <1>b, <1>d DEF QueueInv, TypeOK
  <2> QED
    BY <1>d, <2>3, <2>4, <2>5 DEF QueueInv, TypeOK
\* A step that records a completion of l.
<1>e. ASSUME NEW l \in Loads, NEW p \in {"completed", "failed"}, NEW c \in Completion,
             c.load = l,
             phase' = [phase EXCEPT ![l] = p],
             done' = Append(done, c),
             \A i \in DOMAIN main' : phase'[main'[i]] = "queued",
             \A i, j \in DOMAIN main' : main'[i] = main'[j] => i = j
      PROVE  QueueInv'
  <2>1. /\ DOMAIN done' = 1 .. (Len(done) + 1)
        /\ DOMAIN done = 1 .. Len(done)
        /\ Len(done) \in Nat
        /\ \A i \in 1 .. Len(done) : done'[i] = done[i]
        /\ done'[Len(done) + 1] = c
    BY <1>e, AppendElems DEF TypeOK
  <2>2. \A i \in DOMAIN done' : phase'[done'[i].load] \in {"completed", "failed"}
    BY <1>b, <1>e, <2>1 DEF QueueInv, TypeOK
  <2> QED
    BY <1>e, <2>2 DEF QueueInv, TypeOK
<1>1. ASSUME NEW l \in Loads, phase[l] = "idle", LoadNoUrl(l) PROVE QueueInv'
  BY <1>1, <1>c DEF LoadNoUrl
<1>2. ASSUME NEW l \in Loads, NEW u \in Urls, phase[l] = "idle", LoadHit(l, u)
      PROVE  QueueInv'
  BY <1>2, <1>d DEF LoadHit, TypeOK
<1>3. ASSUME NEW l \in Loads, NEW u \in Urls, phase[l] = "idle", LoadMiss(l, u)
      PROVE  QueueInv'
  BY <1>3, <1>c DEF LoadMiss, TypeOK
<1>4. CASE LoadTrap
  BY <1>4 DEF LoadTrap, QueueInv
<1>5. ASSUME NEW u \in Urls, ServerChange(u) PROVE QueueInv'
  BY <1>5 DEF ServerChange, QueueInv
<1>6. ASSUME NEW l \in Loads, Answer(l) PROVE QueueInv'
  BY <1>6, <1>c DEF Answer, QueueInv
<1>7. ASSUME NEW l \in Loads, Decoded(l) PROVE QueueInv'
  BY <1>7, <1>c DEF Decoded, SessionIdle, QueueInv
<1>8. ASSUME NEW l \in Loads, StoreResult(l) PROVE QueueInv'
  BY <1>8, <1>c DEF StoreResult, QueueInv
<1>9. ASSUME NEW l \in Loads, HopToMain(l) PROVE QueueInv'
  BY <1>9, <1>d DEF HopToMain, QueueInv
<1>10. ASSUME NEW l \in Loads, Undecodable(l) PROVE QueueInv'
  BY <1>10, <1>c DEF Undecodable
<1>11. ASSUME NEW l \in Loads, NoData(l) PROVE QueueInv'
  <2> DEFINE c == [load |-> l, val |-> Nil, on |-> "session"]
  <2>1. c \in Completion /\ c.load = l
    BY CompletionType DEF Nil
  <2>2. \A i \in DOMAIN main' : phase'[main'[i]] = "queued"
    BY <1>11, <1>a DEF NoData, QueueInv, TypeOK
  <2>3. \A i, j \in DOMAIN main' : main'[i] = main'[j] => i = j
    BY <1>11 DEF NoData, QueueInv, TypeOK
  <2> QED
    BY <1>11, <1>e, <2>1, <2>2, <2>3 DEF NoData
<1>12. CASE RunMain
  <2> DEFINE l == Head(main)
             c == [load |-> l, val |-> body[l], on |-> "main"]
  <2>1. /\ l \in Loads
        /\ l = main[1]
        /\ Len(main) \in Nat \ {0}
        /\ DOMAIN main' = 1 .. (Len(main) - 1)
        /\ \A i \in 1 .. (Len(main) - 1) : main'[i] = main[i + 1]
    BY <1>12, TailElems DEF RunMain, TypeOK
  <2>2. c \in Completion /\ c.load = l
    BY <2>1, CompletionType DEF TypeOK
  <2>3. \A i \in DOMAIN main' : phase'[main'[i]] = "queued"
    <3>1. ASSUME NEW i \in DOMAIN main'
          PROVE  i + 1 \in DOMAIN main /\ i + 1 # 1 /\ 1 \in DOMAIN main
      BY <1>a, <2>1
    <3>2. ASSUME NEW i \in DOMAIN main'
          PROVE  main'[i] \in Loads /\ main'[i] # l /\ phase[main'[i]] = "queued"
      BY <1>a, <2>1, <3>1 DEF QueueInv
    <3> QED
      BY <1>12, <2>1, <3>2 DEF RunMain, TypeOK
  <2>4. \A i, j \in DOMAIN main' : main'[i] = main'[j] => i = j
    BY <1>a, <2>1 DEF QueueInv
  <2>5. /\ phase' = [phase EXCEPT ![l] = "completed"]
        /\ done' = Append(done, c)
    BY <1>12 DEF RunMain
  <2> HIDE DEF l, c
  <2> QED
    BY <1>e, <2>1, <2>2, <2>3, <2>4, <2>5
<1>13. CASE UNCHANGED vars
  BY <1>13 DEF vars, QueueInv
<1> QED
  BY <1>1, <1>2, <1>3, <1>4, <1>5, <1>6, <1>7, <1>8, <1>9, <1>10, <1>11, <1>12, <1>13
     DEF Next, Load, SessionStep

-----------------------------------------------------------------------------
(* The history of completions.                                             *)

\* The history grows by at most one entry, of a call that had not finished:
\* either its fetched or cached result, run from the head of the main queue,
\* or the nil of a call that got no data.
LEMMA DoneGrows ==
  ASSUME TypeOK, QueueInv, [Next]_vars
  PROVE  \/ UNCHANGED done
         \/ \E l \in Loads :
               /\ phase[l] \in {"queued", "sent"}
               /\ \/ NoData(l) /\ done' = Append(done, [load |-> l, val |-> Nil, on |-> "session"])
                  \/ /\ RunMain
                     /\ l = Head(main)
                     /\ phase[l] = "queued"
                     /\ done' = Append(done, [load |-> l, val |-> body[l], on |-> "main"])
<1>1. ASSUME NEW l \in Loads, NoData(l)
      PROVE  phase[l] = "sent" /\ done' = Append(done, [load |-> l, val |-> Nil, on |-> "session"])
  BY <1>1 DEF NoData
<1>2. CASE RunMain
  <2>1. Head(main) \in Loads /\ Head(main) = main[1] /\ 1 \in DOMAIN main
    BY <1>2, TailElems DEF RunMain, TypeOK
  <2>2. phase[Head(main)] = "queued"
    BY <2>1 DEF QueueInv
  <2>3. done' = Append(done, [load |-> Head(main), val |-> body[Head(main)], on |-> "main"])
    BY <1>2 DEF RunMain
  <2> QED
    BY <1>2, <2>1, <2>2, <2>3
<1>3. CASE UNCHANGED vars
  BY <1>3 DEF vars
<1> QED
  BY <1>1, <1>2, <1>3
     DEF Next, Load, SessionStep, LoadNoUrl, LoadHit, LoadMiss, LoadTrap, ServerChange,
         Answer, Decoded, StoreResult, HopToMain, Undecodable

\* A step adds at most one completion, and only of a call that had none.
LEMMA OnceStep ==
  TypeOK /\ QueueInv /\ CompletesOnce /\ [Next]_vars => CompletesOnce'
<1> SUFFICES ASSUME TypeOK, QueueInv, CompletesOnce, [Next]_vars PROVE CompletesOnce'
  OBVIOUS
<1>1. CASE UNCHANGED done
  BY <1>1 DEF CompletesOnce
<1>2. ASSUME NEW l \in Loads, NEW c \in Completion,
             c.load = l, phase[l] \in {"queued", "sent"}, done' = Append(done, c)
      PROVE  CompletesOnce'
  <2>1. /\ DOMAIN done' = 1 .. (Len(done) + 1)
        /\ DOMAIN done = 1 .. Len(done)
        /\ Len(done) \in Nat
        /\ \A i \in 1 .. Len(done) : done'[i] = done[i]
        /\ done'[Len(done) + 1] = c
    BY <1>2, AppendElems DEF TypeOK
  <2>2. \A i \in DOMAIN done : done[i].load # l
    BY <1>2 DEF QueueInv
  <2> QED
    BY <1>2, <2>1, <2>2 DEF CompletesOnce
<1>3. ASSUME NEW l \in Loads, NEW v \in Nat, NEW t \in {"main", "session"}
      PROVE  /\ [load |-> l, val |-> v, on |-> t] \in Completion
             /\ [load |-> l, val |-> v, on |-> t].load = l
  BY CompletionType
<1>4. Nil \in Nat /\ \A l \in Loads : body[l] \in Nat
  BY DEF TypeOK, Nil
<1> QED
  BY <1>1, <1>2, <1>3, <1>4, DoneGrows

\* A completion added on the session queue (NoData) carries Nil.
LEMMA OnMainStep ==
  TypeOK /\ QueueInv /\ ResultsOnMain /\ [Next]_vars => ResultsOnMain'
<1> SUFFICES ASSUME TypeOK, QueueInv, ResultsOnMain, [Next]_vars PROVE ResultsOnMain'
  OBVIOUS
<1>1. CASE UNCHANGED done
  BY <1>1 DEF ResultsOnMain
<1>2. ASSUME NEW c \in Completion,
             c.on = "session" => c.val = Nil, done' = Append(done, c)
      PROVE  ResultsOnMain'
  <2>1. /\ DOMAIN done' = 1 .. (Len(done) + 1)
        /\ DOMAIN done = 1 .. Len(done)
        /\ Len(done) \in Nat
        /\ \A i \in 1 .. Len(done) : done'[i] = done[i]
        /\ done'[Len(done) + 1] = c
    BY <1>2, AppendElems DEF TypeOK
  <2> QED
    BY <1>2, <2>1 DEF ResultsOnMain
<1>3. ASSUME NEW l \in Loads, NEW v \in Nat, NEW t \in {"main", "session"}
      PROVE  LET c == [load |-> l, val |-> v, on |-> t]
             IN  c \in Completion /\ c.on = t /\ c.val = v
  BY CompletionType
<1>4. Nil \in Nat /\ \A l \in Loads : body[l] \in Nat
  BY DEF TypeOK, Nil
<1>5. ASSUME NEW l \in Loads,
             done' = Append(done, [load |-> l, val |-> Nil, on |-> "session"])
      PROVE  ResultsOnMain'
  BY <1>2, <1>3, <1>4, <1>5
<1>6. ASSUME NEW l \in Loads,
             done' = Append(done, [load |-> l, val |-> body[l], on |-> "main"])
      PROVE  ResultsOnMain'
  BY <1>2, <1>3, <1>4, <1>6
<1> QED
  BY <1>1, <1>5, <1>6, DoneGrows

-----------------------------------------------------------------------------
(* Nothing comes from the future or from another URL.                      *)

\* What no step changes: the URL and the content of a call once it has them,
\* and the past of the server and of the contended set.
LEMMA Frame ==
  ASSUME TypeOK, QueueInv, [Next]_vars
  PROVE  /\ \A u \in Urls : server[u] <= server'[u]
         /\ \A l \in Loads : phase[l] # "idle" => url'[l] = url[l]
         /\ \A l \in Loads : phase[l] \in HasBody => body'[l] = body[l]
         /\ contended \subseteq contended'
<1> USE DEF TypeOK, HasBody
<1>1. ASSUME NEW l \in Loads, NEW u \in Urls, phase[l] = "idle", LoadHit(l, u)
      PROVE  /\ UNCHANGED server
             /\ \A m \in Loads : m # l => url'[m] = url[m] /\ body'[m] = body[m]
             /\ contended \subseteq contended'
  BY <1>1 DEF LoadHit
<1>2. ASSUME NEW l \in Loads, NEW u \in Urls, phase[l] = "idle", LoadMiss(l, u)
      PROVE  /\ UNCHANGED <<server, body>>
             /\ \A m \in Loads : m # l => url'[m] = url[m]
             /\ contended \subseteq contended'
  BY <1>2 DEF LoadMiss
<1>3. ASSUME NEW u \in Urls, ServerChange(u)
      PROVE  /\ UNCHANGED <<url, body, contended>>
             /\ \A w \in Urls : server[w] <= server'[w]
  BY <1>3 DEF ServerChange
<1>4. ASSUME NEW l \in Loads, Answer(l)
      PROVE  /\ UNCHANGED <<server, url, contended>>
             /\ phase[l] = "sent"
             /\ \A m \in Loads : m # l => body'[m] = body[m]
  BY <1>4 DEF Answer
<1>5. (\E l \in Loads : LoadNoUrl(l) \/ SessionStep(l)) \/ LoadTrap \/ RunMain \/ UNCHANGED vars
      => UNCHANGED <<server, url, body, contended>>
  BY DEF LoadNoUrl, SessionStep, LoadTrap, RunMain, vars,
         Decoded, StoreResult, HopToMain, Undecodable, NoData
<1>6. \A u \in Urls : server[u] <= server[u]
  OBVIOUS
<1> QED
  BY <1>1, <1>2, <1>3, <1>4, <1>5, <1>6 DEF Next, Load

\* A racing read of the cache returns content of the URL it asked for.
LEMMA LookUpServed ==
  ASSUME TypeOK, ServedInv, NEW u \in Urls, NEW v \in LookUp(u)
  PROVE  v \in Nat /\ v <= server[u]
  BY DEF LookUp, Writing, ServedInv, TypeOK, HasBody, Nil

\* No step puts content into the cache or into a call that the server did not
\* hold for the URL, not even a read inside a write.
LEMMA ServedStep ==
  TypeOK /\ QueueInv /\ ServedInv /\ [Next]_vars => ServedInv'
<1> SUFFICES ASSUME TypeOK, QueueInv, ServedInv, [Next]_vars PROVE ServedInv'
  OBVIOUS
<1>1. ASSUME NEW l \in Loads, phase[l] = "idle", LoadNoUrl(l) PROVE ServedInv'
  BY <1>1 DEF LoadNoUrl, ServedInv, TypeOK, HasBody
<1>2. ASSUME NEW l \in Loads, NEW u \in Urls, phase[l] = "idle", LoadHit(l, u)
      PROVE  ServedInv'
  <2>1. PICK v \in LookUp(u) \ {Nil} : body' = [body EXCEPT ![l] = v]
    BY <1>2 DEF LoadHit
  <2>2. v <= server[u]
    BY <2>1, LookUpServed
  <2> QED
    BY <1>2, <2>1, <2>2 DEF LoadHit, ServedInv, TypeOK, HasBody
<1>3. ASSUME NEW l \in Loads, NEW u \in Urls, phase[l] = "idle", LoadMiss(l, u)
      PROVE  ServedInv'
  BY <1>3 DEF LoadMiss, ServedInv, TypeOK, HasBody
<1>4. CASE LoadTrap
  BY <1>4 DEF LoadTrap, ServedInv
<1>5. ASSUME NEW u \in Urls, ServerChange(u) PROVE ServedInv'
  <2>1. \A l \in Loads : phase[l] \in HasBody => url[l] \in Urls
    BY DEF TypeOK, HasBody
  <2> QED
    BY <1>5, <2>1 DEF ServerChange, ServedInv, TypeOK
<1>6. ASSUME NEW l \in Loads, Answer(l) PROVE ServedInv'
  <2>1. url[l] \in Urls
    BY <1>6 DEF Answer, TypeOK
  <2> QED
    BY <1>6, <2>1 DEF Answer, ServedInv, TypeOK, HasBody
<1>7. ASSUME NEW l \in Loads, Decoded(l) PROVE ServedInv'
  BY <1>7 DEF Decoded, ServedInv, TypeOK, HasBody
<1>8. ASSUME NEW l \in Loads, StoreResult(l) PROVE ServedInv'
  BY <1>8 DEF StoreResult, ServedInv, TypeOK, HasBody
<1>9. ASSUME NEW l \in Loads, HopToMain(l) PROVE ServedInv'
  BY <1>9 DEF HopToMain, ServedInv, TypeOK, HasBody
<1>10. ASSUME NEW l \in Loads, Undecodable(l) PROVE ServedInv'
  BY <1>10 DEF Undecodable, ServedInv, TypeOK, HasBody
<1>11. ASSUME NEW l \in Loads, NoData(l) PROVE ServedInv'
  BY <1>11 DEF NoData, ServedInv, TypeOK, HasBody
<1>12. CASE RunMain
  <2>1. Head(main) \in Loads /\ phase[Head(main)] = "queued"
    BY <1>12, TailElems DEF RunMain, TypeOK, QueueInv
  <2> QED
    BY <1>12, <2>1 DEF RunMain, ServedInv, TypeOK, HasBody
<1>13. CASE UNCHANGED vars
  BY <1>13 DEF vars, ServedInv
<1> QED
  BY <1>1, <1>2, <1>3, <1>4, <1>5, <1>6, <1>7, <1>8, <1>9, <1>10, <1>11, <1>12, <1>13
     DEF Next, Load, SessionStep

\* The completion a step adds carries content of the URL that was asked for.
LEMMA ResultsServedStep ==
  TypeOK /\ QueueInv /\ ServedInv /\ ResultsAreServed /\ [Next]_vars => ResultsAreServed'
<1> SUFFICES ASSUME TypeOK, TypeOK', QueueInv, ServedInv, ResultsAreServed, [Next]_vars
             PROVE  ResultsAreServed'
  BY TypeStep
<1>1. \A i \in DOMAIN done : /\ done[i].load \in Loads
                             /\ done[i].val \in Nat
                             /\ url[done[i].load] \in Urls
                             /\ url'[done[i].load] = url[done[i].load]
  BY DoneType, Frame DEF QueueInv, TypeOK
<1>2. \A i \in DOMAIN done : done[i].val <= server'[url'[done[i].load]]
  <2>1. ASSUME NEW i \in DOMAIN done, NEW w \in Urls, w = url[done[i].load]
        PROVE  done[i].val <= server'[w]
    <3>1. done[i].val <= server[w] /\ server[w] <= server'[w]
      BY <2>1, Frame DEF ResultsAreServed
    <3>2. done[i].val \in Nat /\ server[w] \in Nat /\ server'[w] \in Nat
      BY <1>1 DEF TypeOK
    <3> QED
      BY <3>1, <3>2
  <2> QED
    BY <1>1, <2>1
<1>3. CASE UNCHANGED done
  BY <1>2, <1>3 DEF ResultsAreServed
<1>4. ASSUME NEW c \in Completion, done' = Append(done, c),
             c.val <= server'[url'[c.load]]
      PROVE  ResultsAreServed'
  <2>1. /\ DOMAIN done' = 1 .. (Len(done) + 1)
        /\ DOMAIN done = 1 .. Len(done)
        /\ Len(done) \in Nat
        /\ \A i \in 1 .. Len(done) : done'[i] = done[i]
        /\ done'[Len(done) + 1] = c
    BY <1>4, AppendElems DEF TypeOK
  <2> QED
    BY <1>2, <1>4, <2>1 DEF ResultsAreServed
<1>5. ASSUME NEW l \in Loads, NoData(l) PROVE ResultsAreServed'
  <2> DEFINE c == [load |-> l, val |-> Nil, on |-> "session"]
  <2>1. c \in Completion /\ c.load = l /\ c.val = 0
    BY CompletionType DEF Nil
  <2>2. url'[l] \in Urls /\ server'[url'[l]] \in Nat
    BY <1>5 DEF NoData, QueueInv, TypeOK
  <2>3. done' = Append(done, c)
    BY <1>5 DEF NoData
  <2> HIDE DEF c
  <2> QED
    BY <1>4, <2>1, <2>2, <2>3
<1>6. CASE RunMain
  <2> DEFINE l == Head(main)
             c == [load |-> l, val |-> body[l], on |-> "main"]
  <2>1. l \in Loads /\ phase[l] = "queued"
    BY <1>6, TailElems DEF RunMain, TypeOK, QueueInv
  <2>2. c \in Completion /\ c.load = l /\ c.val = body[l]
    BY <2>1, CompletionType DEF TypeOK
  <2>3. body[l] <= server'[url'[l]]
    BY <1>6, <2>1 DEF RunMain, ServedInv, HasBody
  <2>4. done' = Append(done, c)
    BY <1>6 DEF RunMain
  <2> HIDE DEF l, c
  <2> QED
    BY <1>4, <2>2, <2>3, <2>4
<1> QED
  BY <1>3, <1>5, <1>6, DoneGrows

-----------------------------------------------------------------------------
(* Old before new, for a URL that was never contended.                     *)

OrderAt(u) ==
  /\ OneFetch(u)
  /\ FetchedNewest(u)
  /\ QueuedOlder(u)
  /\ QueueSorted(u)
  /\ DoneOlder(u)
  /\ DoneBeforeQueue(u)

\* What holds of the two queues: elements are calls, and a queued or finished
\* call is not being fetched and is not an idle one.
LEMMA QueueFacts ==
  ASSUME TypeOK, QueueInv
  PROVE  /\ Len(main) \in Nat
         /\ DOMAIN main = 1 .. Len(main)
         /\ \A i \in DOMAIN main : main[i] \in Loads /\ phase[main[i]] = "queued"
         /\ Len(done) \in Nat
         /\ DOMAIN done = 1 .. Len(done)
         /\ \A i \in DOMAIN done : /\ done[i].load \in Loads
                                   /\ done[i].val \in Nat
                                   /\ phase[done[i].load] \in {"completed", "failed"}
  BY DoneType DEF TypeOK, QueueInv

\* A step that leaves queues, history, cache and the content of u's fetches
\* alone, and adds no fetch of u, keeps the order of u.
LEMMA OrderFrame ==
  ASSUME TypeOK, QueueInv, NEW u \in Urls, OrderAt(u),
         UNCHANGED <<main, done, cache, body>>,
         \A m \in Loads : phase[m] # "idle" => url'[m] = url[m],
         Fetching(u)' \subseteq Fetching(u),
         \A m \in Fetching(u)' :
            \/ phase'[m] = phase[m]
            \/ phase[m] = "answered" /\ phase'[m] = "storing"
  PROVE  OrderAt(u)'
<1>1. OneFetch(u)'
  BY DEF OrderAt, OneFetch
<1>2. FetchedNewest(u)'
  BY DEF OrderAt, FetchedNewest, Fetching
<1>3. /\ \A i \in DOMAIN main : url'[main[i]] = url[main[i]]
      /\ \A i \in DOMAIN done : url'[done[i].load] = url[done[i].load]
  BY QueueFacts
<1>4. QueuedOlder(u)' /\ QueueSorted(u)'
  BY <1>3 DEF OrderAt, QueuedOlder, QueueSorted
<1>5. DoneOlder(u)' /\ DoneBeforeQueue(u)'
  BY <1>3 DEF OrderAt, DoneOlder, DoneBeforeQueue
<1> QED
  BY <1>1, <1>2, <1>4, <1>5 DEF OrderAt

\* A step that puts the newest content of u, or another URL's, on the queue.
LEMMA OrderQueue ==
  ASSUME TypeOK, QueueInv, NEW u \in Urls, OrderAt(u), NEW l \in Loads,
         phase[l] \in {"idle", "stored"},
         main' = Append(main, l),
         phase' = [phase EXCEPT ![l] = "queued"],
         UNCHANGED <<done, cache>>,
         \A m \in Loads : m # l => url'[m] = url[m] /\ body'[m] = body[m],
         url'[l] = u => body'[l] = cache[u]
  PROVE  OrderAt(u)'
<1>1. /\ DOMAIN main' = 1 .. (Len(main) + 1)
      /\ \A i \in 1 .. Len(main) : main'[i] = main[i]
      /\ main'[Len(main) + 1] = l
  BY AppendElems DEF TypeOK
<1>2. /\ \A i \in DOMAIN main : /\ main[i] # l
                                /\ url'[main[i]] = url[main[i]]
                                /\ body'[main[i]] = body[main[i]]
      /\ \A i \in DOMAIN done : url'[done[i].load] = url[done[i].load]
  BY QueueFacts
<1>3. /\ Fetching(u)' \subseteq Fetching(u)
      /\ \A m \in Fetching(u)' : phase'[m] = phase[m] /\ body'[m] = body[m]
  BY DEF Fetching, TypeOK
<1>4. OneFetch(u)' /\ FetchedNewest(u)'
  BY <1>3 DEF OrderAt, OneFetch, FetchedNewest
<1>5. cache[u] \in Nat /\ \A m \in Loads : body[m] \in Nat
  BY DEF TypeOK
<1>6. QueuedOlder(u)'
  BY <1>1, <1>2, <1>5, QueueFacts DEF OrderAt, QueuedOlder
<1>7. QueueSorted(u)'
  <2> SUFFICES ASSUME NEW i \in DOMAIN main', NEW j \in DOMAIN main',
                      url'[main'[i]] = u, url'[main'[j]] = u, i < j
               PROVE  body'[main'[i]] <= body'[main'[j]]
    BY DEF QueueSorted
  <2>1. i \in DOMAIN main /\ (j \in DOMAIN main \/ j = Len(main) + 1)
    BY <1>1, QueueFacts
  <2>2. CASE j \in DOMAIN main
    BY <1>1, <1>2, <2>1, <2>2, QueueFacts DEF OrderAt, QueueSorted
  <2>3. CASE j = Len(main) + 1
    BY <1>1, <1>2, <2>1, <2>3, QueueFacts DEF OrderAt, QueuedOlder
  <2> QED
    BY <2>1, <2>2, <2>3
<1>8. DoneOlder(u)'
  BY <1>2 DEF OrderAt, DoneOlder
<1>9. DoneBeforeQueue(u)'
  <2> SUFFICES ASSUME NEW i \in DOMAIN done, NEW j \in DOMAIN main',
                      url[done[i].load] = u, url'[main'[j]] = u
               PROVE  done[i].val <= body'[main'[j]]
    BY <1>2 DEF DoneBeforeQueue
  <2>1. j \in DOMAIN main \/ j = Len(main) + 1
    BY <1>1, QueueFacts
  <2>2. CASE j \in DOMAIN main
    BY <1>1, <1>2, <2>2, QueueFacts DEF OrderAt, DoneBeforeQueue
  <2>3. CASE j = Len(main) + 1
    BY <1>1, <2>3 DEF OrderAt, DoneOlder
  <2> QED
    BY <2>1, <2>2, <2>3
<1> QED
  BY <1>4, <1>6, <1>7, <1>8, <1>9 DEF OrderAt

\* A step that records a completion no newer than the cache and the queue.
LEMMA OrderDone ==
  ASSUME TypeOK, QueueInv, NEW u \in Urls, OrderAt(u), NEW c \in Completion,
         done' = Append(done, c),
         UNCHANGED <<url, cache, body>>,
         Fetching(u)' \subseteq Fetching(u),
         \A m \in Fetching(u)' : phase'[m] = phase[m],
         QueuedOlder(u)', QueueSorted(u)',
         \A j \in DOMAIN main' : \E k \in DOMAIN main : main'[j] = main[k],
         url[c.load] = u => /\ c.val <= cache[u]
                            /\ \A j \in DOMAIN main' : url[main'[j]] = u => c.val <= body[main'[j]]
  PROVE  OrderAt(u)'
<1>1. /\ DOMAIN done' = 1 .. (Len(done) + 1)
      /\ \A i \in 1 .. Len(done) : done'[i] = done[i]
      /\ done'[Len(done) + 1] = c
  BY AppendElems DEF TypeOK
<1>2. OneFetch(u)' /\ FetchedNewest(u)'
  BY DEF OrderAt, OneFetch, FetchedNewest
<1>3. DoneOlder(u)'
  BY <1>1, QueueFacts DEF OrderAt, DoneOlder
<1>4. DoneBeforeQueue(u)'
  <2> SUFFICES ASSUME NEW i \in DOMAIN done', NEW j \in DOMAIN main',
                      url[done'[i].load] = u, url[main'[j]] = u
               PROVE  done'[i].val <= body[main'[j]]
    BY DEF DoneBeforeQueue
  <2>1. i \in DOMAIN done \/ i = Len(done) + 1
    BY <1>1, QueueFacts
  <2>2. CASE i \in DOMAIN done
    <3>1. PICK k \in DOMAIN main : main'[j] = main[k]
      OBVIOUS
    <3> QED
      BY <1>1, <2>2, <3>1, QueueFacts DEF OrderAt, DoneBeforeQueue
  <2>3. CASE i = Len(done) + 1
    BY <1>1, <2>3
  <2> QED
    BY <2>1, <2>2, <2>3
<1> QED
  BY <1>2, <1>3, <1>4 DEF OrderAt

\* Every step keeps, for an uncontended URL, the order of deliveries, queue, cache
\* and fetch.
LEMMA OrderStep ==
  TypeOK /\ QueueInv /\ ServedInv /\ OrderInv /\ [Next]_vars => OrderInv'
<1> SUFFICES ASSUME TypeOK, QueueInv, ServedInv, OrderInv, [Next]_vars,
                    NEW u \in Urls, u \notin contended'
             PROVE  OrderAt(u)'
  BY DEF OrderInv, OrderAt
<1>a. OrderAt(u)
  BY Frame DEF OrderInv, OrderAt
<1>b. \A m \in Loads : phase[m] # "idle" => url'[m] = url[m]
  BY Frame
<1>1. ASSUME NEW l \in Loads, phase[l] = "idle", LoadNoUrl(l) PROVE OrderAt(u)'
  <2>1. /\ Fetching(u)' \subseteq Fetching(u)
        /\ \A m \in Fetching(u)' : phase'[m] = phase[m]
    BY <1>1 DEF LoadNoUrl, Fetching, TypeOK
  <2> QED
    BY <1>1, <1>a, <1>b, <2>1, OrderFrame DEF LoadNoUrl
<1>2. ASSUME NEW l \in Loads, NEW w \in Urls, phase[l] = "idle", LoadHit(l, w)
      PROVE  OrderAt(u)'
  <2>1. PICK v \in LookUp(w) \ {Nil} : body' = [body EXCEPT ![l] = v]
    BY <1>2 DEF LoadHit
  <2>2. ASSUME w = u PROVE v = cache[u]
    <3>1. \A x \in Writing : url[x] # u
      BY <1>2, <2>2 DEF LoadHit
    <3> QED
      BY <2>1, <2>2, <3>1 DEF LookUp
  <2>3. url'[l] = w /\ body'[l] = v
    BY <1>2, <2>1 DEF LoadHit, TypeOK
  <2>4. \A m \in Loads : m # l => url'[m] = url[m] /\ body'[m] = body[m]
    BY <1>2, <2>1 DEF LoadHit, TypeOK
  <2> QED
    BY <1>2, <1>a, <2>2, <2>3, <2>4, OrderQueue DEF LoadHit
<1>3. ASSUME NEW l \in Loads, NEW w \in Urls, phase[l] = "idle", LoadMiss(l, w)
      PROVE  OrderAt(u)'
  <2>1. CASE w # u
    <3>1. /\ Fetching(u)' \subseteq Fetching(u)
          /\ \A m \in Fetching(u)' : phase'[m] = phase[m]
      BY <1>3, <2>1 DEF LoadMiss, Fetching, TypeOK
    <3> QED
      BY <1>3, <1>a, <1>b, <3>1, OrderFrame DEF LoadMiss
  <2>2. CASE w = u
    <3>1. Fetching(u) = {}
      BY <1>3, <2>2 DEF LoadMiss
    <3>2. Fetching(u)' = {l} /\ phase'[l] = "sent"
      BY <1>3, <2>2, <3>1 DEF LoadMiss, Fetching, TypeOK
    <3>3. OneFetch(u)' /\ FetchedNewest(u)'
      BY <3>2 DEF OneFetch, FetchedNewest
    <3>4. /\ \A i \in DOMAIN main : url'[main[i]] = url[main[i]]
          /\ \A i \in DOMAIN done : url'[done[i].load] = url[done[i].load]
      BY <1>b, QueueFacts
    <3>5. QueuedOlder(u)' /\ QueueSorted(u)'
      BY <1>3, <1>a, <3>4 DEF LoadMiss, OrderAt, QueuedOlder, QueueSorted
    <3>6. DoneOlder(u)' /\ DoneBeforeQueue(u)'
      BY <1>3, <1>a, <3>4 DEF LoadMiss, OrderAt, DoneOlder, DoneBeforeQueue
    <3> QED
      BY <3>3, <3>5, <3>6 DEF OrderAt
  <2> QED
    BY <2>1, <2>2
<1>4. CASE LoadTrap \/ UNCHANGED vars \/ \E w \in Urls : ServerChange(w)
  <2>1. UNCHANGED <<cache, phase, url, body, main, done>>
    BY <1>4 DEF LoadTrap, vars, ServerChange
  <2>2. Fetching(u)' = Fetching(u) /\ \A m \in Loads : phase'[m] = phase[m]
    BY <2>1 DEF Fetching
  <2> QED
    BY <1>a, <1>b, <2>1, <2>2, OrderFrame DEF Fetching
<1>6. ASSUME NEW l \in Loads, Answer(l) PROVE OrderAt(u)'
  <2>1. url[l] \in Urls /\ phase[l] = "sent"
    BY <1>6 DEF Answer, TypeOK
  <2>2. /\ Fetching(u)' = Fetching(u)
        /\ \A m \in Loads : m # l => phase'[m] = phase[m] /\ body'[m] = body[m]
        /\ phase'[l] = "answered" /\ body'[l] = server[url[l]]
    BY <1>6, <2>1 DEF Answer, Fetching, TypeOK
  <2>3. url[l] = u => cache[u] <= body'[l]
    BY <2>2 DEF ServedInv
  <2>4. OneFetch(u)' /\ FetchedNewest(u)'
    BY <1>6, <1>a, <2>2, <2>3 DEF Answer, OrderAt, OneFetch, FetchedNewest, Fetching
  <2>5. \A i \in DOMAIN main : body'[main[i]] = body[main[i]]
    BY <2>1, <2>2, QueueFacts
  <2>6. QueuedOlder(u)' /\ QueueSorted(u)'
    BY <1>6, <1>a, <2>5 DEF Answer, OrderAt, QueuedOlder, QueueSorted
  <2>7. DoneOlder(u)' /\ DoneBeforeQueue(u)'
    BY <1>6, <1>a, <2>5 DEF Answer, OrderAt, DoneOlder, DoneBeforeQueue
  <2> QED
    BY <2>4, <2>6, <2>7 DEF OrderAt
<1>7. ASSUME NEW l \in Loads, Decoded(l) \/ Undecodable(l) PROVE OrderAt(u)'
  <2>1. /\ Fetching(u)' \subseteq Fetching(u)
        /\ \A m \in Fetching(u)' :
              phase'[m] = phase[m] \/ (phase[m] = "answered" /\ phase'[m] = "storing")
    BY <1>7 DEF Decoded, Undecodable, Fetching, TypeOK
  <2> QED
    BY <1>7, <1>a, <1>b, <2>1, OrderFrame DEF Decoded, Undecodable
<1>8. ASSUME NEW l \in Loads, StoreResult(l) PROVE OrderAt(u)'
  <2>1. url[l] \in Urls /\ phase[l] = "storing"
    BY <1>8 DEF StoreResult, TypeOK
  <2>2. /\ Fetching(u)' = Fetching(u)
        /\ \A m \in Loads : m # l => phase'[m] = phase[m]
        /\ phase'[l] = "stored"
        /\ UNCHANGED <<url, body, main, done>>
    BY <1>8, <2>1 DEF StoreResult, Fetching, TypeOK
  <2>3. /\ cache[u] \in Nat /\ cache'[u] \in Nat /\ cache[u] <= cache'[u]
        /\ url[l] = u => cache'[u] = body[l]
        /\ url[l] # u => cache'[u] = cache[u]
    <3>1. url[l] = u => cache[u] <= body[l]
      BY <1>a, <2>1 DEF OrderAt, FetchedNewest, Fetching
    <3> QED
      BY <1>8, <3>1 DEF StoreResult, TypeOK
  <2>4. OneFetch(u)'
    BY <1>a, <2>2 DEF OrderAt, OneFetch
  <2>5. FetchedNewest(u)'
    <3>1. CASE url[l] = u
      <4>1. \A m \in Fetching(u) : m = l
        BY <1>a, <2>1, <3>1 DEF OrderAt, OneFetch, Fetching
      <4> QED
        BY <2>2, <2>3, <3>1, <4>1 DEF FetchedNewest
    <3>2. CASE url[l] # u
      BY <1>a, <2>2, <2>3, <3>2 DEF OrderAt, FetchedNewest, Fetching
    <3> QED
      BY <3>1, <3>2
  <2>6. QueuedOlder(u)'
    BY <1>a, <2>2, <2>3, QueueFacts DEF OrderAt, QueuedOlder, TypeOK
  <2>7. DoneOlder(u)'
    BY <1>a, <2>2, <2>3, QueueFacts DEF OrderAt, DoneOlder
  <2>8. QueueSorted(u)' /\ DoneBeforeQueue(u)'
    BY <1>a, <2>2 DEF OrderAt, QueueSorted, DoneBeforeQueue
  <2> QED
    BY <2>4, <2>5, <2>6, <2>7, <2>8 DEF OrderAt
<1>9. ASSUME NEW l \in Loads, HopToMain(l) PROVE OrderAt(u)'
  <2>1. url[l] = u => body[l] = cache[u]
    BY <1>9, <1>a DEF HopToMain, OrderAt, FetchedNewest, Fetching
  <2> QED
    BY <1>9, <1>a, <2>1, OrderQueue DEF HopToMain
<1>11. ASSUME NEW l \in Loads, NoData(l) PROVE OrderAt(u)'
  <2> DEFINE c == [load |-> l, val |-> Nil, on |-> "session"]
  <2>1. c \in Completion /\ c.val = 0
    BY CompletionType DEF Nil
  <2>2. done' = Append(done, c) /\ UNCHANGED <<url, cache, body, main>>
    BY <1>11 DEF NoData
  <2>3. /\ Fetching(u)' \subseteq Fetching(u)
        /\ \A m \in Fetching(u)' : phase'[m] = phase[m]
    BY <1>11 DEF NoData, Fetching, TypeOK
  <2>4. QueuedOlder(u)' /\ QueueSorted(u)'
    BY <1>a, <2>2 DEF OrderAt, QueuedOlder, QueueSorted
  <2>5. /\ c.val <= cache[u]
        /\ \A j \in DOMAIN main : c.val <= body[main[j]]
    BY <2>1, QueueFacts DEF TypeOK
  <2> HIDE DEF c
  <2> QED
    BY <1>a, <2>1, <2>2, <2>3, <2>4, <2>5, OrderDone
<1>12. CASE RunMain
  <2> DEFINE l == Head(main)
             c == [load |-> l, val |-> body[l], on |-> "main"]
  <2>1. /\ l \in Loads /\ l = main[1]
        /\ Len(main) \in Nat \ {0}
        /\ DOMAIN main = 1 .. Len(main)
        /\ DOMAIN main' = 1 .. (Len(main) - 1)
        /\ \A i \in 1 .. (Len(main) - 1) : main'[i] = main[i + 1]
    BY <1>12, TailElems DEF RunMain, TypeOK
  <2>2. c \in Completion /\ c.load = l /\ c.val = body[l]
    BY <2>1, CompletionType DEF TypeOK
  <2>3. phase[l] = "queued"
    BY <2>1 DEF QueueInv
  <2>4. /\ done' = Append(done, c)
        /\ UNCHANGED <<url, cache, body>>
        /\ phase' = [phase EXCEPT ![l] = "completed"]
    BY <1>12 DEF RunMain
  <2>5. /\ Fetching(u)' \subseteq Fetching(u)
        /\ \A m \in Fetching(u)' : phase'[m] = phase[m]
    BY <2>1, <2>3, <2>4 DEF Fetching, TypeOK
  <2>6. \A j \in DOMAIN main' : /\ j \in Nat
                                /\ j + 1 \in DOMAIN main /\ 1 \in DOMAIN main
                                /\ 1 < j + 1
                                /\ main'[j] = main[j + 1]
    BY <2>1
  <2>7. QueuedOlder(u)'
    BY <1>a, <2>4, <2>6 DEF OrderAt, QueuedOlder
  <2>8. QueueSorted(u)'
    <3> SUFFICES ASSUME NEW i \in DOMAIN main', NEW j \in DOMAIN main',
                        url[main'[i]] = u, url[main'[j]] = u, i < j
                 PROVE  body[main'[i]] <= body[main'[j]]
      BY <2>4 DEF QueueSorted
    <3>1. i + 1 < j + 1
      BY <2>6
    <3> QED
      BY <1>a, <2>6, <3>1 DEF OrderAt, QueueSorted
  <2>9. url[l] = u => /\ body[l] <= cache[u]
                      /\ \A j \in DOMAIN main' : url[main'[j]] = u => body[l] <= body[main'[j]]
    <3>1. 1 \in DOMAIN main
      BY <2>1
    <3> QED
      BY <1>a, <2>1, <2>6, <3>1 DEF OrderAt, QueuedOlder, QueueSorted
  <2> HIDE DEF l, c
  <2> QED
    BY <1>a, <2>2, <2>4, <2>5, <2>6, <2>7, <2>8, <2>9, OrderDone
<1> QED
  BY <1>1, <1>2, <1>3, <1>4, <1>6, <1>7, <1>8, <1>9, <1>11, <1>12
     DEF Next, Load, SessionStep

-----------------------------------------------------------------------------
(* Deliveries.                                                             *)

\* A delivery is no older than the ones before it: by OrderInv they are older than
\* the whole queue.
LEMMA NoRegressionStep ==
  TypeOK /\ QueueInv /\ OrderInv /\ NoRegression /\ [Next]_vars => NoRegression'
<1> SUFFICES ASSUME TypeOK, QueueInv, OrderInv, NoRegression, [Next]_vars
             PROVE  NoRegression'
  OBVIOUS
<1>1. \A i \in DOMAIN done : /\ done[i].load \in Loads
                             /\ url'[done[i].load] = url[done[i].load]
                             /\ url[done[i].load] \in Urls
  BY QueueFacts, Frame DEF TypeOK
<1>2. contended \subseteq contended'
  BY Frame
<1>3. CASE UNCHANGED done
  BY <1>1, <1>2, <1>3 DEF NoRegression
<1>4. ASSUME NEW c \in Completion, done' = Append(done, c),
             UNCHANGED <<url, contended>>,
             c.val # Nil => \A i \in DOMAIN done :
                url[done[i].load] = url[c.load] /\ url[c.load] \notin contended
                   => done[i].val <= c.val
      PROVE  NoRegression'
  <2>1. /\ DOMAIN done' = 1 .. (Len(done) + 1)
        /\ \A i \in 1 .. Len(done) : done'[i] = done[i]
        /\ done'[Len(done) + 1] = c
    BY <1>4, AppendElems DEF TypeOK
  <2> SUFFICES ASSUME NEW i \in DOMAIN done', NEW j \in DOMAIN done', i < j,
                      url[done'[j].load] = url[done'[i].load],
                      url[done'[i].load] \notin contended,
                      done'[j].val # Nil
               PROVE  done'[i].val <= done'[j].val
    BY <1>4 DEF NoRegression
  <2>2. i \in DOMAIN done /\ (j \in DOMAIN done \/ j = Len(done) + 1)
    BY <2>1, QueueFacts
  <2>3. CASE j \in DOMAIN done
    BY <2>1, <2>2, <2>3, QueueFacts DEF NoRegression
  <2>4. CASE j = Len(done) + 1
    BY <1>4, <2>1, <2>2, <2>4, QueueFacts
  <2> QED
    BY <2>2, <2>3, <2>4
<1>5. ASSUME NEW l \in Loads, NoData(l) PROVE NoRegression'
  <2> DEFINE c == [load |-> l, val |-> Nil, on |-> "session"]
  <2>1. c \in Completion /\ c.val = Nil
    BY CompletionType DEF Nil
  <2>2. done' = Append(done, c) /\ UNCHANGED <<url, contended>>
    BY <1>5 DEF NoData
  <2> HIDE DEF c
  <2> QED
    BY <1>4, <2>1, <2>2
<1>6. CASE RunMain
  <2> DEFINE l == Head(main)
             c == [load |-> l, val |-> body[l], on |-> "main"]
  <2>1. l \in Loads /\ l = main[1] /\ 1 \in DOMAIN main
    BY <1>6, TailElems DEF RunMain, TypeOK
  <2>2. c \in Completion /\ c.load = l /\ c.val = body[l]
    BY <2>1, CompletionType DEF TypeOK
  <2>3. done' = Append(done, c) /\ UNCHANGED <<url, contended>>
    BY <1>6 DEF RunMain
  <2>4. ASSUME NEW i \in DOMAIN done, url[done[i].load] = url[l], url[l] \notin contended
        PROVE  done[i].val <= body[l]
    <3>1. DoneBeforeQueue(url[l])
      BY <1>1, <2>4 DEF OrderInv
    <3> QED
      BY <2>1, <2>4, <3>1 DEF DoneBeforeQueue
  <2> HIDE DEF l, c
  <2> QED
    BY <1>4, <2>2, <2>3, <2>4
<1> QED
  BY <1>3, <1>5, <1>6, DoneGrows

-----------------------------------------------------------------------------
(* What the screens above the loader use of a step: whose call it moves.   *)

\* A call of load moves this call and no other, or ends the process.
LEMMA LoadFrame ==
  ASSUME TypeOK, NEW l \in Loads, NEW u \in Urls \cup {NoUrl}, Load(l, u)
  PROVE  /\ phase[l] = "idle"
         /\ UNCHANGED done
         /\ \A m \in Loads : m # l => phase'[m] = phase[m] /\ url'[m] = url[m] /\ body'[m] = body[m]
         /\ \/ trapped' = TRUE /\ UNCHANGED <<phase, url, body, main>>
            \/ u = NoUrl /\ phase'[l] = "dropped" /\ url' = url /\ main' = main
            \/ u \in Urls /\ phase'[l] \in {"queued", "sent"} /\ url'[l] = u
<1>1. ASSUME LoadNoUrl(l)
      PROVE  /\ \A m \in Loads : m # l => phase'[m] = phase[m]
             /\ phase'[l] = "dropped" /\ UNCHANGED <<url, body, main, done>>
  BY <1>1 DEF LoadNoUrl, TypeOK
<1>2. ASSUME u \in Urls, LoadHit(l, u) \/ LoadMiss(l, u)
      PROVE  /\ \A m \in Loads : m # l => /\ phase'[m] = phase[m] /\ url'[m] = url[m]
                                          /\ body'[m] = body[m]
             /\ phase'[l] \in {"queued", "sent"} /\ url'[l] = u /\ UNCHANGED done
  BY <1>2 DEF LoadHit, LoadMiss, TypeOK
<1>3. ASSUME LoadTrap
      PROVE  trapped' = TRUE /\ UNCHANGED <<phase, url, body, main, done>>
  BY <1>3 DEF LoadTrap
<1> QED
  BY <1>1, <1>2, <1>3 DEF Load

\* The network and the session's queue neither start nor complete a call.
LEMMA BackgroundFrame ==
  ASSUME TypeOK, QueueInv,
         (\E u \in Urls : ServerChange(u)) \/ (\E l \in Loads : Answer(l) \/ SessionStep(l))
  PROVE  /\ UNCHANGED <<url, contended, trapped>>
         /\ \A m \in Loads :
               /\ phase'[m] = "idle" <=> phase[m] = "idle"
               /\ phase[m] \in {"completed", "failed", "dropped"} =>
                    phase'[m] = phase[m] /\ body'[m] = body[m]
               /\ phase'[m] = "completed" => phase[m] = "completed"
<1>1. ASSUME NEW u \in Urls, ServerChange(u) PROVE UNCHANGED <<phase, url, body, contended, trapped>>
  BY <1>1 DEF ServerChange
<1>2. ASSUME NEW l \in Loads, Answer(l) \/ SessionStep(l)
      PROVE  /\ UNCHANGED <<url, contended, trapped>>
             /\ \A m \in Loads : m # l => phase'[m] = phase[m] /\ body'[m] = body[m]
             /\ phase[l] \notin {"idle", "completed", "failed", "dropped"}
             /\ phase'[l] \notin {"idle", "completed"}
  BY <1>2 DEF Answer, SessionStep, Decoded, StoreResult, HopToMain, Undecodable, NoData, TypeOK
<1> QED
  BY <1>1, <1>2

\* The main thread completes the queued call at the head of its queue.
LEMMA RunMainFrame ==
  ASSUME TypeOK, QueueInv, RunMain
  PROVE  /\ Head(main) \in Loads
         /\ phase[Head(main)] = "queued"
         /\ url[Head(main)] \in Urls
         /\ body[Head(main)] \in Nat
         /\ phase' = [phase EXCEPT ![Head(main)] = "completed"]
         /\ UNCHANGED <<url, body, contended, trapped>>
<1>1. Head(main) \in Loads /\ phase[Head(main)] = "queued"
  BY TailElems DEF RunMain, TypeOK, QueueInv
<1> QED
  BY <1>1 DEF RunMain, TypeOK

\* The history of completions only grows at its end.
LEMMA DoneKept ==
  ASSUME TypeOK, QueueInv, [Next]_vars
  PROVE  \A i \in DOMAIN done : i \in DOMAIN done' /\ done'[i] = done[i]
<1>1. ASSUME NEW c \in Completion, done' = Append(done, c)
      PROVE  \A i \in DOMAIN done : i \in DOMAIN done' /\ done'[i] = done[i]
  BY <1>1, AppendElems DEF TypeOK
<1>2. Nil \in Nat /\ \A l \in Loads : body[l] \in Nat
  BY DEF TypeOK, Nil
<1> QED
  BY <1>1, <1>2, DoneGrows, CompletionType

-----------------------------------------------------------------------------
(* The theorems.                                                           *)

\* The inductive invariant holds initially.
LEMMA InitIInv == Init => IInv
<1> SUFFICES ASSUME Init PROVE IInv
  OBVIOUS
<1>1. TypeOK
  BY TypeInit
<1>2. DOMAIN main = {} /\ DOMAIN done = {}
  BY DEF Init
<1>3. QueueInv /\ CompletesOnce /\ ResultsOnMain /\ ResultsAreServed /\ NoRegression
  BY <1>2 DEF Init, QueueInv, CompletesOnce, ResultsOnMain, ResultsAreServed, NoRegression
<1>4. ServedInv
  BY DEF Init, ServedInv, HasBody, Nil
<1>5. OrderInv
  <2>1. \A u \in Urls : Fetching(u) = {}
    BY DEF Init, Fetching
  <2> QED
    BY <1>2, <2>1 DEF OrderInv, OneFetch, FetchedNewest, QueuedOlder, QueueSorted,
                      DoneOlder, DoneBeforeQueue
<1> QED
  BY <1>1, <1>3, <1>4, <1>5 DEF IInv

\* Every step keeps the inductive invariant, whoever calls load.
LEMMA IInvStep == IInv /\ [Next]_vars => IInv'
  BY TypeStep, QueueStep, OnceStep, OnMainStep, ServedStep, ResultsServedStep,
     OrderStep, NoRegressionStep DEF IInv

\* IInv is an invariant of the loader.
THEOREM IInvInvariant == Spec => []IInv
  BY InitIInv, IInvStep, PTL DEF Spec

\* The variables keep their types.
THEOREM TypeCorrect == Spec => []TypeOK
<1>1. IInv => TypeOK
  BY DEF IInv
<1> QED
  BY IInvInvariant, <1>1, PTL

\* The completion block of a call of load runs at most once.
THEOREM CompletionOnce == Spec => []CompletesOnce
<1>1. IInv => CompletesOnce
  BY DEF IInv
<1> QED
  BY IInvInvariant, <1>1, PTL

\* A completion on the session's queue carries no result.
THEOREM OffMainIsEmpty == Spec => []ResultsOnMain
<1>1. IInv => ResultsOnMain
  BY DEF IInv
<1> QED
  BY IInvInvariant, <1>1, PTL

\* A delivered result is content the server held for the requested URL, in
\* spite of the unsynchronised cache.
THEOREM ResultsServed == Spec => []ResultsAreServed
<1>1. IInv => ResultsAreServed
  BY DEF IInv
<1> QED
  BY IInvInvariant, <1>1, PTL

\* Deliveries for a URL that was never contended go from old to new.
THEOREM DeliveriesInOrder == Spec => []NoRegression
<1>1. IInv => NoRegression
  BY DEF IInv
<1> QED
  BY IInvInvariant, <1>1, PTL

\* The cache entry of a URL that was never contended is never replaced by
\* older content.
THEOREM CacheMonotone == Spec => CacheNeverRegresses
<1>1. IInv /\ [Next]_vars =>
        [\A u \in Urls : u \notin contended => cache'[u] >= cache[u]]_cache
  <2> SUFFICES ASSUME IInv, [Next]_vars, cache' # cache, NEW u \in Urls, u \notin contended
               PROVE  cache'[u] >= cache[u]
    OBVIOUS
  <2>1. PICK l \in Loads : StoreResult(l)
    BY DEF Next, vars, Load, SessionStep, LoadNoUrl, LoadHit, LoadMiss, LoadTrap,
           ServerChange, Answer, Decoded, HopToMain, Undecodable, NoData, RunMain
  <2>2. OrderAt(u) /\ TypeOK
    BY DEF IInv, OrderInv, OrderAt
  <2>3. url[l] = u => cache[u] <= body[l]
    BY <2>1, <2>2 DEF StoreResult, OrderAt, FetchedNewest, Fetching
  <2> QED
    BY <2>1, <2>2, <2>3 DEF StoreResult, TypeOK
<1> QED
  BY IInvInvariant, <1>1, PTL DEF Spec, CacheNeverRegresses

-----------------------------------------------------------------------------
(* NetworkService implements LoadContract, fairness left aside.            *)
(*                                                                         *)
(* Every step of the loader is a step of the contract or changes nothing   *)
(* of it.  The steps that need an argument are the ones a screen can see:  *)
(* the block that runs must carry content of its URL, no older than what   *)
(* was delivered unless the URL was contended (IInv), and not nil          *)
(* (BodyPositive); and a URL becomes contended only while another call for *)
(* it waits.                                                               *)

\* Whoever has a result in hand has content, not nil.
BodyPositive == \A l \in Loads : phase[l] \in HasBody => body[l] # Nil

\* Content is never nil: the server holds some for every URL, and a nil that a
\* read of the cache returns is a miss.
LEMMA BodyPositiveStep ==
  TypeOK /\ QueueInv /\ BodyPositive /\ [Next]_vars => BodyPositive'
<1> SUFFICES ASSUME TypeOK, QueueInv, BodyPositive, [Next]_vars,
                    NEW m \in Loads, phase'[m] \in HasBody
             PROVE  body'[m] # Nil
  BY DEF BodyPositive
<1>1. ASSUME NEW l \in Loads, NEW p, phase' = [phase EXCEPT ![l] = p],
             p \in HasBody => phase[l] \in HasBody,
             UNCHANGED body
      PROVE  body'[m] # Nil
  BY <1>1 DEF BodyPositive, TypeOK
<1>2. ASSUME NEW l \in Loads, NEW u \in Urls, LoadHit(l, u) PROVE body'[m] # Nil
  <2>1. PICK v \in LookUp(u) \ {Nil} : body' = [body EXCEPT ![l] = v]
    BY <1>2 DEF LoadHit
  <2> QED
    BY <1>2, <2>1 DEF LoadHit, BodyPositive, TypeOK
<1>3. ASSUME NEW l \in Loads, Answer(l) PROVE body'[m] # Nil
  <2>1. server[url[l]] # Nil
    BY <1>3 DEF Answer, TypeOK, Nil
  <2> QED
    BY <1>3, <2>1 DEF Answer, BodyPositive, TypeOK
<1>4. CASE RunMain
  <2>1. Head(main) \in Loads /\ phase[Head(main)] = "queued"
    BY <1>4, TailElems DEF RunMain, TypeOK, QueueInv
  <2> QED
    BY <1>1, <1>4, <2>1 DEF RunMain, HasBody
<1>5. ASSUME NEW l \in Loads, LoadNoUrl(l) PROVE body'[m] # Nil
  BY <1>1, <1>5 DEF LoadNoUrl, HasBody
<1>6. ASSUME NEW l \in Loads, NEW u \in Urls, LoadMiss(l, u) PROVE body'[m] # Nil
  BY <1>1, <1>6 DEF LoadMiss, HasBody
<1>7. ASSUME NEW l \in Loads, SessionStep(l) PROVE body'[m] # Nil
  BY <1>1, <1>7
     DEF SessionStep, Decoded, StoreResult, HopToMain, Undecodable, NoData, HasBody
<1>8. CASE LoadTrap \/ UNCHANGED vars \/ \E u \in Urls : ServerChange(u)
  BY <1>8 DEF LoadTrap, vars, ServerChange, BodyPositive
<1> QED
  BY <1>2, <1>3, <1>4, <1>5, <1>6, <1>7, <1>8 DEF Next, Load

\* No call starts with a result in hand, so BodyPositive is an invariant.
LEMMA BodyPositiveInvariant == Spec => []BodyPositive
<1>1. Init => BodyPositive
  BY DEF Init, BodyPositive, HasBody
<1>2. IInv => TypeOK /\ QueueInv
  BY DEF IInv
<1> QED
  BY <1>1, <1>2, IInvInvariant, BodyPositiveStep, PTL DEF Spec

-----------------------------------------------------------------------------
(* The contract's view of a call.                                          *)

Ended == {"idle", "completed", "failed", "dropped"}

\* A step that moves one call moves its status and no other.
LEMMA StatusMoves ==
  ASSUME TypeOK, NEW l \in Loads, NEW p, phase' = [phase EXCEPT ![l] = p]
  PROVE  Status' = [Status EXCEPT ![l] = IF p \in Ended THEN p ELSE "waiting"]
  BY DEF Status, Ended, TypeOK

\* A call between its guard and its end waits.
LEMMA StatusWaits ==
  ASSUME NEW l \in Loads
  PROVE  /\ phase[l] \in {"sent", "answered", "storing", "stored", "queued"} =>
              Status[l] = "waiting"
         /\ phase[l] = "idle" => Status[l] = "idle"
  BY DEF Status

\* A move between two waiting phases changes nothing of the contract.
LEMMA WaitingStutters ==
  ASSUME TypeOK, NEW l \in Loads, NEW p,
         phase' = [phase EXCEPT ![l] = p],
         phase[l] \notin Ended, p \notin Ended
  PROVE  Status' = Status
  BY DEF Status, Ended, TypeOK

-----------------------------------------------------------------------------
(* One step.                                                               *)

\* Every step of the loader is one of the contract, or a stutter.
LEMMA RefinementStep ==
  IInv /\ BodyPositive /\ [Next]_vars => [Contract!Next]_(Contract!vars)
<1> SUFFICES ASSUME IInv, BodyPositive, [Next]_vars
             PROVE  Contract!Next \/ UNCHANGED Contract!vars
  OBVIOUS
<1>a. TypeOK /\ QueueInv /\ ServedInv /\ OrderInv
  BY DEF IInv
\* Calls.
<1>1. ASSUME NEW l \in Loads, phase[l] = "idle", LoadNoUrl(l)
      PROVE  Contract!CallNoUrl(l)
  BY <1>a, <1>1, StatusMoves, StatusWaits DEF LoadNoUrl, Ended, Contract!CallNoUrl
<1>2. ASSUME NEW l \in Loads, NEW u \in Urls, phase[l] = "idle", LoadHit(l, u)
      PROVE  Contract!Call(l, u)
  <2>1. Status' = [Status EXCEPT ![l] = "waiting"] /\ Status[l] = "idle"
    BY <1>a, <1>2, StatusMoves, StatusWaits DEF LoadHit, Ended
  <2>2. (\E w \in Writing : url[w] = u) => Contract!Overlaps(u)
    BY StatusWaits DEF Writing, Contract!Overlaps
  <2> QED
    BY <1>2, <2>1, <2>2 DEF LoadHit, Contract!Call
<1>3. ASSUME NEW l \in Loads, NEW u \in Urls, phase[l] = "idle", LoadMiss(l, u)
      PROVE  Contract!Call(l, u)
  <2>1. Status' = [Status EXCEPT ![l] = "waiting"] /\ Status[l] = "idle"
    BY <1>a, <1>3, StatusMoves, StatusWaits DEF LoadMiss, Ended
  <2>2. Fetching(u) # {} => Contract!Overlaps(u)
    BY StatusWaits DEF Fetching, Contract!Overlaps
  <2> QED
    BY <1>3, <2>1, <2>2 DEF LoadMiss, Contract!Call
<1>4. ASSUME LoadTrap PROVE Contract!Die
  <2>1. Status' = Status
    BY <1>4 DEF LoadTrap, Status
  <2>2. \E w \in Loads : Status[w] = "waiting"
    BY <1>4, StatusWaits DEF LoadTrap, Writing
  <2> QED
    BY <1>4, <2>1, <2>2 DEF LoadTrap, Contract!Die
\* The server.
<1>5. ASSUME NEW u \in Urls, ServerChange(u) PROVE Contract!ServerChange(u)
  <2>1. Status' = Status
    BY <1>5 DEF ServerChange, Status
  <2> QED
    BY <1>5, <2>1 DEF ServerChange, Contract!ServerChange
\* Ends.
<1>6. ASSUME NEW l \in Loads, Undecodable(l) PROVE Contract!Drop(l)
  BY <1>a, <1>6, StatusMoves, StatusWaits DEF Undecodable, Ended, Contract!Drop
<1>7. ASSUME NEW l \in Loads, NoData(l) PROVE Contract!Fail(l)
  BY <1>a, <1>7, StatusMoves, StatusWaits DEF NoData, Ended, Nil, Contract!Fail, Contract!Nil
<1>8. ASSUME RunMain PROVE \E l \in Loads : Contract!Complete(l)
  <2> DEFINE l == Head(main)
  <2>1. l \in Loads /\ l = main[1] /\ 1 \in DOMAIN main
    BY <1>a, <1>8, TailElems DEF RunMain, TypeOK
  <2>2. phase[l] = "queued"
    BY <1>a, <2>1 DEF QueueInv
  <2>3. /\ phase' = [phase EXCEPT ![l] = "completed"]
        /\ done' = Append(done, [load |-> l, val |-> body[l], on |-> "main"])
        /\ UNCHANGED <<server, url, body, contended, trapped>>
    BY <1>8 DEF RunMain
  <2> HIDE DEF l
  <2>4. url[l] \in Urls
    BY <1>a, <2>1, <2>2 DEF TypeOK
  <2>5. body[l] \in 1 .. server[url[l]]
    BY <1>a, <2>1, <2>2, <2>4 DEF TypeOK, ServedInv, BodyPositive, HasBody, Nil
  <2>6. url[l] \notin contended => Contract!NoOlder(url[l], body[l])
    <3> SUFFICES ASSUME url[l] \notin contended PROVE Contract!NoOlder(url[l], body[l])
      OBVIOUS
    <3>1. DoneBeforeQueue(url[l])
      BY <1>a, <2>4 DEF OrderInv
    <3> QED
      BY <2>1, <3>1 DEF DoneBeforeQueue, Contract!NoOlder
  <2>7. Status[l] = "waiting" /\ Status' = [Status EXCEPT ![l] = "completed"]
    BY <1>a, <2>1, <2>2, <2>3, StatusMoves, StatusWaits DEF Ended
  <2> QED
    BY <2>1, <2>3, <2>5, <2>6, <2>7 DEF Contract!Complete
\* Steps the contract does not see.
<1>9. ASSUME NEW l \in Loads, Answer(l) \/ Decoded(l) \/ StoreResult(l) \/ HopToMain(l)
      PROVE  UNCHANGED Contract!vars
  <2>1. Status' = Status
    BY <1>a, <1>9, WaitingStutters DEF Answer, Decoded, StoreResult, HopToMain, Ended
  <2> QED
    BY <1>9, <2>1 DEF Answer, Decoded, StoreResult, HopToMain, Contract!vars
<1>10. ASSUME UNCHANGED vars PROVE UNCHANGED Contract!vars
  BY <1>10 DEF vars, Status, Contract!vars
<1> QED
  BY <1>1, <1>2, <1>3, <1>4, <1>5, <1>6, <1>7, <1>8, <1>9, <1>10
     DEF Next, Load, SessionStep, Contract!Next, Contract!End

\* All that a screen sees of load, whatever the threads and the cache do, is
\* what LoadContract allows.
THEOREM LoaderKeepsContract == Spec => ContractSpec
<1>1. Init => Contract!Init
  BY DEF Init, Status, Contract!Init
<1> QED
  BY <1>1, IInvInvariant, BodyPositiveInvariant, RefinementStep, PTL
     DEF Spec, ContractSpec, Contract!Spec
=============================================================================
