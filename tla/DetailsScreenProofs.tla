------------------------ MODULE DetailsScreenProofs ------------------------
(***************************************************************************)
(* What the details screen promises, for any number of calls, any content  *)
(* of the cache and any bound on the server's changes.                     *)
(*                                                                         *)
(* The screen takes steps of the loader and starts with a cache that an    *)
(* earlier visit left, so the loader's inductive invariant IInv holds      *)
(* under it.  DetailsInv adds where the calls for the cast stand: a visit  *)
(* makes one or two, the second only when viewDidLoad finds the movie, and *)
(* until the visit is recorded one of them is still to be made or to come. *)
(***************************************************************************)
EXTENDS DetailsScreen, NetworkServiceProofs, FiniteSetTheorems

DetailsTypeOK ==
  /\ stage \in {"none", "pushed", "loaded"}
  /\ todo \in {<<>>, <<Movie, Cast, Reviews>>, <<Cast, Reviews>>, <<Reviews>>}
  /\ model \in [Urls -> Nat]
  /\ header \in BOOLEAN
  /\ uploads \in Nat
  /\ castFirst \in BOOLEAN

CastDue == todo \in {<<Movie, Cast, Reviews>>, <<Cast, Reviews>>}

Came(l) == phase[l] = "completed"

AtMostOne(S) == \A a, b \in S : a = b
AtMostTwo(S) == \A a, b, c \in S : a = b \/ a = c \/ b = c

\* A call that was not made has no URL; a visit makes one call for the cast before
\* viewDidLoad and at most one after it.
CallsInv ==
  /\ \A l \in Loads : phase[l] = "idle" => url[l] = NoUrl
  /\ stage = "none" => todo = <<>> /\ CastLoads = {}
  /\ stage = "pushed" /\ CastDue => CastLoads = {}
  /\ stage = "pushed" \/ CastDue => AtMostOne(CastLoads)
  /\ AtMostTwo(CastLoads)

\* Every record of the visit is due to a cast that came.
UploadsInv ==
  \/ uploads = 0
  \/ uploads = 1 /\ \E a \in CastLoads : Came(a)
  \/ uploads = 2 /\ \E a, b \in CastLoads : a # b /\ Came(a) /\ Came(b)

\* Before viewDidLoad a cast that came found the movie, or castFirst says it did not;
\* after it the visit is recorded, or a cast is to be asked for or to come.  The last
\* case is that of a process that died when it asked for the cast.
RecordInv ==
  ~castFirst =>
    /\ stage # "loaded" /\ model[Movie] = Nil => \A l \in CastLoads : ~Came(l)
    /\ stage = "loaded" =>
         \/ uploads >= 1 /\ header
         \/ CastDue
         \/ CastLoads = {}
         \/ \E l \in CastLoads : ~Came(l)
         \/ trapped /\ todo # <<>>

DetailsInv ==
  /\ IInv /\ BodyPositive
  /\ DetailsTypeOK
  /\ CallsInv
  /\ UploadsInv
  /\ RecordInv
  /\ TableFresh

-----------------------------------------------------------------------------
(* The initial state, and the calls still to be made.                      *)

\* A visit begins with a loader at rest, whatever the cache holds.
LEMMA DetailsInitLoader ==
  ASSUME DetailsInit
  PROVE  IInv
<1>1. TypeOK
  <2>1. main \in Seq(Loads) /\ done \in Seq(Completion)
    BY DEF DetailsInit
  <2>2. trapped \in BOOLEAN
    BY Zenon DEF DetailsInit
  <2> QED
    BY <2>1, <2>2 DEF DetailsInit, TypeOK, Phases, Nil
<1>2. DOMAIN main = {} /\ DOMAIN done = {}
  BY DEF DetailsInit
<1>3. QueueInv /\ CompletesOnce /\ ResultsOnMain /\ ResultsAreServed /\ NoRegression
  BY <1>2 DEF DetailsInit, QueueInv, CompletesOnce, ResultsOnMain, ResultsAreServed, NoRegression
<1>4. ServedInv
  BY DEF DetailsInit, ServedInv, HasBody, Nil
<1>5. OrderInv
  <2>1. \A u \in Urls : Fetching(u) = {}
    BY DEF DetailsInit, Fetching
  <2> QED
    BY <1>2, <2>1 DEF OrderInv, OneFetch, FetchedNewest, QueuedOlder, QueueSorted,
                      DoneOlder, DoneBeforeQueue
<1> QED
  BY <1>1, <1>3, <1>4, <1>5 DEF IInv

\* The initial state satisfies the invariant.
LEMMA DetailsInitInv ==
  ASSUME DetailsInit
  PROVE  DetailsInv
<1>1. IInv /\ BodyPositive
  BY DetailsInitLoader DEF DetailsInit, BodyPositive, HasBody
<1>2. header \in BOOLEAN /\ castFirst \in BOOLEAN
  BY Zenon DEF DetailsInit
<1>3. DetailsTypeOK
  BY <1>2 DEF DetailsInit, DetailsTypeOK, Blank, Nil
<1>4. CastLoads = {}
  BY NoUrlAssumption, ResourcesAssumption DEF DetailsInit, CastLoads
<1>5. CallsInv
  BY <1>4 DEF DetailsInit, CallsInv, AtMostOne, AtMostTwo
<1>6. UploadsInv /\ RecordInv /\ TableFresh
  BY <1>4 DEF DetailsInit, UploadsInv, RecordInv, TableFresh
<1> QED
  BY <1>1, <1>3, <1>5, <1>6 DEF DetailsInv

\* The first of the calls to be made is for one of the three URLs, and the one for the
\* cast is followed by that for the reviews alone.
LEMMA TodoHead ==
  ASSUME DetailsTypeOK, todo # <<>>
  PROVE  /\ Head(todo) \in Urls
         /\ Tail(todo) \in {<<>>, <<Cast, Reviews>>, <<Reviews>>}
         /\ Head(todo) = Cast => CastDue /\ Tail(todo) = <<Reviews>>
         /\ Tail(todo) = <<Cast, Reviews>> => CastDue
         /\ CastDue => Head(todo) = Cast \/ Tail(todo) = <<Cast, Reviews>>
<1>1. Movie \in Urls /\ Cast \in Urls /\ Reviews \in Urls
  BY ResourcesAssumption
<1>2. CASE todo = <<Movie, Cast, Reviews>>
  BY <1>1, <1>2, ResourcesAssumption DEF CastDue
<1>3. CASE todo = <<Cast, Reviews>>
  BY <1>1, <1>3, ResourcesAssumption DEF CastDue
<1>4. CASE todo = <<Reviews>>
  BY <1>1, <1>4, ResourcesAssumption DEF CastDue
<1> QED
  BY <1>2, <1>3, <1>4 DEF DetailsTypeOK

\* Every step of the screen is a step of the loader, or none.
LEMMA DetailsRefinesLoader ==
  ASSUME DetailsInv, [DetailsNext]_allVars
  PROVE  [Next]_vars
<1>1. ASSUME CallLoad, ~trapped PROVE Next
  <2>1. FreshLoad \in Loads
    BY <1>1 DEF CallLoad, FreshLoad, Idle
  <2>2. Head(todo) \in Urls
    BY <1>1, TodoHead DEF CallLoad, DetailsInv
  <2> QED
    BY <1>1, <2>1, <2>2 DEF CallLoad, Next
<1>2. ASSUME Background, ~trapped PROVE Next
  BY <1>2, ResourcesAssumption DEF Background, Next
<1>3. ASSUME Deliver, ~trapped PROVE Next
  BY <1>3 DEF Deliver, Next
<1> QED
  BY <1>1, <1>2, <1>3 DEF DetailsNext, DidSelect, ViewDidLoad, allVars

\* What the loader promises holds under the screen.
LEMMA LoaderStep ==
  ASSUME DetailsInv, [DetailsNext]_allVars
  PROVE  IInv' /\ BodyPositive'
<1>1. [Next]_vars /\ IInv /\ BodyPositive /\ TypeOK /\ QueueInv
  BY DetailsRefinesLoader DEF DetailsInv, IInv
<1> QED
  BY <1>1, IInvStep, BodyPositiveStep

-----------------------------------------------------------------------------
(* The steps of the screen.                                                *)

\* The tap and viewDidLoad leave the loader alone.
LEMMA ScreenStep ==
  ASSUME DetailsInv, (~trapped /\ (DidSelect \/ ViewDidLoad)) \/ UNCHANGED allVars
  PROVE  DetailsInv'
<1>0. IInv /\ DetailsTypeOK /\ CallsInv /\ UploadsInv /\ RecordInv /\ TableFresh
  BY DEF DetailsInv
<1>1. /\ UNCHANGED <<server, cache, phase, url, body, main, done, contended, trapped>>
      /\ UNCHANGED <<model, header, uploads, castFirst>>
  BY DEF DidSelect, ViewDidLoad, allVars, detailsVars, vars
<1>2. CastLoads' = CastLoads
  BY <1>1 DEF CastLoads
<1>3. \A l \in Loads : Came(l)' <=> Came(l)
  BY <1>1 DEF Came
<1>4. IInv' /\ BodyPositive'
  BY LoaderStep DEF DetailsNext
<1>5. UploadsInv'
  BY <1>0, <1>1, <1>2, <1>3 DEF UploadsInv, CastLoads
<1>6. CASE DidSelect
  <2>1. stage = "none" /\ stage' = "pushed" /\ todo' = <<Movie, Cast, Reviews>> /\ table' = table
    BY <1>6 DEF DidSelect
  <2>2. DetailsTypeOK' /\ TableFresh'
    BY <1>0, <1>1, <2>1 DEF DetailsTypeOK, TableFresh
  <2>3. CastLoads = {}
    BY <1>0, <2>1 DEF CallsInv
  <2>4. CallsInv'
    BY <1>0, <1>1, <1>2, <2>1, <2>3 DEF CallsInv, AtMostOne, AtMostTwo
  <2>5. RecordInv'
    BY <1>2, <2>1, <2>3 DEF RecordInv
  <2> QED
    BY <1>4, <1>5, <2>2, <2>4, <2>5 DEF DetailsInv
<1>7. CASE ViewDidLoad
  <2>1. /\ stage = "pushed" /\ stage' = "loaded" /\ table' = model
        /\ todo' = IF model[Movie] = Nil THEN <<>> ELSE <<Cast, Reviews>>
    BY <1>7 DEF ViewDidLoad, Rows, Reload
  <2>2. DetailsTypeOK' /\ TableFresh'
    BY <1>0, <1>1, <2>1 DEF DetailsTypeOK, TableFresh
  <2>3. CallsInv'
    BY <1>0, <1>1, <1>2, <2>1 DEF CallsInv
  <2>4. RecordInv'
    <3> SUFFICES ASSUME ~castFirst
                 PROVE  CastDue' \/ CastLoads' = {} \/ \E l \in CastLoads' : ~Came(l)'
      BY <1>1, <2>1 DEF RecordInv
    <3>1. CASE model[Movie] = Nil
      <4>1. \A l \in CastLoads : ~Came(l)
        BY <1>0, <2>1, <3>1 DEF RecordInv
      <4> QED
        BY <1>2, <1>3, <4>1 DEF CastLoads
    <3>2. CASE model[Movie] # Nil
      BY <2>1, <3>2 DEF CastDue
    <3> QED
      BY <3>1, <3>2
  <2> QED
    BY <1>4, <1>5, <2>2, <2>3, <2>4 DEF DetailsInv
<1>8. CASE UNCHANGED allVars
  <2>1. UNCHANGED <<stage, todo, table>>
    BY <1>8 DEF allVars, detailsVars
  <2>2. DetailsTypeOK' /\ TableFresh'
    BY <1>0, <1>1, <2>1 DEF DetailsTypeOK, TableFresh
  <2>3. CallsInv' /\ RecordInv'
    BY <1>0, <1>1, <1>2, <1>3, <2>1 DEF CallsInv, RecordInv, CastDue, CastLoads
  <2> QED
    BY <1>4, <1>5, <2>2, <2>3 DEF DetailsInv
<1> QED
  BY <1>6, <1>7, <1>8

\* A call of load is made.
LEMMA CallStep ==
  ASSUME DetailsInv, ~trapped, CallLoad
  PROVE  DetailsInv'
<1>0. IInv /\ TypeOK /\ DetailsTypeOK /\ CallsInv /\ UploadsInv /\ RecordInv /\ TableFresh
  BY DEF DetailsInv, IInv
<1>1. /\ UNCHANGED <<stage, model, table, header, uploads, castFirst>>
      /\ todo # <<>> /\ todo' = Tail(todo)
  BY DEF CallLoad
<1>2. PICK l \in Loads : Load(l, Head(todo))
  BY DEF CallLoad, FreshLoad, Idle
<1>3. /\ Head(todo) \in Urls
      /\ todo' \in {<<>>, <<Cast, Reviews>>, <<Reviews>>}
      /\ Head(todo) = Cast => CastDue /\ todo' = <<Reviews>>
      /\ CastDue' => CastDue /\ Head(todo) # Cast
      /\ CastDue => Head(todo) = Cast \/ CastDue'
  <2>1. /\ Head(todo) \in Urls
        /\ todo' \in {<<>>, <<Cast, Reviews>>, <<Reviews>>}
        /\ Head(todo) = Cast => CastDue /\ todo' = <<Reviews>>
        /\ todo' = <<Cast, Reviews>> => CastDue
        /\ CastDue => Head(todo) = Cast \/ todo' = <<Cast, Reviews>>
    BY <1>0, <1>1, TodoHead
  <2>2. todo' # <<Movie, Cast, Reviews>> /\ <<Reviews>> # <<Cast, Reviews>>
    BY <2>1
  <2>3. CastDue' <=> todo' = <<Cast, Reviews>>
    BY <2>2 DEF CastDue
  <2> QED
    BY <2>1, <2>2, <2>3
<1>4. /\ phase[l] = "idle" /\ url[l] = NoUrl
      /\ \A m \in Loads : m # l => phase'[m] = phase[m] /\ url'[m] = url[m]
      /\ \/ trapped' = TRUE /\ UNCHANGED <<phase, url>>
         \/ phase'[l] \in {"queued", "sent"} /\ url'[l] = Head(todo)
  <2>1. Head(todo) # NoUrl
    BY <1>3, NoUrlAssumption
  <2> QED
    BY <1>0, <1>2, <1>3, <2>1, LoadFrame DEF CallsInv
<1>5. Cast # NoUrl
  BY NoUrlAssumption, ResourcesAssumption
<1>6. l \notin CastLoads /\ CastLoads' \subseteq CastLoads \cup {l}
  BY <1>4, <1>5 DEF CastLoads
<1>7. /\ CastLoads \subseteq CastLoads'
      /\ Head(todo) # Cast => CastLoads' = CastLoads
      /\ Head(todo) = Cast /\ ~trapped' => l \in CastLoads'
  BY <1>4, <1>5 DEF CastLoads
<1>8. (\A m \in CastLoads : Came(m)' <=> Came(m)) /\ ~Came(l)'
  BY <1>4, <1>5 DEF CastLoads, Came
<1>9. IInv' /\ BodyPositive'
  BY LoaderStep DEF DetailsNext
<1>10. DetailsTypeOK' /\ TableFresh'
  BY <1>0, <1>1, <1>3 DEF DetailsTypeOK, TableFresh
<1>11. CallsInv'
  <2>1. \A m \in Loads : phase'[m] = "idle" => url'[m] = NoUrl
    BY <1>0, <1>4 DEF CallsInv
  <2>2. stage # "none"
    BY <1>0, <1>1 DEF CallsInv
  <2>3. CASE Head(todo) = Cast
    <3>1. ~CastDue' /\ CastDue /\ AtMostOne(CastLoads) /\ (stage = "pushed" => CastLoads = {})
      BY <1>0, <1>3, <2>3 DEF CallsInv
    <3>2. AtMostTwo(CastLoads')
      BY <1>6, <3>1 DEF AtMostOne, AtMostTwo
    <3>3. stage = "pushed" => AtMostOne(CastLoads')
      BY <1>6, <3>1 DEF AtMostOne
    <3> QED
      BY <1>1, <2>1, <2>2, <3>1, <3>2, <3>3 DEF CallsInv, AtMostOne, AtMostTwo
  <2>4. CASE Head(todo) # Cast
    BY <1>0, <1>1, <1>3, <1>7, <2>1, <2>2, <2>4 DEF CallsInv
  <2> QED
    BY <2>3, <2>4
<1>12. UploadsInv'
  BY <1>0, <1>1, <1>7, <1>8 DEF UploadsInv
<1>13. RecordInv'
  <2> SUFFICES ASSUME ~castFirst
      PROVE /\ stage # "loaded" /\ model[Movie] = Nil => \A m \in CastLoads' : ~Came(m)'
            /\ stage = "loaded" =>
                 \/ uploads >= 1 /\ header
                 \/ CastDue'
                 \/ CastLoads' = {}
                 \/ \E m \in CastLoads' : ~Came(m)'
                 \/ trapped' /\ todo' # <<>>
    BY <1>1 DEF RecordInv
  <2>1. stage # "loaded" /\ model[Movie] = Nil => \A m \in CastLoads' : ~Came(m)'
    BY <1>0, <1>6, <1>8 DEF RecordInv
  <2>2. CASE Head(todo) = Cast
    BY <1>3, <1>7, <1>8, <2>1, <2>2
  <2>3. CASE Head(todo) # Cast
    <3>1. CastLoads' = CastLoads /\ (CastDue => CastDue')
      BY <1>3, <1>7, <2>3
    <3> QED
      BY <1>0, <1>8, <2>1, <3>1 DEF RecordInv
  <2> QED
    BY <2>2, <2>3
<1> QED
  BY <1>9, <1>10, <1>11, <1>12, <1>13 DEF DetailsInv

\* A completion: the movie, the cast or the reviews arrive on the main thread.
LEMMA DeliverStep ==
  ASSUME DetailsInv, ~trapped, Deliver
  PROVE  DetailsInv'
<1>0. IInv /\ TypeOK /\ QueueInv /\ DetailsTypeOK /\ CallsInv /\ UploadsInv /\ RecordInv /\ TableFresh
  BY DEF DetailsInv, IInv
<1>1. PICK l \in Loads, u \in Urls :
        /\ l = Head(main) /\ u = url[l] /\ phase[l] = "queued" /\ body[l] \in Nat
        /\ phase' = [phase EXCEPT ![l] = "completed"]
        /\ UNCHANGED <<url, body, contended, trapped>>
  BY <1>0, RunMainFrame DEF Deliver
<1>2. /\ UNCHANGED <<stage, todo>> /\ todo = <<>>
      /\ model' = [model EXCEPT ![u] = body[l]]
      /\ MovieOrReviewsDidChange(u) \/ CastDidChange(u)
  BY <1>1 DEF Deliver
<1>3. /\ CastLoads' = CastLoads /\ (l \in CastLoads <=> u = Cast)
      /\ (CastDue' <=> CastDue) /\ ~CastDue
  BY <1>1, <1>2 DEF CastLoads, CastDue
<1>4. (\A m \in Loads : m # l => (Came(m)' <=> Came(m))) /\ ~Came(l) /\ Came(l)'
  BY <1>0, <1>1 DEF Came, TypeOK
<1>5. IInv' /\ BodyPositive'
  BY LoaderStep DEF DetailsNext
<1>6. CallsInv'
  <2>1. \A m \in Loads : phase'[m] = "idle" => phase[m] = "idle"
    BY <1>0, <1>1 DEF TypeOK
  <2> QED
    BY <1>0, <1>1, <1>2, <1>3, <2>1 DEF CallsInv
<1>7. model' \in [Urls -> Nat] /\ model'[u] = body[l] /\ \A v \in Urls : v # u => model'[v] = model[v]
  BY <1>0, <1>1, <1>2 DEF DetailsTypeOK
<1>8. Movie \in Urls /\ Movie # Cast
  BY ResourcesAssumption
\* The movie or the reviews.
<1>9. CASE MovieOrReviewsDidChange(u)
  <2>1. /\ u # Cast /\ UNCHANGED <<header, uploads, castFirst>>
        /\ stage = "loaded" => table' = model'
    BY <1>9 DEF MovieOrReviewsDidChange, Rows
  <2>2. DetailsTypeOK'
    BY <1>0, <1>2, <1>7, <2>1 DEF DetailsTypeOK
  <2>3. TableFresh'
    BY <1>2, <2>1 DEF TableFresh
  <2>4. \A m \in CastLoads : m \in Loads /\ (Came(m)' <=> Came(m))
    BY <1>3, <1>4, <2>1 DEF CastLoads
  <2>5. UploadsInv'
    BY <1>0, <1>3, <2>1, <2>4 DEF UploadsInv
  <2>6. RecordInv'
    <3> SUFFICES ASSUME ~castFirst
        PROVE /\ stage # "loaded" /\ model'[Movie] = Nil => \A m \in CastLoads : ~Came(m)'
              /\ stage = "loaded" =>
                   \/ uploads >= 1 /\ header
                   \/ CastLoads = {}
                   \/ \E m \in CastLoads : ~Came(m)'
      BY <1>2, <1>3, <2>1 DEF RecordInv
    <3>1. ASSUME stage # "loaded", model'[Movie] = Nil, NEW m \in CastLoads
          PROVE  ~Came(m)'
      <4>1. CASE u = Movie
        <5>1. body[l] # Nil
          BY <1>1 DEF DetailsInv, BodyPositive, HasBody
        <5> QED
          BY <1>7, <3>1, <4>1, <5>1
      <4>2. CASE u # Movie
        BY <1>0, <1>7, <1>8, <2>4, <3>1, <4>2 DEF RecordInv
      <4> QED
        BY <4>1, <4>2
    <3>2. stage = "loaded" =>
            \/ uploads >= 1 /\ header
            \/ CastLoads = {}
            \/ \E m \in CastLoads : ~Came(m)'
      BY <1>0, <1>2, <1>3, <2>4 DEF RecordInv
    <3> QED
      BY <3>1, <3>2
  <2> QED
    BY <1>5, <1>6, <2>2, <2>3, <2>5, <2>6 DEF DetailsInv
\* The cast.
<1>10. CASE CastDidChange(u)
  <2>1. /\ u = Cast
        /\ castFirst' = (castFirst \/ model[Movie] = Nil)
        /\ model'[Movie] = model[Movie]
    BY <1>7, <1>8, <1>10 DEF CastDidChange
  <2>2. \/ /\ stage = "loaded" /\ model[Movie] # Nil
           /\ header' = TRUE /\ uploads' = uploads + 1 /\ table' = model'
        \/ /\ ~(stage = "loaded" /\ model[Movie] # Nil)
           /\ UNCHANGED <<header, uploads, table>>
    BY <1>10 DEF CastDidChange, Rows
  <2>3. DetailsTypeOK'
    <3>1. castFirst' \in BOOLEAN
      BY <2>1, Zenon
    <3>2. header' = TRUE \/ header' = header
      BY <2>2
    <3>3. header' \in BOOLEAN
      BY <1>0, <3>2, Zenon DEF DetailsTypeOK
    <3>4. uploads' \in Nat
      BY <1>0, <2>2 DEF DetailsTypeOK
    <3> QED
      BY <1>0, <1>2, <1>7, <3>1, <3>3, <3>4 DEF DetailsTypeOK
  <2>4. TableFresh'
    BY <1>2, <2>1, <2>2 DEF TableFresh
  <2>5. UploadsInv'
    <3>0. l \in CastLoads /\ \A m \in CastLoads : m \in Loads /\ (Came(m) => m # l /\ Came(m)')
      BY <1>3, <1>4, <2>1 DEF CastLoads
    <3>1. CASE uploads = 0
      BY <1>3, <1>4, <2>2, <3>0, <3>1 DEF UploadsInv
    <3>2. ASSUME uploads = 1, NEW a \in CastLoads, Came(a) PROVE UploadsInv'
      <4>1. a # l /\ Came(a)'
        BY <3>0, <3>2
      <4>2. uploads' \in {1, 2}
        BY <2>2, <3>2
      <4> QED
        BY <1>3, <1>4, <3>0, <4>1, <4>2 DEF UploadsInv
    <3>3. ASSUME uploads = 2, NEW a \in CastLoads, NEW b \in CastLoads, a # b, Came(a), Came(b)
          PROVE  UploadsInv'
      <4>1. a # l /\ b # l
        BY <3>0, <3>3
      <4>2. FALSE
        BY <1>0, <3>0, <3>3, <4>1 DEF CallsInv, AtMostTwo
      <4> QED
        BY <4>2
    <3> QED
      BY <1>0, <3>1, <3>2, <3>3 DEF UploadsInv
  <2>6. RecordInv'
    <3> SUFFICES ASSUME ~castFirst', model[Movie] # Nil PROVE RecordInv'
      BY <2>1 DEF RecordInv
    <3>1. stage = "loaded" => uploads' >= 1 /\ header'
      BY <1>0, <2>2 DEF DetailsTypeOK
    <3> QED
      BY <1>2, <2>1, <3>1 DEF RecordInv
  <2> QED
    BY <1>5, <1>6, <2>3, <2>4, <2>5, <2>6 DEF DetailsInv
<1> QED
  BY <1>2, <1>9, <1>10

\* The network and the session's queue.
LEMMA BackgroundStep ==
  ASSUME DetailsInv, ~trapped, Background
  PROVE  DetailsInv'
<1>0. IInv /\ TypeOK /\ QueueInv /\ DetailsTypeOK /\ CallsInv /\ UploadsInv /\ RecordInv /\ TableFresh
  BY DEF DetailsInv, IInv
<1>1. UNCHANGED <<stage, todo, model, table, header, uploads, castFirst>>
  BY DEF Background, detailsVars
<1>2. /\ UNCHANGED <<url, trapped>>
      /\ \A m \in Loads : /\ phase'[m] = "idle" <=> phase[m] = "idle"
                          /\ Came(m)' <=> Came(m)
  BY <1>0, BackgroundFrame, ResourcesAssumption DEF Background, Came
<1>3. CastLoads' = CastLoads /\ CastLoads \subseteq Loads
  BY <1>2 DEF CastLoads
<1>4. IInv' /\ BodyPositive'
  BY LoaderStep DEF DetailsNext
<1>5. DetailsTypeOK' /\ TableFresh'
  BY <1>0, <1>1 DEF DetailsTypeOK, TableFresh
<1>6. CallsInv'
  BY <1>0, <1>1, <1>2, <1>3 DEF CallsInv, CastDue
<1>7. UploadsInv'
  BY <1>0, <1>1, <1>2, <1>3 DEF UploadsInv
<1>8. RecordInv'
  BY <1>0, <1>1, <1>2, <1>3 DEF RecordInv, CastDue
<1> QED
  BY <1>4, <1>5, <1>6, <1>7, <1>8 DEF DetailsInv

-----------------------------------------------------------------------------
(* The theorems.                                                           *)

\* DetailsInv is an invariant of the screen with the loader under it.
THEOREM DetailsInvariant == DetailsSpec => []DetailsInv
<1>1. DetailsInv /\ [DetailsNext]_allVars => DetailsInv'
  BY ScreenStep, CallStep, DeliverStep, BackgroundStep DEF DetailsNext
<1> QED
  BY <1>1, DetailsInitInv, PTL DEF DetailsSpec

\* Once the screen is up and the movie is there, the table shows what the view model
\* holds, whatever arrived before viewDidLoad and in whatever order.
THEOREM TableShowsModel == DetailsSpec => []TableFresh
<1>1. DetailsInv => TableFresh
  BY DEF DetailsInv
<1> QED
  BY <1>1, DetailsInvariant, PTL

\* A visit whose movie came before its cast is in the history, and the header is set,
\* when every call for the cast has been delivered.
THEOREM VisitGetsRecorded == DetailsSpec => []VisitRecorded
<1>1. DetailsInv => VisitRecorded
  <2> SUFFICES ASSUME DetailsInv, stage = "loaded", todo = <<>>, CastDelivered, ~castFirst
               PROVE  uploads >= 1 /\ header
    BY DEF VisitRecorded
  <2>1. ~CastDue /\ CastLoads # {} /\ \A l \in CastLoads : Came(l)
    BY DEF CastDue, CastDelivered, Came
  <2> QED
    BY <2>1 DEF DetailsInv, RecordInv
<1> QED
  BY <1>1, DetailsInvariant, PTL

\* A visit is recorded at most twice, and twice only when the cast was asked for twice.
THEOREM NeverRecordedThrice == DetailsSpec => []RecordedAtMostTwice
<1>1. ASSUME DetailsInv, uploads = 2 PROVE Cardinality(CastLoads) = 2
  <2>1. PICK a, b \in CastLoads : a # b
    BY <1>1 DEF DetailsInv, UploadsInv
  <2>2. CastLoads = {a} \cup {b}
    BY <1>1, <2>1 DEF DetailsInv, CallsInv, AtMostTwo
  <2>3. IsFiniteSet({a}) /\ Cardinality({a}) = 1
    BY FS_Singleton
  <2>4. Cardinality({a} \cup {b}) = Cardinality({a}) + 1
    BY <2>1, <2>3, FS_AddElement
  <2> QED
    BY <2>2, <2>3, <2>4
<1>2. DetailsInv => uploads <= 2
  BY DEF DetailsInv, UploadsInv
<1>3. DetailsInv => RecordedAtMostTwice
  BY <1>1, <1>2 DEF RecordedAtMostTwice
<1> QED
  BY <1>3, DetailsInvariant, PTL

=============================================================================
