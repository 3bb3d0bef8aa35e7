--------------------------- MODULE NetworkService ---------------------------
(***************************************************************************)
(* Services/NetworkService.swift: the generic JSON loader every screen of  *)
(* the application uses, with its process-wide result cache.               *)
(*                                                                         *)
(*   class NetworkService {                                                *)
(*     static var cache: [URL: Codable] = [:]                              *)
(*     func load<T>(url: URL?, model: T.Type, completion: (T?, Error?))    *)
(*                                                                         *)
(* Three threads of control meet here:                                     *)
(*   - the main thread calls load, which reads the cache, and later runs   *)
(*     the blocks put on DispatchQueue.main;                               *)
(*   - the serial delegate queue of URLSession.shared runs the completion  *)
(*     handler of each data task, and writes the cache;                    *)
(*   - the server (external) answers requests in any order, and its        *)
(*     content changes.                                                    *)
(*                                                                         *)
(* The cache is an unsynchronised Swift Dictionary, so a read that falls   *)
(* inside a write is a data race: the read may see the old entry, the new  *)
(* one or none at all, or it may trap and end the process.                 *)
(*                                                                         *)
(* Data is abstracted to version numbers: the content the server holds for *)
(* a URL is a positive natural number that grows when the content changes, *)
(* and Nil stands for Swift's nil.                                         *)
(***************************************************************************)
EXTENDS Naturals, Sequences, FiniteSets

CONSTANTS Loads,       \* the calls of load, each call one element
          Urls,        \* the URLs the application can build
          NoUrl,       \* URL(string:) returned nil
          MaxVersion   \* bound on how often the server's content changes

Nil == 0

ASSUME NoUrlAssumption == NoUrl \notin Urls
ASSUME MaxVersionAssumption == MaxVersion \in Nat \ {0}

VARIABLES
  server,      \* external: the version the server now holds for each URL
  cache,       \* NetworkService.cache; Nil where there is no entry
  phase,       \* how far each call of load has got
  url,         \* the url argument of each call
  body,        \* the version each call has in hand
  main,        \* the completion blocks on DispatchQueue.main, oldest first
  done,        \* history: the completions that ran, in order
  contended,   \* history: URLs with two fetches under way at once, or with
               \* a read inside the write of their own entry
  trapped      \* the process died in a racing dictionary access

vars == <<server, cache, phase, url, body, main, done, contended, trapped>>

Phases == { "idle",       \* load not called yet
            "sent",       \* dataTask resumed, no answer yet
            "answered",   \* the server has answered
            "storing",    \* the handler is inside NetworkService.cache[url] = result
            "stored",     \* the write is over, main.async not called yet
            "queued",     \* the completion block is on the main queue
            "completed",  \* completion(result, error) ran on the main thread
            "failed",     \* completion(nil, error) ran on the session queue
            "dropped" }   \* returned without ever calling completion

Completion == [load : Loads, val : Nat, on : {"main", "session"}]

TypeOK ==
  /\ server \in [Urls -> Nat \ {0}]
  /\ cache \in [Urls -> Nat]
  /\ phase \in [Loads -> Phases]
  /\ url \in [Loads -> Urls \cup {NoUrl}]
  /\ \A l \in Loads : phase[l] \notin {"idle", "dropped"} => url[l] \in Urls
  /\ body \in [Loads -> Nat]
  /\ main \in Seq(Loads)
  /\ done \in Seq(Completion)
  /\ contended \in SUBSET Urls
  /\ trapped \in BOOLEAN

Init ==
  /\ server = [u \in Urls |-> 1]
  /\ cache = [u \in Urls |-> Nil]
  /\ phase = [l \in Loads |-> "idle"]
  /\ url = [l \in Loads |-> NoUrl]
  /\ body = [l \in Loads |-> Nil]
  /\ main = <<>>
  /\ done = <<>>
  /\ contended = {}
  /\ trapped = FALSE

-----------------------------------------------------------------------------
(* The cache as a racing reader sees it.                                   *)

Writing == {w \in Loads : phase[w] = "storing"}

\* `NetworkService.cache[url] as? T`.  Outside a write the read returns the
\* entry.  Inside one it may return the entry, nothing, or, for the URL being
\* written, the new value.
LookUp(u) ==
  {cache[u]} \cup (IF Writing = {} THEN {} ELSE {Nil})
             \cup {body[w] : w \in {x \in Writing : url[x] = u}}

\* A fetch of u is under way from the moment the data task is resumed until
\* its result is on the main queue.
Fetching(u) ==
  {l \in Loads : url[l] = u /\ phase[l] \in {"sent", "answered", "storing", "stored"}}

-----------------------------------------------------------------------------
(* load(url:model:completion:), called on the main thread.                 *)

\* Mutant: the guard is dropped and the request goes out without a URL.
LoadUnguarded(l) ==
  /\ phase' = [phase EXCEPT ![l] = "sent"]
  /\ UNCHANGED <<server, cache, url, body, main, done, contended, trapped>>

\* guard let url = url else { return }
LoadNoUrl(l) ==
  /\ phase' = [phase EXCEPT ![l] = "dropped"]
  /\ UNCHANGED <<server, cache, url, body, main, done, contended, trapped>>

\* The cache has a result: completion is queued behind the blocks already on
\* the main queue.
LoadHit(l, u) ==
  /\ \E v \in LookUp(u) \ {Nil} : body' = [body EXCEPT ![l] = v]
  /\ url' = [url EXCEPT ![l] = u]
  /\ phase' = [phase EXCEPT ![l] = "queued"]
  /\ main' = Append(main, l)
  /\ contended' = IF \E w \in Writing : url[w] = u THEN contended \cup {u} ELSE contended
  /\ UNCHANGED <<server, cache, done, trapped>>

\* No result: a data task is created and resumed.
LoadMiss(l, u) ==
  /\ Nil \in LookUp(u)
  /\ url' = [url EXCEPT ![l] = u]
  /\ phase' = [phase EXCEPT ![l] = "sent"]
  /\ contended' = IF Fetching(u) = {} THEN contended ELSE contended \cup {u}
  /\ UNCHANGED <<server, cache, body, main, done, trapped>>

\* The read met a write and the dictionary access faulted.
LoadTrap ==
  /\ Writing # {}
  /\ trapped' = TRUE
  /\ UNCHANGED <<server, cache, phase, url, body, main, done, contended>>

Load(l, u) ==
  /\ phase[l] = "idle"
  /\ \/ u = NoUrl /\ LoadNoUrl(l)
     \/ u \in Urls /\ (LoadHit(l, u) \/ LoadMiss(l, u) \/ LoadTrap)

-----------------------------------------------------------------------------
(* The network (external).                                                 *)

\* The content behind u changes.
ServerChange(u) ==
  /\ server[u] < MaxVersion
  /\ server' = [server EXCEPT ![u] = @ + 1]
  /\ UNCHANGED <<cache, phase, url, body, main, done, contended, trapped>>

\* The server answers l with what it holds now; the answer then travels for
\* any time.
Answer(l) ==
  /\ phase[l] = "sent"
  /\ phase' = [phase EXCEPT ![l] = "answered"]
  /\ body' = [body EXCEPT ![l] = server[url[l]]]
  /\ UNCHANGED <<server, cache, url, main, done, contended, trapped>>

-----------------------------------------------------------------------------
(* The data task's completion handler.  The delegate queue of              *)
(* URLSession.shared is serial: a handler starts only when none is running.*)

SessionIdle == \A l \in Loads : phase[l] \notin {"storing", "stored"}

\* Data arrived and decoded: the handler enters the cache assignment.
Decoded(l) ==
  /\ phase[l] = "answered"
  /\ SessionIdle
  /\ phase' = [phase EXCEPT ![l] = "storing"]
  /\ UNCHANGED <<server, cache, url, body, main, done, contended, trapped>>

\* Mutant: one key for every URL.
StoreUnderAnyUrl(l) ==
  /\ phase[l] = "storing"
  /\ cache' = [u \in Urls |-> body[l]]
  /\ phase' = [phase EXCEPT ![l] = "stored"]
  /\ UNCHANGED <<server, url, body, main, done, contended, trapped>>

\* Mutant: the entry of every other URL is evicted.
StoreEvicting(l) ==
  /\ phase[l] = "storing"
  /\ cache' = [u \in Urls |-> IF u = url[l] THEN body[l] ELSE Nil]
  /\ phase' = [phase EXCEPT ![l] = "stored"]
  /\ UNCHANGED <<server, url, body, main, done, contended, trapped>>

\* NetworkService.cache[url] = result
StoreResult(l) ==
  /\ phase[l] = "storing"
  /\ cache' = [cache EXCEPT ![url[l]] = body[l]]
  /\ phase' = [phase EXCEPT ![l] = "stored"]
  /\ UNCHANGED <<server, url, body, main, done, contended, trapped>>

\* Mutant: the block jumps the queue.
HopToMainFirst(l) ==
  /\ phase[l] = "stored"
  /\ main' = <<l>> \o main
  /\ phase' = [phase EXCEPT ![l] = "queued"]
  /\ UNCHANGED <<server, cache, url, body, done, contended, trapped>>

\* Mutant: main.async forgotten, completion is called on the session's queue.
HopToMainDirect(l) ==
  /\ phase[l] = "stored"
  /\ phase' = [phase EXCEPT ![l] = "completed"]
  /\ done' = Append(done, [load |-> l, val |-> body[l], on |-> "session"])
  /\ UNCHANGED <<server, cache, url, body, main, contended, trapped>>

\* Mutant: main.async runs completion and the missing return after the cache
\* hit's block is copied here: the block is enqueued again for the same call.
HopToMainTwice(l) ==
  /\ phase[l] = "stored"
  /\ main' = main \o <<l, l>>
  /\ phase' = [phase EXCEPT ![l] = "queued"]
  /\ UNCHANGED <<server, cache, url, body, done, contended, trapped>>

\* Mutant: the result is stored and completion forgotten.
HopToMainForgotten(l) ==
  /\ phase[l] = "stored"
  /\ phase' = [phase EXCEPT ![l] = "queued"]
  /\ UNCHANGED <<server, cache, url, body, main, done, contended, trapped>>

\* DispatchQueue.main.async { completion(result, error) }
HopToMain(l) ==
  /\ phase[l] = "stored"
  /\ main' = Append(main, l)
  /\ phase' = [phase EXCEPT ![l] = "queued"]
  /\ UNCHANGED <<server, cache, url, body, done, contended, trapped>>

\* catch { print(error) }: the error is printed and completion never called.
Undecodable(l) ==
  /\ phase[l] = "answered"
  /\ SessionIdle
  /\ phase' = [phase EXCEPT ![l] = "dropped"]
  /\ UNCHANGED <<server, cache, url, body, main, done, contended, trapped>>

\* No data: completion(nil, error) is called on the session's queue.
NoData(l) ==
  /\ phase[l] = "sent"
  /\ SessionIdle
  /\ phase' = [phase EXCEPT ![l] = "failed"]
  /\ done' = Append(done, [load |-> l, val |-> Nil, on |-> "session"])
  /\ UNCHANGED <<server, cache, url, body, main, contended, trapped>>

-----------------------------------------------------------------------------
\* The main thread runs the oldest block of its queue: completion(result, error).
RunMain ==
  /\ main # <<>>
  /\ LET l == Head(main) IN
       /\ phase' = [phase EXCEPT ![l] = "completed"]
       /\ done' = Append(done, [load |-> l, val |-> body[l], on |-> "main"])
  /\ main' = Tail(main)
  /\ UNCHANGED <<server, cache, url, body, contended, trapped>>

SessionStep(l) ==
  Decoded(l) \/ StoreResult(l) \/ HopToMain(l) \/ Undecodable(l) \/ NoData(l)

Next ==
  /\ ~trapped
  /\ \/ \E l \in Loads, u \in Urls \cup {NoUrl} : Load(l, u)
     \/ \E u \in Urls : ServerChange(u)
     \/ \E l \in Loads : Answer(l) \/ SessionStep(l)
     \/ RunMain

(***************************************************************************)
(* Fairness: URLSession ends every data task (with an answer or, at its    *)
(* timeout, without data) and its queue runs every handler; the main run   *)
(* loop drains the main queue.  Nothing makes a screen call load.          *)
(***************************************************************************)
Fairness ==
  /\ \A l \in Loads : WF_vars(~trapped /\ (Answer(l) \/ SessionStep(l)))
  /\ WF_vars(~trapped /\ RunMain)

Spec == Init /\ [][Next]_vars
FairSpec == Spec /\ Fairness

-----------------------------------------------------------------------------
(* Properties.                                                             *)

\* The completion block of a call runs at most once, although the result may
\* reach it along three paths (cached, fetched, no data) and the block passes
\* through two queues.
CompletesOnce ==
  \A i, j \in DOMAIN done : done[i].load = done[j].load => i = j

\* A completion that runs off the main thread (the no-data path calls it on
\* the session's queue) carries no result.  The screens assign to their state
\* and reload their views only under `if let result`, so this is what keeps
\* UIKit on the main thread.
ResultsOnMain ==
  \A i \in DOMAIN done : done[i].on = "session" => done[i].val = Nil

\* A result handed to a screen is content the server really held for the URL
\* that was asked for: neither the cache nor a race mixes up two URLs.
ResultsAreServed ==
  \A i \in DOMAIN done : done[i].val <= server[url[done[i].load]]

\* Results for a URL are never older than a result already delivered for it,
\* unless the URL was contended: the cache, misses caused by racing with the
\* write of another entry, and the two queues together preserve the server's
\* order.  (Contention breaks it: of two fetches at once the older answer may
\* arrive last, and the cache then keeps it for good.)
NoRegression ==
  \A i, j \in DOMAIN done :
     LET u == url[done[i].load] IN
     (/\ i < j
      /\ url[done[j].load] = u
      /\ u \notin contended
      /\ done[j].val # Nil)
     => done[i].val <= done[j].val

\* An entry of the cache is replaced by older content only if its URL was
\* contended: the entry never expires, so this is the only way to lose ground.
CacheNeverRegresses ==
  [][\A u \in Urls : u \notin contended => cache'[u] >= cache[u]]_cache

\* Every call of load ends: its completion runs, or it is one of the calls
\* that give up silently, or the process died in a race.
Settled(l) == phase[l] \in {"completed", "failed", "dropped"}

LoadsSettle == \A l \in Loads : (phase[l] # "idle") ~> (Settled(l) \/ trapped)

-----------------------------------------------------------------------------
(* The inductive invariant behind the properties above.                    *)

HasBody == {"answered", "storing", "stored", "queued", "completed"}

\* Who is where: the main queue holds every queued
\* call once, and only finished calls are in the history.
QueueInv ==
  /\ \A i \in DOMAIN main : phase[main[i]] = "queued"
  /\ \A i, j \in DOMAIN main : main[i] = main[j] => i = j
  /\ \A i \in DOMAIN done : phase[done[i].load] \in {"completed", "failed"}
  /\ \A l, m \in Loads :
        phase[l] \in {"storing", "stored"} /\ phase[m] \in {"storing", "stored"} => l = m

\* No content from the future or from another URL, anywhere.
ServedInv ==
  /\ \A u \in Urls : cache[u] <= server[u]
  /\ \A l \in Loads : phase[l] \in HasBody => body[l] <= server[url[l]]

\* For an uncontended URL: what was delivered, what is queued, what is cached
\* and what is being fetched are in this order from old to new.
OneFetch(u) == \A l, m \in Fetching(u) : l = m

FetchedNewest(u) ==
  \A l \in Fetching(u) :
     /\ phase[l] \in {"answered", "storing"} => cache[u] <= body[l]
     /\ phase[l] = "stored" => cache[u] = body[l]

QueuedOlder(u) == \A i \in DOMAIN main : url[main[i]] = u => body[main[i]] <= cache[u]

QueueSorted(u) ==
  \A i, j \in DOMAIN main :
     url[main[i]] = u /\ url[main[j]] = u /\ i < j => body[main[i]] <= body[main[j]]

DoneOlder(u) == \A i \in DOMAIN done : url[done[i].load] = u => done[i].val <= cache[u]

DoneBeforeQueue(u) ==
  \A i \in DOMAIN done, j \in DOMAIN main :
     url[done[i].load] = u /\ url[main[j]] = u => done[i].val <= body[main[j]]

OrderInv ==
  \A u \in Urls : u \notin contended =>
    /\ OneFetch(u)
    /\ FetchedNewest(u)
    /\ QueuedOlder(u)
    /\ QueueSorted(u)
    /\ DoneOlder(u)
    /\ DoneBeforeQueue(u)

IInv ==
  /\ TypeOK
  /\ QueueInv
  /\ CompletesOnce
  /\ ResultsOnMain
  /\ ServedInv
  /\ ResultsAreServed
  /\ OrderInv
  /\ NoRegression
=============================================================================
