---------------------------- MODULE LoadContract ----------------------------
(***************************************************************************)
(* What NetworkService.load promises the screens that call it, without its *)
(* cache, its threads and its queues (NetworkService shows those).         *)
(*                                                                         *)
(* A call waits until it ends in one of three ways: its completion runs on *)
(* the main thread with content of its URL, its completion runs on the     *)
(* session's queue with nothing, or it is dropped without a word.  Content *)
(* of a URL is handed out from old to new as long as no call was made for  *)
(* it while an earlier one was waiting; such a call may spoil the order.   *)
(***************************************************************************)
EXTENDS Naturals, Sequences

CONSTANTS Loads,   \* the calls of load
          Urls,    \* the URLs the application can build
          NoUrl    \* URL(string:) returned nil

Nil == 0

VARIABLES
  server,     \* external: the version the server now holds for each URL
  status,     \* where each call stands
  url,        \* the url argument of each call
  done,       \* the completions that ran, in order
  contended,  \* URLs whose order is spoilt
  dead        \* the process ended

vars == <<server, status, url, done, contended, dead>>

Init ==
  /\ server = [u \in Urls |-> 1]
  /\ status = [l \in Loads |-> "idle"]
  /\ url = [l \in Loads |-> NoUrl]
  /\ done = <<>>
  /\ contended = {}
  /\ dead = FALSE

-----------------------------------------------------------------------------
\* A call for which another call is waiting at the same URL.
Overlaps(u) == \E m \in Loads : status[m] = "waiting" /\ url[m] = u

\* A screen calls load.
Call(l, u) ==
  /\ status[l] = "idle"
  /\ status' = [status EXCEPT ![l] = "waiting"]
  /\ url' = [url EXCEPT ![l] = u]
  /\ \/ UNCHANGED contended
     \/ Overlaps(u) /\ contended' = contended \cup {u}
  /\ UNCHANGED <<server, done, dead>>

\* A screen calls load without a URL.
CallNoUrl(l) ==
  /\ status[l] = "idle"
  /\ status' = [status EXCEPT ![l] = "dropped"]
  /\ UNCHANGED <<server, url, done, contended, dead>>

\* v is no older than what was handed out for u before.
NoOlder(u, v) == \A i \in DOMAIN done : url[done[i].load] = u => done[i].val <= v

\* completion(result, nil), on the main thread.
Complete(l) ==
  /\ status[l] = "waiting"
  /\ \E v \in 1 .. server[url[l]] :
       /\ url[l] \notin contended => NoOlder(url[l], v)
       /\ done' = Append(done, [load |-> l, val |-> v, on |-> "main"])
  /\ status' = [status EXCEPT ![l] = "completed"]
  /\ UNCHANGED <<server, url, contended, dead>>

\* completion(nil, error), on the session's queue.
Fail(l) ==
  /\ status[l] = "waiting"
  /\ done' = Append(done, [load |-> l, val |-> Nil, on |-> "session"])
  /\ status' = [status EXCEPT ![l] = "failed"]
  /\ UNCHANGED <<server, url, contended, dead>>

\* The answer does not decode: completion is never called.
Drop(l) ==
  /\ status[l] = "waiting"
  /\ status' = [status EXCEPT ![l] = "dropped"]
  /\ UNCHANGED <<server, url, done, contended, dead>>

End(l) == Complete(l) \/ Fail(l) \/ Drop(l)

\* The process ends in a racing access of the cache, which takes a waiting call.
Die ==
  /\ \E l \in Loads : status[l] = "waiting"
  /\ dead' = TRUE
  /\ UNCHANGED <<server, status, url, done, contended>>

\* The content of u changes.
ServerChange(u) ==
  /\ server' = [server EXCEPT ![u] = @ + 1]
  /\ UNCHANGED <<status, url, done, contended, dead>>

Next ==
  /\ ~dead
  /\ \/ \E l \in Loads, u \in Urls : Call(l, u)
     \/ \E l \in Loads : CallNoUrl(l) \/ End(l)
     \/ \E u \in Urls : ServerChange(u)
     \/ Die

Spec == Init /\ [][Next]_vars

\* A call does not wait for ever.
FairSpec == Spec /\ \A l \in Loads : WF_vars(~dead /\ End(l))
=============================================================================
