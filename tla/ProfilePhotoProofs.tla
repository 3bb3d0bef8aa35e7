------------------------- MODULE ProfilePhotoProofs -------------------------
(***************************************************************************)
(* What ProfilePhoto promises, for any number of users, picked photos and  *)
(* sessions.                                                               *)
(*                                                                         *)
(* Whatever overlaps or fails, a photo at Storage, a URL and a document    *)
(* stay with the user of the pick.  While the uploads of a user are not    *)
(* torn there is one at a time, and the document lags behind Storage by    *)
(* that one only.  And a session that began at rest has one download under *)
(* way, during which Storage does not change for its user, so that what    *)
(* arrives is what is stored, until a later pick replaces it.              *)
(***************************************************************************)
EXTENDS ProfilePhoto, TLAPS

JobPhases == {"idle", "skipped", "putting", "put", "url", "writing", "done", "failed"}
Job == [of : Owners, url : Photos \cup {NoPhoto}, phase : JobPhases]
Fetch == [of : Owners, photo : Photos \cup {NoPhoto},
          phase : {"none", "reading", "loading", "loaded"}]

\* The photo has come to Storage, or its upload has failed.
Launched(p) == job[p].phase \notin {"idle", "skipped", "putting"}

\* A stored photo, a document and a URL are of the user who picked the photo, which
\* is no longer on its way, and Storage has a photo of each user who has a document
\* or a URL that refers to one.
OwnInv ==
  /\ \A u \in Users, q \in Picks : stored[u] = q => Launched(q) /\ job[q].of = u
  /\ \A u \in Users, q \in Picks : avatar[u] = q => Launched(q) /\ job[q].of = u
  /\ \A u \in Users : avatar[u] # NoPhoto => stored[u] # NoPhoto
  /\ \A p \in Picks : job[p].url # NoPhoto => Launched(p) /\ stored[job[p].of] # NoPhoto
  /\ \A p, q \in Picks : job[p].url = q => Launched(q) /\ job[q].of = job[p].of

\* A queued write is that of an upload in its last step, and is queued once.
QueueInv ==
  /\ \A u \in Owners : \A i \in DOMAIN writes[u] : job[writes[u][i]].phase = "writing"
  /\ \A u, v \in Owners : \A i \in DOMAIN writes[u], j \in DOMAIN writes[v] :
       writes[u][i] = writes[v][j] => u = v /\ i = j

\* A user whose uploads are not torn has one at a time; it finds the document and
\* Storage in agreement, and takes first Storage and then the document further.
UploadInv ==
  \A u \in Users \ torn :
    /\ \A p, q \in Picks :
         Uploading(p) /\ Uploading(q) /\ job[p].of = u /\ job[q].of = u => p = q
    /\ \A p \in Picks : Uploading(p) /\ job[p].of = u =>
         /\ job[p].phase = "putting" => avatar[u] = stored[u]
         /\ job[p].phase # "putting" => stored[u] = p
         /\ job[p].phase \in {"url", "writing"} => job[p].url = p
    /\ UploadsRest(u) => avatar[u] = stored[u]

\* A download belongs to a session that has begun, and what it brings is a photo.
FetchInv ==
  \A n \in 1 .. MaxSessions :
    /\ Fetching(n) => n <= session /\ fetch[n].of \in Users
    /\ fetch[n].phase = "loading" => stored[fetch[n].of] # NoPhoto
    /\ fetch[n].phase = "loaded" => fetch[n].photo # NoPhoto

\* In a session that began at rest only its own download is under way, nothing of
\* its user is uploaded meanwhile, and afterwards the view shows what is stored or
\* a later pick.
ScreenInv ==
  seen # NoUser /\ ~raced =>
    /\ \A n \in 1 .. MaxSessions : Fetching(n) =>
         /\ n = session /\ fetch[n].of = seen /\ ~arrived
         /\ \A p \in Picks : Uploading(p) => job[p].of # seen
         /\ fetch[n].phase = "loaded" => fetch[n].photo = stored[seen]
    /\ arrived => shown.of = seen
    /\ arrived /\ seen \notin torn =>
         /\ \A p \in Picks : Uploading(p) /\ job[p].of = seen => shown.photo = p
         /\ \/ shown.photo = stored[seen]
            \/ /\ shown.photo \in Picks /\ job[shown.photo].of = seen
               /\ job[shown.photo].phase \in {"putting", "failed"}

PhotoInv == PhotoTypeOK /\ OwnInv /\ QueueInv /\ UploadInv /\ FetchInv /\ ScreenInv

-----------------------------------------------------------------------------
(* Steps of an upload.                                                     *)

\* Photos are told apart.
LEMMA PhotoFacts ==
  /\ NoPhoto \notin Photos /\ Before \notin Picks /\ Picks \subseteq Photos
  /\ NoUser \notin Users /\ Users \subseteq Owners /\ NoUser \in Owners
  BY PhotoAssumption DEF Photos, Owners

\* The types of the uploads and the downloads, by their short names.
LEMMA PhotoRecords ==
  ASSUME PhotoTypeOK
  PROVE  /\ job \in [Picks -> Job] /\ fetch \in [1 .. MaxSessions -> Fetch]
         /\ \A p \in Picks : Launched(p) \/ Uploading(p) => job[p].of \in Users
  BY DEF PhotoTypeOK, Job, Fetch, JobPhases, Launched, Uploading

\* One upload is replaced, the others stay.
LEMMA JobReplaced ==
  ASSUME PhotoTypeOK, NEW p \in Picks, NEW r \in Job, job' = [job EXCEPT ![p] = r]
  PROVE  job' \in [Picks -> Job] /\ job'[p] = r /\ \A q \in Picks : q # p => job'[q] = job[q]
  BY PhotoRecords

\* An upload is in phase ph with URL w, of the same user as before.
Moved(p, ph, w) ==
  /\ job' \in [Picks -> Job]
  /\ job'[p].of = job[p].of /\ job'[p].phase = ph /\ job'[p].url = w
  /\ \A q \in Picks : q # p => job'[q] = job[q]

\* The ways the actions change an upload.
LEMMA JobMoved ==
  ASSUME PhotoTypeOK, NEW p \in Picks, NEW ph \in JobPhases, NEW w \in Photos \cup {NoPhoto},
         \/ job' = [job EXCEPT ![p].phase = ph] /\ w = job[p].url
         \/ job' = [job EXCEPT ![p].phase = ph, ![p].url = w]
         \/ job' = Ended(p, ph) /\ w = NoPhoto
  PROVE  Moved(p, ph, w)
<1>1. job[p] \in Job /\ job \in [Picks -> Job]
  BY PhotoRecords
<1>2. CASE job' = [job EXCEPT ![p].phase = ph] /\ w = job[p].url
  <2>1. PICK r : r = [job[p] EXCEPT !.phase = ph]
    OBVIOUS
  <2>2. r \in Job /\ r.of = job[p].of /\ r.phase = ph /\ r.url = w
    BY <1>1, <1>2, <2>1 DEF Job
  <2>3. job' = [job EXCEPT ![p] = r]
    BY <1>2, <2>1
  <2> QED
    BY <2>2, <2>3, JobReplaced DEF Moved
<1>3. CASE job' = [job EXCEPT ![p].phase = ph, ![p].url = w]
  <2>1. PICK r : r = [job[p] EXCEPT !.phase = ph, !.url = w]
    OBVIOUS
  <2>2. r \in Job /\ r.of = job[p].of /\ r.phase = ph /\ r.url = w
    BY <1>1, <2>1 DEF Job
  <2>3. job' = [job EXCEPT ![p] = r]
    BY <1>1, <1>3, <2>1 DEF Job
  <2> QED
    BY <2>2, <2>3, JobReplaced DEF Moved
<1>4. CASE job' = Ended(p, ph) /\ w = NoPhoto
  <2>1. PICK r : r = [job[p] EXCEPT !.phase = ph, !.url = NoPhoto]
    OBVIOUS
  <2>2. r \in Job /\ r.of = job[p].of /\ r.phase = ph /\ r.url = w
    BY <1>1, <1>4, <2>1 DEF Job
  <2>3. job' = [job EXCEPT ![p] = r]
    BY <1>4, <2>1 DEF Ended
  <2> QED
    BY <2>2, <2>3, JobReplaced DEF Moved
<1> QED
  BY <1>2, <1>3, <1>4

\* A step of an upload under way: Storage gets the photo, the document the URL, and
\* a step that may leave the two apart tears the user's uploads.
Advance(p, ph, w) ==
  LET u == job[p].of IN
  /\ Moved(p, ph, w) /\ Uploading(p) /\ ph \in {"put", "url", "writing", "done", "failed"}
  /\ w \in {job[p].url, stored[u], NoPhoto}
  /\ stored' = stored \/ stored' = [stored EXCEPT ![u] = p]
  /\ avatar' = avatar \/ avatar' = [avatar EXCEPT ![u] = job[p].url]
  /\ torn' \in SUBSET Users /\ torn \subseteq torn'
  /\ u \notin torn' => /\ ph # "failed" => stored'[u] = p
                       /\ ph \in {"url", "writing"} => w = p
                       /\ ph \in {"done", "failed"} => avatar'[u] = stored'[u]
  /\ UNCHANGED <<seen, session, shown, fetch, arrived, raced>>

\* Such a step as the other users see it.
LEMMA AdvanceFacts ==
  ASSUME PhotoTypeOK, NEW p \in Picks, NEW ph, NEW w, Advance(p, ph, w)
  PROVE  /\ job[p].of \in Users /\ Launched(p)' /\ p # NoPhoto
         /\ \A q \in Picks : job'[q].of = job[q].of
         /\ \A q \in Picks : (Launched(q) => Launched(q)') /\ (Uploading(q)' => Uploading(q))
         /\ \A u \in Users : /\ u # job[p].of => stored'[u] = stored[u] /\ avatar'[u] = avatar[u]
                             /\ stored'[u] # stored[u] => u = job[p].of /\ stored'[u] = p
                             /\ avatar'[u] # avatar[u] => u = job[p].of /\ avatar'[u] = job[p].url
                             /\ stored[u] # NoPhoto => stored'[u] # NoPhoto
         /\ stored' \in [Users -> Photos \cup {NoPhoto}]
         /\ avatar' \in [Users -> Photos \cup {NoPhoto}]
<1>1. job[p].phase \notin {"idle", "skipped"} /\ Launched(p)'
  BY DEF Advance, Moved, Uploading, Launched
<1>2. job[p].of \in Users /\ p # NoPhoto /\ p \in Photos /\ job[p].url \in Photos \cup {NoPhoto}
  BY <1>1, PhotoRecords, PhotoFacts DEF Job, PhotoTypeOK
<1>3. \A q \in Picks : job'[q].of = job[q].of
  BY DEF Advance, Moved
<1>4. \A q \in Picks : (Launched(q) => Launched(q)') /\ (Uploading(q)' => Uploading(q))
  BY DEF Advance, Moved, Launched, Uploading
<1>5. /\ stored \in [Users -> Photos \cup {NoPhoto}] /\ avatar \in [Users -> Photos \cup {NoPhoto}]
      /\ stored' = stored \/ stored' = [stored EXCEPT ![job[p].of] = p]
      /\ avatar' = avatar \/ avatar' = [avatar EXCEPT ![job[p].of] = job[p].url]
  BY DEF Advance, PhotoTypeOK
<1>6. /\ stored' \in [Users -> Photos \cup {NoPhoto}]
      /\ \A u \in Users : /\ u # job[p].of => stored'[u] = stored[u]
                          /\ stored'[u] # stored[u] => u = job[p].of /\ stored'[u] = p
                          /\ stored[u] # NoPhoto => stored'[u] # NoPhoto
  BY <1>2, <1>5
<1>7. /\ avatar' \in [Users -> Photos \cup {NoPhoto}]
      /\ \A u \in Users : /\ u # job[p].of => avatar'[u] = avatar[u]
                          /\ avatar'[u] # avatar[u] => u = job[p].of /\ avatar'[u] = job[p].url
  BY <1>2, <1>5
<1> QED
  BY <1>1, <1>2, <1>3, <1>4, <1>6, <1>7

\* Photos, URLs and documents stay with their users.
LEMMA AdvanceOwn ==
  ASSUME PhotoTypeOK, OwnInv, NEW p \in Picks, NEW ph, NEW w, Advance(p, ph, w)
  PROVE  OwnInv'
<1>1. /\ job[p].of \in Users /\ Launched(p)' /\ p # NoPhoto
      /\ \A q \in Picks : job'[q].of = job[q].of
      /\ \A q \in Picks : Launched(q) => Launched(q)'
      /\ \A u \in Users : /\ stored'[u] # stored[u] => u = job[p].of /\ stored'[u] = p
                          /\ avatar'[u] # avatar[u] => u = job[p].of /\ avatar'[u] = job[p].url
                          /\ stored[u] # NoPhoto => stored'[u] # NoPhoto
  BY AdvanceFacts
<1>2. /\ \A q \in Picks : q # p => job'[q].url = job[q].url
      /\ job'[p].url \in {job[p].url, stored[job[p].of], NoPhoto}
  BY DEF Advance, Moved
<1>3. \A u \in Users, q \in Picks : stored'[u] = q => Launched(q)' /\ job'[q].of = u
  BY <1>1 DEF OwnInv
<1>4. \A u \in Users, q \in Picks : avatar'[u] = q => Launched(q)' /\ job'[q].of = u
  BY <1>1 DEF OwnInv
<1>5. \A u \in Users : avatar'[u] # NoPhoto => stored'[u] # NoPhoto
  BY <1>1 DEF OwnInv
<1>6. \A q \in Picks : job'[q].url # NoPhoto => Launched(q)' /\ stored'[job'[q].of] # NoPhoto
  <2>1. \A q \in Picks : Launched(q) => job[q].of \in Users
    BY PhotoRecords
  <2> QED
    BY <1>1, <1>2, <2>1 DEF OwnInv
<1>7. NoPhoto \notin Picks
  BY PhotoFacts
<1>8. \A q, r \in Picks : job'[q].url = r => Launched(r)' /\ job'[r].of = job'[q].of
  BY <1>1, <1>2, <1>7 DEF OwnInv
<1> QED
  BY <1>3, <1>4, <1>5, <1>6, <1>8 DEF OwnInv

\* The document follows Storage.
LEMMA AdvanceUpload ==
  ASSUME PhotoTypeOK, UploadInv, NEW p \in Picks, NEW ph, NEW w, Advance(p, ph, w)
  PROVE  UploadInv'
<1>1. /\ job[p].of \in Users
      /\ \A q \in Picks : job'[q].of = job[q].of
      /\ \A q \in Picks : Uploading(q)' => Uploading(q)
      /\ \A u \in Users : u # job[p].of => stored'[u] = stored[u] /\ avatar'[u] = avatar[u]
  BY AdvanceFacts
<1>2. /\ Uploading(p) /\ torn \subseteq torn' /\ job'[p].phase = ph /\ job'[p].url = w
      /\ ph \in {"put", "url", "writing", "done", "failed"}
      /\ \A q \in Picks : q # p => job'[q] = job[q]
  BY DEF Advance, Moved
<1> SUFFICES ASSUME NEW u \in Users \ torn'
    PROVE /\ \A q, r \in Picks :
               Uploading(q)' /\ Uploading(r)' /\ job'[q].of = u /\ job'[r].of = u => q = r
          /\ \A q \in Picks : Uploading(q)' /\ job'[q].of = u =>
               /\ job'[q].phase = "putting" => avatar'[u] = stored'[u]
               /\ job'[q].phase # "putting" => stored'[u] = q
               /\ job'[q].phase \in {"url", "writing"} => job'[q].url = q
          /\ UploadsRest(u)' => avatar'[u] = stored'[u]
  BY DEF UploadInv
<1>3. u \in Users \ torn
  BY <1>2
<1>4. \A q, r \in Picks :
        Uploading(q)' /\ Uploading(r)' /\ job'[q].of = u /\ job'[r].of = u => q = r
  BY <1>1, <1>3 DEF UploadInv
<1>5. CASE u # job[p].of
  <2>1. UploadsRest(u)' <=> UploadsRest(u)
    BY <1>1, <1>2, <1>5 DEF UploadsRest, Uploading
  <2> QED
    BY <1>1, <1>2, <1>3, <1>4, <1>5, <2>1 DEF UploadInv
<1>6. CASE u = job[p].of
  <2>1. /\ ph # "failed" => stored'[u] = p
        /\ ph \in {"url", "writing"} => w = p
        /\ ph \in {"done", "failed"} => avatar'[u] = stored'[u]
    BY <1>6 DEF Advance
  <2>2. \A q \in Picks : Uploading(q)' /\ job'[q].of = u => q = p
    BY <1>1, <1>2, <1>3, <1>6 DEF UploadInv
  <2>3. UploadsRest(u)' => ph \in {"done", "failed"}
    BY <1>1, <1>2, <1>6 DEF UploadsRest, Uploading
  <2>4. ASSUME NEW q \in Picks, Uploading(q)', job'[q].of = u
        PROVE  /\ job'[q].phase = "putting" => avatar'[u] = stored'[u]
               /\ job'[q].phase # "putting" => stored'[u] = q
               /\ job'[q].phase \in {"url", "writing"} => job'[q].url = q
    <3>1. q = p /\ ph # "failed" /\ ph # "putting"
      BY <1>2, <2>2, <2>4 DEF Uploading
    <3> QED
      BY <1>2, <2>1, <3>1
  <2> QED
    BY <1>4, <2>1, <2>3, <2>4
<1> QED
  BY <1>5, <1>6

\* The screen shows what is stored or a later pick.
LEMMA AdvanceScreen ==
  ASSUME PhotoTypeOK, UploadInv, FetchInv, ScreenInv, NEW p \in Picks, NEW ph, NEW w,
         Advance(p, ph, w)
  PROVE  FetchInv' /\ ScreenInv'
<1>1. /\ job[p].of \in Users
      /\ \A q \in Picks : job'[q].of = job[q].of
      /\ \A q \in Picks : Uploading(q)' => Uploading(q)
      /\ \A u \in Users : /\ u # job[p].of => stored'[u] = stored[u]
                          /\ stored[u] # NoPhoto => stored'[u] # NoPhoto
  BY AdvanceFacts
<1>2. /\ Uploading(p) /\ torn \subseteq torn' /\ job'[p].phase = ph
      /\ \A q \in Picks : q # p => job'[q] = job[q]
      /\ UNCHANGED <<seen, session, shown, fetch, arrived, raced>>
      /\ job[p].of \notin torn' /\ ph # "failed" => stored'[job[p].of] = p
  BY DEF Advance, Moved
<1>3. FetchInv'
  BY <1>1, <1>2 DEF FetchInv, Fetching
<1>4. ScreenInv'
  <2> SUFFICES ASSUME seen # NoUser, ~raced
      PROVE /\ \A n \in 1 .. MaxSessions : Fetching(n) =>
                 /\ n = session /\ fetch[n].of = seen /\ ~arrived
                 /\ \A q \in Picks : Uploading(q)' => job'[q].of # seen
                 /\ fetch[n].phase = "loaded" => fetch[n].photo = stored'[seen]
            /\ arrived => shown.of = seen
            /\ arrived /\ seen \notin torn' =>
                 /\ \A q \in Picks : Uploading(q)' /\ job'[q].of = seen => shown.photo = q
                 /\ \/ shown.photo = stored'[seen]
                    \/ /\ shown.photo \in Picks /\ job'[shown.photo].of = seen
                       /\ job'[shown.photo].phase \in {"putting", "failed"}
    BY <1>2 DEF ScreenInv, Fetching
  <2>0. seen \in Users
    BY DEF PhotoTypeOK, Owners
  <2>1. \A n \in 1 .. MaxSessions : Fetching(n) =>
                 /\ n = session /\ fetch[n].of = seen /\ ~arrived
                 /\ \A q \in Picks : Uploading(q)' => job'[q].of # seen
                 /\ fetch[n].phase = "loaded" => fetch[n].photo = stored'[seen]
    BY <1>1, <1>2, <2>0 DEF ScreenInv
  <2>2. arrived => shown.of = seen
    BY DEF ScreenInv
  <2>3. ASSUME arrived, seen \notin torn'
        PROVE  /\ \A q \in Picks : Uploading(q)' /\ job'[q].of = seen => shown.photo = q
               /\ \/ shown.photo = stored'[seen]
                  \/ /\ shown.photo \in Picks /\ job'[shown.photo].of = seen
                     /\ job'[shown.photo].phase \in {"putting", "failed"}
    <3>1. /\ \A q \in Picks : Uploading(q) /\ job[q].of = seen => shown.photo = q
          /\ \/ shown.photo = stored[seen]
             \/ /\ shown.photo \in Picks /\ job[shown.photo].of = seen
                /\ job[shown.photo].phase \in {"putting", "failed"}
      BY <1>2, <2>3 DEF ScreenInv
    <3>2. \A q \in Picks : Uploading(q)' /\ job'[q].of = seen => shown.photo = q
      BY <1>1, <3>1
    <3>3. CASE job[p].of # seen
      BY <1>1, <1>2, <2>0, <3>1, <3>2, <3>3
    <3>4. CASE job[p].of = seen
      <4>1. shown.photo = p /\ job'[p].of = seen
        BY <1>1, <1>2, <3>1, <3>4
      <4>2. stored'[seen] = p \/ job'[p].phase = "failed"
        BY <1>2, <2>3, <3>4
      <4> QED
        BY <3>2, <4>1, <4>2
    <3> QED
      BY <3>3, <3>4
  <2> QED
    BY <2>1, <2>2, <2>3
<1> QED
  BY <1>3, <1>4

\* The types after a step of an upload.
LEMMA AdvanceType ==
  ASSUME PhotoTypeOK, NEW p \in Picks, NEW ph, NEW w, Advance(p, ph, w),
         UNCHANGED <<user, picker>>, writes' \in [Owners -> Seq(Picks)]
  PROVE  PhotoTypeOK'
<1>1. /\ job' \in [Picks -> Job] /\ torn' \in SUBSET Users
      /\ UNCHANGED <<seen, session, shown, fetch, arrived, raced>>
  BY DEF Advance, Moved
<1>2. /\ stored' \in [Users -> Photos \cup {NoPhoto}] /\ avatar' \in [Users -> Photos \cup {NoPhoto}]
      /\ \A q \in Picks : job'[q].of = job[q].of
      /\ job[p].of \in Users
  BY AdvanceFacts
<1>3. \A q \in Picks : job'[q].phase \notin {"idle", "skipped"} => job'[q].of \in Users
  BY <1>2 DEF Advance, Moved, PhotoTypeOK
<1> QED
  BY <1>1, <1>2, <1>3 DEF PhotoTypeOK, Job, JobPhases

\* Photo p is not in a queue before its last step.
LEMMA NotQueued ==
  ASSUME QueueInv, NEW p \in Picks, job[p].phase # "writing"
  PROVE  \A u \in Owners : \A i \in DOMAIN writes[u] : writes[u][i] # p
  BY DEF QueueInv

\* The steps of an upload before its write is sent keep the invariant.
LEMMA UploadStepKeeps ==
  ASSUME PhotoInv, NEW p \in Picks, UploadStep(p)
  PROVE  PhotoInv'
<1>0. PhotoTypeOK /\ OwnInv /\ QueueInv /\ UploadInv /\ FetchInv /\ ScreenInv
  BY DEF PhotoInv
<1>1. /\ Uploading(p) /\ job[p].phase # "writing"
  BY DEF UploadStep, StorePhoto, AskUrl, UploadFails, UpdateAvatar, Uploading
<1>2. job[p].of \in Users /\ job[p].url \in Photos \cup {NoPhoto} /\ p \in Photos
  BY <1>0, <1>1, PhotoRecords, PhotoFacts DEF Job
<1>3. /\ stored[job[p].of] \in Photos \cup {NoPhoto} /\ stored \in [Users -> Photos \cup {NoPhoto}]
      /\ torn \in SUBSET Users
  BY <1>0, <1>2 DEF PhotoTypeOK
<1>4. job[p].of \notin torn =>
        /\ job[p].phase = "putting" => avatar[job[p].of] = stored[job[p].of]
        /\ job[p].phase # "putting" => stored[job[p].of] = p
        /\ job[p].phase \in {"url", "writing"} => job[p].url = p
  BY <1>0, <1>1, <1>2 DEF UploadInv
<1>5. /\ {"put", "url", "writing", "done", "failed"} \subseteq JobPhases
      /\ UNCHANGED <<user, picker, seen, session, shown, fetch, arrived, raced>>
  BY DEF JobPhases, UploadStep, StorePhoto, AskUrl, UploadFails, UpdateAvatar
<1>6. ASSUME NEW ph, NEW w, Advance(p, ph, w), UNCHANGED writes PROVE PhotoInv'
  <2>1. QueueInv'
    <3>1. \A u \in Owners : \A i \in DOMAIN writes[u] : writes[u][i] # p /\ writes[u][i] \in Picks
      BY <1>0, <1>1, NotQueued DEF PhotoTypeOK
    <3> QED
      BY <1>0, <1>6, <3>1 DEF QueueInv, Advance, Moved
  <2>2. PhotoTypeOK'
    BY <1>0, <1>5, <1>6, AdvanceType DEF PhotoTypeOK
  <2> QED
    BY <1>0, <1>6, <2>1, <2>2, AdvanceOwn, AdvanceUpload, AdvanceScreen DEF PhotoInv
<1>7. CASE StorePhoto(p)
  <2>1. Moved(p, "put", job[p].url)
    BY <1>0, <1>2, <1>5, <1>7, JobMoved DEF StorePhoto
  <2>2. stored'[job[p].of] = p /\ torn' \in SUBSET Users /\ torn \subseteq torn'
    BY <1>2, <1>3, <1>7 DEF StorePhoto
  <2>3. Advance(p, "put", job[p].url)
    BY <1>1, <1>5, <1>7, <2>1, <2>2 DEF StorePhoto, Advance
  <2> QED
    BY <1>6, <1>7, <2>3 DEF StorePhoto
<1>8. CASE AskUrl(p)
  <2>1. Moved(p, "url", stored[job[p].of])
    BY <1>0, <1>3, <1>5, <1>8, JobMoved DEF AskUrl
  <2>2. UNCHANGED <<stored, avatar, writes, torn>> /\ job[p].phase = "put"
    BY <1>8 DEF AskUrl, server
  <2>3. Advance(p, "url", stored[job[p].of])
    BY <1>1, <1>3, <1>4, <1>5, <2>1, <2>2 DEF Advance
  <2> QED
    BY <1>6, <2>2, <2>3
<1>9. CASE UploadFails(p)
  <2>1. Moved(p, "failed", NoPhoto)
    BY <1>0, <1>5, <1>9, JobMoved DEF UploadFails
  <2>2. UNCHANGED <<stored, avatar, writes>>
    BY <1>9 DEF UploadFails, server
  <2>3. /\ torn' \in SUBSET Users /\ torn \subseteq torn'
        /\ job[p].of \notin torn' => job[p].phase = "putting" /\ job[p].of \notin torn
    BY <1>2, <1>3, <1>9 DEF UploadFails
  <2>4. Advance(p, "failed", NoPhoto)
    BY <1>1, <1>4, <1>5, <2>1, <2>2, <2>3 DEF Advance
  <2> QED
    BY <1>6, <2>2, <2>4
<1>10. CASE UpdateAvatar(p)
  <2>1. Moved(p, "writing", job[p].url)
    BY <1>0, <1>2, <1>5, <1>10, JobMoved DEF UpdateAvatar
  <2>2. /\ UNCHANGED <<stored, avatar>> /\ job[p].phase = "url"
        /\ writes' = [writes EXCEPT ![user] = Append(@, p)]
        /\ user \in Owners /\ writes \in [Owners -> Seq(Picks)]
    BY <1>0, <1>10 DEF UpdateAvatar, PhotoTypeOK
  <2>3. /\ torn' \in SUBSET Users /\ torn \subseteq torn'
    BY <1>2, <1>3, <1>10 DEF UpdateAvatar
  <2>4. Advance(p, "writing", job[p].url)
    BY <1>1, <1>4, <1>5, <2>1, <2>2, <2>3 DEF Advance
  <2>5. /\ writes[user] \in Seq(Picks) /\ Append(writes[user], p) \in Seq(Picks)
        /\ writes'[user] = Append(writes[user], p) /\ \A u \in Owners : u # user => writes'[u] = writes[u]
        /\ writes' \in [Owners -> Seq(Picks)]
    <3>1. writes[user] \in Seq(Picks)
      BY <2>2
    <3>2. Append(writes[user], p) \in Seq(Picks)
      BY <3>1
    <3> QED
      BY <2>2, <3>1, <3>2
  <2>6. /\ DOMAIN writes'[user] = 1 .. (Len(writes[user]) + 1)
        /\ DOMAIN writes[user] = 1 .. Len(writes[user]) /\ Len(writes[user]) \in Nat
        /\ writes'[user][Len(writes[user]) + 1] = p
        /\ \A i \in 1 .. Len(writes[user]) : writes'[user][i] = writes[user][i]
    BY <2>5
  <2>7. \A u \in Owners : \A i \in DOMAIN writes'[u] :
          \/ u = user /\ i = Len(writes[user]) + 1 /\ writes'[u][i] = p
          \/ i \in DOMAIN writes[u] /\ writes'[u][i] = writes[u][i]
    BY <2>5, <2>6
  <2>8. \A u \in Owners : \A i \in DOMAIN writes[u] : writes[u][i] # p /\ writes[u][i] \in Picks
    BY <1>0, <1>1, NotQueued DEF PhotoTypeOK
  <2>9. QueueInv'
    <3>1. \A u \in Owners : \A i \in DOMAIN writes'[u] : job'[writes'[u][i]].phase = "writing"
      BY <1>0, <2>1, <2>7, <2>8 DEF QueueInv, Moved
    <3>2. ASSUME NEW u \in Owners, NEW v \in Owners, NEW i \in DOMAIN writes'[u],
                 NEW j \in DOMAIN writes'[v], writes'[u][i] = writes'[v][j]
          PROVE  u = v /\ i = j
      BY <1>0, <2>7, <2>8, <3>2 DEF QueueInv
    <3> QED
      BY <3>1, <3>2 DEF QueueInv
  <2>10. PhotoTypeOK'
    BY <1>0, <1>5, <2>4, <2>5, AdvanceType
  <2> QED
    BY <1>0, <2>4, <2>9, <2>10, AdvanceOwn, AdvanceUpload, AdvanceScreen DEF PhotoInv
<1> QED
  BY <1>7, <1>8, <1>9, <1>10 DEF UploadStep

\* Firestore sends the write of an avatar, or it is rejected.
LEMMA SendKeeps ==
  ASSUME PhotoInv, SendWrite
  PROVE  PhotoInv'
<1>0. PhotoTypeOK /\ OwnInv /\ QueueInv /\ UploadInv /\ FetchInv /\ ScreenInv
  BY DEF PhotoInv
<1>1. /\ user \in Owners /\ writes \in [Owners -> Seq(Picks)] /\ writes[user] # <<>>
      /\ writes[user] \in Seq(Picks)
      /\ writes' = [writes EXCEPT ![user] = Tail(@)]
      /\ torn \in SUBSET Users
  BY <1>0 DEF PhotoTypeOK, SendWrite
<1>2. PICK q \in Seq(Picks) : q = writes[user] /\ q # <<>>
  BY <1>1
<1>3. /\ Head(q) \in Picks /\ Head(q) = q[1] /\ Tail(q) \in Seq(Picks)
      /\ DOMAIN q = 1 .. Len(q) /\ Len(q) \in Nat \ {0}
      /\ DOMAIN Tail(q) = 1 .. (Len(q) - 1)
      /\ \A i \in 1 .. (Len(q) - 1) : Tail(q)[i] = q[i + 1] /\ i + 1 \in 1 .. Len(q) /\ i + 1 # 1
      /\ 1 \in 1 .. Len(q)
  BY <1>2
<1>4. PICK p \in Picks : p = Head(writes[user]) /\ p = writes[user][1] /\ 1 \in DOMAIN writes[user]
  BY <1>2, <1>3
<1>5. job[p].phase = "writing" /\ Uploading(p)
  BY <1>0, <1>1, <1>4 DEF QueueInv, Uploading
<1>6. job[p].of \in Users /\ job[p].url \in Photos \cup {NoPhoto} /\ p \in Photos
  BY <1>0, <1>5, PhotoRecords, PhotoFacts DEF Launched, Job
<1>7. job[p].of \notin torn => stored[job[p].of] = p /\ job[p].url = p
  BY <1>0, <1>5, <1>6 DEF UploadInv
<1>8. PICK ph \in {"done", "failed"} : Advance(p, ph, NoPhoto)
  <2>1. /\ UNCHANGED <<user, picker, seen, session, shown, fetch, arrived, raced, stored>>
        /\ {"done", "failed"} \subseteq JobPhases
    BY DEF SendWrite, JobPhases
  <2>2. \/ /\ avatar' = [avatar EXCEPT ![job[p].of] = job[p].url]
           /\ job' = Ended(p, "done") /\ UNCHANGED torn
        \/ /\ job' = Ended(p, "failed") /\ torn' = torn \cup {job[p].of} /\ UNCHANGED avatar
    BY <1>4 DEF SendWrite, DocumentOf
  <2>3. CASE /\ avatar' = [avatar EXCEPT ![job[p].of] = job[p].url]
             /\ job' = Ended(p, "done") /\ UNCHANGED torn
    <3>1. Moved(p, "done", NoPhoto)
      BY <1>0, <2>1, <2>3, JobMoved
    <3>2. avatar'[job[p].of] = job[p].url
      BY <1>0, <1>6, <2>3 DEF PhotoTypeOK
    <3>3. Advance(p, "done", NoPhoto)
      BY <1>1, <1>5, <1>7, <2>1, <2>3, <3>1, <3>2 DEF Advance
    <3> QED
      BY <3>3
  <2>4. CASE job' = Ended(p, "failed") /\ torn' = torn \cup {job[p].of} /\ UNCHANGED avatar
    <3>1. Moved(p, "failed", NoPhoto)
      BY <1>0, <2>1, <2>4, JobMoved
    <3>2. Advance(p, "failed", NoPhoto)
      BY <1>1, <1>5, <1>6, <2>1, <2>4, <3>1 DEF Advance
    <3> QED
      BY <3>2
  <2> QED
    BY <2>2, <2>3, <2>4
<1>9. /\ writes'[user] = Tail(writes[user]) /\ \A u \in Owners : u # user => writes'[u] = writes[u]
      /\ writes' \in [Owners -> Seq(Picks)]
  <2>1. Tail(writes[user]) \in Seq(Picks)
    BY <1>2, <1>3
  <2> QED
    BY <1>1, <2>1
<1>10. \A u \in Owners : \A i \in DOMAIN writes'[u] :
         \E k \in DOMAIN writes[u] : /\ writes'[u][i] = writes[u][k] /\ k = (IF u = user THEN i + 1 ELSE i)
                                     /\ u = user => i \in Nat /\ k # 1
  <2> SUFFICES ASSUME NEW u \in Owners, NEW i \in DOMAIN writes'[u]
               PROVE  \E k \in DOMAIN writes[u] : /\ writes'[u][i] = writes[u][k]
                                                  /\ k = (IF u = user THEN i + 1 ELSE i)
                                                  /\ u = user => i \in Nat /\ k # 1
    OBVIOUS
  <2>1. CASE u = user
    <3>1. i \in 1 .. (Len(q) - 1)
      BY <1>2, <1>3, <1>9, <2>1
    <3>2. i \in Nat
      BY <1>3, <3>1
    <3> QED
      BY <1>2, <1>3, <1>9, <2>1, <3>1, <3>2
  <2>2. CASE u # user
    BY <1>9, <2>2
  <2> QED
    BY <2>1, <2>2
<1>11. \A u \in Owners : \A i \in DOMAIN writes'[u] : writes'[u][i] # p /\ writes'[u][i] \in Picks
  BY <1>0, <1>1, <1>4, <1>10 DEF QueueInv
<1>12. QueueInv'
  <2>1. \A u \in Owners : \A i \in DOMAIN writes'[u] : job'[writes'[u][i]].phase = "writing"
    <3>1. \A r \in Picks : r # p => job'[r] = job[r]
      BY <1>8 DEF Advance, Moved
    <3>2. \A u \in Owners : \A i \in DOMAIN writes'[u] : job[writes'[u][i]].phase = "writing"
      BY <1>0, <1>10 DEF QueueInv
    <3> QED
      BY <1>11, <3>1, <3>2
  <2>2. ASSUME NEW u \in Owners, NEW v \in Owners, NEW i \in DOMAIN writes'[u],
               NEW j \in DOMAIN writes'[v], writes'[u][i] = writes'[v][j]
        PROVE  u = v /\ i = j
    <3>1. PICK k \in DOMAIN writes[u] : /\ writes'[u][i] = writes[u][k]
                                        /\ k = (IF u = user THEN i + 1 ELSE i) /\ (u = user => i \in Nat)
      BY <1>10
    <3>2. PICK l \in DOMAIN writes[v] : /\ writes'[v][j] = writes[v][l]
                                        /\ l = (IF v = user THEN j + 1 ELSE j) /\ (v = user => j \in Nat)
      BY <1>10
    <3>3. u = v /\ k = l
      <4>1. writes[u][k] = writes[v][l]
        BY <2>2, <3>1, <3>2
      <4>2. \A x, y \in Owners : \A c \in DOMAIN writes[x], d \in DOMAIN writes[y] :
              writes[x][c] = writes[y][d] => x = y /\ c = d
        BY <1>0 DEF QueueInv
      <4> QED
        BY <4>1, <4>2
    <3> QED
      BY <3>1, <3>2, <3>3
  <2> QED
    BY <2>1, <2>2 DEF QueueInv
<1>13. PhotoTypeOK'
  BY <1>0, <1>8, <1>9, AdvanceType DEF SendWrite
<1> QED
  BY <1>0, <1>8, <1>12, <1>13, AdvanceOwn, AdvanceUpload, AdvanceScreen DEF PhotoInv

-----------------------------------------------------------------------------
(* Picks, sessions and downloads.                                          *)

\* A step that leaves the uploads alone.
LEMMA UploadsKept ==
  ASSUME OwnInv, QueueInv, UploadInv, UNCHANGED <<stored, avatar, job, writes, torn>>
  PROVE  OwnInv' /\ QueueInv' /\ UploadInv'
<1>1. OwnInv'
  BY DEF OwnInv, Launched
<1>2. QueueInv'
  BY DEF QueueInv
<1>3. UploadInv'
  BY DEF UploadInv, Uploading, UploadsRest
<1> QED
  BY <1>1, <1>2, <1>3

\* A picked photo is on the screen and nowhere else yet.
LEMMA PickKeeps ==
  ASSUME PhotoInv, NEW p \in Picks, PickPhoto(p)
  PROVE  PhotoInv'
<1>0. PhotoTypeOK /\ OwnInv /\ QueueInv /\ UploadInv /\ FetchInv /\ ScreenInv
  BY DEF PhotoInv
<1>1. /\ job[p].phase = "idle" /\ user \in Owners /\ picker' = FALSE
      /\ shown' = [of |-> user, photo |-> p]
      /\ UNCHANGED <<arrived, user, seen, session, stored, avatar, writes, fetch>>
  BY <1>0 DEF PickPhoto, server, PhotoTypeOK
<1>2. PICK r \in Job : r = [NoJob EXCEPT !.of = user, !.phase = StartUpload]
  <2>1. StartUpload \in JobPhases
    BY DEF StartUpload, JobPhases
  <2>2. NoJob \in Job
    BY PhotoFacts DEF Job, NoJob, JobPhases
  <2>3. [NoJob EXCEPT !.of = user, !.phase = StartUpload] \in Job
    BY <1>1, <2>1, <2>2 DEF Job
  <2> QED
    BY <2>3
<1>3. /\ r.of = user /\ r.url = NoPhoto
      /\ r.phase = IF user = NoUser THEN "skipped" ELSE "putting"
  BY <1>2 DEF NoJob, StartUpload
<1>4. job' \in [Picks -> Job] /\ job'[p] = r /\ \A q \in Picks : q # p => job'[q] = job[q]
  BY <1>0, <1>2, JobReplaced DEF PickPhoto
<1>5. \A q \in Picks : Launched(q) => q # p /\ Launched(q)' /\ job'[q].of = job[q].of
  BY <1>1, <1>4 DEF Launched
<1>6. /\ ~Uploading(p) /\ (Uploading(p)' <=> user # NoUser)
      /\ \A q \in Picks : q # p => (Uploading(q)' <=> Uploading(q))
  BY <1>1, <1>3, <1>4 DEF Uploading
<1>7. NoPhoto \notin Picks /\ Picks \subseteq Photos /\ NoUser \notin Users
  BY PhotoFacts
<1>8. OwnInv'
  <2>1. \A q \in Picks : job'[q].url # NoPhoto => q # p /\ Launched(q)' /\ stored[job[q].of] # NoPhoto
    BY <1>0, <1>3, <1>4, <1>5 DEF OwnInv
  <2>2. \A q, s \in Picks : job'[q].url = s => Launched(s)' /\ job'[s].of = job'[q].of
    BY <1>0, <1>3, <1>4, <1>5, <1>7 DEF OwnInv
  <2>3. \A u \in Users, q \in Picks : stored'[u] = q => Launched(q)' /\ job'[q].of = u
    BY <1>0, <1>1, <1>5 DEF OwnInv
  <2>6. \A u \in Users, q \in Picks : avatar'[u] = q => Launched(q)' /\ job'[q].of = u
    BY <1>0, <1>1, <1>5 DEF OwnInv
  <2>4. \A q \in Picks : job'[q].url # NoPhoto => Launched(q)' /\ stored'[job'[q].of] # NoPhoto
    BY <1>1, <1>4, <2>1
  <2>5. \A u \in Users : avatar'[u] # NoPhoto => stored'[u] # NoPhoto
    BY <1>0, <1>1 DEF OwnInv
  <2> QED
    BY <2>2, <2>3, <2>4, <2>5, <2>6 DEF OwnInv
<1>9. QueueInv'
  <2>1. \A u \in Owners : \A i \in DOMAIN writes[u] : writes[u][i] # p /\ writes[u][i] \in Picks
    <3>1. job[p].phase # "writing"
      BY <1>1
    <3>2. \A u \in Owners : \A i \in DOMAIN writes[u] : writes[u][i] \in Picks
      BY <1>0 DEF PhotoTypeOK
    <3> QED
      BY <1>0, <3>1, <3>2, NotQueued
  <2> QED
    BY <1>0, <1>1, <1>4, <2>1 DEF QueueInv
<1>10. /\ torn' \in SUBSET Users /\ torn \subseteq torn'
       /\ user \in Users \ torn' => \A q \in Picks : Uploading(q) => job[q].of # user
  <2>1. \A q \in Picks : Uploading(q) => job[q].of \in Users
    BY <1>0, PhotoRecords
  <2> QED
    BY <1>0, <2>1 DEF PickPhoto, PhotoTypeOK
<1>11. UploadInv'
  <2> SUFFICES ASSUME NEW u \in Users \ torn'
      PROVE /\ \A q, s \in Picks :
                 Uploading(q)' /\ Uploading(s)' /\ job'[q].of = u /\ job'[s].of = u => q = s
            /\ \A q \in Picks : Uploading(q)' /\ job'[q].of = u =>
                 /\ job'[q].phase = "putting" => avatar[u] = stored[u]
                 /\ job'[q].phase # "putting" => stored[u] = q
                 /\ job'[q].phase \in {"url", "writing"} => job'[q].url = q
            /\ UploadsRest(u)' => avatar[u] = stored[u]
    BY <1>1 DEF UploadInv
  <2>1. u \in Users \ torn
    BY <1>10
  <2>2. CASE u = user
    <3>1. \A q \in Picks : job[q].of = u => ~Uploading(q)
      BY <1>10, <2>2
    <3>2. avatar[u] = stored[u]
      BY <1>0, <2>1, <3>1 DEF UploadInv, UploadsRest
    <3>3. \A q \in Picks : Uploading(q)' /\ job'[q].of = u => q = p /\ job'[q].phase = "putting"
      BY <1>3, <1>4, <1>6, <1>7, <2>2, <3>1
    <3> QED
      BY <3>2, <3>3
  <2>3. CASE u # user
    <3>1. \A q \in Picks : job'[q].of = u => q # p
      BY <1>3, <1>4, <2>3
    <3>2. UploadsRest(u)' => UploadsRest(u)
      BY <1>4, <1>6 DEF UploadsRest
    <3> QED
      BY <1>0, <1>4, <1>6, <2>1, <3>1, <3>2 DEF UploadInv
  <2> QED
    BY <2>2, <2>3
<1>12. FetchInv'
  BY <1>0, <1>1 DEF FetchInv, Fetching
<1>13. ScreenInv'
  <2> SUFFICES ASSUME seen # NoUser, ~raced' PROVE ScreenInv'
    BY <1>1 DEF ScreenInv
  <2>1. user = seen /\ \A n \in 1 .. session : ~Fetching(n)
    BY Zenon DEF PickPhoto
  <2>2. \A n \in 1 .. MaxSessions : ~Fetching(n)
    BY <1>0, <2>1 DEF FetchInv, PhotoTypeOK
  <2>3. shown'.of = seen /\ shown'.photo = p /\ job'[p].of = seen /\ job'[p].phase = "putting"
    BY <1>1, <1>3, <1>4, <2>1
  <2>4. seen \in Users
    BY <1>0 DEF PhotoTypeOK, Owners
  <2>5. seen \notin torn' => \A q \in Picks : Uploading(q)' /\ job'[q].of = seen => q = p
    BY <1>4, <1>6, <1>10, <2>1, <2>4
  <2> QED
    BY <1>1, <2>2, <2>3, <2>5 DEF ScreenInv, Fetching
<1>14. PhotoTypeOK'
  <2>1. raced' \in BOOLEAN
    BY Zenon DEF PickPhoto
  <2>2. shown' \in {NoImage} \cup [of : Owners, photo : Photos]
    BY <1>1, <1>7
  <2>3. \A q \in Picks : job'[q].phase \notin {"idle", "skipped"} => job'[q].of \in Users
    BY <1>0, <1>1, <1>3, <1>4 DEF PhotoTypeOK, Owners
  <2> QED
    BY <1>0, <1>1, <1>4, <1>10, <2>1, <2>2, <2>3 DEF PhotoTypeOK, Job, JobPhases
<1> QED
  BY <1>8, <1>9, <1>11, <1>12, <1>13, <1>14 DEF PhotoInv

\* Signing in and out, and opening and closing the picker.
LEMMA SessionKeeps ==
  ASSUME PhotoInv,
         \/ \E u \in Users : SignIn(u)
         \/ LogOut \/ ListenerOut \/ OpenPicker \/ CancelPicker \/ UNCHANGED vars
  PROVE  PhotoInv'
<1>0. PhotoTypeOK /\ OwnInv /\ QueueInv /\ UploadInv /\ FetchInv /\ ScreenInv
  BY DEF PhotoInv
<1>1. /\ UNCHANGED <<arrived, session, shown, stored, avatar, writes, job, fetch, torn, raced>>
      /\ user' \in Owners /\ picker' \in BOOLEAN
      /\ seen' \in {NoUser, seen}
  BY <1>0, PhotoFacts DEF SignIn, LogOut, ListenerOut, OpenPicker, CancelPicker, vars, server, PhotoTypeOK
<1>2. PhotoTypeOK'
  BY <1>0, <1>1 DEF PhotoTypeOK, Owners
<1>3. FetchInv'
  BY <1>0, <1>1 DEF FetchInv, Fetching
<1>4. ScreenInv'
  BY <1>0, <1>1 DEF ScreenInv, Fetching, Uploading
<1> QED
  BY <1>0, <1>1, <1>2, <1>3, <1>4, UploadsKept DEF PhotoInv

\* One download is replaced, the others stay.
LEMMA FetchReplaced ==
  ASSUME PhotoTypeOK, NEW n \in 1 .. MaxSessions, NEW r \in Fetch, fetch' = [fetch EXCEPT ![n] = r]
  PROVE  /\ fetch' \in [1 .. MaxSessions -> Fetch] /\ fetch'[n] = r
         /\ \A m \in 1 .. MaxSessions : m # n => fetch'[m] = fetch[m]
  BY PhotoRecords

\* A session begins: its download is the only one, unless the state says raced.
LEMMA ListenerKeeps ==
  ASSUME PhotoInv, ListenerIn
  PROVE  PhotoInv'
<1>0. PhotoTypeOK /\ OwnInv /\ QueueInv /\ UploadInv /\ FetchInv /\ ScreenInv
  BY DEF PhotoInv
<1>1. /\ user \in Users /\ seen' = user /\ session \in Nat /\ session' = session + 1 /\ arrived' = FALSE
      /\ session + 1 \in 1 .. MaxSessions /\ session + 1 \in 0 .. MaxSessions
      /\ UNCHANGED <<user, picker, shown, stored, avatar, writes, job, torn>>
  BY <1>0, PhotoAssumption DEF ListenerIn, PhotoTypeOK, Owners, server
<1>2. PICK r \in Fetch : /\ r = [NoFetch EXCEPT !.of = user, !.phase = "reading"]
                         /\ r.of = user /\ r.phase = "reading"
  <2>1. NoFetch \in Fetch
    BY PhotoFacts DEF Fetch, NoFetch
  <2>2. PICK r : r = [NoFetch EXCEPT !.of = user, !.phase = "reading"]
    OBVIOUS
  <2>3. r \in Fetch /\ r.of = user /\ r.phase = "reading"
    BY <1>1, <2>1, <2>2 DEF Fetch, Owners
  <2> QED
    BY <2>2, <2>3
<1>3. /\ fetch' \in [1 .. MaxSessions -> Fetch] /\ fetch'[session + 1] = r
      /\ \A m \in 1 .. MaxSessions : m # session + 1 => fetch'[m] = fetch[m]
  BY <1>0, <1>1, <1>2, FetchReplaced DEF ListenerIn
<1>4. PhotoTypeOK'
  <2>1. raced' \in BOOLEAN
    BY Zenon DEF ListenerIn
  <2>2. session' \in 0 .. MaxSessions /\ arrived' \in BOOLEAN
    BY <1>1
  <2> QED
    BY <1>0, <1>1, <1>3, <2>1, <2>2 DEF PhotoTypeOK, Fetch
<1>5. FetchInv'
  <2> SUFFICES ASSUME NEW n \in 1 .. MaxSessions
               PROVE  /\ Fetching(n)' => n <= session' /\ fetch'[n].of \in Users
                      /\ fetch'[n].phase = "loading" => stored'[fetch'[n].of] # NoPhoto
                      /\ fetch'[n].phase = "loaded" => fetch'[n].photo # NoPhoto
    BY DEF FetchInv
  <2>1. CASE n = session + 1
    <3>1. fetch'[n] = r /\ n <= session'
      BY <1>1, <1>3, <2>1
    <3> QED
      BY <1>1, <1>2, <3>1
  <2>2. CASE n # session + 1
    <3>1. n \in Nat /\ fetch'[n] = fetch[n]
      BY <1>3, <2>2
    <3>2. Fetching(n) => n <= session
      BY <1>0 DEF FetchInv
    <3>3. Fetching(n)' => n <= session'
      BY <1>1, <3>1, <3>2 DEF Fetching
    <3> QED
      BY <1>0, <1>1, <3>1, <3>3 DEF FetchInv, Fetching
  <2> QED
    BY <2>1, <2>2
<1>6. ScreenInv'
  <2> SUFFICES ASSUME ~raced'
               PROVE  \A n \in 1 .. MaxSessions : Fetching(n)' =>
                        /\ n = session + 1 /\ fetch'[n].of = user
                        /\ \A p \in Picks : Uploading(p)' => job'[p].of # user
                        /\ fetch'[n].phase # "loaded"
    BY <1>1 DEF ScreenInv
  <2>1. /\ \A n \in 1 .. session : ~Fetching(n)
        /\ \A p \in Picks : Uploading(p) => job[p].of # user
    BY Zenon DEF ListenerIn
  <2>2. \A n \in 1 .. MaxSessions : ~Fetching(n)
    BY <1>0, <2>1 DEF FetchInv, PhotoTypeOK
  <2> QED
    BY <1>1, <1>2, <1>3, <2>1, <2>2 DEF Fetching, Uploading
<1> QED
  BY <1>0, <1>1, <1>4, <1>5, <1>6, UploadsKept DEF PhotoInv

\* An avatar that forms a URL is stored.
LEMMA LocalAvatarStored ==
  ASSUME PhotoTypeOK, OwnInv, NEW u \in Users, HasLocalAvatar(u)
  PROVE  stored[u] # NoPhoto
<1>1. NoPhoto \notin Photos /\ writes[user] \in Seq(Picks)
  BY PhotoFacts DEF PhotoTypeOK
<1>2. CASE avatar[u] \in Photos
  BY <1>1, <1>2 DEF OwnInv
<1>3. ASSUME NEW i \in DOMAIN writes[user], job[writes[user][i]].of = u,
             job[writes[user][i]].url \in Photos
      PROVE  stored[u] # NoPhoto
  <2>1. writes[user][i] \in Picks
    BY <1>1
  <2> QED
    BY <1>1, <1>3, <2>1 DEF OwnInv
<1> QED
  BY <1>2, <1>3 DEF HasLocalAvatar

\* The steps of a download keep the invariant.
LEMMA FetchKeeps ==
  ASSUME PhotoInv, NEW n \in 1 .. MaxSessions, FetchStep(n)
  PROVE  PhotoInv'
<1>0. PhotoTypeOK /\ OwnInv /\ QueueInv /\ UploadInv /\ FetchInv /\ ScreenInv
  BY DEF PhotoInv
<1>1. /\ UNCHANGED <<user, seen, session, picker, stored, avatar, writes, job, torn, raced>>
      /\ fetch[n] \in Fetch /\ fetch \in [1 .. MaxSessions -> Fetch] /\ Fetching(n)
      /\ stored \in [Users -> Photos \cup {NoPhoto}]
  BY <1>0, PhotoRecords
     DEF FetchStep, ReadAvatar, ServeAvatar, FetchFails, ShowAvatar, server, Fetching, PhotoTypeOK
<1>2. fetch[n].of \in Users
  BY <1>0, <1>1 DEF FetchInv
<1>3. NoFetch \in Fetch /\ NoFetch.phase = "none"
  BY PhotoFacts DEF Fetch, NoFetch
\* The download goes on or ends; the view changes only when it has come.
<1>4. PICK r \in Fetch :
        /\ fetch' = [fetch EXCEPT ![n] = r]
        /\ r.phase # "none" => r.of = fetch[n].of
        /\ r.phase = "loading" => stored[fetch[n].of] # NoPhoto
        /\ r.phase = "loaded" => r.photo # NoPhoto /\ r.photo = stored[fetch[n].of]
        /\ \/ UNCHANGED <<shown, arrived>>
           \/ r.phase = "none" /\ ShowAvatar(n)
  <2>1. CASE ReadAvatar(n)
    <3>1. CASE HasLocalAvatar(fetch[n].of)
      <4>1. PICK r : r = [fetch[n] EXCEPT !.phase = "loading"]
        OBVIOUS
      <4>2. r \in Fetch /\ r.of = fetch[n].of /\ r.phase = "loading"
        BY <1>1, <4>1 DEF Fetch
      <4>3. fetch' = [fetch EXCEPT ![n] = r] /\ UNCHANGED <<shown, arrived>>
        BY <2>1, <3>1, <4>1 DEF ReadAvatar
      <4> QED
        BY <1>0, <1>2, <3>1, <4>2, <4>3, LocalAvatarStored
    <3>2. CASE ~HasLocalAvatar(fetch[n].of)
      <4>1. fetch' = [fetch EXCEPT ![n] = NoFetch] /\ UNCHANGED <<shown, arrived>>
        BY <2>1, <3>2 DEF ReadAvatar
      <4> QED
        BY <1>3, <4>1
    <3> QED
      BY <3>1, <3>2
  <2>2. CASE ServeAvatar(n)
    <3>1. PICK r : r = [fetch[n] EXCEPT !.phase = "loaded", !.photo = stored[fetch[n].of]]
      OBVIOUS
    <3>2. stored[fetch[n].of] \in Photos \cup {NoPhoto} /\ stored[fetch[n].of] # NoPhoto
      BY <1>0, <1>1, <1>2, <2>2 DEF ServeAvatar, FetchInv
    <3>3. /\ r \in Fetch /\ r.of = fetch[n].of /\ r.phase = "loaded"
          /\ r.photo = stored[fetch[n].of]
      BY <1>1, <3>1, <3>2 DEF Fetch
    <3>4. fetch' = [fetch EXCEPT ![n] = r] /\ UNCHANGED <<shown, arrived>>
      BY <1>1, <2>2, <3>1 DEF ServeAvatar, Fetch
    <3> QED
      BY <3>2, <3>3, <3>4
  <2>3. CASE FetchFails(n)
    BY <1>3, <2>3 DEF FetchFails
  <2>4. CASE ShowAvatar(n)
    BY <1>3, <2>4 DEF ShowAvatar
  <2> QED
    BY <2>1, <2>2, <2>3, <2>4 DEF FetchStep
<1>5. /\ fetch' \in [1 .. MaxSessions -> Fetch] /\ fetch'[n] = r
      /\ \A m \in 1 .. MaxSessions : m # n => fetch'[m] = fetch[m]
  BY <1>0, <1>4, FetchReplaced
<1>6. \A m \in 1 .. MaxSessions : Fetching(m)' => Fetching(m) /\ fetch'[m].of = fetch[m].of
  BY <1>1, <1>4, <1>5 DEF Fetching
<1>7. FetchInv'
  BY <1>0, <1>1, <1>2, <1>4, <1>5, <1>6 DEF FetchInv
<1>8. CASE UNCHANGED <<shown, arrived>>
  <2>1. PhotoTypeOK'
    BY <1>0, <1>1, <1>5, <1>8 DEF PhotoTypeOK, Fetch
  <2>2. ScreenInv'
    <3> SUFFICES ASSUME seen # NoUser, ~raced PROVE ScreenInv'
      BY <1>1 DEF ScreenInv
    <3>1. \A m \in 1 .. MaxSessions : Fetching(m)' =>
            /\ m = session' /\ fetch'[m].of = seen' /\ ~arrived'
            /\ \A p \in Picks : Uploading(p)' => job'[p].of # seen'
            /\ fetch'[m].phase = "loaded" => fetch'[m].photo = stored'[seen']
      <4> SUFFICES ASSUME NEW m \in 1 .. MaxSessions, Fetching(m)'
                   PROVE  /\ m = session /\ fetch'[m].of = seen /\ ~arrived
                          /\ \A p \in Picks : Uploading(p) => job[p].of # seen
                          /\ fetch'[m].phase = "loaded" => fetch'[m].photo = stored[seen]
        BY <1>1, <1>8 DEF Uploading
      <4>1. /\ m = session /\ fetch'[m].of = seen /\ fetch[m].of = seen /\ ~arrived
            /\ \A p \in Picks : Uploading(p) => job[p].of # seen
            /\ fetch[m].phase = "loaded" => fetch[m].photo = stored[seen]
        BY <1>0, <1>6 DEF ScreenInv
      <4> QED
        BY <1>4, <1>5, <4>1
    <3> QED
      BY <1>0, <1>1, <1>8, <3>1 DEF ScreenInv, Uploading
  <2> QED
    BY <1>0, <1>1, <1>7, <2>1, <2>2, UploadsKept DEF PhotoInv
<1>9. CASE r.phase = "none" /\ ShowAvatar(n)
  <2>1. /\ fetch[n].phase = "loaded" /\ shown' = [of |-> fetch[n].of, photo |-> fetch[n].photo]
        /\ arrived' \in BOOLEAN /\ (n = session => arrived')
    BY <1>9 DEF ShowAvatar, IntoView
  <2>2. fetch[n].photo \in Photos
    BY <1>0, <1>1, <2>1 DEF FetchInv, Fetch
  <2>3. PhotoTypeOK'
    <3>1. shown' \in [of : Owners, photo : Photos]
      BY <1>2, <2>1, <2>2, PhotoFacts
    <3> QED
      BY <1>0, <1>1, <1>5, <2>1, <3>1 DEF PhotoTypeOK, Fetch
  <2>4. ScreenInv'
    <3> SUFFICES ASSUME seen # NoUser, ~raced PROVE ScreenInv'
      BY <1>1 DEF ScreenInv
    <3>1. /\ n = session /\ fetch[n].of = seen /\ fetch[n].photo = stored[seen]
          /\ \A p \in Picks : Uploading(p) => job[p].of # seen
          /\ \A m \in 1 .. MaxSessions : Fetching(m) => m = session
      BY <1>0, <1>1, <2>1 DEF ScreenInv
    <3>2. \A m \in 1 .. MaxSessions : ~Fetching(m)'
      BY <1>5, <1>6, <1>9, <3>1 DEF Fetching
    <3>3. shown'.of = seen' /\ shown'.photo = stored'[seen']
      BY <1>1, <2>1, <3>1
    <3>4. \A p \in Picks : Uploading(p)' => job'[p].of # seen'
      BY <1>1, <3>1 DEF Uploading
    <3> QED
      BY <3>2, <3>3, <3>4 DEF ScreenInv
  <2> QED
    BY <1>0, <1>1, <1>7, <2>3, <2>4, UploadsKept DEF PhotoInv
<1> QED
  BY <1>4, <1>8, <1>9

\* The process ends: what was not yet written is cut short.
LEMMA RelaunchKeeps ==
  ASSUME PhotoInv, Relaunch
  PROVE  PhotoInv'
<1>0. PhotoTypeOK /\ OwnInv /\ QueueInv /\ UploadInv /\ FetchInv /\ ScreenInv
  BY DEF PhotoInv
<1>1. /\ UNCHANGED <<arrived, user, session, stored, avatar, writes>>
      /\ seen' = NoUser /\ picker' = FALSE /\ shown' = NoImage /\ raced' = FALSE
      /\ fetch' = [n \in 1 .. MaxSessions |-> NoFetch]
      /\ job \in [Picks -> Job]
  BY <1>0, PhotoRecords DEF Relaunch, server
<1>2. ASSUME NEW p \in Picks
      PROVE  /\ job'[p] \in Job /\ job'[p].of = job[p].of
             /\ job[p].phase \in {"putting", "put", "url"} =>
                  job'[p].phase = "failed" /\ job'[p].url = NoPhoto
             /\ job[p].phase \notin {"putting", "put", "url"} => job'[p] = job[p]
  <2>1. CASE job[p].phase \in {"putting", "put", "url"}
    <3>1. PICK r : r = [job[p] EXCEPT !.phase = "failed", !.url = NoPhoto]
      OBVIOUS
    <3>2. r \in Job /\ r.of = job[p].of /\ r.phase = "failed" /\ r.url = NoPhoto
      BY <1>1, <3>1 DEF Job, JobPhases
    <3>3. job'[p] = r
      BY <1>1, <2>1, <3>1 DEF Relaunch, Ended
    <3> QED
      BY <2>1, <3>2, <3>3
  <2>2. CASE job[p].phase \notin {"putting", "put", "url"}
    BY <1>1, <2>2 DEF Relaunch
  <2> QED
    BY <2>1, <2>2
<1>3. job' \in [Picks -> Job]
  <2>1. DOMAIN job' = Picks /\ job' = [p \in Picks |-> job'[p]]
    BY DEF Relaunch
  <2> QED
    BY <1>2, <2>1
<1>4. \A p \in Picks : Launched(p) => Launched(p)'
  BY <1>2 DEF Launched
<1>6. /\ torn' \in SUBSET Users /\ torn \subseteq torn'
      /\ \A p \in Picks : job[p].phase \in {"put", "url"} => job[p].of \in torn'
  <2>1. \A p \in Picks : job[p].phase \in {"put", "url"} => job[p].of \in Users
    BY <1>0 DEF PhotoTypeOK
  <2> QED
    BY <1>0, <2>1 DEF Relaunch, PhotoTypeOK
<1>7. PhotoTypeOK'
  <2>1. NoFetch \in Fetch
    BY PhotoFacts DEF Fetch, NoFetch
  <2>2. \A p \in Picks : job'[p].phase \notin {"idle", "skipped"} => job'[p].of \in Users
    BY <1>0, <1>2 DEF PhotoTypeOK
  <2>3. picker' \in BOOLEAN /\ raced' \in BOOLEAN
    BY <1>1
  <2>4. fetch' \in [1 .. MaxSessions -> Fetch]
    BY <1>1, <2>1
  <2> QED
    BY <1>0, <1>1, <1>3, <1>6, <2>2, <2>3, <2>4 DEF PhotoTypeOK, Job, JobPhases, Fetch, Owners
<1>8. OwnInv'
  <2>1. NoPhoto \notin Picks
    BY PhotoFacts
  <2>2. \A p \in Picks : job'[p].of = job[p].of /\ job'[p].url \in {job[p].url, NoPhoto}
    BY <1>2
  <2>3. \A u \in Users, q \in Picks : stored'[u] = q => Launched(q)' /\ job'[q].of = u
    BY <1>0, <1>1, <1>4, <2>2 DEF OwnInv
  <2>4. \A u \in Users, q \in Picks : avatar'[u] = q => Launched(q)' /\ job'[q].of = u
    BY <1>0, <1>1, <1>4, <2>2 DEF OwnInv
  <2>5. \A u \in Users : avatar'[u] # NoPhoto => stored'[u] # NoPhoto
    BY <1>0, <1>1 DEF OwnInv
  <2>6. \A p \in Picks : job'[p].url # NoPhoto => Launched(p)' /\ stored'[job'[p].of] # NoPhoto
    BY <1>0, <1>1, <1>4, <2>2 DEF OwnInv
  <2>7. \A p, q \in Picks : job'[p].url = q => Launched(q)' /\ job'[q].of = job'[p].of
    BY <1>0, <1>4, <2>1, <2>2 DEF OwnInv
  <2> QED
    BY <2>3, <2>4, <2>5, <2>6, <2>7 DEF OwnInv
<1>9. QueueInv'
  <2>1. \A u \in Owners : \A i \in DOMAIN writes[u] : writes[u][i] \in Picks
    BY <1>0 DEF PhotoTypeOK
  <2> QED
    BY <1>0, <1>1, <1>2, <2>1 DEF QueueInv
<1>10. UploadInv'
  <2> SUFFICES ASSUME NEW u \in Users \ torn'
      PROVE /\ \A q, s \in Picks :
                 Uploading(q)' /\ Uploading(s)' /\ job'[q].of = u /\ job'[s].of = u => q = s
            /\ \A q \in Picks : Uploading(q)' /\ job'[q].of = u =>
                 /\ job'[q].phase = "putting" => avatar[u] = stored[u]
                 /\ job'[q].phase # "putting" => stored[u] = q
                 /\ job'[q].phase \in {"url", "writing"} => job'[q].url = q
            /\ UploadsRest(u)' => avatar[u] = stored[u]
    BY <1>1 DEF UploadInv
  <2>1. u \in Users \ torn
    BY <1>6
  <2>2. \A q \in Picks : Uploading(q)' => Uploading(q) /\ job'[q] = job[q]
    BY <1>2 DEF Uploading
  <2>3. UploadsRest(u)' => avatar[u] = stored[u]
    <3> SUFFICES ASSUME UploadsRest(u)' PROVE avatar[u] = stored[u]
      OBVIOUS
    <3>1. CASE UploadsRest(u)
      BY <1>0, <2>1, <3>1 DEF UploadInv
    <3>2. CASE ~UploadsRest(u)
      <4>1. PICK p \in Picks : job[p].of = u /\ Uploading(p)
        BY <3>2 DEF UploadsRest
      <4>2. ~Uploading(p)'
        BY <1>2, <4>1 DEF UploadsRest
      <4>3. job[p].phase = "putting"
        BY <1>2, <1>6, <4>1, <4>2 DEF Uploading
      <4> QED
        BY <1>0, <2>1, <4>1, <4>3 DEF UploadInv
    <3> QED
      BY <3>1, <3>2
  <2> QED
    BY <1>0, <2>1, <2>2, <2>3 DEF UploadInv
<1>11. FetchInv'
  BY <1>1 DEF FetchInv, Fetching, NoFetch
<1>12. ScreenInv'
  BY <1>1 DEF ScreenInv
<1> QED
  BY <1>7, <1>8, <1>9, <1>10, <1>11, <1>12 DEF PhotoInv

-----------------------------------------------------------------------------
(* The theorems.                                                           *)

\* The application starts with nothing under way and documents that agree with Storage.
LEMMA PhotoInit ==
  ASSUME Init
  PROVE  PhotoInv
<1>1. stored = avatar /\ stored \in [Users -> {Before, NoPhoto}]
  BY PhotoAssumption DEF Init
<1>2. /\ NoJob \in Job /\ NoJob.of = NoUser /\ NoJob.phase = "idle" /\ NoJob.url = NoPhoto
      /\ NoFetch \in Fetch /\ NoFetch.phase = "none"
  BY PhotoFacts DEF NoJob, NoFetch, Job, JobPhases, Fetch
<1>3. /\ job \in [Picks -> Job] /\ \A p \in Picks : job[p] = NoJob
      /\ fetch \in [1 .. MaxSessions -> Fetch] /\ \A n \in 1 .. MaxSessions : fetch[n] = NoFetch
      /\ writes \in [Owners -> Seq(Picks)] /\ \A u \in Owners : writes[u] = <<>>
  BY <1>2 DEF Init
<1>4. PhotoTypeOK
  <2>1. picker \in BOOLEAN /\ arrived \in BOOLEAN /\ raced \in BOOLEAN
    BY Zenon DEF Init
  <2>2. session \in 0 .. MaxSessions
    BY PhotoAssumption DEF Init
  <2>3. stored \in [Users -> Photos \cup {NoPhoto}] /\ avatar \in [Users -> Photos \cup {NoPhoto}]
    BY <1>1 DEF Photos
  <2> QED
    BY <1>2, <1>3, <2>1, <2>2, <2>3, PhotoFacts DEF Init, PhotoTypeOK, Job, JobPhases, Fetch
<1>5. OwnInv
  <2>1. \A u \in Users : stored[u] \notin Picks
    BY <1>1, PhotoAssumption
  <2> QED
    BY <1>1, <1>2, <1>3, <2>1, PhotoFacts DEF OwnInv
<1>6. QueueInv
  <2>1. \A u \in Owners : DOMAIN writes[u] = {}
    BY <1>3
  <2> QED
    BY <2>1 DEF QueueInv
<1>7. UploadInv
  BY <1>1, <1>2, <1>3 DEF UploadInv, Uploading
<1>8. FetchInv
  BY <1>2, <1>3 DEF FetchInv, Fetching
<1>9. ScreenInv
  BY DEF Init, ScreenInv
<1> QED
  BY <1>4, <1>5, <1>6, <1>7, <1>8, <1>9 DEF PhotoInv

\* Every state of every behaviour satisfies the invariant.
THEOREM PhotoInvariant == Spec => []PhotoInv
<1>1. ASSUME PhotoInv, [Next]_vars
      PROVE  PhotoInv'
  <2>1. CASE \/ \E u \in Users : SignIn(u)
             \/ LogOut \/ ListenerOut \/ OpenPicker \/ CancelPicker \/ UNCHANGED vars
    BY <1>1, <2>1, SessionKeeps
  <2>2. CASE ListenerIn
    BY <1>1, <2>2, ListenerKeeps
  <2>3. ASSUME NEW p \in Picks, PickPhoto(p) \/ UploadStep(p) PROVE PhotoInv'
    BY <1>1, <2>3, PickKeeps, UploadStepKeeps
  <2>4. CASE SendWrite
    BY <1>1, <2>4, SendKeeps
  <2>5. ASSUME NEW n \in 1 .. MaxSessions, FetchStep(n) PROVE PhotoInv'
    BY <1>1, <2>5, FetchKeeps
  <2>6. CASE Relaunch
    BY <1>1, <2>6, RelaunchKeeps
  <2> QED
    BY <1>1, <2>1, <2>2, <2>3, <2>4, <2>5, <2>6 DEF Next
<1> QED
  BY <1>1, PhotoInit, PTL DEF Spec

\* Uploads, downloads and queued writes are well typed: every step of an upload that
\* was started has the user of its pick.
THEOREM PhotoTypeCorrect == Spec => []PhotoTypeOK
<1>1. PhotoInv => PhotoTypeOK
  BY DEF PhotoInv
<1> QED
  BY <1>1, PhotoInvariant, PTL

\* Whatever overlaps, fails or is cut short, and whoever is signed in by then, the
\* avatarURL that uploadUserPhoto writes refers to a photo that was uploaded for the
\* user of the document and is no longer on its way, and Storage has one of his.
THEOREM AvatarOfOwner == Spec => []AvatarIsOwn
<1>1. PhotoInv => AvatarIsOwn
  <2> SUFFICES ASSUME PhotoInv, NEW u \in Users, NEW p \in Picks, avatar[u] = p
               PROVE  job[p].of = u /\ Launched(p) /\ stored[u] # NoPhoto
    BY DEF AvatarIsOwn, Launched
  <2>1. avatar[u] # NoPhoto
    BY PhotoFacts
  <2> QED
    BY <2>1 DEF PhotoInv, OwnInv
<1> QED
  BY <1>1, PhotoInvariant, PTL

\* When the uploads of a user have come to rest, none of them torn, the document and
\* Storage agree.
THEOREM DocumentFollowsStorage == Spec => []AvatarIsStoredPhoto
<1>1. PhotoInv => AvatarIsStoredPhoto
  BY DEF PhotoInv, UploadInv, AvatarIsStoredPhoto
<1> QED
  BY <1>1, PhotoInvariant, PTL

\* The screen at rest shows a photo of the signed-in user, and it is the one stored
\* or a pick whose upload failed, when the session or the pick began at rest.
THEOREM OwnPhotoOnScreen == Spec => []OwnPhotoShown
<1>1. PhotoInv => OwnPhotoShown
  <2> SUFFICES ASSUME PhotoInv, ScreenRests, user # NoUser, ~raced, arrived
               PROVE  /\ shown.of = user
                      /\ (user \notin torn /\ UploadsRest(user)) =>
                            \/ shown.photo = stored[user]
                            \/ shown.photo \in Picks /\ job[shown.photo].phase = "failed"
    BY DEF OwnPhotoShown
  <2>1. seen = user /\ ScreenInv
    BY DEF ScreenRests, PhotoInv
  <2>2. shown.of = user
    BY <2>1 DEF ScreenInv
  <2>3. ASSUME user \notin torn, UploadsRest(user)
        PROVE  \/ shown.photo = stored[user]
               \/ shown.photo \in Picks /\ job[shown.photo].phase = "failed"
    <3>1. \/ shown.photo = stored[user]
          \/ /\ shown.photo \in Picks /\ job[shown.photo].of = user
             /\ job[shown.photo].phase \in {"putting", "failed"}
      BY <2>1, <2>3 DEF ScreenInv
    <3> QED
      BY <2>3, <3>1 DEF UploadsRest, Uploading
  <2> QED
    BY <2>2, <2>3
<1> QED
  BY <1>1, PhotoInvariant, PTL

=============================================================================
