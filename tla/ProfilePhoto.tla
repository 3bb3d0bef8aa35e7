---------------------------- MODULE ProfilePhoto ----------------------------
(***************************************************************************)
(* The photo on the profile screen: ProfileVC.uploadUserPhoto and its      *)
(* image picker, ProfileViewModel.upload, and the avatar that the state    *)
(* listener has downloaded (UIImageView.downloadedFromFirebase).           *)
(*                                                                         *)
(* A picked photo goes onto the screen at once and then takes three steps, *)
(* each of which may fail: it is stored at avatars/<uid>, its download URL *)
(* is asked for, and the URL is written into the user's document.  The     *)
(* uid is the one of the user signed in when the photo was picked.         *)
(*                                                                         *)
(* Storage keeps one photo per user; the URL it gives out holds a token of *)
(* the photo stored at that time, and here is that photo.  Whether a URL   *)
(* with an old token is refused or serves the present photo is the         *)
(* server's choice.  Firestore queues the writes of each signed-in user    *)
(* apart and sends a queue, in order, while its user is signed in.         *)
(* Sessions come and go as in Account.                                     *)
(***************************************************************************)
EXTENDS Naturals, Sequences

CONSTANTS Users, NoUser,
          Picks,        \* bound: the photos that get picked
          Before,       \* the photo a user stored in former times
          NoPhoto,      \* nothing stored, no document or " " in it, no image
          FormerAvatars, \* bound: what the documents may hold at the start
          MaxSessions   \* bound: how often the listener is called with a user

ASSUME PhotoAssumption ==
  /\ NoUser \notin Users
  /\ Before # NoPhoto /\ {Before, NoPhoto} \cap Picks = {}
  /\ FormerAvatars \subseteq [Users -> {Before, NoPhoto}]
  /\ MaxSessions \in Nat

VARIABLES
  user,       \* external: Auth.auth().currentUser
  seen,       \* the user of the listener's last call; NoUser: buttons of signed out
  session,    \* how often the listener was called with a user
  picker,     \* the image picker is on the screen
  shown,      \* profileImageView.image: which photo of whom
  stored,     \* external: the photo at avatars/<uid>
  avatar,     \* external: avatarURL in the user's document
  job,        \* the upload of each picked photo: whose, how far, its URL
  writes,     \* external: Firestore's queue of unsent writes of each user
  fetch,      \* the avatar each session asked for: whose, how far, the photo that came
  arrived,    \* history: the avatar of the present session was shown
  torn,       \* history: users whose uploads overlapped or were cut short
  raced       \* history: the last pick or session began amid a change

vars == <<user, seen, session, picker, shown, stored, avatar, job, writes, fetch, arrived, torn, raced>>
server == <<stored, avatar, writes>>

Photos == {Before} \cup Picks
Owners == Users \cup {NoUser}

NoImage == [of |-> NoUser, photo |-> NoPhoto]
NoJob == [of |-> NoUser, phase |-> "idle", url |-> NoPhoto]
Ended(p, phase) == [job EXCEPT ![p] = [@ EXCEPT !.phase = phase, !.url = NoPhoto]]
NoFetch == [of |-> NoUser, phase |-> "none", photo |-> NoPhoto]

PhotoTypeOK ==
  /\ user \in Owners /\ seen \in Owners
  /\ session \in 0 .. MaxSessions
  /\ picker \in BOOLEAN
  /\ shown \in {NoImage} \cup [of : Owners, photo : Photos]
  /\ stored \in [Users -> Photos \cup {NoPhoto}]
  /\ avatar \in [Users -> Photos \cup {NoPhoto}]
  /\ job \in [Picks -> [of : Owners, url : Photos \cup {NoPhoto},
                        phase : {"idle", "skipped", "putting", "put", "url", "writing",
                                 "done", "failed"}]]
  /\ \A p \in Picks : job[p].phase \notin {"idle", "skipped"} => job[p].of \in Users
  /\ writes \in [Owners -> Seq(Picks)]
  /\ fetch \in [1 .. MaxSessions -> [of : Owners, photo : Photos \cup {NoPhoto},
                        phase : {"none", "reading", "loading", "loaded"}]]
  /\ arrived \in BOOLEAN
  /\ torn \in SUBSET Users
  /\ raced \in BOOLEAN

\* The application starts; somebody may be signed in since the last time.
Init ==
  /\ user \in Owners
  /\ seen = NoUser
  /\ session = 0
  /\ picker = FALSE
  /\ shown = NoImage
  /\ avatar \in FormerAvatars
  /\ stored = avatar
  /\ job = [p \in Picks |-> NoJob]
  /\ writes = [u \in Owners |-> <<>>]
  /\ fetch = [n \in 1 .. MaxSessions |-> NoFetch]
  /\ arrived = FALSE
  /\ torn = {}
  /\ raced = FALSE

-----------------------------------------------------------------------------
(* The session, as in Account.                                             *)

\* A request to sign in is answered, whatever is on the screen by now.
SignIn(u) ==
  /\ session < MaxSessions
  /\ u # user
  /\ user' = u
  /\ UNCHANGED <<arrived, seen, session, picker, shown, server, job, fetch, torn, raced>>

LogOut ==
  /\ seen # NoUser /\ ~picker /\ user # NoUser
  /\ user' = NoUser
  /\ UNCHANGED <<arrived, seen, session, picker, shown, server, job, fetch, torn, raced>>

Fetching(n) == fetch[n].phase # "none"
Uploading(p) == job[p].phase \in {"putting", "put", "url", "writing"}

\* The state listener: a user's profile is asked for.
ListenerIn ==
  /\ user \notin {seen, NoUser}
  /\ session < MaxSessions
  /\ session' = session + 1
  /\ fetch' = [fetch EXCEPT ![session + 1] = [NoFetch EXCEPT !.of = user, !.phase = "reading"]]
  /\ raced' = \/ \E n \in 1 .. session : Fetching(n)
              \/ \E p \in Picks : Uploading(p) /\ job[p].of = user
  /\ arrived' = FALSE
  /\ seen' = user
  /\ UNCHANGED <<user, picker, shown, server, job, torn>>

\* The listener without a user: the photo is hidden, not removed.
ListenerOut ==
  /\ user = NoUser /\ seen # NoUser
  /\ seen' = NoUser
  /\ UNCHANGED <<arrived, user, session, picker, shown, server, job, fetch, torn, raced>>

-----------------------------------------------------------------------------
(* The upload.                                                             *)

\* changeButtonDidTapped
OpenPicker ==
  /\ seen # NoUser /\ ~picker
  /\ picker' = TRUE
  /\ UNCHANGED <<arrived, user, seen, session, shown, server, job, fetch, torn, raced>>

\* imagePickerControllerDidCancel
CancelPicker ==
  /\ picker
  /\ picker' = FALSE
  /\ UNCHANGED <<arrived, user, seen, session, shown, server, job, fetch, torn, raced>>

\* Mutant: the upload starts without a user.
UploadRegardless == "putting"

\* uploadUserPhoto returns when nobody is signed in.
StartUpload == IF user = NoUser THEN "skipped" ELSE "putting"

\* didFinishPickingMediaWithInfo: the photo is shown, then uploadUserPhoto.
PickPhoto(p) ==
  /\ picker
  /\ job[p].phase = "idle" /\ p = CHOOSE q \in Picks : job[q].phase = "idle"
  /\ picker' = FALSE
  /\ shown' = [of |-> user, photo |-> p]
  /\ job' = [job EXCEPT ![p] = [NoJob EXCEPT !.of = user, !.phase = StartUpload]]
  /\ torn' = IF \E q \in Picks : Uploading(q) /\ job[q].of = user THEN torn \cup {user} ELSE torn
  /\ raced' = (user # seen \/ \E n \in 1 .. session : Fetching(n))
  /\ UNCHANGED <<arrived, user, seen, session, server, fetch>>

\* Mutant: the URL is asked for while the photo is on its way.
UrlAskedEarly(p) ==
  /\ job[p].phase = "putting"
  /\ stored' = [stored EXCEPT ![job[p].of] = p]
  /\ job' = [job EXCEPT ![p].phase = "url", ![p].url = stored[job[p].of]]
  /\ UNCHANGED <<arrived, user, seen, session, picker, shown, avatar, writes, fetch, torn, raced>>

\* putData: Storage replaces the user's photo.
StorePhoto(p) ==
  /\ job[p].phase = "putting"
  /\ stored' = [stored EXCEPT ![job[p].of] = p]
  /\ job' = [job EXCEPT ![p].phase = "put"]
  /\ UNCHANGED <<arrived, user, seen, session, picker, shown, avatar, writes, fetch, torn, raced>>

\* putData's callback and downloadURL: a URL for what is stored now.
AskUrl(p) ==
  /\ job[p].phase = "put"
  /\ job' = [job EXCEPT ![p].phase = "url", ![p].url = stored[job[p].of]]
  /\ UNCHANGED <<arrived, user, seen, session, picker, shown, server, fetch, torn, raced>>

\* Mutant: after an error the upload starts over.
RetryUpload(p) ==
  /\ job[p].phase \in {"putting", "put", "url"}
  /\ job' = [job EXCEPT ![p].phase = "putting"]
  /\ torn' = IF job[p].phase = "putting" THEN torn ELSE torn \cup {job[p].of}
  /\ UNCHANGED <<arrived, user, seen, session, picker, shown, server, fetch, raced>>

\* putData or downloadURL calls back with an error, which is printed.
UploadFails(p) ==
  /\ job[p].phase \in {"putting", "put", "url"}
  /\ job' = Ended(p, "failed")
  /\ torn' = IF job[p].phase = "putting" THEN torn ELSE torn \cup {job[p].of}
  /\ UNCHANGED <<arrived, user, seen, session, picker, shown, server, fetch, raced>>

\* downloadURL's callback: documentRef.updateData, for whoever is signed in.
UpdateAvatar(p) ==
  /\ job[p].phase = "url"
  /\ job' = [job EXCEPT ![p].phase = "writing"]
  /\ writes' = [writes EXCEPT ![user] = Append(@, p)]
  /\ torn' = IF user = job[p].of THEN torn ELSE torn \cup {job[p].of}
  /\ UNCHANGED <<arrived, user, seen, session, picker, shown, stored, avatar, fetch, raced>>

\* Mutant: the document of the user signed in now is written.
WrittenTo(p) == user

\* db.collection("users").document(user.uid), with the user of the pick.
DocumentOf(p) == job[p].of

\* Firestore sends the oldest write of the signed-in user.  It is rejected if there
\* is no document, or by the server's rules.
SendWrite ==
  /\ writes[user] # <<>>
  /\ LET p == Head(writes[user])
         u == DocumentOf(p)
     IN \/ /\ u \in Users
           /\ avatar' = [avatar EXCEPT ![u] = job[p].url]
           /\ job' = Ended(p, "done")
           /\ UNCHANGED torn
        \/ /\ job' = Ended(p, "failed")
           /\ torn' = torn \cup {job[p].of}
           /\ UNCHANGED avatar
  /\ writes' = [writes EXCEPT ![user] = Tail(@)]
  /\ UNCHANGED <<arrived, user, seen, session, picker, shown, stored, fetch, raced>>

-----------------------------------------------------------------------------
(* The avatar.                                                             *)

\* avatarURL as Firestore shows it to the signed-in user refers to a photo: the
\* last write to the document that is still queued counts, or else the document.
HasLocalAvatar(u) ==
  LET own == {i \in DOMAIN writes[user] : job[writes[user][i]].of = u}
  IN \/ own = {} /\ avatar[u] \in Photos
     \/ \E i \in own : (\A j \in own : j <= i) /\ job[writes[user][i]].url \in Photos

\* getProfileFromFirebase's callback: the URL is downloaded; " " forms no URL.
ReadAvatar(n) ==
  /\ fetch[n].phase = "reading"
  /\ fetch' = [fetch EXCEPT ![n] = IF HasLocalAvatar(@.of)
                                   THEN [@ EXCEPT !.phase = "loading"] ELSE NoFetch]
  /\ UNCHANGED <<arrived, user, seen, session, picker, shown, server, job, torn, raced>>

\* The photo that is stored now comes with the URL.
ServeAvatar(n) ==
  /\ fetch[n].phase = "loading"
  /\ fetch' = [fetch EXCEPT ![n].phase = "loaded", ![n].photo = stored[fetch[n].of]]
  /\ UNCHANGED <<arrived, user, seen, session, picker, shown, server, job, torn, raced>>

\* No answer, or none that passes the guards of downloaded(from:).
FetchFails(n) ==
  /\ Fetching(n)
  /\ fetch' = [fetch EXCEPT ![n] = NoFetch]
  /\ UNCHANGED <<arrived, user, seen, session, picker, shown, server, job, torn, raced>>

\* Mutant: the image goes into the view only if that is empty.
IntoEmptyView(n) == IF shown = NoImage THEN [of |-> fetch[n].of, photo |-> fetch[n].photo] ELSE shown

\* self?.image = image, whoever is signed in by now and whatever is shown.
IntoView(n) == [of |-> fetch[n].of, photo |-> fetch[n].photo]

\* The block on the main queue.
ShowAvatar(n) ==
  /\ fetch[n].phase = "loaded"
  /\ shown' = IntoView(n)
  /\ fetch' = [fetch EXCEPT ![n] = NoFetch]
  /\ arrived' = (arrived \/ n = session)
  /\ UNCHANGED <<user, seen, session, picker, server, job, torn, raced>>

\* The process ends and starts again: the user and Firestore's queues stay.
Relaunch ==
  /\ session < MaxSessions
  /\ seen' = NoUser
  /\ picker' = FALSE
  /\ shown' = NoImage
  /\ job' = [p \in Picks |->
       IF job[p].phase \in {"putting", "put", "url"} THEN Ended(p, "failed")[p] ELSE job[p]]
  /\ torn' = torn \cup {job[p].of : p \in {q \in Picks : job[q].phase \in {"put", "url"}}}
  /\ fetch' = [n \in 1 .. MaxSessions |-> NoFetch]
  /\ raced' = FALSE
  /\ UNCHANGED <<arrived, user, session, server>>

UploadStep(p) == StorePhoto(p) \/ AskUrl(p) \/ UploadFails(p) \/ UpdateAvatar(p)
FetchStep(n) == ReadAvatar(n) \/ ServeAvatar(n) \/ FetchFails(n) \/ ShowAvatar(n)

Next ==
  \/ \E u \in Users : SignIn(u)
  \/ LogOut \/ ListenerIn \/ ListenerOut
  \/ OpenPicker \/ CancelPicker
  \/ \E p \in Picks : PickPhoto(p) \/ UploadStep(p)
  \/ SendWrite
  \/ \E n \in 1 .. MaxSessions : FetchStep(n)
  \/ Relaunch

\* Storage answers every request, at the latest with a timeout; Firestore sends
\* what it has when there is a connection, and there is one in the end.
Fairness ==
  /\ \A p \in Picks : WF_vars(UploadStep(p))
  /\ WF_vars(SendWrite)

Spec == Init /\ [][Next]_vars
FairSpec == Spec /\ Fairness

-----------------------------------------------------------------------------
(* Properties.                                                             *)

UploadsRest(u) == \A p \in Picks : job[p].of = u => ~Uploading(p)

\* When a user's uploads have come to rest, the document refers to the photo that
\* is stored.  Excepted are the ways it does not, and nothing repairs those: two
\* uploads overlapped, so that the older URL may be written last; a step after
\* the upload failed or the process ended there; another user was signed in, or
\* none, when the URL came back; the write was rejected.
AvatarIsStoredPhoto ==
  \A u \in Users \ torn :
     UploadsRest(u) => avatar[u] = stored[u]

\* Whatever overlaps, fails or is cut short, and whoever is signed in when the URL
\* comes back or the write is sent, a document never refers to a photo that was
\* uploaded for another user, nor to one that is still on its way to Storage, nor to
\* any while Storage has none of the user.  (Where uploads overlap, the photo it
\* refers to need not be the one stored: see AvatarIsStoredPhoto.)
AvatarIsOwn ==
  \A u \in Users, p \in Picks :
     avatar[u] = p => /\ job[p].of = u
                      /\ job[p].phase \notin {"idle", "skipped", "putting"}
                      /\ stored[u] # NoPhoto

\* The photos on their way to the screen have arrived, and the listener has run.
ScreenRests == (\A n \in 1 .. MaxSessions : ~Fetching(n)) /\ seen = user

\* A signed-in user whose avatar was downloaded in this session sees a photo of
\* his own, and it is the stored one, or a later pick whose upload failed; where
\* his uploads were torn it is any of his own.  Excepted is a race the code does
\* not settle: an avatar that was under way when the session or the pick began may
\* come last, an upload that was under way may end after the download, and a photo
\* may be picked between a change of user and the listener's call.
\* (Without an avatar to download the former user's photo stays: nothing removes it.)
OwnPhotoShown ==
  (ScreenRests /\ user # NoUser /\ ~raced /\ arrived)
     => /\ shown.of = user
        /\ (user \notin torn /\ UploadsRest(user)) =>
              \/ shown.photo = stored[user]
              \/ shown.photo \in Picks /\ job[shown.photo].phase = "failed"

\* An upload of a user who stays signed in ends: its URL is in the document, or
\* one of its steps failed.
UploadsEnd ==
  \A p \in Picks :
     (job[p].phase = "putting") ~>
        (job[p].phase \in {"done", "failed"} \/ user # job[p].of)
=============================================================================
