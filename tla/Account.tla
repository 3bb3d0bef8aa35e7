------------------------------- MODULE Account -------------------------------
(***************************************************************************)
(* Signing up, in and out: RegistrationVC/RegistrationViewModel, LoginVC/  *)
(* LoginViewModel and the session part of ProfileVC/ProfileViewModel.      *)
(*                                                                         *)
(* Three services are external and modelled from their use: Firebase Auth  *)
(* (accounts, currentUser, the state listener), Firestore (the profile     *)
(* document of each user) and Locksmith (the keychain).  Auth changes      *)
(* currentUser on its own queue and then posts to the main queue, first a  *)
(* notification, then the request's callback.  The notification calls the  *)
(* state listener with the user there is by then, if it is another one     *)
(* than at the listener's last call.                                       *)
(*                                                                         *)
(* An attempt is one tap on "Log in", "Sign up" or "Sign in with last      *)
(* account".  An e-mail address, the uid behind it and the name in its     *)
(* profile are one element of Users; passwords are numbered as the account *)
(* gets them, 0 standing for no account.                                   *)
(***************************************************************************)
EXTENDS Naturals, Sequences, FiniteSets

CONSTANTS Users, NoUser, Attempts, MaxPassword

ASSUME AccountAssumption == NoUser \notin Users /\ MaxPassword \in Nat \ {0}

VARIABLES
  accounts,   \* external: the password of each account at Auth
  docs,       \* external: the profile documents: "none", "pending", "made"
  keychain,   \* external: the password Locksmith holds; 0 for no entry
  user,       \* external: Auth.auth().currentUser
  main,       \* the blocks on the main queue, oldest first
  phase,      \* how far each attempt has got
  form,       \* what each attempt was started with
  screen,     \* the screen on top of ProfileVC: "none", "login" or "register"
  left,       \* attempts whose screen was left: the weak self is nil
  view,       \* ProfileVC: which buttons are visible
  label,      \* ProfileVC: whose name fullNameLabel shows
  userUid,    \* ProfileViewModel.userUid
  reads,      \* profile reads under way, by user
  alerts,     \* history: the alerts shown
  abandoned,  \* history: users whose sign-up was cut short after Auth
  mixed       \* history: what may leave another user's name in the label

vars == <<accounts, docs, keychain, user, main, phase, form, screen, left, view, label,
          userUid, reads, alerts, abandoned, mixed>>

uiVars == <<view, label, userUid, reads, mixed>>

Phases == {"idle", "sent", "accepted", "refused", "answered", "writing",
           "done", "dead", "orphan"}   \* orphan: the document outlives the process
Kinds == {"login", "register", "last"}
Fills == {"all", "noName", "noLogin"}   \* which text fields were filled in

Form == [kind : Kinds, user : Users \cup {NoUser}, password : 1 .. MaxPassword, fill : Fills]

Block == [run : {"listener"}]
         \cup [run : {"auth", "saved"}, attempt : Attempts, ok : BOOLEAN]
         \cup [run : {"profile"}, user : Users, found : BOOLEAN]

Notification == [run |-> "listener"]

NoForm == [kind |-> "login", user |-> NoUser, password |-> 1, fill |-> "all"]

AccountTypeOK ==
  /\ accounts \in [Users -> 0 .. MaxPassword]
  /\ docs \in [Users -> {"none", "pending", "made"}]
  /\ keychain \in [Users -> 0 .. MaxPassword]
  /\ user \in Users \cup {NoUser}
  /\ main \in Seq(Block)
  /\ phase \in [Attempts -> Phases]
  /\ form \in [Attempts -> Form]
  /\ screen \in {"none", "login", "register"}
  /\ left \in SUBSET Attempts
  /\ view \in {"unset", "in", "out"}
  /\ label \in Users \cup {NoUser}
  /\ userUid \in Users \cup {NoUser}
  /\ reads \in Seq(Users)
  /\ alerts \in SUBSET [attempt : Attempts, ok : BOOLEAN]
  /\ abandoned \in SUBSET Users
  /\ mixed \in BOOLEAN

\* Some users have signed up before, on another device.  The listener is called
\* once when it is added.
Init ==
  /\ \E registered \in SUBSET Users :
       /\ accounts = [u \in Users |-> IF u \in registered THEN 1 ELSE 0]
       /\ docs = [u \in Users |-> IF u \in registered THEN "made" ELSE "none"]
  /\ keychain = [u \in Users |-> 0]
  /\ user = NoUser
  /\ main = <<Notification>>
  /\ phase = [a \in Attempts |-> "idle"]
  /\ form = [a \in Attempts |-> NoForm]
  /\ screen = "none"
  /\ left = {}
  /\ view = "unset"
  /\ label = NoUser
  /\ userUid = NoUser
  /\ reads = <<>>
  /\ alerts = {}
  /\ abandoned = {}
  /\ mixed = FALSE

-----------------------------------------------------------------------------
(* Taps.                                                                   *)

\* signButtonDidTapped and a choice in its sheet: the button is visible while
\* the view is "out", but the pushed screen stays when somebody signs in.
OpenScreen ==
  /\ screen = "none" /\ view = "out"
  /\ screen' \in {"login", "register"}
  /\ UNCHANGED <<accounts, docs, keychain, user, main, phase, form, left, uiVars, alerts, abandoned>>

Start(a, k, u, p, f) ==
  /\ phase[a] = "idle"
  /\ phase' = [phase EXCEPT ![a] = "sent"]
  /\ form' = [form EXCEPT ![a] = [kind |-> k, user |-> u, password |-> p, fill |-> f]]
  /\ UNCHANGED <<accounts, docs, keychain, user, main, screen, left, uiVars, alerts, abandoned>>

\* loginButtonDidTapped: an incomplete form shows the message and returns.
LoginTapped(a, u, p) == screen = "login" /\ Start(a, "login", u, p, "all")

\* signUpButtonDidTapped: an incomplete form shows the message and goes on.
SignUpTapped(a, u, f) == screen = "register" /\ Start(a, "register", u, 1, f)

\* The button is on the profile screen and visible while the view is "out".
LastVisible == screen = "none" /\ view = "out"

\* Mutant: singIn without its guard on the entry.
SignInLastUnguarded(a) ==
  /\ LastVisible /\ userUid # NoUser
  /\ Start(a, "last", userUid, keychain[userUid], "all")

\* signInLastAccButtonDidTapped: singIn, which returns without an entry.
SignInLastTapped(a) ==
  /\ LastVisible /\ userUid # NoUser
  /\ keychain[userUid] # 0
  /\ Start(a, "last", userUid, keychain[userUid], "all")

Waiting(a) == phase[a] \in {"sent", "accepted", "refused", "answered", "writing"}

\* The user leaves the login or registration screen, with all its attempts: the
\* back button, or the "ok" of the alert that reports success.
LeaveScreen ==
  /\ screen # "none"
  /\ screen' = "none"
  /\ left' = left \cup {a \in Attempts : Waiting(a) /\ form[a].kind # "last"}
  /\ UNCHANGED <<accounts, docs, keychain, user, main, phase, form, uiVars, alerts, abandoned>>

\* logOutFromFirebase; signOut does nothing when nobody is signed in.
LogOut ==
  /\ screen = "none" /\ view = "in" /\ user # NoUser
  /\ user' = NoUser
  /\ main' = Append(main, Notification)
  /\ UNCHANGED <<accounts, docs, keychain, phase, form, screen, left, uiVars, alerts, abandoned>>

-----------------------------------------------------------------------------
(* Auth (external).                                                        *)

Accepts(f) ==
  IF f.kind = "register"
  THEN accounts[f.user] = 0 /\ f.fill # "noLogin"
  ELSE accounts[f.user] = f.password

\* The server decides.  A refusal may also be a network error.
AuthDecides(a) ==
  /\ phase[a] = "sent"
  /\ \/ /\ Accepts(form[a])
        /\ phase' = [phase EXCEPT ![a] = "accepted"]
        /\ accounts' = [accounts EXCEPT ![form[a].user] = form[a].password]
     \/ phase' = [phase EXCEPT ![a] = "refused"] /\ UNCHANGED accounts
  /\ UNCHANGED <<docs, keychain, user, main, form, screen, left, uiVars, alerts, abandoned>>

\* The answer reaches the device: currentUser changes, and the notification
\* and the callback go onto the main queue, in this order.
AuthAnswers(a) ==
  LET ok == phase[a] = "accepted" IN
  /\ phase[a] \in {"accepted", "refused"}
  /\ user' = IF ok THEN form[a].user ELSE user
  /\ main' = main \o (IF ok THEN <<Notification>> ELSE <<>>)
                  \o <<[run |-> "auth", attempt |-> a, ok |-> ok]>>
  /\ phase' = [phase EXCEPT ![a] = "answered"]
  /\ UNCHANGED <<accounts, docs, keychain, form, screen, left, uiVars, alerts, abandoned>>

\* The server accepted, but the device gets an error: the answer or the account data
\* asked for next does not arrive, or saving the user to disk fails.  currentUser
\* stays as it was.
AuthAnswerLost(a) ==
  /\ phase[a] = "accepted"
  /\ main' = Append(main, [run |-> "auth", attempt |-> a, ok |-> FALSE])
  /\ phase' = [phase EXCEPT ![a] = "answered"]
  /\ abandoned' = IF form[a].kind = "register" THEN abandoned \cup {form[a].user} ELSE abandoned
  /\ UNCHANGED <<accounts, docs, keychain, user, form, screen, left, uiVars, alerts>>

\* The user changes the password somewhere else.
PasswordChanged(u) ==
  /\ accounts[u] \in 1 .. MaxPassword - 1
  /\ accounts' = [accounts EXCEPT ![u] = @ + 1]
  /\ UNCHANGED <<docs, keychain, user, main, phase, form, screen, left, uiVars, alerts, abandoned>>

-----------------------------------------------------------------------------
(* Callbacks of Auth and of the new document, on the main queue.           *)

NextIs(kind) == main # <<>> /\ Head(main).run = kind

Alert(a, ok) == IF a \in left THEN alerts ELSE alerts \cup {[attempt |-> a, ok |-> ok]}

\* Mutant: the password is saved whatever Auth answers.
LoginAnsweredSaving(a, ok) ==
  /\ form[a].kind = "login"
  /\ keychain' = [keychain EXCEPT ![form[a].user] = IF @ = 0 THEN form[a].password ELSE @]
  /\ alerts' = Alert(a, ok)
  /\ phase' = [phase EXCEPT ![a] = "done"]
  /\ UNCHANGED <<docs, abandoned>>

\* LoginViewModel.signIn's callback.  The view model lives until it has run, so
\* the password is saved even if the screen was left.  Locksmith.saveData does
\* not replace an entry; its error is printed.
LoginAnswered(a, ok) ==
  /\ form[a].kind = "login"
  /\ keychain' = [keychain EXCEPT ![form[a].user] =
                    IF ok /\ @ = 0 THEN form[a].password ELSE @]
  /\ alerts' = Alert(a, ok)
  /\ phase' = [phase EXCEPT ![a] = "done"]
  /\ UNCHANGED <<docs, abandoned>>

\* ProfileViewModel.singIn's callback prints an error, if any.
LastAnswered(a) ==
  /\ form[a].kind = "last"
  /\ phase' = [phase EXCEPT ![a] = "done"]
  /\ UNCHANGED <<docs, keychain, alerts, abandoned>>

\* Mutant: success is reported before the document is written.
SignUpAnsweredEarly(a, ok) ==
  /\ form[a].kind = "register" /\ ok /\ a \notin left
  /\ docs' = [docs EXCEPT ![form[a].user] = "pending"]
  /\ phase' = [phase EXCEPT ![a] = "writing"]
  /\ alerts' = Alert(a, TRUE)
  /\ UNCHANGED <<keychain, abandoned>>

\* Mutant: the document is forgotten.
SignUpAnsweredForgetting(a, ok) ==
  /\ form[a].kind = "register" /\ ok /\ a \notin left
  /\ phase' = [phase EXCEPT ![a] = "done"]
  /\ UNCHANGED <<docs, keychain, alerts, abandoned>>

\* createUser's callback, account created: addNewDocumentInFirebase.
SignUpAnswered(a, ok) ==
  /\ form[a].kind = "register" /\ ok /\ a \notin left
  /\ docs' = [docs EXCEPT ![form[a].user] = "pending"]
  /\ phase' = [phase EXCEPT ![a] = "writing"]
  /\ UNCHANGED <<keychain, alerts, abandoned>>

\* The same when the screen, and with it the view model, is gone.
SignUpAnsweredToNobody(a, ok) ==
  /\ form[a].kind = "register" /\ ok /\ a \in left
  /\ phase' = [phase EXCEPT ![a] = "done"]
  /\ abandoned' = abandoned \cup {form[a].user}
  /\ UNCHANGED <<docs, keychain, alerts>>

\* Mutant: an error of createUser is not reported.
SignUpRefusedSilently(a, ok) ==
  /\ form[a].kind = "register" /\ ~ok
  /\ UNCHANGED <<phase, alerts, docs, keychain, abandoned>>

\* createUser's callback with an error.
SignUpRefused(a, ok) ==
  /\ form[a].kind = "register" /\ ~ok
  /\ phase' = [phase EXCEPT ![a] = "done"]
  /\ alerts' = Alert(a, FALSE)
  /\ UNCHANGED <<docs, keychain, abandoned>>

RunAuth ==
  /\ NextIs("auth")
  /\ LET a == Head(main).attempt
         ok == Head(main).ok
     IN  \/ LoginAnswered(a, ok) \/ LastAnswered(a)
         \/ SignUpAnswered(a, ok) \/ SignUpAnsweredToNobody(a, ok) \/ SignUpRefused(a, ok)
  /\ main' = Tail(main)
  /\ UNCHANGED <<accounts, user, form, screen, left, uiVars>>

\* Firestore (external) commits or rejects the new document.  It keeps the unsent
\* writes of each user apart and sends them while that user is signed in.
DocumentWritten(a) ==
  LET u == form[a].user IN
  /\ phase[a] \in {"writing", "orphan"}
  /\ docs[u] = "pending"
  /\ user = u
  /\ \E ok \in BOOLEAN :
       /\ docs' = [docs EXCEPT ![u] = IF ok THEN "made" ELSE "none"]
       /\ abandoned' = IF ok THEN abandoned ELSE abandoned \cup {u}
       /\ IF phase[a] = "writing"
          THEN /\ main' = Append(main, [run |-> "saved", attempt |-> a, ok |-> ok])
               /\ UNCHANGED phase
          ELSE phase' = [phase EXCEPT ![a] = "dead"] /\ UNCHANGED main
  /\ UNCHANGED <<accounts, keychain, user, form, screen, left, uiVars, alerts>>

\* setData's callback.
RunSaved ==
  /\ NextIs("saved")
  /\ LET a == Head(main).attempt IN
       /\ phase' = [phase EXCEPT ![a] = "done"]
       /\ alerts' = Alert(a, Head(main).ok)
  /\ main' = Tail(main)
  /\ UNCHANGED <<accounts, docs, keychain, user, form, screen, left, uiVars, abandoned>>

-----------------------------------------------------------------------------
(* ProfileVC: the state listener and the profile.                          *)

\* The listener without a user: the signed-out buttons.
ListenerOut ==
  /\ user = NoUser
  /\ view' = "out"
  /\ UNCHANGED <<label, userUid, reads, mixed>>

\* Mutant: the buttons are left to the profile's arrival.
ListenerInLazy ==
  /\ user # NoUser
  /\ userUid' = user
  /\ reads' = Append(reads, user)
  /\ mixed' = (\E i \in DOMAIN reads : reads[i] # user)
  /\ UNCHANGED <<view, label>>

\* A profile of somebody else has been asked for and may still arrive.
OtherProfileComing ==
  \/ \E i \in DOMAIN reads : reads[i] # user
  \/ \E i \in DOMAIN main : main[i].run = "profile" /\ main[i].user # user

\* Mutant: the profile is read for the uid remembered from the last session.
ListenerInStale ==
  /\ user # NoUser
  /\ view' = "in"
  /\ userUid' = user
  /\ reads' = Append(reads, IF userUid = NoUser THEN user ELSE userUid)
  /\ mixed' = OtherProfileComing
  /\ UNCHANGED label

\* The listener with a user: getProfileFromFirebase and the signed-in buttons.
ListenerIn ==
  /\ user # NoUser
  /\ view' = "in"
  /\ userUid' = user
  /\ reads' = Append(reads, user)
  /\ mixed' = OtherProfileComing
  /\ UNCHANGED label

\* The user of the listener's last call, if there was one.
LastNotified == IF view = "out" THEN NoUser ELSE userUid
Unchanged == view # "unset" /\ user = LastNotified

RunListener ==
  /\ NextIs("listener")
  /\ \/ ~Unchanged /\ (ListenerIn \/ ListenerOut)
     \/ Unchanged /\ UNCHANGED uiVars
  /\ main' = Tail(main)
  /\ UNCHANGED <<accounts, docs, keychain, user, phase, form, screen, left, alerts, abandoned>>

WithoutRead(i) == SubSeq(reads, 1, i - 1) \o SubSeq(reads, i + 1, Len(reads))

\* Firestore (external) answers a read of the profile.  A document the signed-in
\* user is still writing is always found; any other may be out of reach.
ProfileRead(i) ==
  LET u == reads[i] IN
  /\ \E found \in BOOLEAN :
       /\ found => docs[u] = "made" \/ (docs[u] = "pending" /\ user = u)
       /\ ~found => docs[u] # "pending" \/ user # u
       /\ main' = Append(main, [run |-> "profile", user |-> u, found |-> found])
  /\ reads' = WithoutRead(i)
  /\ UNCHANGED <<accounts, docs, keychain, user, phase, form, screen, left, view, label,
                 userUid, alerts, abandoned, mixed>>

\* getProfileFromFirebase's callback: the label changes only if there is a
\* document, whoever is signed in by now.
ShowProfile(u, found) == label' = IF found THEN u ELSE label

RunProfile ==
  /\ NextIs("profile")
  /\ LET u == Head(main).user
         found == Head(main).found
     IN  /\ ShowProfile(u, found)
         /\ mixed' = (mixed \/ (~found /\ label \notin {NoUser, u}))
  /\ main' = Tail(main)
  /\ UNCHANGED <<accounts, docs, keychain, user, phase, form, screen, left, view, userUid,
                 reads, alerts, abandoned>>

\* The process ends and starts again: Auth's user, Firestore's pending writes
\* and the keychain stay.
AccountCreated(a) ==
  /\ form[a].kind = "register"
  /\ \/ phase[a] = "accepted"
     \/ [run |-> "auth", attempt |-> a, ok |-> TRUE] \in {main[i] : i \in DOMAIN main}

Relaunch ==
  /\ phase' = [a \in Attempts |->
       IF ~Waiting(a) THEN phase[a]
       ELSE IF phase[a] = "writing" /\ docs[form[a].user] = "pending" THEN "orphan" ELSE "dead"]
  /\ abandoned' = abandoned \cup {form[a].user : a \in {b \in Attempts : AccountCreated(b)}}
  /\ main' = <<Notification>>
  /\ screen' = "none"
  /\ view' = "unset" /\ label' = NoUser /\ userUid' = NoUser
  /\ reads' = <<>> /\ mixed' = FALSE
  /\ UNCHANGED <<accounts, docs, keychain, user, form, left, alerts>>

RunMain == RunListener \/ RunAuth \/ RunSaved \/ RunProfile

Next ==
  \/ \E a \in Attempts, u \in Users :
       \/ \E p \in 1 .. MaxPassword : LoginTapped(a, u, p)
       \/ \E f \in Fills : SignUpTapped(a, u, f)
  \/ \E a \in Attempts :
       \/ SignInLastTapped(a) \/ DocumentWritten(a)
       \/ AuthDecides(a) \/ AuthAnswers(a) \/ AuthAnswerLost(a)
  \/ \E u \in Users : PasswordChanged(u)
  \/ \E i \in DOMAIN reads : ProfileRead(i)
  \/ OpenScreen \/ LeaveScreen \/ LogOut \/ RunMain \/ Relaunch

\* Auth answers every request (at the latest with a timeout) and the main run
\* loop drains its queue.
Fairness ==
  /\ WF_vars(RunMain)
  /\ \A a \in Attempts : WF_vars(AuthDecides(a) \/ AuthAnswers(a) \/ AuthAnswerLost(a))

Spec == Init /\ [][Next]_vars
FairSpec == Spec /\ Fairness

-----------------------------------------------------------------------------
(* Properties.                                                             *)

\* The profile screen shows the buttons of the session that is, unless the
\* listener is about to run: no order of requests, answers and taps leaves the
\* two apart for good.
ViewFollowsSession ==
  (view # "unset" /\ Notification \notin {main[i] : i \in DOMAIN main})
     => view = (IF user = NoUser THEN "out" ELSE "in")

AtRest ==
  /\ main = <<>> /\ reads = <<>>
  /\ \A a \in Attempts : ~Waiting(a)

\* At rest a signed-in user sees his own name or none.  Excepted is what the
\* screen does not guard against: the profile of the user before was still being
\* read when he signed in and came last, or his own document was not found and
\* the old name, which nothing clears, came back into view.
NameIsUsers ==
  (AtRest /\ view = "in" /\ ~mixed) => label \in {NoUser, user}

\* A password in the keychain was accepted by Auth for that user: it is the
\* present one or an earlier one, never one that was only typed.
SavedPasswordsVerified ==
  \A u \in Users : keychain[u] <= accounts[u]

\* "You are registered" is shown only when both the account and its profile
\* document exist.
RegisteredMeansBoth ==
  \A x \in alerts :
     LET f == form[x.attempt] IN
     (x.ok /\ f.kind = "register") => accounts[f.user] # 0 /\ docs[f.user] = "made"

\* At rest every account has its profile document or is still writing it.
\* Excepted are the sign-ups that were cut short between the two steps: the
\* answer was lost, the screen was left, the process ended, or the document was
\* rejected.  Nothing in the application ever repairs those.
AccountsComplete ==
  AtRest => \A u \in Users \ abandoned : accounts[u] # 0 => docs[u] # "none"

\* Every attempt is answered: it ends, or waits for its document to be written.
AttemptsAnswered ==
  \A a \in Attempts :
    (phase[a] = "sent") ~> phase[a] \in {"done", "dead", "writing", "orphan"}

\* What the registration screen's message says ("Please fill in all fiels"): an
\* account is not created from an incomplete form.
AccountsFromCompleteForms ==
  \A a \in Attempts :
    (form[a].kind = "register" /\ phase[a] \in {"accepted", "writing"}) => form[a].fill = "all"
=============================================================================
