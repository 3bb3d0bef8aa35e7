---------------------------- MODULE AccountProofs ----------------------------
(***************************************************************************)
(* What Account promises, for any number of users, attempts and passwords. *)
(*                                                                         *)
(* Two arguments that share only the main queue.  The session: currentUser *)
(* never changes without a notification behind it on the queue, so with no *)
(* notification there the screen is the session's.  The attempts: each     *)
(* answer is on the queue at most once and a password accepted for a user  *)
(* never exceeds the account's, so what is saved was verified, and a new   *)
(* account has exactly one attempt that still owes it a document.          *)
(***************************************************************************)
EXTENDS Account, TLAPS

Blocks(q) == {q[i] : i \in DOMAIN q}

AuthBlock(a, ok) == [run |-> "auth", attempt |-> a, ok |-> ok]
SavedBlock(a, ok) == [run |-> "saved", attempt |-> a, ok |-> ok]
ProfileBlock(u, found) == [run |-> "profile", user |-> u, found |-> found]

\* The answer to an attempt is on the queue once.
Once(q) ==
  \A a \in Attempts : \A x, y \in BOOLEAN : \A i, j \in DOMAIN q :
    q[i] = AuthBlock(a, x) /\ q[j] = AuthBlock(a, y) => i = j

\* The buttons and the remembered user follow the session, but for a notification.
FollowInv ==
  /\ view = "in" => userUid # NoUser
  /\ view # "unset" /\ Notification \notin Blocks(main) =>
       view = (IF user = NoUser THEN "out" ELSE "in")
  /\ view = "in" /\ Notification \notin Blocks(main) => userUid = user

\* Unless mixed, the only profile on its way is that of the user last notified of,
\* and it is on its way or has come.
NameInv ==
  view = "in" /\ ~mixed =>
    /\ \A i \in DOMAIN reads : reads[i] = userUid
    /\ \A u \in Users, f \in BOOLEAN : ProfileBlock(u, f) \in Blocks(main) => u = userUid
    /\ \/ label \in {NoUser, userUid}
       \/ reads # <<>>
       \/ \E u \in Users, f \in BOOLEAN : ProfileBlock(u, f) \in Blocks(main)

SessionInv == FollowInv /\ NameInv

\* An attempt with anything under way or behind it has its form.
FormInv ==
  /\ Once(main)
  /\ \A a \in Attempts : phase[a] # "idle" => form[a].user \in Users
  /\ \A a \in Attempts, ok \in BOOLEAN : AuthBlock(a, ok) \in Blocks(main) => phase[a] = "answered"
  /\ \A a \in Attempts, ok \in BOOLEAN : SavedBlock(a, ok) \in Blocks(main) => phase[a] \in {"writing", "done"}
  /\ \A x \in alerts : phase[x.attempt] # "idle"

\* Auth verified what it accepted.
PasswordInv ==
  /\ SavedPasswordsVerified
  /\ \A a \in Attempts :
       phase[a] = "accepted" \/ AuthBlock(a, TRUE) \in Blocks(main) =>
         form[a].password <= accounts[form[a].user]

\* A new account has one attempt that owes it a document, or has the document, or
\* was abandoned.
DocumentInv ==
  /\ RegisteredMeansBoth
  /\ \A u \in Users : docs[u] # "none" => accounts[u] # 0
  /\ \A a \in Attempts : AccountCreated(a) => /\ accounts[form[a].user] # 0
                                              /\ docs[form[a].user] = "none"
  /\ \A a, b \in Attempts :
       AccountCreated(a) /\ AccountCreated(b) /\ form[a].user = form[b].user => a = b
  /\ \A a \in Attempts :
       SavedBlock(a, TRUE) \in Blocks(main) => docs[form[a].user] = "made"
  /\ \A u \in Users \ abandoned : accounts[u] # 0 =>
       docs[u] # "none" \/ \E a \in Attempts : AccountCreated(a) /\ form[a].user = u

AttemptInv == FormInv /\ PasswordInv /\ DocumentInv

AccountInv == AccountTypeOK /\ SessionInv /\ AttemptInv

-----------------------------------------------------------------------------
(* The main queue.                                                         *)

\* The kinds of block differ, and a block of a kind is made of its parts.
LEMMA BlockFacts ==
  /\ Notification \in Block
  /\ \A a \in Attempts, ok \in BOOLEAN : /\ AuthBlock(a, ok) \in Block /\ SavedBlock(a, ok) \in Block
                                         /\ AuthBlock(a, ok).run = "auth"
                                         /\ SavedBlock(a, ok).run = "saved"
  /\ \A u \in Users, f \in BOOLEAN : ProfileBlock(u, f) \in Block /\ ProfileBlock(u, f).run = "profile"
  /\ Notification.run = "listener"
<1>1. Notification \in Block /\ Notification.run = "listener"
  BY DEF Notification, Block
<1>2. ASSUME NEW a \in Attempts, NEW ok \in BOOLEAN
      PROVE  /\ AuthBlock(a, ok) \in Block /\ SavedBlock(a, ok) \in Block
             /\ AuthBlock(a, ok).run = "auth" /\ SavedBlock(a, ok).run = "saved"
  BY <1>2 DEF AuthBlock, SavedBlock, Block
<1>3. ASSUME NEW u \in Users, NEW f \in BOOLEAN
      PROVE  ProfileBlock(u, f) \in Block /\ ProfileBlock(u, f).run = "profile"
  BY <1>3 DEF ProfileBlock, Block
<1> QED
  BY <1>1, <1>2, <1>3

\* The attempt, the outcome and the user can be read back from a block.
LEMMA BlockParts ==
  /\ \A a, b \in Attempts, x, y \in BOOLEAN :
       /\ AuthBlock(a, x) = AuthBlock(b, y) => a = b /\ x = y
       /\ SavedBlock(a, x) = SavedBlock(b, y) => a = b /\ x = y
  /\ \A u, v \in Users, x, y \in BOOLEAN :
       ProfileBlock(u, x) = ProfileBlock(v, y) => u = v /\ x = y
<1>1. ASSUME NEW a, NEW x PROVE AuthBlock(a, x).attempt = a /\ AuthBlock(a, x).ok = x
  BY DEF AuthBlock
<1>2. ASSUME NEW a, NEW x PROVE SavedBlock(a, x).attempt = a /\ SavedBlock(a, x).ok = x
  BY DEF SavedBlock
<1>3. ASSUME NEW u, NEW x PROVE ProfileBlock(u, x).user = u /\ ProfileBlock(u, x).found = x
  BY DEF ProfileBlock
<1>4. ASSUME NEW a, NEW b, NEW x, NEW y, AuthBlock(a, x) = AuthBlock(b, y) PROVE a = b /\ x = y
  <2>1. AuthBlock(a, x).attempt = AuthBlock(b, y).attempt /\ AuthBlock(a, x).ok = AuthBlock(b, y).ok
    BY <1>4, Zenon
  <2>2. AuthBlock(a, x).attempt = a /\ AuthBlock(b, y).attempt = b
    BY <1>1
  <2>3. AuthBlock(a, x).ok = x /\ AuthBlock(b, y).ok = y
    BY <1>1
  <2> QED
    BY <2>1, <2>2, <2>3, Zenon
<1>5. ASSUME NEW a, NEW b, NEW x, NEW y, SavedBlock(a, x) = SavedBlock(b, y) PROVE a = b /\ x = y
  <2>1. SavedBlock(a, x).attempt = SavedBlock(b, y).attempt /\ SavedBlock(a, x).ok = SavedBlock(b, y).ok
    BY <1>5, Zenon
  <2>2. SavedBlock(a, x).attempt = a /\ SavedBlock(b, y).attempt = b
    BY <1>2
  <2>3. SavedBlock(a, x).ok = x /\ SavedBlock(b, y).ok = y
    BY <1>2
  <2> QED
    BY <2>1, <2>2, <2>3, Zenon
<1>6. ASSUME NEW u, NEW v, NEW x, NEW y, ProfileBlock(u, x) = ProfileBlock(v, y) PROVE u = v /\ x = y
  <2>1. ProfileBlock(u, x).user = ProfileBlock(v, y).user /\ ProfileBlock(u, x).found = ProfileBlock(v, y).found
    BY <1>6, Zenon
  <2>2. ProfileBlock(u, x).user = u /\ ProfileBlock(v, y).user = v
    BY <1>3
  <2>3. ProfileBlock(u, x).found = x /\ ProfileBlock(v, y).found = y
    BY <1>3
  <2> QED
    BY <2>1, <2>2, <2>3, Zenon
<1>7. \A a, b \in Attempts, x, y \in BOOLEAN : AuthBlock(a, x) = AuthBlock(b, y) => a = b /\ x = y
  BY <1>4
<1>8. \A a, b \in Attempts, x, y \in BOOLEAN : SavedBlock(a, x) = SavedBlock(b, y) => a = b /\ x = y
  BY <1>5
<1>9. \A u, v \in Users, x, y \in BOOLEAN : ProfileBlock(u, x) = ProfileBlock(v, y) => u = v /\ x = y
  BY <1>6
<1> QED
  BY <1>7, <1>8, <1>9, Zenon

\* What the head of the queue is, by its kind.
LEMMA BlockKinds ==
  ASSUME NEW b \in Block
  PROVE  /\ b.run = "auth" => /\ b.attempt \in Attempts /\ b.ok \in BOOLEAN
                              /\ b = AuthBlock(b.attempt, b.ok)
         /\ b.run = "saved" => /\ b.attempt \in Attempts /\ b.ok \in BOOLEAN
                               /\ b = SavedBlock(b.attempt, b.ok)
         /\ b.run = "profile" => /\ b.user \in Users /\ b.found \in BOOLEAN
                                 /\ b = ProfileBlock(b.user, b.found)
         /\ b.run = "listener" => b = Notification
<1>1. CASE b \in [run : {"listener"}]
  BY <1>1 DEF Notification
<1>2. CASE b \in [run : {"auth", "saved"}, attempt : Attempts, ok : BOOLEAN]
  BY <1>2 DEF AuthBlock, SavedBlock
<1>3. CASE b \in [run : {"profile"}, user : Users, found : BOOLEAN]
  BY <1>3 DEF ProfileBlock
<1> QED
  BY <1>1, <1>2, <1>3 DEF Block

\* A block is put onto the queue.
LEMMA Enqueue ==
  ASSUME NEW q \in Seq(Block), NEW b \in Block
  PROVE  /\ Append(q, b) \in Seq(Block)
         /\ Blocks(Append(q, b)) = Blocks(q) \cup {b}
         /\ Once(q) /\ (\A a \in Attempts, x \in BOOLEAN :
                          b = AuthBlock(a, x) => \A y \in BOOLEAN : AuthBlock(a, y) \notin Blocks(q))
              => Once(Append(q, b))
<1>1. /\ Append(q, b) \in Seq(Block)
      /\ DOMAIN q = 1 .. Len(q) /\ Len(q) \in Nat
      /\ DOMAIN Append(q, b) = 1 .. (Len(q) + 1)
      /\ \A i \in 1 .. Len(q) : Append(q, b)[i] = q[i]
      /\ Append(q, b)[Len(q) + 1] = b
  OBVIOUS
<1>2. Blocks(Append(q, b)) = Blocks(q) \cup {b}
  BY <1>1 DEF Blocks
<1>3. ASSUME Once(q),
             \A a \in Attempts, x \in BOOLEAN :
               b = AuthBlock(a, x) => \A y \in BOOLEAN : AuthBlock(a, y) \notin Blocks(q)
      PROVE  Once(Append(q, b))
  <2> SUFFICES ASSUME NEW a \in Attempts, NEW x \in BOOLEAN, NEW y \in BOOLEAN,
                      NEW i \in 1 .. (Len(q) + 1), NEW j \in 1 .. (Len(q) + 1),
                      Append(q, b)[i] = AuthBlock(a, x), Append(q, b)[j] = AuthBlock(a, y)
               PROVE  i = j
    BY <1>1 DEF Once
  <2>1. CASE i \in 1 .. Len(q) /\ j \in 1 .. Len(q)
    BY <1>1, <1>3, <2>1 DEF Once
  <2>2. CASE i = Len(q) + 1 /\ j \in 1 .. Len(q)
    BY <1>1, <1>3, <2>2 DEF Blocks
  <2>3. CASE j = Len(q) + 1 /\ i \in 1 .. Len(q)
    BY <1>1, <1>3, <2>3 DEF Blocks
  <2> QED
    BY <1>1, <2>1, <2>2, <2>3
<1> QED
  BY <1>1, <1>2, <1>3

\* The oldest block is taken.
LEMMA Dequeue ==
  ASSUME NEW q \in Seq(Block), q # <<>>
  PROVE  /\ Head(q) \in Block /\ Tail(q) \in Seq(Block)
         /\ Blocks(q) = {Head(q)} \cup Blocks(Tail(q))
         /\ Once(q) => /\ Once(Tail(q))
                       /\ \A a \in Attempts, x, y \in BOOLEAN :
                            Head(q) = AuthBlock(a, x) => AuthBlock(a, y) \notin Blocks(Tail(q))
<1>1. /\ Head(q) = q[1] /\ Head(q) \in Block /\ Tail(q) \in Seq(Block)
      /\ DOMAIN q = 1 .. Len(q) /\ Len(q) \in Nat \ {0}
      /\ DOMAIN Tail(q) = 1 .. (Len(q) - 1)
      /\ \A i \in 1 .. (Len(q) - 1) : Tail(q)[i] = q[i + 1] /\ i + 1 \in 1 .. Len(q)
  OBVIOUS
<1>2. \A k \in 1 .. Len(q) : k = 1 \/ (k - 1 \in 1 .. (Len(q) - 1) /\ q[k] = Tail(q)[k - 1])
  BY <1>1
<1>3. Blocks(q) = {Head(q)} \cup Blocks(Tail(q))
  <2>1. \A b : b \in Blocks(q) <=> \E k \in 1 .. Len(q) : b = q[k]
    BY <1>1 DEF Blocks
  <2>2. \A b : b \in Blocks(Tail(q)) <=> \E k \in 1 .. (Len(q) - 1) : b = Tail(q)[k]
    BY <1>1 DEF Blocks
  <2>3. 1 \in 1 .. Len(q)
    BY <1>1
  <2>4. ASSUME NEW b \in Blocks(q) PROVE b \in {Head(q)} \cup Blocks(Tail(q))
    <3>1. PICK k \in 1 .. Len(q) : b = q[k]
      BY <2>1, <2>4
    <3> QED
      BY <1>1, <1>2, <2>2, <3>1
  <2>5. \A b : b \in {Head(q)} \cup Blocks(Tail(q)) => b \in Blocks(q)
    BY <1>1, <2>1, <2>2, <2>3
  <2> QED
    BY <2>4, <2>5
<1>4. Once(q) => Once(Tail(q))
  BY <1>1 DEF Once
<1>5. ASSUME Once(q), NEW a \in Attempts, NEW x \in BOOLEAN, NEW y \in BOOLEAN,
             Head(q) = AuthBlock(a, x), AuthBlock(a, y) \in Blocks(Tail(q))
      PROVE  FALSE
  <2>1. PICK i \in 1 .. (Len(q) - 1) : q[i + 1] = AuthBlock(a, y)
    BY <1>1, <1>5 DEF Blocks
  <2> QED
    BY <1>1, <1>5, <2>1 DEF Once
<1> QED
  BY <1>1, <1>3, <1>4, <1>5

\* The queue of a fresh process.
LEMMA FreshQueue ==
  /\ <<Notification>> \in Seq(Block) /\ Blocks(<<Notification>>) = {Notification}
  /\ Once(<<Notification>>)
<1>1. /\ <<Notification>> \in Seq(Block) /\ DOMAIN <<Notification>> = {1}
      /\ <<Notification>>[1] = Notification
  BY BlockFacts
<1> QED
  BY <1>1 DEF Blocks, Once

\* An answered read leaves the others.
LEMMA ReadsLeft ==
  ASSUME reads \in Seq(Users), NEW i \in DOMAIN reads
  PROVE  /\ WithoutRead(i) \in Seq(Users) /\ reads[i] \in Users
         /\ \A j \in DOMAIN WithoutRead(i) : \E k \in DOMAIN reads : WithoutRead(i)[j] = reads[k]
<1>1. /\ Len(reads) \in Nat /\ DOMAIN reads = 1 .. Len(reads) /\ i \in 1 .. Len(reads)
      /\ \A k \in 1 .. Len(reads) : reads[k] \in Users
  OBVIOUS
<1> DEFINE s == SubSeq(reads, 1, i - 1)
           t == SubSeq(reads, i + 1, Len(reads))
<1>2. /\ s \in Seq(Users) /\ Len(s) = i - 1
      /\ \A j \in 1 .. Len(s) : s[j] = reads[j]
  BY <1>1
<1>3. /\ t \in Seq(Users) /\ Len(t) = Len(reads) - i
      /\ \A j \in 1 .. Len(t) : t[j] = reads[i + j]
  BY <1>1
<1> HIDE DEF s, t
<1>4. /\ s \o t \in Seq(Users) /\ DOMAIN (s \o t) = 1 .. (Len(s) + Len(t))
      /\ \A j \in 1 .. (Len(s) + Len(t)) : (s \o t)[j] = IF j <= Len(s) THEN s[j] ELSE t[j - Len(s)]
  BY <1>2, <1>3
<1>5. ASSUME NEW j \in 1 .. (Len(s) + Len(t)) PROVE \E k \in DOMAIN reads : (s \o t)[j] = reads[k]
  <2>1. CASE j <= Len(s)
    <3>1. j \in 1 .. Len(s) /\ j \in DOMAIN reads
      BY <1>1, <1>2, <1>3, <2>1
    <3> QED
      BY <1>2, <1>4, <2>1, <3>1
  <2>2. CASE ~(j <= Len(s))
    <3>1. j - Len(s) \in 1 .. Len(t) /\ i + (j - Len(s)) \in DOMAIN reads
      BY <1>1, <1>2, <1>3, <2>2
    <3>2. (s \o t)[j] = reads[i + (j - Len(s))]
      BY <1>3, <1>4, <2>2, <3>1
    <3> QED
      BY <3>1, <3>2
  <2> QED
    BY <2>1, <2>2
<1>6. WithoutRead(i) = s \o t
  BY DEF WithoutRead, s, t
<1> QED
  BY <1>1, <1>4, <1>5, <1>6

-----------------------------------------------------------------------------
(* Types.                                                                  *)

\* The initial state is well typed.
LEMMA TypeInit == Init => AccountTypeOK
<1> SUFFICES ASSUME Init PROVE AccountTypeOK
  OBVIOUS
<1>1. main \in Seq(Block) /\ reads \in Seq(Users)
  BY FreshQueue DEF Init
<1>2. mixed \in BOOLEAN
  BY Zenon DEF Init
<1>3. NoForm \in Form /\ 0 \in 0 .. MaxPassword /\ 1 \in 0 .. MaxPassword
  BY AccountAssumption DEF NoForm, Form, Kinds, Fills
<1>4. accounts \in [Users -> 0 .. MaxPassword] /\ docs \in [Users -> {"none", "pending", "made"}]
  <2>1. PICK registered \in SUBSET Users :
          /\ accounts = [u \in Users |-> IF u \in registered THEN 1 ELSE 0]
          /\ docs = [u \in Users |-> IF u \in registered THEN "made" ELSE "none"]
    BY DEF Init
  <2> QED
    BY <1>3, <2>1
<1> QED
  BY <1>1, <1>2, <1>3, <1>4 DEF Init, AccountTypeOK, Phases

\* A tap keeps the types.
LEMMA TypeTaps ==
  ASSUME AccountTypeOK,
         \/ OpenScreen \/ LeaveScreen \/ LogOut
         \/ \E a \in Attempts : SignInLastTapped(a)
         \/ \E a \in Attempts, u \in Users : \/ \E p \in 1 .. MaxPassword : LoginTapped(a, u, p)
                                             \/ \E f \in Fills : SignUpTapped(a, u, f)
  PROVE  AccountTypeOK'
<1>1. CASE OpenScreen
  BY <1>1 DEF OpenScreen, AccountTypeOK, uiVars
<1>2. CASE LeaveScreen
  BY <1>2 DEF LeaveScreen, AccountTypeOK, uiVars
<1>3. CASE LogOut
  <2>1. main' \in Seq(Block)
    BY <1>3, Enqueue, BlockFacts DEF LogOut, AccountTypeOK
  <2> QED
    BY <1>3, <2>1 DEF LogOut, AccountTypeOK, uiVars
<1>4. ASSUME NEW a \in Attempts, NEW k \in Kinds, NEW u \in Users, NEW p \in 1 .. MaxPassword,
             NEW f \in Fills, Start(a, k, u, p, f)
      PROVE  AccountTypeOK'
  <2>1. [kind |-> k, user |-> u, password |-> p, fill |-> f] \in Form
    BY DEF Form
  <2>2. phase' \in [Attempts -> Phases] /\ form' \in [Attempts -> Form]
    BY <1>4, <2>1 DEF Start, AccountTypeOK, Phases
  <2> QED
    BY <1>4, <2>2 DEF Start, AccountTypeOK, uiVars
<1>5. ASSUME NEW a \in Attempts, SignInLastTapped(a) PROVE AccountTypeOK'
  <2>1. userUid \in Users /\ keychain[userUid] \in 1 .. MaxPassword
    BY <1>5, AccountAssumption DEF SignInLastTapped, AccountTypeOK
  <2> QED
    BY <1>4, <1>5, <2>1 DEF SignInLastTapped, Kinds, Fills
<1>6. ASSUME NEW a \in Attempts, NEW u \in Users, NEW p \in 1 .. MaxPassword, LoginTapped(a, u, p)
      PROVE  AccountTypeOK'
  BY <1>4, <1>6 DEF LoginTapped, Kinds, Fills
<1>7. ASSUME NEW a \in Attempts, NEW u \in Users, NEW f \in Fills, SignUpTapped(a, u, f)
      PROVE  AccountTypeOK'
  <2>1. 1 \in 1 .. MaxPassword
    BY AccountAssumption
  <2> QED
    BY <1>4, <1>7, <2>1 DEF SignUpTapped, Kinds, Fills
<1> QED
  BY <1>1, <1>2, <1>3, <1>5, <1>6, <1>7

\* Joining one block to the queue appends it.
LEMMA JoinOne ==
  ASSUME NEW q \in Seq(Block), NEW b \in Block
  PROVE  q \o <<b>> = Append(q, b)
  OBVIOUS

\* What Auth puts onto the queue with its answer.
LEMMA AnswerQueue ==
  ASSUME main \in Seq(Block), NEW a \in Attempts, AuthAnswers(a)
  PROVE  IF phase[a] = "accepted"
         THEN main' = Append(Append(main, Notification), AuthBlock(a, TRUE))
         ELSE main' = Append(main, AuthBlock(a, FALSE))
<1>1. CASE phase[a] = "accepted"
  <2>1. main' = (main \o <<Notification>>) \o <<AuthBlock(a, TRUE)>>
    BY <1>1 DEF AuthAnswers, AuthBlock
  <2>2. main \o <<Notification>> = Append(main, Notification) /\ Append(main, Notification) \in Seq(Block)
    BY BlockFacts, JoinOne, Enqueue
  <2>a. AuthBlock(a, TRUE) \in Block
    BY BlockFacts
  <2>3. Append(main, Notification) \o <<AuthBlock(a, TRUE)>>
          = Append(Append(main, Notification), AuthBlock(a, TRUE))
    BY <2>2, <2>a, JoinOne
  <2> QED
    BY <1>1, <2>1, <2>2, <2>3
<1>2. CASE phase[a] # "accepted"
  <2>1. main' = (main \o <<>>) \o <<AuthBlock(a, FALSE)>>
    BY <1>2 DEF AuthAnswers, AuthBlock
  <2>2. main \o <<>> = main
    OBVIOUS
  <2>a. AuthBlock(a, FALSE) \in Block
    BY BlockFacts
  <2>3. main \o <<AuthBlock(a, FALSE)>> = Append(main, AuthBlock(a, FALSE))
    BY <2>a, JoinOne
  <2> QED
    BY <1>2, <2>1, <2>2, <2>3
<1> QED
  BY <1>1, <1>2

\* What Auth and Firestore do keeps the types.
LEMMA TypeServices ==
  ASSUME AccountTypeOK, FormInv,
         \/ \E a \in Attempts : \/ DocumentWritten(a) \/ AuthDecides(a)
                                \/ AuthAnswers(a) \/ AuthAnswerLost(a)
         \/ \E u \in Users : PasswordChanged(u)
         \/ \E i \in DOMAIN reads : ProfileRead(i)
  PROVE  AccountTypeOK'
<1>1. ASSUME NEW a \in Attempts, AuthDecides(a) PROVE AccountTypeOK'
  <2>1. form[a].password \in 0 .. MaxPassword
    BY AccountAssumption DEF AccountTypeOK, Form
  <2>2. accounts' \in [Users -> 0 .. MaxPassword] /\ phase' \in [Attempts -> Phases]
    BY <1>1, <2>1 DEF AuthDecides, AccountTypeOK, Phases
  <2> QED
    BY <1>1, <2>2 DEF AuthDecides, AccountTypeOK, uiVars
<1>2. ASSUME NEW a \in Attempts, AuthAnswers(a) PROVE AccountTypeOK'
  <2>1. main \in Seq(Block) /\ AuthBlock(a, TRUE) \in Block /\ AuthBlock(a, FALSE) \in Block
    BY BlockFacts DEF AccountTypeOK
  <2>2. main' \in Seq(Block)
    BY <1>2, <2>1, AnswerQueue, Enqueue, BlockFacts
  <2>3. user' \in Users \cup {NoUser} /\ phase' \in [Attempts -> Phases]
    BY <1>2 DEF AuthAnswers, AccountTypeOK, Form, Phases
  <2> QED
    BY <1>2, <2>2, <2>3 DEF AuthAnswers, AccountTypeOK, uiVars
<1>3. ASSUME NEW a \in Attempts, AuthAnswerLost(a) PROVE AccountTypeOK'
  <2>1. main \in Seq(Block) /\ AuthBlock(a, FALSE) \in Block
    BY BlockFacts DEF AccountTypeOK
  <2>2. main' = Append(main, AuthBlock(a, FALSE))
    BY <1>3 DEF AuthAnswerLost, AuthBlock
  <2>3. main' \in Seq(Block)
    BY <2>1, <2>2, Enqueue
  <2>4. phase[a] # "idle" /\ phase' \in [Attempts -> Phases]
    BY <1>3 DEF AuthAnswerLost, AccountTypeOK, Phases
  <2>5. abandoned' \in SUBSET Users
    BY <1>3, <2>4 DEF AuthAnswerLost, AccountTypeOK, FormInv
  <2> QED
    BY <1>3, <2>3, <2>4, <2>5 DEF AuthAnswerLost, AccountTypeOK, uiVars
<1>4. ASSUME NEW u \in Users, PasswordChanged(u) PROVE AccountTypeOK'
  <2>1. accounts' \in [Users -> 0 .. MaxPassword]
    <3>1. accounts[u] + 1 \in 0 .. MaxPassword
      BY <1>4, AccountAssumption DEF PasswordChanged
    <3> QED
      BY <1>4, <3>1 DEF PasswordChanged, AccountTypeOK
  <2> QED
    BY <1>4, <2>1 DEF PasswordChanged, AccountTypeOK, uiVars
<1>5. ASSUME NEW i \in DOMAIN reads, ProfileRead(i) PROVE AccountTypeOK'
  <2>1. main \in Seq(Block) /\ reads \in Seq(Users)
    BY DEF AccountTypeOK
  <2>2. reads' \in Seq(Users) /\ reads[i] \in Users
    BY <1>5, <2>1, ReadsLeft DEF ProfileRead
  <2>3. PICK found \in BOOLEAN : main' = Append(main, ProfileBlock(reads[i], found))
    BY <1>5 DEF ProfileRead, ProfileBlock
  <2>4. main' \in Seq(Block)
    BY <2>1, <2>2, <2>3, Enqueue, BlockFacts
  <2> QED
    BY <1>5, <2>2, <2>4 DEF ProfileRead, AccountTypeOK
<1>6. ASSUME NEW a \in Attempts, DocumentWritten(a) PROVE AccountTypeOK'
  <2>1. PICK ok \in BOOLEAN :
          /\ docs' = [docs EXCEPT ![form[a].user] = IF ok THEN "made" ELSE "none"]
          /\ abandoned' = IF ok THEN abandoned ELSE abandoned \cup {form[a].user}
          /\ IF phase[a] = "writing"
             THEN main' = Append(main, SavedBlock(a, ok)) /\ UNCHANGED phase
             ELSE phase' = [phase EXCEPT ![a] = "dead"] /\ UNCHANGED main
    BY <1>6 DEF DocumentWritten, SavedBlock
  <2>2. SavedBlock(a, ok) \in Block
    BY BlockFacts
  <2>3. main' \in Seq(Block)
    <3>1. main \in Seq(Block) /\ Append(main, SavedBlock(a, ok)) \in Seq(Block)
      BY <2>2, Enqueue DEF AccountTypeOK
    <3> QED
      BY <2>1, <3>1
  <2>4. phase' \in [Attempts -> Phases]
    BY <2>1 DEF AccountTypeOK, Phases
  <2>5. docs' \in [Users -> {"none", "pending", "made"}]
    BY <2>1 DEF AccountTypeOK
  <2>6. phase[a] # "idle" /\ form[a].user \in Users
    BY <1>6 DEF DocumentWritten, FormInv
  <2>7. abandoned' \in SUBSET Users
    BY <2>1, <2>6 DEF AccountTypeOK
  <2> QED
    BY <1>6, <2>3, <2>4, <2>5, <2>7 DEF DocumentWritten, AccountTypeOK, uiVars
<1> QED
  BY <1>1, <1>2, <1>3, <1>4, <1>5, <1>6

\* What comes off the main queue, by the kind of block.
LEMMA HeadOf ==
  ASSUME main \in Seq(Block), NEW k, NextIs(k), main' = Tail(main)
  PROVE  /\ main # <<>> /\ Head(main) \in Block /\ main' \in Seq(Block)
         /\ Head(main).run = k
         /\ Blocks(main) = {Head(main)} \cup Blocks(main')
         /\ Once(main) => Once(main')
         /\ Once(main) => \A a \in Attempts, x, y \in BOOLEAN :
              Head(main) = AuthBlock(a, x) => AuthBlock(a, y) \notin Blocks(main')
  BY Dequeue DEF NextIs

\* An alert is about its attempt.
LEMMA AlertTyped ==
  ASSUME AccountTypeOK, NEW a \in Attempts, NEW ok \in BOOLEAN
  PROVE  Alert(a, ok) \in SUBSET [attempt : Attempts, ok : BOOLEAN]
<1>1. [attempt |-> a, ok |-> ok] \in [attempt : Attempts, ok : BOOLEAN]
  OBVIOUS
<1> QED
  BY <1>1 DEF Alert, AccountTypeOK

\* The blocks of the main queue keep the types.
LEMMA TypeMain ==
  ASSUME AccountTypeOK, FormInv, RunMain
  PROVE  AccountTypeOK'
<1>0. main \in Seq(Block)
  BY DEF AccountTypeOK
<1>1. CASE RunListener
  <2>1. main' \in Seq(Block)
    BY <1>0, <1>1, HeadOf DEF RunListener
  <2>2. CASE ListenerIn
    <3>1. mixed' \in BOOLEAN
      BY <2>2, Zenon DEF ListenerIn, OtherProfileComing
    <3>2. user \in Users /\ reads' \in Seq(Users)
      BY <2>2 DEF ListenerIn, AccountTypeOK
    <3> QED
      BY <1>1, <2>1, <2>2, <3>1, <3>2 DEF RunListener, ListenerIn, AccountTypeOK
  <2>3. CASE ListenerOut
    BY <1>1, <2>1, <2>3 DEF RunListener, ListenerOut, AccountTypeOK
  <2>4. CASE UNCHANGED uiVars
    BY <1>1, <2>1, <2>4 DEF RunListener, AccountTypeOK, uiVars
  <2> QED
    BY <1>1, <2>2, <2>3, <2>4 DEF RunListener
<1>2. CASE RunAuth
  <2> DEFINE a == Head(main).attempt
             ok == Head(main).ok
  <2>1. main' \in Seq(Block) /\ Head(main) \in Block /\ Head(main).run = "auth"
    BY <1>0, <1>2, HeadOf DEF RunAuth
  <2>2. a \in Attempts /\ ok \in BOOLEAN
    BY <2>1, BlockKinds
  <2>3. form[a].user \in Users
    BY <1>0, <1>2, <2>1, <2>2, BlockKinds, HeadOf DEF RunAuth, FormInv
  <2>4. Alert(a, ok) \in SUBSET [attempt : Attempts, ok : BOOLEAN]
    BY <2>2, AlertTyped
  <2>5. Alert(a, FALSE) \in SUBSET [attempt : Attempts, ok : BOOLEAN]
    BY <2>2, AlertTyped
  <2>6. form[a].password \in 0 .. MaxPassword
    BY <2>2, AccountAssumption DEF AccountTypeOK, Form
  <2> HIDE DEF a, ok
  <2>7. \/ LoginAnswered(a, ok) \/ LastAnswered(a) \/ SignUpAnswered(a, ok)
        \/ SignUpAnsweredToNobody(a, ok) \/ SignUpRefused(a, ok)
    BY <1>2 DEF RunAuth, a, ok
  <2>8. /\ keychain' \in [Users -> 0 .. MaxPassword]
        /\ docs' \in [Users -> {"none", "pending", "made"}]
        /\ phase' \in [Attempts -> Phases]
        /\ abandoned' \in SUBSET Users
    <3>1. CASE LoginAnswered(a, ok)
      BY <2>3, <2>6, <3>1 DEF LoginAnswered, AccountTypeOK, Phases
    <3>2. CASE LastAnswered(a)
      BY <3>2 DEF LastAnswered, AccountTypeOK, Phases
    <3>3. CASE SignUpAnswered(a, ok)
      BY <3>3 DEF SignUpAnswered, AccountTypeOK, Phases
    <3>4. CASE SignUpAnsweredToNobody(a, ok)
      BY <2>3, <3>4 DEF SignUpAnsweredToNobody, AccountTypeOK, Phases
    <3>5. CASE SignUpRefused(a, ok)
      BY <3>5 DEF SignUpRefused, AccountTypeOK, Phases
    <3> QED
      BY <2>7, <3>1, <3>2, <3>3, <3>4, <3>5
  <2>9. alerts' \in SUBSET [attempt : Attempts, ok : BOOLEAN]
    BY <2>4, <2>5, <2>7 DEF LoginAnswered, LastAnswered, SignUpAnswered, SignUpAnsweredToNobody,
                            SignUpRefused, AccountTypeOK
  <2> QED
    BY <1>2, <2>1, <2>8, <2>9 DEF RunAuth, AccountTypeOK, uiVars
<1>3. CASE RunSaved
  <2>1. main' \in Seq(Block) /\ Head(main) \in Block /\ Head(main).run = "saved"
    BY <1>0, <1>3, HeadOf DEF RunSaved
  <2>2. Head(main).attempt \in Attempts /\ Head(main).ok \in BOOLEAN
    BY <2>1, BlockKinds
  <2>3. alerts' \in SUBSET [attempt : Attempts, ok : BOOLEAN]
    BY <1>3, <2>2, AlertTyped DEF RunSaved
  <2>4. phase' \in [Attempts -> Phases]
    BY <1>3 DEF RunSaved, AccountTypeOK, Phases
  <2> QED
    BY <1>3, <2>1, <2>3, <2>4 DEF RunSaved, AccountTypeOK, uiVars
<1>4. CASE RunProfile
  <2>1. main' \in Seq(Block) /\ Head(main) \in Block /\ Head(main).run = "profile"
    BY <1>0, <1>4, HeadOf DEF RunProfile
  <2>2. Head(main).user \in Users
    BY <2>1, BlockKinds
  <2>3. label' \in Users \cup {NoUser}
    BY <1>4, <2>2 DEF RunProfile, ShowProfile, AccountTypeOK
  <2>4. mixed' \in BOOLEAN
    BY <1>4, Zenon DEF RunProfile
  <2> QED
    BY <1>4, <2>1, <2>3, <2>4 DEF RunProfile, AccountTypeOK
<1> QED
  BY <1>1, <1>2, <1>3, <1>4 DEF RunMain

\* An account just created belongs to a user.
LEMMA CreatedUser ==
  ASSUME FormInv, NEW a \in Attempts, AccountCreated(a)
  PROVE  form[a].user \in Users /\ phase[a] \in {"accepted", "answered"}
<1>1. AuthBlock(a, TRUE) \in Blocks(main) \/ phase[a] = "accepted"
  BY DEF AccountCreated, AuthBlock, Blocks
<1> QED
  BY <1>1 DEF FormInv

\* A relaunch keeps the types.
LEMMA TypeRelaunch ==
  ASSUME AccountTypeOK, FormInv, Relaunch
  PROVE  AccountTypeOK'
<1>1. phase' \in [Attempts -> Phases]
  BY DEF Relaunch, AccountTypeOK, Phases
<1>2. abandoned' \in SUBSET Users
  BY CreatedUser DEF Relaunch, AccountTypeOK
<1>3. mixed' \in BOOLEAN
  BY Zenon DEF Relaunch
<1>4. main' \in Seq(Block) /\ reads' \in Seq(Users)
  BY FreshQueue DEF Relaunch
<1> QED
  BY <1>1, <1>2, <1>3, <1>4 DEF Relaunch, AccountTypeOK

-----------------------------------------------------------------------------
(* The session.                                                            *)

\* Blocks of different kinds are different.
LEMMA KindsDiffer ==
  /\ \A a \in Attempts, x \in BOOLEAN : AuthBlock(a, x) # Notification /\ SavedBlock(a, x) # Notification
  /\ \A u \in Users, f \in BOOLEAN : ProfileBlock(u, f) # Notification
  /\ \A a, b \in Attempts, x, y \in BOOLEAN : AuthBlock(a, x) # SavedBlock(b, y)
  /\ \A a \in Attempts, u \in Users, x, f \in BOOLEAN :
       AuthBlock(a, x) # ProfileBlock(u, f) /\ SavedBlock(a, x) # ProfileBlock(u, f)
<1>1. ASSUME NEW a, NEW x PROVE AuthBlock(a, x).run = "auth" /\ SavedBlock(a, x).run = "saved"
  BY DEF AuthBlock, SavedBlock
<1>2. ASSUME NEW u, NEW f PROVE ProfileBlock(u, f).run = "profile"
  BY DEF ProfileBlock
<1>3. Notification.run = "listener"
  BY DEF Notification
<1>4. ASSUME NEW a, NEW x PROVE AuthBlock(a, x) # Notification /\ SavedBlock(a, x) # Notification
  <2>1. AuthBlock(a, x).run # Notification.run /\ SavedBlock(a, x).run # Notification.run
    BY <1>1, <1>3
  <2> QED
    BY <2>1, Zenon
<1>5. ASSUME NEW u, NEW f PROVE ProfileBlock(u, f) # Notification
  <2>1. ProfileBlock(u, f).run # Notification.run
    BY <1>2, <1>3
  <2> QED
    BY <2>1, Zenon
<1>6. ASSUME NEW a, NEW b, NEW x, NEW y PROVE AuthBlock(a, x) # SavedBlock(b, y)
  <2>1. AuthBlock(a, x).run # SavedBlock(b, y).run
    BY <1>1
  <2> QED
    BY <2>1, Zenon
<1>7. ASSUME NEW a, NEW x, NEW u, NEW f
      PROVE  AuthBlock(a, x) # ProfileBlock(u, f) /\ SavedBlock(a, x) # ProfileBlock(u, f)
  <2>1. AuthBlock(a, x).run # ProfileBlock(u, f).run /\ SavedBlock(a, x).run # ProfileBlock(u, f).run
    BY <1>1, <1>2
  <2> QED
    BY <2>1, Zenon
<1>8. \A a \in Attempts, x \in BOOLEAN : AuthBlock(a, x) # Notification /\ SavedBlock(a, x) # Notification
  BY <1>4
<1>9. \A u \in Users, f \in BOOLEAN : ProfileBlock(u, f) # Notification
  BY <1>5
<1>10. \A a, b \in Attempts, x, y \in BOOLEAN : AuthBlock(a, x) # SavedBlock(b, y)
  BY <1>6
<1>11. \A a \in Attempts, u \in Users, x, f \in BOOLEAN :
         AuthBlock(a, x) # ProfileBlock(u, f) /\ SavedBlock(a, x) # ProfileBlock(u, f)
  BY <1>7
<1> QED
  BY <1>8, <1>9, <1>10, <1>11, Zenon

\* A step that leaves the screen alone keeps the session's invariant, if a change of
\* the user leaves a notification and no profile comes or goes.
LEMMA SessionKept ==
  ASSUME SessionInv, UNCHANGED uiVars,
         \/ Notification \in Blocks(main')
         \/ UNCHANGED user /\ Notification \notin Blocks(main),
         \A u \in Users, f \in BOOLEAN :
           ProfileBlock(u, f) \in Blocks(main') <=> ProfileBlock(u, f) \in Blocks(main)
  PROVE  SessionInv'
<1>1. UNCHANGED <<view, label, userUid, reads, mixed>>
  BY DEF uiVars
<1>2. FollowInv'
  BY <1>1 DEF SessionInv, FollowInv
<1>3. NameInv'
  BY <1>1 DEF SessionInv, NameInv
<1> QED
  BY <1>2, <1>3 DEF SessionInv

\* Starting, closing screens, signing out, and what Auth does.
LEMMA SessionOthers ==
  ASSUME AccountTypeOK, SessionInv,
         \/ OpenScreen \/ LeaveScreen \/ LogOut \/ \E u \in Users : PasswordChanged(u)
         \/ \E a \in Attempts : \/ \E k, u, p, f : Start(a, k, u, p, f)
                                \/ DocumentWritten(a) \/ AuthDecides(a)
                                \/ AuthAnswers(a) \/ AuthAnswerLost(a)
  PROVE  SessionInv'
<1>0. main \in Seq(Block)
  BY DEF AccountTypeOK
<1>1. CASE UNCHANGED <<user, main, uiVars>>
  BY <1>1, SessionKept
<1>2. CASE LogOut
  <2>1. Blocks(main') = Blocks(main) \cup {Notification}
    BY <1>0, <1>2, Enqueue, BlockFacts DEF LogOut
  <2> QED
    BY <1>2, <2>1, SessionKept, KindsDiffer DEF LogOut
<1>3. ASSUME NEW a \in Attempts, AuthAnswers(a) PROVE SessionInv'
  <2>1. AuthBlock(a, TRUE) \in Block /\ AuthBlock(a, FALSE) \in Block /\ Notification \in Block
    BY BlockFacts
  <2>2. CASE phase[a] = "accepted"
    <3>1. main' = Append(Append(main, Notification), AuthBlock(a, TRUE))
      BY <1>0, <1>3, <2>2, AnswerQueue
    <3>2. Append(main, Notification) \in Seq(Block) /\ Blocks(Append(main, Notification)) = Blocks(main) \cup {Notification}
      BY <1>0, <2>1, Enqueue
    <3>3. Blocks(main') = Blocks(main) \cup {Notification, AuthBlock(a, TRUE)}
      <4>1. PICK q \in Seq(Block) : q = Append(main, Notification)
        BY <3>2
      <4>2. Blocks(Append(q, AuthBlock(a, TRUE))) = Blocks(q) \cup {AuthBlock(a, TRUE)}
        BY <2>1, Enqueue
      <4> QED
        BY <3>1, <3>2, <4>1, <4>2
    <3> QED
      <4>1. UNCHANGED uiVars
        BY <1>3 DEF AuthAnswers
      <4>2. \A u \in Users, f \in BOOLEAN :
              ProfileBlock(u, f) # Notification /\ ProfileBlock(u, f) # AuthBlock(a, TRUE)
        BY KindsDiffer
      <4> QED
        BY <3>3, <4>1, <4>2, SessionKept
  <2>3. CASE phase[a] # "accepted"
    <3>1. main' = Append(main, AuthBlock(a, FALSE))
      BY <1>0, <1>3, <2>3, AnswerQueue
    <3>2. Blocks(main') = Blocks(main) \cup {AuthBlock(a, FALSE)}
      BY <1>0, <2>1, <3>1, Enqueue
    <3> QED
      <4>1. UNCHANGED <<user, uiVars>>
        BY <1>3, <2>3 DEF AuthAnswers
      <4>2. AuthBlock(a, FALSE) # Notification
            /\ \A u \in Users, f \in BOOLEAN : ProfileBlock(u, f) # AuthBlock(a, FALSE)
        BY KindsDiffer
      <4> QED
        BY <3>2, <4>1, <4>2, SessionKept
  <2> QED
    BY <2>2, <2>3
<1>4. ASSUME NEW a \in Attempts, AuthAnswerLost(a) PROVE SessionInv'
  <2>1. AuthBlock(a, FALSE) \in Block
    BY BlockFacts
  <2>2. main' = Append(main, AuthBlock(a, FALSE))
    BY <1>4 DEF AuthAnswerLost, AuthBlock
  <2>3. Blocks(main') = Blocks(main) \cup {AuthBlock(a, FALSE)}
    BY <1>0, <2>1, <2>2, Enqueue
  <2> QED
    BY <1>4, <2>3, SessionKept, KindsDiffer DEF AuthAnswerLost
<1>5. ASSUME NEW a \in Attempts, DocumentWritten(a) PROVE SessionInv'
  <2>1. PICK ok \in BOOLEAN : main' = main \/ main' = Append(main, SavedBlock(a, ok))
    BY <1>5 DEF DocumentWritten, SavedBlock
  <2>2. SavedBlock(a, ok) \in Block
    BY BlockFacts
  <2>3. Blocks(main') = Blocks(main) \/ Blocks(main') = Blocks(main) \cup {SavedBlock(a, ok)}
    BY <1>0, <2>1, <2>2, Enqueue
  <2>4. UNCHANGED <<user, uiVars>>
    BY <1>5 DEF DocumentWritten
  <2> QED
    BY <2>3, <2>4, SessionKept, KindsDiffer
<1> QED
  BY <1>1, <1>2, <1>3, <1>4, <1>5
     DEF OpenScreen, LeaveScreen, PasswordChanged, Start, AuthDecides

\* The callbacks of attempts leave the session alone.
LEMMA SessionCallbacks ==
  ASSUME AccountTypeOK, SessionInv, RunAuth \/ RunSaved
  PROVE  SessionInv'
<1>1. /\ main \in Seq(Block) /\ UNCHANGED <<user, uiVars>>
      /\ NextIs("auth") \/ NextIs("saved")
      /\ main' = Tail(main)
  BY DEF AccountTypeOK, RunAuth, RunSaved
<1>2. /\ Blocks(main) = {Head(main)} \cup Blocks(main')
      /\ Head(main) \in Block /\ Head(main).run \in {"auth", "saved"}
  BY <1>1, HeadOf
<1>3. Head(main) # Notification /\ \A u \in Users, f \in BOOLEAN : Head(main) # ProfileBlock(u, f)
  BY <1>2, BlockFacts
<1> QED
  BY <1>1, <1>2, <1>3, SessionKept

\* The listener brings the screen to the session of the moment.
LEMMA SessionListener ==
  ASSUME AccountTypeOK, SessionInv, RunListener
  PROVE  SessionInv'
<1>1. /\ Blocks(main) = {Head(main)} \cup Blocks(main')
      /\ reads \in Seq(Users) /\ user \in Users \cup {NoUser} /\ UNCHANGED user
  BY HeadOf DEF AccountTypeOK, RunListener
<1>2. CASE ListenerIn
  <2>1. user # NoUser /\ view' = "in" /\ userUid' = user /\ user \in Users
    BY <1>1, <1>2 DEF ListenerIn
  <2>2. FollowInv'
    BY <1>1, <2>1 DEF FollowInv
  <2>3. /\ reads' # <<>> /\ DOMAIN reads' = 1 .. (Len(reads) + 1)
        /\ DOMAIN reads = 1 .. Len(reads) /\ Len(reads) \in Nat
        /\ reads'[Len(reads) + 1] = user
        /\ \A i \in 1 .. Len(reads) : reads'[i] = reads[i]
    BY <1>1, <1>2, <2>1 DEF ListenerIn
  <2>4. ASSUME ~mixed' PROVE ~OtherProfileComing
    BY <1>2, <2>4, Zenon DEF ListenerIn
  <2>5. ASSUME ~mixed' PROVE \A i \in DOMAIN reads' : reads'[i] = userUid'
    BY <2>1, <2>3, <2>4, <2>5 DEF OtherProfileComing
  <2>6. ASSUME ~mixed', NEW u \in Users, NEW f \in BOOLEAN, ProfileBlock(u, f) \in Blocks(main')
        PROVE  u = userUid'
    <3>1. PICK i \in DOMAIN main : main[i] = ProfileBlock(u, f)
      BY <1>1, <2>6 DEF Blocks
    <3>2. main[i].run = "profile" /\ main[i].user = u
      BY <3>1 DEF ProfileBlock
    <3> QED
      BY <2>1, <2>4, <2>6, <3>2 DEF OtherProfileComing
  <2>7. NameInv'
    BY <2>3, <2>5, <2>6 DEF NameInv
  <2> QED
    BY <2>2, <2>7 DEF SessionInv
<1>3. CASE ListenerOut
  BY <1>1, <1>3 DEF ListenerOut, SessionInv, FollowInv, NameInv
<1>4. CASE Unchanged /\ UNCHANGED uiVars
  <2>1. UNCHANGED <<view, label, userUid, reads, mixed>>
    BY <1>4 DEF uiVars
  <2>2. FollowInv'
    BY <1>1, <1>4, <2>1 DEF SessionInv, FollowInv, Unchanged, LastNotified, AccountTypeOK
  <2>3. \A u \in Users, f \in BOOLEAN : Head(main) # ProfileBlock(u, f)
    BY DEF RunListener, NextIs, ProfileBlock
  <2>4. NameInv'
    BY <1>1, <2>1, <2>3 DEF SessionInv, NameInv
  <2> QED
    BY <2>2, <2>4 DEF SessionInv
<1> QED
  BY <1>2, <1>3, <1>4 DEF RunListener

\* Firestore answers a read of the profile.
LEMMA SessionRead ==
  ASSUME AccountTypeOK, SessionInv, NEW i \in DOMAIN reads, ProfileRead(i)
  PROVE  SessionInv'
<1>1. /\ main \in Seq(Block) /\ reads \in Seq(Users)
      /\ UNCHANGED <<user, view, label, userUid, mixed>>
  BY DEF AccountTypeOK, ProfileRead
<1>2. reads[i] \in Users /\ \A j \in DOMAIN reads' : \E k \in DOMAIN reads : reads'[j] = reads[k]
  BY <1>1, ReadsLeft DEF ProfileRead
<1>3. PICK found \in BOOLEAN : main' = Append(main, ProfileBlock(reads[i], found))
  BY DEF ProfileRead, ProfileBlock
<1>4. ProfileBlock(reads[i], found) \in Block /\ ProfileBlock(reads[i], found) # Notification
  BY <1>2, BlockFacts, KindsDiffer
<1>5. Blocks(main') = Blocks(main) \cup {ProfileBlock(reads[i], found)}
  BY <1>1, <1>3, <1>4, Enqueue
<1>6. FollowInv'
  BY <1>1, <1>4, <1>5 DEF SessionInv, FollowInv
<1>7. \A u \in Users, f \in BOOLEAN :
        ProfileBlock(u, f) \in Blocks(main') => ProfileBlock(u, f) \in Blocks(main) \/ u = reads[i]
  BY <1>2, <1>5, BlockParts
<1>8. NameInv'
  BY <1>1, <1>2, <1>5, <1>7 DEF SessionInv, NameInv
<1> QED
  BY <1>6, <1>8 DEF SessionInv

\* The profile's callback shows the name.
LEMMA SessionProfile ==
  ASSUME AccountTypeOK, SessionInv, RunProfile
  PROVE  SessionInv'
<1>1. /\ main \in Seq(Block) /\ UNCHANGED <<user, view, userUid, reads>>
  BY DEF AccountTypeOK, RunProfile
<1>2. /\ Blocks(main) = {Head(main)} \cup Blocks(main')
      /\ Head(main) \in Block /\ Head(main).run = "profile"
  BY <1>1, HeadOf DEF RunProfile
<1>3. PICK u \in Users, found \in BOOLEAN : /\ Head(main) = ProfileBlock(u, found)
                                            /\ u = Head(main).user /\ found = Head(main).found
  BY <1>2, BlockKinds
<1>4. Head(main) # Notification
  BY <1>3, KindsDiffer
<1>5. FollowInv'
  BY <1>1, <1>2, <1>4 DEF SessionInv, FollowInv
<1>6. label' = (IF found THEN u ELSE label)
  BY <1>3 DEF RunProfile, ShowProfile
<1>7. ASSUME ~mixed' PROVE ~mixed /\ (~found => label \in {NoUser, u})
  BY <1>3, <1>7 DEF RunProfile
<1>8. NameInv'
  <2> SUFFICES ASSUME view = "in", ~mixed'
               PROVE  /\ \A i \in DOMAIN reads : reads[i] = userUid
                      /\ \A v \in Users, f \in BOOLEAN : ProfileBlock(v, f) \in Blocks(main') => v = userUid
                      /\ label' \in {NoUser, userUid}
    BY <1>1 DEF NameInv
  <2>1. /\ \A i \in DOMAIN reads : reads[i] = userUid
        /\ \A v \in Users, f \in BOOLEAN : ProfileBlock(v, f) \in Blocks(main) => v = userUid
    BY <1>7 DEF SessionInv, NameInv
  <2>2. u = userUid
    BY <1>2, <1>3, <2>1
  <2> QED
    BY <1>2, <1>6, <1>7, <2>1, <2>2
<1> QED
  BY <1>5, <1>8 DEF SessionInv

\* Before the first notification nothing is shown.
LEMMA SessionFresh ==
  /\ Init => SessionInv
  /\ Relaunch => SessionInv'
<1>1. Init => SessionInv
  BY DEF Init, SessionInv, FollowInv, NameInv
<1>2. Relaunch => SessionInv'
  BY DEF Relaunch, SessionInv, FollowInv, NameInv
<1> QED
  BY <1>1, <1>2

-----------------------------------------------------------------------------
(* The attempts.                                                           *)

\* An account is just created while Auth's answer to its sign-up is on its way.
LEMMA CreatedMeans ==
  /\ \A a \in Attempts : AccountCreated(a) <=>
       form[a].kind = "register" /\ (phase[a] = "accepted" \/ AuthBlock(a, TRUE) \in Blocks(main))
  /\ \A a \in Attempts : AccountCreated(a)' <=>
       form'[a].kind = "register" /\ (phase'[a] = "accepted" \/ AuthBlock(a, TRUE) \in Blocks(main'))
<1>1. \A a \in Attempts : AccountCreated(a) <=>
        form[a].kind = "register" /\ (phase[a] = "accepted" \/ AuthBlock(a, TRUE) \in Blocks(main))
  BY DEF AccountCreated, AuthBlock, Blocks
<1>2. \A a \in Attempts : AccountCreated(a)' <=>
       form'[a].kind = "register" /\ (phase'[a] = "accepted" \/ AuthBlock(a, TRUE) \in Blocks(main'))
  BY DEF AccountCreated, AuthBlock, Blocks
<1> QED
  BY <1>1, <1>2

\* An alert names an attempt.
LEMMA AlertAttempt ==
  ASSUME AccountTypeOK, NEW x \in alerts
  PROVE  x.attempt \in Attempts
  BY DEF AccountTypeOK

\* A step that concerns no attempt.
LEMMA AttemptKept ==
  ASSUME AttemptInv, UNCHANGED <<accounts, docs, keychain, phase, form, alerts, abandoned>>,
         Once(main'),
         \A a \in Attempts, ok \in BOOLEAN :
           /\ AuthBlock(a, ok) \in Blocks(main') <=> AuthBlock(a, ok) \in Blocks(main)
           /\ SavedBlock(a, ok) \in Blocks(main') <=> SavedBlock(a, ok) \in Blocks(main)
  PROVE  AttemptInv'
<1>1. FormInv'
  BY DEF AttemptInv, FormInv
<1>2. PasswordInv'
  BY DEF AttemptInv, PasswordInv, SavedPasswordsVerified
<1>3. \A a \in Attempts : AccountCreated(a)' <=> AccountCreated(a)
  BY CreatedMeans
<1>4. DocumentInv'
  BY <1>3 DEF AttemptInv, DocumentInv, RegisteredMeansBoth
<1> QED
  BY <1>1, <1>2, <1>4 DEF AttemptInv

\* An attempt starts: nothing that is on its way knows of it yet.
LEMMA AttemptStart ==
  ASSUME AccountTypeOK, AttemptInv, NEW a \in Attempts, NEW k, NEW u \in Users, NEW p, NEW f,
         Start(a, k, u, p, f)
  PROVE  AttemptInv'
<1>1. UNCHANGED <<accounts, docs, keychain, main, alerts, abandoned>> /\ phase[a] = "idle"
  BY DEF Start
<1>2. /\ phase'[a] = "sent" /\ form'[a].user = u
      /\ \A b \in Attempts : b # a => phase'[b] = phase[b] /\ form'[b] = form[b]
  BY DEF Start, AccountTypeOK
<1>3. /\ \A ok \in BOOLEAN : AuthBlock(a, ok) \notin Blocks(main) /\ SavedBlock(a, ok) \notin Blocks(main)
      /\ \A x \in alerts : x.attempt # a /\ x.attempt \in Attempts
  BY <1>1, AlertAttempt DEF AttemptInv, FormInv
<1>4. /\ \A b \in Attempts : b # a => (AccountCreated(b)' <=> AccountCreated(b))
      /\ ~AccountCreated(a) /\ ~AccountCreated(a)'
  BY <1>1, <1>2, <1>3, CreatedMeans
<1>5. FormInv'
  <2>1. \A b \in Attempts : phase'[b] # "idle" => form'[b].user \in Users
    BY <1>2 DEF AttemptInv, FormInv
  <2>2. \A b \in Attempts, ok \in BOOLEAN :
          /\ AuthBlock(b, ok) \in Blocks(main') => phase'[b] = "answered"
          /\ SavedBlock(b, ok) \in Blocks(main') => phase'[b] \in {"writing", "done"}
    BY <1>1, <1>2, <1>3 DEF AttemptInv, FormInv
  <2>3. \A x \in alerts' : phase'[x.attempt] # "idle"
    BY <1>1, <1>2, <1>3 DEF AttemptInv, FormInv
  <2> QED
    BY <1>1, <2>1, <2>2, <2>3 DEF AttemptInv, FormInv
<1>6. PasswordInv'
  BY <1>1, <1>2, <1>3 DEF AttemptInv, PasswordInv, SavedPasswordsVerified
<1>7. RegisteredMeansBoth'
  BY <1>1, <1>2, <1>3 DEF AttemptInv, DocumentInv, RegisteredMeansBoth
<1>8. DocumentInv'
  <2>1. \A b \in Attempts : AccountCreated(b)' => AccountCreated(b) /\ form'[b] = form[b]
    BY <1>2, <1>4
  <2>2. \A b \in Attempts : AccountCreated(b) => AccountCreated(b)' /\ form'[b] = form[b]
    BY <1>2, <1>4
  <2>3. \A b \in Attempts : SavedBlock(b, TRUE) \in Blocks(main') => docs'[form'[b].user] = "made"
    BY <1>1, <1>2, <1>3 DEF AttemptInv, DocumentInv
  <2>4. \A b \in Attempts : AccountCreated(b)' => /\ accounts'[form'[b].user] # 0
                                                  /\ docs'[form'[b].user] = "none"
    BY <1>1, <2>1 DEF AttemptInv, DocumentInv
  <2>5. \A b, c \in Attempts :
          AccountCreated(b)' /\ AccountCreated(c)' /\ form'[b].user = form'[c].user => b = c
    BY <2>1 DEF AttemptInv, DocumentInv
  <2>6. \A v \in Users \ abandoned : accounts[v] # 0 =>
          docs[v] # "none" \/ \E b \in Attempts : AccountCreated(b)' /\ form'[b].user = v
    BY <2>2 DEF AttemptInv, DocumentInv
  <2> QED
    BY <1>1, <1>7, <2>3, <2>4, <2>5, <2>6 DEF AttemptInv, DocumentInv
<1> QED
  BY <1>5, <1>6, <1>8 DEF AttemptInv

\* Auth decides: an account is only created where there was none.
LEMMA AttemptDecides ==
  ASSUME AccountTypeOK, AttemptInv, NEW a \in Attempts, AuthDecides(a)
  PROVE  AttemptInv'
<1>1. /\ UNCHANGED <<docs, keychain, main, form, alerts, abandoned>> /\ phase[a] = "sent"
      /\ form[a].user \in Users /\ form[a].password \in 1 .. MaxPassword
      /\ accounts \in [Users -> 0 .. MaxPassword]
  BY DEF AuthDecides, AttemptInv, FormInv, AccountTypeOK, Form
<1>2. /\ phase'[a] \in {"accepted", "refused"}
      /\ \A b \in Attempts : b # a => phase'[b] = phase[b]
  BY DEF AuthDecides, AccountTypeOK
<1>3. \A ok \in BOOLEAN : AuthBlock(a, ok) \notin Blocks(main)
  BY <1>1 DEF AttemptInv, FormInv
<1>4. FormInv'
  <2>1. \A b \in Attempts : phase'[b] # "idle" => phase[b] # "idle"
    BY <1>1, <1>2
  <2>2. \A b \in Attempts : phase[b] # "idle" => phase'[b] # "idle"
    BY <1>1, <1>2
  <2>3. \A x \in alerts : x.attempt \in Attempts
    BY AlertAttempt
  <2> QED
    BY <1>1, <1>2, <1>3, <2>1, <2>2, <2>3 DEF AttemptInv, FormInv
<1>5. CASE phase'[a] = "refused"
  <2>1. UNCHANGED accounts
    BY <1>5 DEF AuthDecides, AccountTypeOK
  <2>2. \A b \in Attempts : AccountCreated(b)' <=> AccountCreated(b)
    BY <1>1, <1>2, <1>3, <1>5, CreatedMeans
  <2>3. PasswordInv'
    BY <1>1, <1>2, <1>5, <2>1 DEF AttemptInv, PasswordInv, SavedPasswordsVerified
  <2>4. DocumentInv'
    BY <1>1, <2>1, <2>2 DEF AttemptInv, DocumentInv, RegisteredMeansBoth
  <2> QED
    BY <1>4, <2>3, <2>4 DEF AttemptInv
<1>6. CASE phase'[a] = "accepted"
  <2>1. Accepts(form[a]) /\ accounts' = [accounts EXCEPT ![form[a].user] = form[a].password]
    BY <1>6 DEF AuthDecides, AccountTypeOK
  <2>2. /\ accounts'[form[a].user] = form[a].password
        /\ \A v \in Users : v # form[a].user => accounts'[v] = accounts[v]
    BY <1>1, <2>1
  <2>3. /\ \A v \in Users : accounts'[v] >= accounts[v]
        /\ \A v \in Users : accounts[v] \in Nat /\ accounts'[v] \in Nat
    BY <1>1, <2>1, <2>2 DEF Accepts
  <2>4. PasswordInv'
    <3>1. \A v \in Users : keychain[v] \in Nat /\ keychain[v] <= accounts[v]
      BY DEF AttemptInv, PasswordInv, SavedPasswordsVerified, AccountTypeOK
    <3>2. SavedPasswordsVerified'
      BY <1>1, <2>3, <3>1 DEF SavedPasswordsVerified
    <3>3. ASSUME NEW b \in Attempts, phase'[b] = "accepted" \/ AuthBlock(b, TRUE) \in Blocks(main')
          PROVE  form'[b].password <= accounts'[form'[b].user]
      <4>1. CASE b = a
        BY <1>1, <2>2, <4>1
      <4>2. CASE b # a
        <5>1. form[b].password <= accounts[form[b].user] /\ form[b].user \in Users
          BY <1>1, <1>2, <3>3, <4>2 DEF AttemptInv, PasswordInv, FormInv
        <5>2. form[b].password \in Nat
          BY DEF AccountTypeOK, Form
        <5> QED
          BY <1>1, <2>3, <5>1, <5>2
      <4> QED
        BY <4>1, <4>2
    <3> QED
      BY <3>2, <3>3 DEF PasswordInv
  <2>5. \A v \in Users : accounts[v] # 0 => accounts'[v] # 0
    BY <2>3
  <2>6. /\ AccountCreated(a)' <=> form[a].kind = "register"
        /\ \A b \in Attempts : b # a => (AccountCreated(b)' <=> AccountCreated(b))
        /\ ~AccountCreated(a)
    BY <1>1, <1>2, <1>3, <1>6, CreatedMeans
  <2>7. form[a].kind = "register" => /\ accounts[form[a].user] = 0 /\ docs[form[a].user] = "none"
                                     /\ \A b \in Attempts : AccountCreated(b) => form[b].user # form[a].user
    BY <1>1, <2>1 DEF AttemptInv, DocumentInv, Accepts
  <2>8. form[a].kind # "register" => UNCHANGED accounts
    BY <1>1, <2>1 DEF Accepts
  <2>9. accounts'[form[a].user] # 0
    BY <1>1, <2>2
  <2>10. RegisteredMeansBoth'
    <3>1. \A x \in alerts : form[x.attempt].user \in Users
      BY AlertAttempt DEF AttemptInv, FormInv
    <3> QED
      BY <1>1, <2>5, <3>1 DEF AttemptInv, DocumentInv, RegisteredMeansBoth
  <2>11. \A b \in Attempts : AccountCreated(b)' => accounts'[form[b].user] # 0 /\ docs[form[b].user] = "none"
    <3>1. \A b \in Attempts : AccountCreated(b) => form[b].user \in Users
      BY CreatedUser DEF AttemptInv
    <3> QED
      BY <1>1, <2>5, <2>6, <2>7, <2>9, <3>1 DEF AttemptInv, DocumentInv
  <2>12. \A b, c \in Attempts : AccountCreated(b)' /\ AccountCreated(c)' /\ form[b].user = form[c].user => b = c
    BY <2>6, <2>7 DEF AttemptInv, DocumentInv
  <2>13. \A v \in Users \ abandoned : accounts'[v] # 0 =>
           docs[v] # "none" \/ \E b \in Attempts : AccountCreated(b)' /\ form[b].user = v
    <3> SUFFICES ASSUME NEW v \in Users \ abandoned, accounts'[v] # 0, docs[v] = "none"
                 PROVE  \E b \in Attempts : AccountCreated(b)' /\ form[b].user = v
      OBVIOUS
    <3>1. CASE accounts[v] # 0
      BY <2>6, <3>1 DEF AttemptInv, DocumentInv
    <3>2. CASE accounts[v] = 0
      <4>1. v = form[a].user /\ form[a].kind = "register"
        BY <2>2, <2>8, <3>2
      <4> QED
        BY <2>6, <4>1
    <3> QED
      BY <3>1, <3>2
  <2>14. DocumentInv'
    BY <1>1, <2>5, <2>10, <2>11, <2>12, <2>13 DEF AttemptInv, DocumentInv
  <2> QED
    BY <1>4, <2>4, <2>14 DEF AttemptInv
<1> QED
  BY <1>2, <1>5, <1>6

\* Auth's answer reaches the device: the attempt has its one block on the queue.
LEMMA AttemptAnswers ==
  ASSUME AccountTypeOK, AttemptInv, NEW a \in Attempts, NEW ok \in BOOLEAN,
         phase[a] \in {"accepted", "refused"}, phase' = [phase EXCEPT ![a] = "answered"],
         ok => phase[a] = "accepted",
         Blocks(main') \in {Blocks(main) \cup {AuthBlock(a, ok)},
                            Blocks(main) \cup {Notification, AuthBlock(a, ok)}},
         Once(main) /\ (\A y \in BOOLEAN : AuthBlock(a, y) \notin Blocks(main)) => Once(main'),
         UNCHANGED <<accounts, docs, keychain, form, alerts>>,
         abandoned' = IF ~ok /\ phase[a] = "accepted" /\ form[a].kind = "register"
                      THEN abandoned \cup {form[a].user} ELSE abandoned
  PROVE  AttemptInv'
<1>1. \A y \in BOOLEAN : AuthBlock(a, y) \notin Blocks(main)
  BY DEF AttemptInv, FormInv
<1>2. /\ phase'[a] = "answered"
      /\ \A b \in Attempts : b # a => phase'[b] = phase[b]
  BY DEF AccountTypeOK
<1>3. \A b \in Attempts, y \in BOOLEAN :
        /\ SavedBlock(b, y) \in Blocks(main') <=> SavedBlock(b, y) \in Blocks(main)
        /\ AuthBlock(b, y) \in Blocks(main') <=>
             AuthBlock(b, y) \in Blocks(main) \/ (b = a /\ y = ok)
  <2>1. ASSUME NEW b \in Attempts, NEW y \in BOOLEAN
        PROVE  /\ SavedBlock(b, y) \notin {Notification, AuthBlock(a, ok)}
               /\ AuthBlock(b, y) # Notification
               /\ AuthBlock(b, y) = AuthBlock(a, ok) <=> b = a /\ y = ok
    BY <2>1, KindsDiffer, BlockParts, Zenon
  <2> QED
    BY <2>1
<1>4. FormInv'
  <2>1. \A x \in alerts : x.attempt \in Attempts
    BY AlertAttempt
  <2> QED
    BY <1>1, <1>2, <1>3, <2>1 DEF AttemptInv, FormInv
<1>5. PasswordInv'
  BY <1>2, <1>3 DEF AttemptInv, PasswordInv, SavedPasswordsVerified
<1>6. /\ \A b \in Attempts : b # a => (AccountCreated(b)' <=> AccountCreated(b))
      /\ AccountCreated(a)' <=> form[a].kind = "register" /\ ok
      /\ AccountCreated(a) <=> form[a].kind = "register" /\ phase[a] = "accepted"
  BY <1>1, <1>2, <1>3, CreatedMeans
<1>7. \A b \in Attempts : AccountCreated(b)' => AccountCreated(b)
  BY <1>6
<1>8. \A b \in Attempts : AccountCreated(b) => AccountCreated(b)' \/ form[b].user \in abandoned'
  BY <1>6
<1>9. \A v \in Users \ abandoned' : accounts[v] # 0 =>
        docs[v] # "none" \/ \E b \in Attempts : AccountCreated(b)' /\ form[b].user = v
  BY <1>8 DEF AttemptInv, DocumentInv
<1>10. DocumentInv'
  BY <1>3, <1>7, <1>9 DEF AttemptInv, DocumentInv, RegisteredMeansBoth
<1> QED
  BY <1>4, <1>5, <1>10 DEF AttemptInv

\* A later password is above all that were accepted.
LEMMA AttemptPassword ==
  ASSUME AccountTypeOK, AttemptInv, NEW u \in Users, PasswordChanged(u)
  PROVE  AttemptInv'
<1>1. UNCHANGED <<docs, keychain, main, phase, form, alerts, abandoned>>
  BY DEF PasswordChanged
<1>2. \A v \in Users : /\ accounts[v] \in Nat /\ accounts'[v] \in Nat /\ accounts'[v] >= accounts[v]
                       /\ accounts[v] = 0 <=> accounts'[v] = 0
  BY DEF PasswordChanged, AccountTypeOK
<1>3. \A b \in Attempts : AccountCreated(b)' <=> AccountCreated(b)
  BY <1>1, CreatedMeans
<1>4. FormInv'
  BY <1>1 DEF AttemptInv, FormInv
<1>5. PasswordInv'
  <2>1. \A v \in Users : keychain[v] \in Nat /\ keychain[v] <= accounts[v]
    BY DEF AttemptInv, PasswordInv, SavedPasswordsVerified, AccountTypeOK
  <2>2. SavedPasswordsVerified'
    BY <1>1, <1>2, <2>1 DEF SavedPasswordsVerified
  <2>3. \A b \in Attempts :
          phase[b] = "accepted" \/ AuthBlock(b, TRUE) \in Blocks(main) =>
            /\ form[b].user \in Users /\ form[b].password \in Nat
            /\ form[b].password <= accounts[form[b].user]
    <3>1. \A b \in Attempts : form[b].password \in Nat
      BY DEF AccountTypeOK, Form
    <3>2. \A b \in Attempts :
            phase[b] = "accepted" \/ AuthBlock(b, TRUE) \in Blocks(main) => form[b].user \in Users
      BY DEF AttemptInv, FormInv
    <3> QED
      BY <3>1, <3>2 DEF AttemptInv, PasswordInv
  <2>4. ASSUME NEW b \in Attempts, phase'[b] = "accepted" \/ AuthBlock(b, TRUE) \in Blocks(main')
        PROVE  form'[b].password <= accounts'[form'[b].user]
    <3>1. /\ form[b].user \in Users /\ form[b].password \in Nat
          /\ form[b].password <= accounts[form[b].user]
      BY <1>1, <2>3, <2>4
    <3> QED
      BY <1>1, <1>2, <3>1
  <2> QED
    BY <2>2, <2>4 DEF PasswordInv
<1>6. RegisteredMeansBoth'
  <2>1. \A x \in alerts : form[x.attempt].user \in Users
    BY AlertAttempt DEF AttemptInv, FormInv
  <2> QED
    BY <1>1, <1>2, <2>1 DEF AttemptInv, DocumentInv, RegisteredMeansBoth
<1>7. \A b \in Attempts : AccountCreated(b) => form[b].user \in Users
  BY CreatedUser DEF AttemptInv
<1>8. DocumentInv'
  BY <1>1, <1>2, <1>3, <1>6, <1>7 DEF AttemptInv, DocumentInv
<1> QED
  BY <1>4, <1>5, <1>8 DEF AttemptInv

\* The document of a new account is written or rejected.
LEMMA AttemptDocument ==
  ASSUME AccountTypeOK, AttemptInv, NEW a \in Attempts, DocumentWritten(a)
  PROVE  AttemptInv'
<1>1. /\ UNCHANGED <<accounts, keychain, form, alerts>> /\ main \in Seq(Block)
      /\ phase[a] \in {"writing", "orphan"} /\ docs[form[a].user] = "pending"
      /\ form[a].user \in Users
  BY DEF DocumentWritten, AttemptInv, FormInv, AccountTypeOK
<1>2. PICK ok \in BOOLEAN :
        /\ docs' = [docs EXCEPT ![form[a].user] = IF ok THEN "made" ELSE "none"]
        /\ abandoned' = IF ok THEN abandoned ELSE abandoned \cup {form[a].user}
        /\ IF phase[a] = "writing"
           THEN main' = Append(main, SavedBlock(a, ok)) /\ UNCHANGED phase
           ELSE phase' = [phase EXCEPT ![a] = "dead"] /\ UNCHANGED main
  BY DEF DocumentWritten, SavedBlock
<1>3. /\ docs'[form[a].user] = IF ok THEN "made" ELSE "none"
      /\ \A v \in Users : v # form[a].user => docs'[v] = docs[v]
  BY <1>1, <1>2 DEF AccountTypeOK
<1>4. /\ \A b \in Attempts : b # a => phase'[b] = phase[b]
      /\ phase[a] = "writing" => phase'[a] = "writing"
      /\ phase[a] # "writing" => phase'[a] = "dead"
  BY <1>2 DEF AccountTypeOK
<1>5. /\ SavedBlock(a, ok) \in Block
      /\ \A b \in Attempts, x \in BOOLEAN : SavedBlock(a, ok) # AuthBlock(b, x)
      /\ \A b \in Attempts, x \in BOOLEAN : SavedBlock(b, x) = SavedBlock(a, ok) => b = a /\ x = ok
  BY BlockFacts, KindsDiffer, BlockParts
<1>6. /\ Once(main')
      /\ \A b \in Attempts, x \in BOOLEAN :
           /\ AuthBlock(b, x) \in Blocks(main') <=> AuthBlock(b, x) \in Blocks(main)
           /\ SavedBlock(b, x) \in Blocks(main') =>
                SavedBlock(b, x) \in Blocks(main) \/ (b = a /\ x = ok /\ phase[a] = "writing")
  <2>1. CASE phase[a] = "writing"
    <3>1. Blocks(main') = Blocks(main) \cup {SavedBlock(a, ok)}
      BY <1>1, <1>2, <1>5, <2>1, Enqueue
    <3>2. Once(main')
      <4>1. Once(main) /\ main' = Append(main, SavedBlock(a, ok))
        BY <1>2, <2>1 DEF AttemptInv, FormInv
      <4>2. \A b \in Attempts, x \in BOOLEAN :
              SavedBlock(a, ok) = AuthBlock(b, x) => \A y \in BOOLEAN : AuthBlock(b, y) \notin Blocks(main)
        BY <1>5
      <4>3. Once(Append(main, SavedBlock(a, ok)))
        BY <1>1, <1>5, <4>1, <4>2, Enqueue
      <4> QED
        BY <4>1, <4>3
    <3> QED
      BY <1>5, <2>1, <3>1, <3>2
  <2>2. CASE phase[a] # "writing"
    BY <1>2, <2>2 DEF AttemptInv, FormInv
  <2> QED
    BY <2>1, <2>2
<1>7. FormInv'
  <2>1. \A x \in alerts : x.attempt \in Attempts
    BY AlertAttempt
  <2> QED
    BY <1>1, <1>4, <1>6, <2>1 DEF AttemptInv, FormInv
<1>8. PasswordInv'
  BY <1>1, <1>4, <1>6 DEF AttemptInv, PasswordInv, SavedPasswordsVerified
<1>9. \A b \in Attempts : AccountCreated(b)' <=> AccountCreated(b)
  BY <1>1, <1>4, <1>6, CreatedMeans
<1>10. \A b \in Attempts : phase[b] # "idle" => form[b].user \in Users
  BY DEF AttemptInv, FormInv
<1>11. RegisteredMeansBoth'
  <2>1. \A x \in alerts : x.attempt \in Attempts /\ form[x.attempt].user \in Users
    BY AlertAttempt DEF AttemptInv, FormInv
  <2> QED
    BY <1>1, <1>3, <2>1 DEF AttemptInv, DocumentInv, RegisteredMeansBoth
<1>12. \A b \in Attempts : AccountCreated(b) => form[b].user # form[a].user /\ form[b].user \in Users
  BY <1>1, CreatedUser DEF AttemptInv, DocumentInv
<1>13. \A b \in Attempts : SavedBlock(b, TRUE) \in Blocks(main') => docs'[form[b].user] = "made"
  <2> SUFFICES ASSUME NEW b \in Attempts, SavedBlock(b, TRUE) \in Blocks(main')
               PROVE  docs'[form[b].user] = "made"
    OBVIOUS
  <2>1. CASE SavedBlock(b, TRUE) \in Blocks(main)
    <3>1. docs[form[b].user] = "made" /\ form[b].user \in Users
      BY <2>1, <1>10 DEF AttemptInv, DocumentInv, FormInv
    <3> QED
      BY <1>1, <1>3, <3>1
  <2>2. CASE b = a /\ ok = TRUE
    BY <1>3, <2>2
  <2> QED
    BY <1>6, <2>1, <2>2
<1>14. \A v \in Users : docs'[v] # "none" => accounts[v] # 0
  BY <1>1, <1>3 DEF AttemptInv, DocumentInv
<1>15. \A v \in Users \ abandoned' : accounts[v] # 0 =>
         docs'[v] # "none" \/ \E b \in Attempts : AccountCreated(b) /\ form[b].user = v
  BY <1>1, <1>2, <1>3 DEF AttemptInv, DocumentInv
<1>16. DocumentInv'
  <2>1. \A b \in Attempts : AccountCreated(b)' => /\ accounts'[form'[b].user] # 0
                                                  /\ docs'[form'[b].user] = "none"
    BY <1>1, <1>3, <1>9, <1>12 DEF AttemptInv, DocumentInv
  <2>2. \A b, c \in Attempts :
          AccountCreated(b)' /\ AccountCreated(c)' /\ form'[b].user = form'[c].user => b = c
    BY <1>1, <1>9 DEF AttemptInv, DocumentInv
  <2>3. \A v \in Users \ abandoned' : accounts'[v] # 0 =>
          docs'[v] # "none" \/ \E b \in Attempts : AccountCreated(b)' /\ form'[b].user = v
    BY <1>1, <1>9, <1>15
  <2> QED
    BY <1>1, <1>11, <1>13, <1>14, <2>1, <2>2, <2>3 DEF DocumentInv
<1> QED
  BY <1>7, <1>8, <1>16 DEF AttemptInv

\* setData's callback reports what was written.
LEMMA AttemptSaved ==
  ASSUME AccountTypeOK, AttemptInv, RunSaved
  PROVE  AttemptInv'
<1>1. /\ UNCHANGED <<accounts, docs, keychain, form, abandoned>> /\ main \in Seq(Block)
      /\ main' = Tail(main) /\ NextIs("saved")
  BY DEF RunSaved, AccountTypeOK
<1>2. /\ Blocks(main) = {Head(main)} \cup Blocks(main') /\ Once(main')
      /\ Head(main) \in Block /\ Head(main).run = "saved"
  BY <1>1, HeadOf DEF AttemptInv, FormInv
<1>3. PICK a \in Attempts, ok \in BOOLEAN : /\ Head(main) = SavedBlock(a, ok)
                                            /\ a = Head(main).attempt /\ ok = Head(main).ok
  BY <1>2, BlockKinds
<1>4. /\ phase[a] \in {"writing", "done"} /\ phase'[a] = "done"
      /\ \A b \in Attempts : b # a => phase'[b] = phase[b]
  BY <1>2, <1>3 DEF RunSaved, AttemptInv, FormInv, AccountTypeOK
<1>5. \A b \in Attempts, x \in BOOLEAN :
        /\ AuthBlock(b, x) \in Blocks(main') <=> AuthBlock(b, x) \in Blocks(main)
        /\ SavedBlock(b, x) \in Blocks(main') => SavedBlock(b, x) \in Blocks(main)
  BY <1>2, <1>3, KindsDiffer
<1>6. alerts' = Alert(a, ok)
  BY <1>3 DEF RunSaved
<1>7. \A x \in alerts' : x \in alerts \/ (x = [attempt |-> a, ok |-> ok])
  BY <1>6 DEF Alert
<1>8. FormInv'
  <2>1. \A x \in alerts' : x \in alerts \/ x.attempt = a
    BY <1>7
  <2>2. \A x \in alerts : x.attempt \in Attempts
    BY AlertAttempt
  <2> QED
    BY <1>1, <1>2, <1>4, <1>5, <2>1, <2>2 DEF AttemptInv, FormInv
<1>9. PasswordInv'
  BY <1>1, <1>4, <1>5 DEF AttemptInv, PasswordInv, SavedPasswordsVerified
<1>10. \A b \in Attempts : AccountCreated(b)' <=> AccountCreated(b)
  BY <1>1, <1>4, <1>5, CreatedMeans
<1>11. RegisteredMeansBoth'
  <2> SUFFICES ASSUME NEW x \in alerts', x.ok
               PROVE  form[x.attempt].kind = "register" =>
                        accounts[form[x.attempt].user] # 0 /\ docs[form[x.attempt].user] = "made"
    BY <1>1 DEF RegisteredMeansBoth
  <2>1. CASE x \in alerts
    BY <2>1 DEF AttemptInv, DocumentInv, RegisteredMeansBoth
  <2>2. CASE x = [attempt |-> a, ok |-> ok]
    <3>1. x.attempt = a /\ ok = TRUE
      BY <2>2
    <3>2. docs[form[a].user] = "made" /\ form[a].user \in Users
      <4>1. SavedBlock(a, TRUE) \in Blocks(main)
        BY <1>2, <1>3, <3>1
      <4> QED
        BY <1>4, <4>1 DEF AttemptInv, DocumentInv, FormInv
    <3> QED
      BY <3>1, <3>2 DEF AttemptInv, DocumentInv
  <2> QED
    BY <1>7, <2>1, <2>2
<1>12. DocumentInv'
  BY <1>1, <1>5, <1>10, <1>11 DEF AttemptInv, DocumentInv
<1> QED
  BY <1>8, <1>9, <1>12 DEF AttemptInv

\* A relaunch abandons the sign-ups cut short.
LEMMA AttemptRelaunch ==
  ASSUME AccountTypeOK, AttemptInv, Relaunch
  PROVE  AttemptInv'
<1>1. /\ UNCHANGED <<accounts, docs, keychain, form, alerts>> /\ main' = <<Notification>>
      /\ abandoned' = abandoned \cup {form[a].user : a \in {b \in Attempts : AccountCreated(b)}}
  BY DEF Relaunch
<1>2. \A a \in Attempts : /\ phase'[a] = "idle" <=> phase[a] = "idle"
                          /\ phase'[a] # "accepted"
  BY DEF Relaunch, Waiting
<1>3. /\ Once(main')
      /\ \A a \in Attempts, x \in BOOLEAN : AuthBlock(a, x) \notin Blocks(main')
                                            /\ SavedBlock(a, x) \notin Blocks(main')
  BY <1>1, FreshQueue, KindsDiffer
<1>4. FormInv'
  BY <1>1, <1>2, <1>3, AlertAttempt DEF AttemptInv, FormInv
<1>5. PasswordInv'
  BY <1>1, <1>2, <1>3 DEF AttemptInv, PasswordInv, SavedPasswordsVerified
<1>6. \A a \in Attempts : ~AccountCreated(a)'
  BY <1>2, <1>3, CreatedMeans
<1>7. \A v \in Users \ abandoned' : accounts[v] # 0 => docs[v] # "none"
  BY <1>1 DEF AttemptInv, DocumentInv
<1>8. DocumentInv'
  BY <1>1, <1>3, <1>6, <1>7 DEF AttemptInv, DocumentInv, RegisteredMeansBoth
<1> QED
  BY <1>4, <1>5, <1>8 DEF AttemptInv

\* Nothing has been attempted yet.
LEMMA AttemptInit == Init => AttemptInv
<1> SUFFICES ASSUME Init PROVE AttemptInv
  OBVIOUS
<1>1. PICK registered \in SUBSET Users :
        /\ accounts = [u \in Users |-> IF u \in registered THEN 1 ELSE 0]
        /\ docs = [u \in Users |-> IF u \in registered THEN "made" ELSE "none"]
  BY DEF Init
<1>2. /\ Once(main)
      /\ \A a \in Attempts, x \in BOOLEAN : AuthBlock(a, x) \notin Blocks(main)
                                            /\ SavedBlock(a, x) \notin Blocks(main)
  BY FreshQueue, KindsDiffer DEF Init
<1>3. FormInv
  BY <1>2 DEF Init, FormInv
<1>4. \A a \in Attempts : ~AccountCreated(a)
  BY <1>2, CreatedMeans DEF Init
<1>5. PasswordInv
  <2>1. \A u \in Users : keychain[u] = 0 /\ accounts[u] \in {0, 1}
    BY <1>1 DEF Init
  <2>2. SavedPasswordsVerified
    BY <2>1 DEF SavedPasswordsVerified
  <2> QED
    BY <1>2, <2>2 DEF Init, PasswordInv
<1>6. DocumentInv
  <2>1. \A u \in Users : docs[u] # "none" <=> accounts[u] # 0
    BY <1>1
  <2>2. RegisteredMeansBoth
    BY DEF Init, RegisteredMeansBoth
  <2> QED
    BY <1>2, <1>4, <2>1, <2>2 DEF DocumentInv
<1> QED
  BY <1>3, <1>5, <1>6 DEF AttemptInv

\* The callbacks of Auth: what was verified is saved, and a new account gets its
\* document or is abandoned.
LEMMA AttemptAuth ==
  ASSUME AccountTypeOK, AttemptInv, RunAuth
  PROVE  AttemptInv'
<1>1. /\ UNCHANGED <<accounts, form>> /\ main \in Seq(Block)
      /\ main' = Tail(main) /\ NextIs("auth")
  BY DEF RunAuth, AccountTypeOK
<1>2. /\ Blocks(main) = {Head(main)} \cup Blocks(main') /\ Once(main')
      /\ Head(main) \in Block /\ Head(main).run = "auth"
      /\ \A a \in Attempts, x, y \in BOOLEAN :
           Head(main) = AuthBlock(a, x) => AuthBlock(a, y) \notin Blocks(main')
  BY <1>1, HeadOf DEF AttemptInv, FormInv
<1>3. PICK a \in Attempts, ok \in BOOLEAN : /\ Head(main) = AuthBlock(a, ok)
                                            /\ a = Head(main).attempt /\ ok = Head(main).ok
  BY <1>2, BlockKinds
<1>4. \/ LoginAnswered(a, ok) \/ LastAnswered(a) \/ SignUpAnswered(a, ok)
      \/ SignUpAnsweredToNobody(a, ok) \/ SignUpRefused(a, ok)
  BY <1>3 DEF RunAuth
<1>5. /\ phase[a] = "answered" /\ phase'[a] \in {"done", "writing"} /\ form[a].user \in Users
      /\ \A b \in Attempts : b # a => phase'[b] = phase[b]
  <2>1. phase[a] = "answered" /\ form[a].user \in Users
    BY <1>2, <1>3 DEF AttemptInv, FormInv
  <2>2. phase' = [phase EXCEPT ![a] = "done"] \/ phase' = [phase EXCEPT ![a] = "writing"]
    BY <1>4 DEF LoginAnswered, LastAnswered, SignUpAnswered, SignUpAnsweredToNobody, SignUpRefused
  <2> QED
    BY <2>1, <2>2 DEF AccountTypeOK
<1>6. /\ \A b \in Attempts, x \in BOOLEAN :
           /\ b # a => (AuthBlock(b, x) \in Blocks(main') <=> AuthBlock(b, x) \in Blocks(main))
           /\ SavedBlock(b, x) \in Blocks(main') => SavedBlock(b, x) \in Blocks(main)
      /\ \A x \in BOOLEAN : AuthBlock(a, x) \notin Blocks(main')
  <2>1. \A b \in Attempts, x \in BOOLEAN : b # a => AuthBlock(b, x) # AuthBlock(a, ok)
    BY BlockParts
  <2> QED
    BY <1>2, <1>3, <2>1
<1>7. AuthBlock(a, TRUE) \in Blocks(main) <=> ok
  <2>1. ok => AuthBlock(a, TRUE) = AuthBlock(a, ok)
    OBVIOUS
  <2>2. AuthBlock(a, TRUE) = AuthBlock(a, ok) => ok
    BY BlockParts
  <2> QED
    BY <1>2, <1>3, <1>6, <2>1, <2>2
<1>8. \A x \in alerts' : \/ x \in alerts
                         \/ /\ x.attempt = a
                            /\ form[a].kind = "register" => ~x.ok
  <2>1. CASE LoginAnswered(a, ok)
    BY <2>1 DEF LoginAnswered, Alert
  <2>2. CASE SignUpRefused(a, ok)
    BY <2>2 DEF SignUpRefused, Alert
  <2> QED
    BY <1>4, <2>1, <2>2 DEF LastAnswered, SignUpAnswered, SignUpAnsweredToNobody
<1>9. FormInv'
  <2>1. \A x \in alerts : x.attempt \in Attempts
    BY AlertAttempt
  <2>2. \A x \in alerts' : phase'[x.attempt] # "idle"
    BY <1>5, <1>8, <2>1 DEF AttemptInv, FormInv
  <2>3. \A b \in Attempts, x \in BOOLEAN :
          /\ AuthBlock(b, x) \in Blocks(main') => phase'[b] = "answered"
          /\ SavedBlock(b, x) \in Blocks(main') => phase'[b] \in {"writing", "done"}
    BY <1>5, <1>6 DEF AttemptInv, FormInv
  <2>4. \A b \in Attempts : phase'[b] # "idle" => form'[b].user \in Users
    BY <1>1, <1>5 DEF AttemptInv, FormInv
  <2> QED
    BY <1>2, <2>2, <2>3, <2>4 DEF FormInv
<1>10. PasswordInv'
  <2>1. SavedPasswordsVerified'
    <3>1. CASE LoginAnswered(a, ok)
      <4>1. ok => form[a].password <= accounts[form[a].user]
        BY <1>7 DEF AttemptInv, PasswordInv
      <4>2. \A u \in Users : /\ keychain[u] <= accounts[u]
                             /\ keychain'[u] = keychain[u]
                                \/ (ok /\ u = form[a].user /\ keychain'[u] = form[a].password)
        BY <3>1 DEF LoginAnswered, AttemptInv, PasswordInv, SavedPasswordsVerified, AccountTypeOK
      <4> QED
        BY <1>1, <4>1, <4>2 DEF SavedPasswordsVerified
    <3>2. CASE UNCHANGED keychain
      BY <1>1, <3>2 DEF AttemptInv, PasswordInv, SavedPasswordsVerified
    <3> QED
      BY <1>4, <3>1, <3>2 DEF LastAnswered, SignUpAnswered, SignUpAnsweredToNobody, SignUpRefused
  <2>2. \A b \in Attempts :
          phase'[b] = "accepted" \/ AuthBlock(b, TRUE) \in Blocks(main') =>
            phase[b] = "accepted" \/ AuthBlock(b, TRUE) \in Blocks(main)
    BY <1>5, <1>6
  <2> QED
    BY <1>1, <2>1, <2>2 DEF AttemptInv, PasswordInv
<1>11. /\ \A b \in Attempts : b # a => (AccountCreated(b)' <=> AccountCreated(b))
       /\ ~AccountCreated(a)'
       /\ AccountCreated(a) <=> form[a].kind = "register" /\ ok
  BY <1>1, <1>5, <1>6, <1>7, CreatedMeans
<1>12. \A u \in Users : \/ docs'[u] = docs[u]
                        \/ /\ u = form[a].user /\ docs[u] = "none" /\ docs'[u] = "pending"
                           /\ AccountCreated(a)
  <2>1. CASE SignUpAnswered(a, ok)
    <3>1. AccountCreated(a) /\ docs[form[a].user] = "none"
      BY <1>11, <2>1 DEF SignUpAnswered, AttemptInv, DocumentInv
    <3> QED
      BY <2>1, <3>1 DEF SignUpAnswered, AccountTypeOK
  <2> QED
    BY <1>4, <2>1 DEF LoginAnswered, LastAnswered, SignUpAnsweredToNobody, SignUpRefused
<1>13. AccountCreated(a) => docs'[form[a].user] = "pending" \/ form[a].user \in abandoned'
  <2> SUFFICES ASSUME AccountCreated(a)
               PROVE  docs'[form[a].user] = "pending" \/ form[a].user \in abandoned'
    OBVIOUS
  <2>1. SignUpAnswered(a, ok) \/ SignUpAnsweredToNobody(a, ok)
    BY <1>4, <1>11 DEF LoginAnswered, LastAnswered, SignUpRefused
  <2>2. CASE SignUpAnswered(a, ok)
    BY <1>5, <2>2 DEF SignUpAnswered, AccountTypeOK
  <2>3. CASE SignUpAnsweredToNobody(a, ok)
    BY <2>3 DEF SignUpAnsweredToNobody
  <2> QED
    BY <2>1, <2>2, <2>3
<1>14. abandoned \subseteq abandoned'
  BY <1>4 DEF LoginAnswered, LastAnswered, SignUpAnswered, SignUpAnsweredToNobody, SignUpRefused
<1>15. RegisteredMeansBoth'
  <2> SUFFICES ASSUME NEW x \in alerts', x.ok, form[x.attempt].kind = "register"
               PROVE  accounts[form[x.attempt].user] # 0 /\ docs'[form[x.attempt].user] = "made"
    BY <1>1 DEF RegisteredMeansBoth
  <2>1. x \in alerts
    BY <1>8
  <2>2. form[x.attempt].user \in Users
    BY <2>1, AlertAttempt DEF AttemptInv, FormInv
  <2>3. accounts[form[x.attempt].user] # 0 /\ docs[form[x.attempt].user] = "made"
    BY <2>1 DEF AttemptInv, DocumentInv, RegisteredMeansBoth
  <2> QED
    BY <1>12, <2>2, <2>3
<1>16. DocumentInv'
  <2>1. \A u \in Users : docs'[u] # "none" => accounts'[u] # 0
    BY <1>1, <1>12 DEF AttemptInv, DocumentInv
  <2>2. \A b \in Attempts : AccountCreated(b)' =>
          b # a /\ AccountCreated(b) /\ form[b].user \in Users
    BY <1>11, CreatedUser DEF AttemptInv
  <2>3. \A b \in Attempts : AccountCreated(b)' => /\ accounts'[form'[b].user] # 0
                                                  /\ docs'[form'[b].user] = "none"
    <3> SUFFICES ASSUME NEW b \in Attempts, AccountCreated(b)'
                 PROVE  accounts[form[b].user] # 0 /\ docs'[form[b].user] = "none"
      BY <1>1
    <3>1. /\ b # a /\ form[b].user \in Users
          /\ accounts[form[b].user] # 0 /\ docs[form[b].user] = "none"
          /\ AccountCreated(a) => form[b].user # form[a].user
      BY <2>2 DEF AttemptInv, DocumentInv
    <3> QED
      BY <1>12, <3>1
  <2>4. \A b, c \in Attempts :
          AccountCreated(b)' /\ AccountCreated(c)' /\ form'[b].user = form'[c].user => b = c
    BY <1>1, <2>2 DEF AttemptInv, DocumentInv
  <2>5. \A b \in Attempts : SavedBlock(b, TRUE) \in Blocks(main') => docs'[form'[b].user] = "made"
    <3>1. \A b \in Attempts : SavedBlock(b, TRUE) \in Blocks(main) =>
            docs[form[b].user] = "made" /\ form[b].user \in Users
      BY DEF AttemptInv, DocumentInv, FormInv
    <3> QED
      BY <1>1, <1>6, <1>12, <3>1
  <2>6. \A u \in Users \ abandoned' : accounts'[u] # 0 =>
          docs'[u] # "none" \/ \E b \in Attempts : AccountCreated(b)' /\ form'[b].user = u
    <3> SUFFICES ASSUME NEW u \in Users \ abandoned', accounts[u] # 0, docs'[u] = "none"
                 PROVE  \E b \in Attempts : AccountCreated(b)' /\ form[b].user = u
      BY <1>1
    <3>1. docs[u] = "none" /\ u \notin abandoned
      BY <1>12, <1>14
    <3>2. PICK b \in Attempts : AccountCreated(b) /\ form[b].user = u
      BY <3>1 DEF AttemptInv, DocumentInv
    <3>3. b # a
      BY <1>13, <3>2
    <3> QED
      BY <1>11, <3>2, <3>3
  <2> QED
    BY <1>15, <2>1, <2>3, <2>4, <2>5, <2>6 DEF DocumentInv
<1> QED
  BY <1>9, <1>10, <1>16 DEF AttemptInv

\* Steps of the session and of the screens, as the attempts see them.
LEMMA AttemptOthers ==
  ASSUME AccountTypeOK, AttemptInv,
         \/ OpenScreen \/ LeaveScreen \/ LogOut \/ RunListener \/ RunProfile
         \/ \E i \in DOMAIN reads : ProfileRead(i)
  PROVE  AttemptInv'
<1>0. /\ main \in Seq(Block) /\ Once(main)
      /\ UNCHANGED <<accounts, docs, keychain, phase, form, alerts, abandoned>>
  BY DEF AccountTypeOK, AttemptInv, FormInv, OpenScreen, LeaveScreen, LogOut, RunListener,
         RunProfile, ProfileRead
<1>1. CASE UNCHANGED main
  BY <1>0, <1>1, AttemptKept
<1>2. ASSUME NEW b \in Block, b.run \in {"listener", "profile"},
             main' = Append(main, b) \/ (main # <<>> /\ Head(main) = b /\ main' = Tail(main))
      PROVE  AttemptInv'
  <2>1. \A a \in Attempts, x \in BOOLEAN : b # AuthBlock(a, x) /\ b # SavedBlock(a, x)
    BY <1>2, BlockFacts
  <2>2. CASE main' = Append(main, b)
    <3>1. Blocks(main') = Blocks(main) \cup {b} /\ Once(main')
      BY <1>0, <2>1, <2>2, Enqueue
    <3> QED
      BY <1>0, <2>1, <3>1, AttemptKept
  <2>3. CASE main # <<>> /\ Head(main) = b /\ main' = Tail(main)
    <3>1. Blocks(main) = Blocks(main') \cup {b} /\ Once(main')
      BY <1>0, <2>3, Dequeue
    <3> QED
      BY <1>0, <2>1, <3>1, AttemptKept
  <2> QED
    BY <1>2, <2>2, <2>3
<1>3. CASE LogOut
  BY <1>2, <1>3, BlockFacts DEF LogOut
<1>4. CASE RunListener
  BY <1>0, <1>2, <1>4, HeadOf DEF RunListener
<1>5. CASE RunProfile
  BY <1>0, <1>2, <1>5, HeadOf DEF RunProfile
<1>6. ASSUME NEW i \in DOMAIN reads, ProfileRead(i) PROVE AttemptInv'
  <2>1. reads[i] \in Users
    BY ReadsLeft DEF AccountTypeOK
  <2>2. PICK found \in BOOLEAN : main' = Append(main, ProfileBlock(reads[i], found))
    BY <1>6 DEF ProfileRead, ProfileBlock
  <2>3. ProfileBlock(reads[i], found) \in Block /\ ProfileBlock(reads[i], found).run = "profile"
    BY <2>1, BlockFacts
  <2> QED
    BY <1>2, <2>2, <2>3
<1> QED
  BY <1>1, <1>3, <1>4, <1>5, <1>6 DEF OpenScreen, LeaveScreen

-----------------------------------------------------------------------------
(* The theorems.                                                           *)

\* Every step of the application and its services keeps the invariant.
LEMMA AccountStep ==
  ASSUME AccountInv, [Next]_vars
  PROVE  AccountInv'
<1>0. AccountTypeOK /\ SessionInv /\ AttemptInv /\ FormInv
  BY DEF AccountInv, AttemptInv
<1>1. ASSUME NEW a \in Attempts, NEW u \in Users, NEW k, NEW p, NEW f, Start(a, k, u, p, f)
      PROVE  SessionInv' /\ AttemptInv'
  BY <1>0, <1>1, SessionOthers, AttemptStart
<1>2. ASSUME NEW a \in Attempts, NEW u \in Users, NEW p \in 1 .. MaxPassword, LoginTapped(a, u, p)
      PROVE  AccountInv'
  <2>1. AccountTypeOK'
    BY <1>0, <1>2, TypeTaps
  <2> QED
    BY <1>1, <1>2, <2>1 DEF LoginTapped, AccountInv
<1>3. ASSUME NEW a \in Attempts, NEW u \in Users, NEW f \in Fills, SignUpTapped(a, u, f)
      PROVE  AccountInv'
  <2>1. AccountTypeOK'
    BY <1>0, <1>3, TypeTaps
  <2> QED
    BY <1>1, <1>3, <2>1 DEF SignUpTapped, AccountInv
<1>4. ASSUME NEW a \in Attempts, SignInLastTapped(a) PROVE AccountInv'
  <2>1. AccountTypeOK'
    BY <1>0, <1>4, TypeTaps
  <2>2. userUid \in Users
    BY <1>0, <1>4 DEF SignInLastTapped, AccountTypeOK
  <2> QED
    BY <1>1, <1>4, <2>1, <2>2 DEF SignInLastTapped, AccountInv
<1>5. CASE OpenScreen \/ LeaveScreen \/ LogOut
  BY <1>0, <1>5, TypeTaps, SessionOthers, AttemptOthers DEF AccountInv
<1>6. ASSUME NEW a \in Attempts, DocumentWritten(a) PROVE AccountInv'
  BY <1>0, <1>6, TypeServices, SessionOthers, AttemptDocument DEF AccountInv
<1>7. ASSUME NEW a \in Attempts, AuthDecides(a) PROVE AccountInv'
  BY <1>0, <1>7, TypeServices, SessionOthers, AttemptDecides DEF AccountInv
<1>8. ASSUME NEW a \in Attempts, AuthAnswers(a) PROVE AccountInv'
  <2>1. AccountTypeOK' /\ SessionInv'
    BY <1>0, <1>8, TypeServices, SessionOthers
  <2>2. /\ main \in Seq(Block) /\ phase[a] \in {"accepted", "refused"}
        /\ phase' = [phase EXCEPT ![a] = "answered"]
        /\ UNCHANGED <<accounts, docs, keychain, form, alerts, abandoned>>
    BY <1>0, <1>8 DEF AuthAnswers, AccountTypeOK
  <2>3. CASE phase[a] = "accepted"
    <3>1. PICK b \in Block : b = AuthBlock(a, TRUE)
      BY BlockFacts
    <3>2. PICK q \in Seq(Block) : /\ q = Append(main, Notification)
                                  /\ Blocks(q) = Blocks(main) \cup {Notification}
                                  /\ Once(main) => Once(q)
      <4>1. \A c \in Attempts, x \in BOOLEAN : Notification # AuthBlock(c, x)
        BY KindsDiffer
      <4> QED
        BY <2>2, <4>1, Enqueue, BlockFacts
    <3>3. main' = Append(q, b)
      BY <1>8, <2>2, <2>3, <3>1, <3>2, AnswerQueue
    <3>4. Blocks(main') = Blocks(main) \cup {Notification, AuthBlock(a, TRUE)}
      <4>1. Blocks(Append(q, b)) = Blocks(q) \cup {b}
        BY Enqueue
      <4> QED
        BY <3>1, <3>2, <3>3, <4>1
    <3>5. Once(main) /\ (\A y \in BOOLEAN : AuthBlock(a, y) \notin Blocks(main)) => Once(main')
      <4>1. \A y \in BOOLEAN : AuthBlock(a, y) # Notification
        BY KindsDiffer
      <4>2. \A c \in Attempts, x \in BOOLEAN : b = AuthBlock(c, x) => c = a
        BY <3>1, BlockParts
      <4> QED
        BY <3>2, <3>3, <4>1, <4>2, Enqueue
    <3>6. AttemptInv'
      BY <1>0, <2>2, <2>3, <3>4, <3>5, AttemptAnswers
    <3> QED
      BY <2>1, <3>6 DEF AccountInv
  <2>4. CASE phase[a] # "accepted"
    <3>1. PICK b \in Block : b = AuthBlock(a, FALSE)
      BY BlockFacts
    <3>2. main' = Append(main, b)
      BY <1>8, <2>2, <2>4, <3>1, AnswerQueue
    <3>3. Blocks(main') = Blocks(main) \cup {AuthBlock(a, FALSE)}
      BY <2>2, <3>1, <3>2, Enqueue
    <3>4. Once(main) /\ (\A y \in BOOLEAN : AuthBlock(a, y) \notin Blocks(main)) => Once(main')
      <4>1. \A c \in Attempts, x \in BOOLEAN : b = AuthBlock(c, x) => c = a
        BY <3>1, BlockParts
      <4> QED
        BY <2>2, <3>2, <4>1, Enqueue
    <3>5. AttemptInv'
      BY <1>0, <2>2, <2>4, <3>3, <3>4, AttemptAnswers
    <3> QED
      BY <2>1, <3>5 DEF AccountInv
  <2> QED
    BY <2>3, <2>4
<1>9. ASSUME NEW a \in Attempts, AuthAnswerLost(a) PROVE AccountInv'
  <2>1. AccountTypeOK' /\ SessionInv'
    BY <1>0, <1>9, TypeServices, SessionOthers
  <2>2. /\ main \in Seq(Block) /\ phase[a] = "accepted"
        /\ phase' = [phase EXCEPT ![a] = "answered"]
        /\ UNCHANGED <<accounts, docs, keychain, form, alerts>>
        /\ abandoned' = IF form[a].kind = "register" THEN abandoned \cup {form[a].user} ELSE abandoned
    BY <1>0, <1>9 DEF AuthAnswerLost, AccountTypeOK
  <2>3. PICK b \in Block : b = AuthBlock(a, FALSE)
    BY BlockFacts
  <2>4. main' = Append(main, b)
    BY <1>9, <2>3 DEF AuthAnswerLost, AuthBlock
  <2>5. Blocks(main') = Blocks(main) \cup {AuthBlock(a, FALSE)}
    BY <2>2, <2>3, <2>4, Enqueue
  <2>6. Once(main) /\ (\A y \in BOOLEAN : AuthBlock(a, y) \notin Blocks(main)) => Once(main')
    <3>1. \A c \in Attempts, x \in BOOLEAN : b = AuthBlock(c, x) => c = a
      BY <2>3, BlockParts
    <3> QED
      BY <2>2, <2>4, <3>1, Enqueue
  <2>7. AttemptInv'
    BY <1>0, <2>2, <2>5, <2>6, AttemptAnswers
  <2> QED
    BY <2>1, <2>7 DEF AccountInv
<1>10. ASSUME NEW u \in Users, PasswordChanged(u) PROVE AccountInv'
  BY <1>0, <1>10, TypeServices, SessionOthers, AttemptPassword DEF AccountInv
<1>11. ASSUME NEW i \in DOMAIN reads, ProfileRead(i) PROVE AccountInv'
  BY <1>0, <1>11, TypeServices, SessionRead, AttemptOthers DEF AccountInv
<1>12. CASE RunListener
  BY <1>0, <1>12, TypeMain, SessionListener, AttemptOthers DEF AccountInv, RunMain
<1>13. CASE RunAuth
  BY <1>0, <1>13, TypeMain, SessionCallbacks, AttemptAuth DEF AccountInv, RunMain
<1>14. CASE RunSaved
  BY <1>0, <1>14, TypeMain, SessionCallbacks, AttemptSaved DEF AccountInv, RunMain
<1>15. CASE RunProfile
  BY <1>0, <1>15, TypeMain, SessionProfile, AttemptOthers DEF AccountInv, RunMain
<1>16. CASE Relaunch
  BY <1>0, <1>16, TypeRelaunch, SessionFresh, AttemptRelaunch DEF AccountInv
<1>17. CASE UNCHANGED vars
  <2>1. AccountTypeOK'
    BY <1>0, <1>17 DEF vars, AccountTypeOK
  <2>2. UNCHANGED <<main, user, uiVars, accounts, docs, keychain, phase, form, alerts, abandoned>>
    BY <1>17 DEF vars, uiVars
  <2>3. Once(main)
    BY <1>0 DEF FormInv
  <2> QED
    BY <1>0, <2>1, <2>2, <2>3, SessionKept, AttemptKept DEF AccountInv
<1> QED
  BY <1>2, <1>3, <1>4, <1>5, <1>6, <1>7, <1>8, <1>9, <1>10, <1>11, <1>12, <1>13, <1>14, <1>15,
     <1>16, <1>17 DEF Next, RunMain

\* The inductive invariant holds in every reachable state of signing up, in and out.
THEOREM AccountInvariant == Spec => []AccountInv
<1>1. Init => AccountInv
  BY TypeInit, SessionFresh, AttemptInit DEF AccountInv
<1>2. AccountInv /\ [Next]_vars => AccountInv'
  BY AccountStep
<1> QED
  BY <1>1, <1>2, PTL DEF Spec

\* Accounts, documents, forms, queued blocks and alerts keep their types, whatever
\* answers are lost and whenever the process ends.
THEOREM AccountTypeCorrect == Spec => []AccountTypeOK
<1>1. AccountInv => AccountTypeOK
  BY DEF AccountInv
<1> QED
  BY <1>1, AccountInvariant, PTL

\* The profile screen shows the buttons of the session, whatever the order of requests,
\* answers, taps and relaunches, as soon as the listener has run.
THEOREM ButtonsFollowSession == Spec => []ViewFollowsSession
<1>1. AccountInv => ViewFollowsSession
  BY DEF AccountInv, SessionInv, FollowInv, ViewFollowsSession, Blocks
<1> QED
  BY <1>1, AccountInvariant, PTL

\* At rest, and unless two users' profiles were mixed, the name shown is the user's.
THEOREM NameOfSession == Spec => []NameIsUsers
<1>1. ASSUME AccountInv, AtRest, view = "in", ~mixed PROVE label \in {NoUser, user}
  <2>1. Blocks(main) = {} /\ reads = <<>>
    BY <1>1 DEF AtRest, Blocks
  <2> QED
    BY <1>1, <2>1 DEF AccountInv, SessionInv, FollowInv, NameInv
<1>2. AccountInv => NameIsUsers
  BY <1>1 DEF NameIsUsers
<1> QED
  BY <1>2, AccountInvariant, PTL

\* What signInLastAcc would use was accepted by Auth for that user: a refused login
\* leaves nothing in the keychain.
THEOREM OnlyVerifiedSaved == Spec => []SavedPasswordsVerified
<1>1. AccountInv => SavedPasswordsVerified
  BY DEF AccountInv, AttemptInv, PasswordInv
<1> QED
  BY <1>1, AccountInvariant, PTL

\* Success of a sign-up is reported only when the account and its document exist.
THEOREM ReportedMeansRegistered == Spec => []RegisteredMeansBoth
<1>1. AccountInv => RegisteredMeansBoth
  BY DEF AccountInv, AttemptInv, DocumentInv
<1> QED
  BY <1>1, AccountInvariant, PTL

\* At rest an account without a profile document is one whose sign-up was cut short
\* between its two steps: no other order of events leaves half a registration.
THEOREM NoOtherHalfRegistration == Spec => []AccountsComplete
<1>1. ASSUME AccountInv, AtRest PROVE \A u \in Users \ abandoned : accounts[u] # 0 => docs[u] # "none"
  <2>1. Blocks(main) = {}
    BY <1>1 DEF AtRest, Blocks
  <2>2. \A a \in Attempts : ~AccountCreated(a)
    BY <1>1, <2>1, CreatedMeans DEF AtRest, Waiting
  <2> QED
    BY <1>1, <2>2 DEF AccountInv, AttemptInv, DocumentInv
<1>2. AccountInv => AccountsComplete
  BY <1>1 DEF AccountsComplete
<1> QED
  BY <1>2, AccountInvariant, PTL

=============================================================================
