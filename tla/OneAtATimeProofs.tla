------------------------- MODULE OneAtATimeProofs -------------------------
(***************************************************************************)
(* What holds as long as requests run one at a time, for any names and any *)
(* requests: no handler dereferences nil, no stored seed is replaced by a  *)
(* generated one, no account comes to exist but by a request that creates  *)
(* it, and the account server keeps the JWT an account has in storage      *)
(* until a request deletes the account, whatever storage errors and        *)
(* crashes there are; and without them the stored status of an issue is    *)
(* true between the requests.                                              *)
(*                                                                         *)
(* Each of these is about calls that are made long after what makes them   *)
(* safe, so the invariants are about agendas: in what order their calls    *)
(* come (nothing that needs an issue after a call that leads to the        *)
(* deletion of one), what each of them may count on until it is made, and  *)
(* what the calls to come will make of the status that was stored.  By     *)
(* CallProofs, the calls a step makes keep to that.                        *)
(***************************************************************************)
EXTENDS CallProofs

\* the first call of w is made, or a storage access of it fails
Acts(w) == Step(w) \/ StorageError(w) \/ StatusUnread(w) \/ SyncSkipped(w)

\* the request that agenda s answers
Asked(s) == s[Len(s)].req

\* may the call c come before the call d?
Before(c, d) == /\ c.op # "reply"
                /\ ErasesIssue(c) => ~Depends(d)
                /\ ErasesUser(c) => d.op # "periodicEachUser"

Ordered(s) == /\ s # <<>> => s[Len(s)].op = "reply"
              /\ \A i, j \in 1..Len(s) : i < j => Before(s[i], s[j])

\* calls that find what they take for granted
Sane ==
    {c \in Call :
        /\ Shaped(c)
        /\ c.op = "putNkey" => c.gen # 0
        /\ c.op = "periodicEachAccount" =>
              \A a \in c.todo : accIssue[a] # None
        /\ c.op = "periodicEachUser" =>
              \A u \in c.todo : userIssue[c.acc][u] # None}

\* is account a one that request r may create?
Allowed(r, a) == \/ r.op \in {"addNkey", "addAccountJWT"}
                 \/ r.op = "addAccountIssue" /\ a \in {r.acc, SysAccount}
                 \/ r.op = "addOperatorIssue" /\ a = SysAccount

\* calls that create no account but those that request r may
Faithful(r) ==
    {c \in Call : \A a \in Accounts :
        Creates(c, a) => accIssue[a] # None \/ Allowed(r, a)}

\* the operator's nkey is created before the JWT at j is issued
KeyAhead(s, j) ==
    \/ j > 1 /\ s[j - 1].op = "issueOperatorNkeys" /\ OpPath \in s[j - 1].todo
    \/ j > 2 /\ s[j - 1].op = "issueOperatorNkeys"
             /\ s[j - 2].op \in {"addNkey", "putNkey"} /\ s[j - 2].path = OpPath
KeysAhead(s) ==
    \A j \in 1..Len(s) : s[j].op = "issueOperatorJWT" => KeyAhead(s, j)

\* calls that import no seed
Tame == {c \in Call : c.op # "putNkey" /\ (c.op = "addNkey" => ~c.seed)}

\* A seed is imported by the request itself, or what a call stores is what is
\* stored, or nothing is; keys is nkey.
Seeded(s, keys) ==
    s # <<>> =>
        /\ Tail(s) \in Seq(Tame)
        /\ s[1].op = "addNkey" /\ s[1].seed => Len(s) = 2 /\ Asked(s) = s[1]
        /\ s[1].op = "putNkey" =>
              \/ keys[s[1].path] \in {0, s[1].gen}
              \/ /\ Asked(s).op = "addNkey" /\ Asked(s).seed
                 /\ Asked(s).path = s[1].path

\* the inductive invariant
OneAtATime(w) ==
    LET s == agenda[w] IN
    /\ Ordered(s)
    /\ s \in Seq(Sane)
    /\ s # <<>> => s \in Seq(Faithful(Asked(s)))
    /\ Stored(OpPath) \/ KeysAhead(s)
    /\ Seeded(s, nkey)

-----------------------------------------------------------------------------
(* Agendas.                                                                *)

\* where the calls are after those in n came in place of the first one
LEMMA Replaced ==
    ASSUME NEW s \in Seq(Call), s # <<>>, NEW n \in Seq(Call)
    PROVE  LET m == n \o Tail(s) IN
           /\ m \in Seq(Call) /\ Len(n) \in Nat /\ Len(s) \in Nat /\ Len(s) > 0
           /\ Len(m) = Len(n) + Len(s) - 1
           /\ \A k \in 1..Len(n) : m[k] = n[k]
           /\ \A k \in 2..Len(s) : m[Len(n) + k - 1] = s[k]
           /\ \A j \in 1..Len(m) :
                 \/ j \in 1..Len(n)
                 \/ \E k \in 2..Len(s) : j = Len(n) + k - 1
<1> DEFINE m == n \o Tail(s)
<1>1. /\ Tail(s) \in Seq(Call)
      /\ Len(s) \in Nat /\ Len(s) > 0 /\ Len(n) \in Nat
  BY HeadTailProperties, LenProperties, EmptySeq
<1>2. m \in Seq(Call)
  BY <1>1, ConcatProperties
<1>3. /\ Len(m) = Len(n) + Len(s) - 1
      /\ \A k \in 1..Len(n) : m[k] = n[k]
      /\ \A k \in 2..Len(s) : m[Len(n) + k - 1] = s[k]
  BY ReplacedFirst
<1>4. ASSUME NEW j \in 1..Len(m), j \notin 1..Len(n)
      PROVE  \E k \in 2..Len(s) : j = Len(n) + k - 1
  <2>1. j - Len(n) + 1 \in 2..Len(s) /\ j = Len(n) + (j - Len(n) + 1) - 1
    BY <1>1, <1>3, <1>4
  <2> QED
    BY <2>1
<1> QED
  BY <1>1, <1>2, <1>3, <1>4

\* where they are after an error
LEMMA Unwound ==
    ASSUME NEW s \in Seq(Call), Unwind(s) # <<>>
    PROVE  \E f \in 1..Len(s) :
              /\ s[f].op = "catch" /\ Len(Unwind(s)) = Len(s) - f
              /\ \A k \in 1..(Len(s) - f) : Unwind(s)[k] = s[f + k]
<1>1. PICK f \in 1..Len(s) : /\ s[f].op = "catch"
                             /\ Unwind(s) = SubSeq(s, f + 1, Len(s))
  BY UnwindEnd
<1>2. \A k \in (f + 1)..Len(s) : s[k] \in Call
  BY ElementOfSeq
<1>3. Len(s) \in Nat
  BY LenProperties
<1> QED
  BY <1>1, <1>2, <1>3, SubSeqProperties

\* What comes after an error was there before, except for the first call.
LEMMA UnwoundTail ==
    ASSUME NEW s \in Seq(Call), s # <<>>, NEW S, Tail(s) \in Seq(S)
    PROVE  Unwind(s) \in Seq(S)
<1>1. CASE Unwind(s) = <<>>
  BY <1>1
<1>2. CASE Unwind(s) # <<>>
  <2>1. PICK f \in 1..Len(s) : Unwind(s) = SubSeq(s, f + 1, Len(s))
    BY <1>2, UnwindEnd
  <2>2. Len(s) \in Nat /\ Len(Tail(s)) = Len(s) - 1
        /\ \A k \in 1..(Len(s) - 1) : Tail(s)[k] = s[k + 1]
    BY LenProperties, HeadTailProperties
  <2>3. ASSUME NEW k \in (f + 1)..Len(s)
        PROVE  s[k] \in S
    <3>1. k - 1 \in 1..(Len(s) - 1) /\ (k - 1) + 1 = k
      BY <2>2
    <3>2. Tail(s)[k - 1] \in S
      BY <2>2, <3>1, ElementOfSeq
    <3> QED
      BY <2>2, <3>1, <3>2
  <2> QED
    BY <2>1, <2>2, <2>3, SubSeqProperties
<1> QED
  BY <1>1, <1>2

\* The order of calls, after those that a call may make came in its place.
LEMMA OrderedReplaced ==
    ASSUME NEW s \in Seq(Call), s # <<>>, Ordered(s),
           NEW n \in Seq(Callable(s[1])), s[1].op = "reply" => n = <<>>
    PROVE  Ordered(n \o Tail(s))
<1> DEFINE m == n \o Tail(s)
<1>1. n \in Seq(Call) /\ \A j \in 1..Len(n) : n[j] \in Callable(s[1])
  BY ElementOfSeq DEF Callable
<1>2. /\ m \in Seq(Call) /\ Len(n) \in Nat /\ Len(s) \in Nat /\ Len(s) > 0
      /\ Len(m) = Len(n) + Len(s) - 1
      /\ \A k \in 1..Len(n) : m[k] = n[k]
      /\ \A k \in 2..Len(s) : m[Len(n) + k - 1] = s[k]
      /\ \A j \in 1..Len(m) : \/ j \in 1..Len(n)
                              \/ \E k \in 2..Len(s) : j = Len(n) + k - 1
  BY <1>1, Replaced
<1> HIDE DEF m
<1>3. \A k \in 2..Len(s) : Before(s[1], s[k])
  BY <1>2 DEF Ordered
<1>4. \A c \in Callable(s[1]) :
         /\ c.op # "reply"
         /\ ErasesIssue(c) => ErasesIssue(s[1])
         /\ ErasesIssue(s[1]) => ~Depends(c)
         /\ ErasesUser(c) => ErasesUser(s[1])
         /\ ErasesUser(s[1]) => c.op # "periodicEachUser"
  BY DEF Callable, MayCall
<1>5. m # <<>> => m[Len(m)].op = "reply"
  <2>1. CASE Len(s) = 1
    BY <1>2, <2>1, EmptySeq DEF Ordered
  <2>2. CASE Len(s) # 1
    <3>1. \A k \in Nat : k > 0 /\ k # 1 => k \in 2..k
      OBVIOUS
    <3>2. m[Len(m)] = s[Len(s)]
      BY <1>2, <2>2, <3>1
    <3> QED
      BY <3>2 DEF Ordered
  <2> QED
    BY <2>1, <2>2
<1>6. ASSUME NEW i \in 1..Len(m), NEW j \in 1..Len(m), i < j
      PROVE  Before(m[i], m[j])
  <2>1. CASE j \in 1..Len(n)
    <3>1. i \in 1..Len(n)
      BY <1>2, <1>6, <2>1
    <3> QED
      BY <1>1, <1>2, <1>4, <2>1, <3>1 DEF Before
  <2>2. ASSUME NEW k \in 2..Len(s), j = Len(n) + k - 1
        PROVE  Before(m[i], m[j])
    <3>1. m[j] = s[k]
      BY <1>2, <2>2
    <3>2. CASE i \in 1..Len(n)
      BY <1>1, <1>2, <1>3, <1>4, <3>1, <3>2 DEF Before
    <3>3. ASSUME NEW l \in 2..Len(s), i = Len(n) + l - 1
          PROVE  Before(m[i], m[j])
      <4>1. m[i] = s[l] /\ l < k /\ l \in 1..Len(s) /\ k \in 1..Len(s)
        BY <1>2, <1>6, <2>2, <3>3
      <4> QED
        BY <3>1, <4>1 DEF Ordered
    <3> QED
      BY <1>2, <3>2, <3>3
  <2> QED
    BY <1>2, <2>1, <2>2
<1> QED
  BY <1>5, <1>6 DEF Ordered, m

\* The order of calls after an error.
LEMMA OrderedUnwound ==
    ASSUME NEW s \in Seq(Call), Ordered(s)
    PROVE  /\ Ordered(Unwind(s))
           /\ Unwind(s) # <<>> => s # <<>> /\ Asked(Unwind(s)) = Asked(s)
<1> DEFINE m == Unwind(s)
<1>1. CASE m = <<>>
  BY <1>1 DEF Ordered
<1>2. CASE m # <<>>
  <2>1. PICK f \in 1..Len(s) : /\ s[f].op = "catch" /\ Len(m) = Len(s) - f
                               /\ \A k \in 1..(Len(s) - f) : m[k] = s[f + k]
    BY <1>2, Unwound
  <2>2. Len(s) \in Nat /\ m \in Seq(Call)
    BY LenProperties, UnwindTyped
  <2> HIDE DEF m
  <2>3. Len(s) - f \in 1..(Len(s) - f) /\ f + (Len(s) - f) = Len(s)
    BY <1>2, <2>1, <2>2, LenProperties, EmptySeq
  <2>4. m[Len(m)] = s[Len(s)]
    BY <2>1, <2>3
  <2>5. ASSUME NEW i \in 1..Len(m), NEW j \in 1..Len(m), i < j
        PROVE  Before(m[i], m[j])
    <3>1. /\ f + i \in 1..Len(s) /\ f + j \in 1..Len(s) /\ f + i < f + j
          /\ m[i] = s[f + i] /\ m[j] = s[f + j]
      BY <2>1, <2>2, <2>5
    <3> QED
      BY <3>1 DEF Ordered
  <2>6. s # <<>>
    BY <2>1
  <2> QED
    BY <2>4, <2>5, <2>6 DEF Ordered, Asked, m
<1> QED
  BY <1>1, <1>2

\* While there is a reply to give, the request stays the same.
LEMMA AskedReplaced ==
    ASSUME NEW s \in Seq(Call), s # <<>>, Ordered(s), NEW n \in Seq(Call),
           s[1].op # "reply"
    PROVE  Len(s) > 1 /\ n \o Tail(s) # <<>> /\ Asked(n \o Tail(s)) = Asked(s)
<1> DEFINE m == n \o Tail(s)
<1>1. /\ Len(n) \in Nat /\ Len(s) \in Nat /\ Len(s) > 0
      /\ Len(m) = Len(n) + Len(s) - 1
      /\ \A k \in 2..Len(s) : m[Len(n) + k - 1] = s[k]
      /\ m \in Seq(Call)
  BY Replaced
<1> HIDE DEF m
<1>2. Len(s) > 1
  BY <1>1 DEF Ordered
<1>3. Len(s) \in 2..Len(s) /\ m # <<>>
  BY <1>1, <1>2, EmptySeq
<1>4. m[Len(m)] = s[Len(s)]
  BY <1>1, <1>3
<1> QED
  BY <1>2, <1>3, <1>4 DEF Asked, m

-----------------------------------------------------------------------------
(* What a step does to storage and to the agenda.                          *)

\* Which actions write what.
LEMMA Writes ==
    ASSUME NEW w, Acts(w)
    PROVE  /\ accIssue' = accIssue \/ PutAccountIssue(w) \/ DeleteAccountEntry(w)
           /\ \/ userIssue' = userIssue \/ AddUserIssue(w)
              \/ DeleteUserTemplate(w)
              \/ StoreUserIssueUpdate(w) \/ StatusUnread(w)
           /\ \/ nkey' = nkey \/ PutNkey(w)
              \/ DeleteNkeys(w) \/ DeleteUserNkey(w)
           /\ \/ panicked' = panicked \/ IssueOperatorJWT(w)
              \/ PeriodicEachAccount(w) \/ PeriodicEachUser(w)
           /\ agenda[w] # <<>>
BY DEF Acts, StorageError, StatusUnread, SyncSkipped, StoreUserIssueUpdate,
       OneFault, issues, tokens, seeds, world, Running, storeUserStatus,
       Step, NkeyStep, UserStep, ServerStep, AccountStep,
       OperatorStep, PeriodicStep, LeaveCatch, Respond,
       AddNkey, PutNkey, EnsureIssue, DeleteNkeys, AddOperatorJWT,
       AddAccountJWT, DeleteOperatorJWT, DeleteAccountJWT, AddUserIssue,
       IssueUserNKeys, RefreshPushUser,
       DeleteUserIssue, DeleteUserNkey, DeleteUserTemplate,
       GenerateUserCreds, GenerateUserJWT, FormatUserConfig, ReturnCreds,
       RefreshAccountResolver, PushAccount, DeleteAccounts,
       RefreshAccountResolvers, PushEach, AddAccountIssue, PutAccountIssue,
       IssueAccountNKey, IssueAccountNKeysDone, UpdateUserIssues,
       UpdateEachUser, IssueAccountJWT, UpdateAccountStatus,
       DeleteAccountIssue, DeleteAccountEntry, AddUserToRevocationList,
       AddOperatorIssue, PutOperatorIssue, RefreshOperator, IssueOperatorNkey,
       IssueOperatorNkeysDone, UpdateEachAccount, IssueOperatorJWT,
       DeleteOperatorIssue, DeleteOperatorEntry, PeriodicFunc,
       PeriodicAccount, PeriodicRefreshAccountIssues, PeriodicEachAccount,
       PeriodicRefreshUserIssues, PeriodicEachUser, PeriodicSync

\* Which actions some calls are made by, unless storage fails.
LEMMA ActionOf ==
    ASSUME NEW w, Acts(w)
    PROVE  /\ Top(w).op = "reply" => Respond(w)
           /\ Top(w).op = "addNkey" => AddNkey(w) \/ StorageError(w)
           /\ Top(w).op = "putNkey" => PutNkey(w) \/ StorageError(w)
           /\ Top(w).op = "refreshOperator" =>
                 RefreshOperator(w) \/ StorageError(w)
           /\ Top(w).op = "issueOperatorNkeys" =>
                 \/ IssueOperatorNkey(w) \/ IssueOperatorNkeysDone(w)
                 \/ StorageError(w)
BY DEF Acts, StorageError, StatusUnread, SyncSkipped, StoreUserIssueUpdate,
       Accesses, Running, Top,
       Step, NkeyStep, UserStep, ServerStep, AccountStep,
       OperatorStep, PeriodicStep, LeaveCatch, Respond, storeUserStatus,
       AddNkey, PutNkey, EnsureIssue, DeleteNkeys, AddOperatorJWT,
       AddAccountJWT, DeleteOperatorJWT, DeleteAccountJWT, AddUserIssue,
       IssueUserNKeys, RefreshPushUser,
       DeleteUserIssue, DeleteUserNkey, DeleteUserTemplate,
       GenerateUserCreds, GenerateUserJWT, FormatUserConfig, ReturnCreds,
       RefreshAccountResolver, PushAccount, DeleteAccounts,
       RefreshAccountResolvers, PushEach, AddAccountIssue, PutAccountIssue,
       IssueAccountNKey, IssueAccountNKeysDone, UpdateUserIssues,
       UpdateEachUser, IssueAccountJWT, UpdateAccountStatus,
       DeleteAccountIssue, DeleteAccountEntry, AddUserToRevocationList,
       AddOperatorIssue, PutOperatorIssue, RefreshOperator, IssueOperatorNkey,
       IssueOperatorNkeysDone, UpdateEachAccount, IssueOperatorJWT,
       DeleteOperatorIssue, DeleteOperatorEntry, PeriodicFunc,
       PeriodicAccount, PeriodicRefreshAccountIssues, PeriodicEachAccount,
       PeriodicRefreshUserIssues, PeriodicEachUser, PeriodicSync

\* Storage errors too leave only calls that may be made.
LEMMA ActsMoves ==
    ASSUME TypeOK, NEW w \in Workers, Acts(w), Shaped(Top(w))
    PROVE  Moves(w)
<1>1. CASE Step(w)
  BY <1>1, StepMoves
<1>2. CASE StorageError(w)
  BY <1>2 DEF StorageError, Moves
<1>3. CASE SyncSkipped(w)
  BY <1>3, ShortSeq DEF SyncSkipped, Moves
<1>4. CASE StatusUnread(w)
  <2>1. Running(w, "storeUserIssueUpdate")
    BY <1>4 DEF StatusUnread, storeUserStatus
  <2>2. [op |-> "refreshPushUser"] \in Callable(Top(w))
    <3>1. [op |-> "refreshPushUser"] \in Call
      BY OperatorCallsMade DEF PlainCalls
    <3> QED
      BY <2>1, <3>1, HarmlessMayCall DEF HarmlessCalls, Fills, Running, Top
  <2>3. Do(w, <<[op |-> "refreshPushUser"]>>) \/ Do(w, <<>>)
    BY <1>4 DEF StatusUnread, storeUserStatus
  <2> QED
    BY <2>2, <2>3, ShortSeq DEF Moves
<1> QED
  BY <1>1, <1>2, <1>3, <1>4 DEF Acts

\* What becomes of the agenda.
LEMMA ActsLeaves ==
    ASSUME TypeOK, NEW w \in Workers, Acts(w), Shaped(Top(w))
    PROVE  LET s == agenda[w] IN
           /\ s \in Seq(Call) /\ s # <<>> /\ s[1] = Top(w) /\ s[1] \in Call
           /\ agenda'[w] \in Seq(Call)
           /\ \/ agenda'[w] = <<>>
              \/ agenda'[w] = Unwind(s)
              \/ \E n \in Seq(Callable(s[1])) :
                    /\ agenda'[w] = n \o Tail(s)
                    /\ s[1].op = "reply" => n = <<>>
<1> DEFINE s == agenda[w]
<1>1. s \in Seq(Call) /\ s # <<>>
  BY AgendaTyped, Writes
<1>2. s[1] = Top(w) /\ Top(w) \in Call
  BY <1>1, TopTyped DEF Top, TypeOK
<1>3. CASE Fail(w)
  BY <1>1, <1>2, <1>3, UnwindTyped DEF Fail, TypeOK, AgendaOK
<1>4. CASE Panic
  BY <1>1, <1>2, <1>4, EmptySeq DEF Panic
<1>5. ASSUME NEW n \in Seq(Callable(Top(w))), Do(w, n),
             Top(w).op = "reply" => n = <<>>
      PROVE  /\ agenda'[w] = n \o Tail(s)
             /\ agenda'[w] \in Seq(Call)
  <2>1. agenda'[w] = n \o Tail(s)
    BY <1>5 DEF Do, TypeOK, AgendaOK
  <2>2. n \in Seq(Call)
    BY DEF Callable
  <2> QED
    BY <1>1, <2>1, <2>2, Replaced
<1>6. CASE Top(w).op = "reply"
  <2>1. Do(w, <<>>)
    BY <1>6, ActionOf DEF Respond
  <2> QED
    BY <1>1, <1>2, <1>5, <2>1, ShortSeq
<1>7. CASE Top(w).op # "reply"
  BY <1>1, <1>2, <1>3, <1>4, <1>5, <1>7, ActsMoves DEF Moves
<1> QED
  BY <1>6, <1>7

\* What a step may take away and bring.
LEMMA Effects ==
    ASSUME TypeOK, NEW w \in Workers, Acts(w), Top(w) \in Sane
    PROVE  /\ \A a \in Accounts :
                 /\ accIssue[a] # None /\ accIssue'[a] = None =>
                       ErasesIssue(Top(w))
                 /\ accIssue[a] = None /\ accIssue'[a] # None =>
                       Creates(Top(w), a)
           /\ \A a \in Accounts, u \in Users :
                 userIssue[a][u] # None /\ userIssue'[a][u] = None =>
                    ErasesUser(Top(w))
           /\ \A p \in Path :
                 \/ nkey'[p] = nkey[p]
                 \/ Top(w).op = "putNkey" /\ Top(w).path = p
                    /\ nkey'[p] = Top(w).gen
                 \/ nkey'[p] = 0 /\ (p = OpPath => ErasesIssue(Top(w)))
<1> DEFINE t == Top(w)
<1>1. t \in Call /\ (t.op = "putNkey" => t.gen # 0)
  BY DEF Sane
<1>2. ASSUME NEW a \in Accounts
      PROVE  /\ accIssue[a] # None /\ accIssue'[a] = None => ErasesIssue(t)
             /\ accIssue[a] = None /\ accIssue'[a] # None => Creates(t, a)
  <2>1. CASE accIssue' = accIssue
    BY <2>1
  <2>2. CASE PutAccountIssue(w)
    <3>1. t.op = "putAccountIssue" /\ t.acc \in Accounts /\ t.iss \in AccIssue
      BY <1>1, <2>2, AccountCallFields
         DEF PutAccountIssue, Running, Top, AccIssueCalls
    <3>2. t.iss # None
      BY <3>1, NoneAssumption
    <3>3. accIssue'[a] = IF a = t.acc THEN t.iss ELSE accIssue[a]
      BY <2>2, <3>1 DEF PutAccountIssue, TypeOK, StorageOK
    <3> QED
      BY <3>1, <3>2, <3>3 DEF Creates
  <2>3. CASE DeleteAccountEntry(w)
    <3>1. t.op = "deleteAccountEntry" /\ t.acc \in Accounts
      BY <1>1, <2>3, AccountCallFields
         DEF DeleteAccountEntry, Running, Top, AccNameCalls
    <3>2. accIssue'[a] = IF a = t.acc THEN None ELSE accIssue[a]
      BY <2>3, <3>1 DEF DeleteAccountEntry, TypeOK, StorageOK
    <3> QED
      BY <3>1, <3>2 DEF ErasesIssue
  <2> QED
    BY <2>1, <2>2, <2>3, Writes
<1>3. ASSUME NEW a \in Accounts, NEW u \in Users
      PROVE  userIssue[a][u] # None /\ userIssue'[a][u] = None => ErasesUser(t)
  <2>1. CASE userIssue' = userIssue
    BY <2>1
  <2>2. CASE DeleteUserTemplate(w)
    BY <2>2 DEF DeleteUserTemplate, Running, Top, ErasesUser
  <2>3. ASSUME NEW i \in UserIssue, NEW b \in Accounts, NEW v \in Users,
               userIssue' = [userIssue EXCEPT ![b][v] = i]
        PROVE  userIssue[a][u] # None => userIssue'[a][u] # None
    <3>1. i # None
      BY NoneAssumption
    <3>2. userIssue'[a][u] \in {i, userIssue[a][u]}
      BY <2>3 DEF TypeOK, StorageOK
    <3> QED
      BY <3>1, <3>2
  <2>4. CASE AddUserIssue(w)
    <3>1. t.acc \in Accounts /\ t.user \in Users /\ t.par \in UserPar
      BY <1>1, <2>4, UserCallFields DEF AddUserIssue, Running, Top
    <3> DEFINE old == userIssue[t.acc][t.user]
               i   == [par |-> t.par, nkey |-> old # None /\ old.nkey]
    <3>2. i \in UserIssue
      <4>1. old \in UserIssue \cup {None}
        BY <3>1 DEF TypeOK, StorageOK
      <4>2. (old # None /\ old.nkey) \in BOOLEAN
        BY <4>1 DEF UserIssue
      <4> QED
        BY <3>1, <4>2 DEF UserIssue
    <3>3. userIssue' = [userIssue EXCEPT ![t.acc][t.user] = i]
      BY <2>4 DEF AddUserIssue
    <3> QED
      BY <2>3, <3>1, <3>2, <3>3
  <2>5. ASSUME NEW found \in BOOLEAN, storeUserStatus(w, found)
        PROVE  userIssue[a][u] # None => userIssue'[a][u] # None
    <3>1. t.acc \in Accounts /\ t.user \in Users /\ t.iss \in UserIssue
      BY <1>1, <2>5, UserCallFields DEF storeUserStatus, Running, Top
    <3>2. [t.iss EXCEPT !.nkey = found] \in UserIssue
      BY <3>1 DEF UserIssue
    <3>3. userIssue' = [userIssue EXCEPT ![t.acc][t.user] =
                            [t.iss EXCEPT !.nkey = found]]
      BY <2>5 DEF storeUserStatus
    <3> QED
      BY <2>3, <3>1, <3>2, <3>3
  <2>6. Stored(UserPath(t.acc, t.user)) \in BOOLEAN
    BY DEF Stored
  <2> QED
    BY <2>1, <2>2, <2>4, <2>5, <2>6, Writes
       DEF StoreUserIssueUpdate, StatusUnread
<1>4. ASSUME NEW p \in Path
      PROVE  \/ nkey'[p] = nkey[p]
             \/ t.op = "putNkey" /\ t.path = p /\ nkey'[p] = t.gen
             \/ nkey'[p] = 0 /\ (p = OpPath => ErasesIssue(t))
  <2>1. CASE nkey' = nkey
    BY <2>1
  <2>2. CASE PutNkey(w)
    <3>1. t.op = "putNkey" /\ t.path \in Path
      BY <1>1, <2>2, NkeyCallFields DEF PutNkey, Running, Top
    <3> QED
      BY <2>2, <3>1 DEF PutNkey, TypeOK, StorageOK
  <2>3. CASE DeleteNkeys(w)
    <3>1. t.op = "deleteNkeys" /\ t.paths \in SUBSET Path
      BY <1>1, <2>3, NkeyCallFields DEF DeleteNkeys, Running, Top
    <3>2. PICK q \in t.paths : nkey' = [nkey EXCEPT ![q] = 0]
      BY <2>3 DEF DeleteNkeys
    <3>3. OpPath \in t.paths => ErasesIssue(t)
      BY <3>1 DEF ErasesIssue, OpPath
    <3> QED
      BY <3>1, <3>2, <3>3 DEF TypeOK, StorageOK
  <2>4. CASE DeleteUserNkey(w)
    <3>1. t.op = "deleteUserNkey" /\ t.acc \in Accounts /\ t.user \in Users
      BY <1>1, <2>4, UserCallFields DEF DeleteUserNkey, Running, Top
    <3>2. nkey' = [nkey EXCEPT ![UserPath(t.acc, t.user)] = 0]
      BY <2>4 DEF DeleteUserNkey
    <3>3. UserPath(t.acc, t.user) # OpPath /\ UserPath(t.acc, t.user) \in Path
      BY <3>1, PathTyped DEF UserPath, OpPath
    <3> QED
      BY <3>2, <3>3 DEF TypeOK, StorageOK
  <2> QED
    BY <2>1, <2>2, <2>3, <2>4, Writes
<1> QED
  BY <1>2, <1>3, <1>4

-----------------------------------------------------------------------------
(* The invariant, part by part.                                            *)

\* What holds of every call but the first one holds of the rest.
LEMMA TailWithin ==
    ASSUME NEW s \in Seq(Call), s # <<>>, NEW S, \A k \in 2..Len(s) : s[k] \in S
    PROVE  Tail(s) \in Seq(S)
<1>1. Len(s) \in Nat /\ Tail(s) \in Seq(Call) /\ Len(Tail(s)) = Len(s) - 1
      /\ \A k \in 1..(Len(s) - 1) : Tail(s)[k] = s[k + 1]
  BY LenProperties, HeadTailProperties
<1>2. ASSUME NEW k \in 1..Len(Tail(s))
      PROVE  Tail(s)[k] \in S
  <2>1. k + 1 \in 2..Len(s)
    BY <1>1
  <2> QED
    BY <1>1, <2>1
<1>3. Tail(s) \in [1..Len(Tail(s)) -> Call] /\ Len(Tail(s)) \in Nat
  BY <1>1, LenProperties
<1>4. Tail(s) \in [1..Len(Tail(s)) -> S]
  BY <1>2, <1>3
<1> QED
  BY <1>3, <1>4, SeqDef, Zenon

\* The first call comes before the others.
LEMMA FirstBefore ==
    ASSUME NEW s \in Seq(Call), Ordered(s), NEW k \in 2..Len(s)
    PROVE  s[k] \in Call /\ k \in 1..Len(s) /\ Before(s[1], s[k])
<1>1. Len(s) \in Nat
  BY LenProperties
<1>2. 1 \in 1..Len(s) /\ k \in 1..Len(s) /\ 1 < k
  BY <1>1
<1> QED
  BY <1>2, ElementOfSeq DEF Ordered

\* What holds of all the calls that are left, and of those that come, holds
\* of the agenda.
LEMMA ActsWithin ==
    ASSUME TypeOK, NEW w \in Workers, Acts(w), Shaped(Top(w)),
           NEW S, S \subseteq Call, Callable(Top(w)) \subseteq S,
           \A k \in 2..Len(agenda[w]) : agenda[w][k] \in S
    PROVE  agenda'[w] \in Seq(S)
<1> DEFINE s == agenda[w]
<1>1. /\ s \in Seq(Call) /\ s # <<>> /\ s[1] = Top(w)
      /\ \/ agenda'[w] = <<>>
         \/ agenda'[w] = Unwind(s)
         \/ \E n \in Seq(Callable(s[1])) : agenda'[w] = n \o Tail(s)
  BY ActsLeaves
<1>2. Tail(s) \in Seq(S)
  BY <1>1, TailWithin
<1>3. Unwind(s) \in Seq(S) /\ <<>> \in Seq(S)
  BY <1>1, <1>2, UnwoundTail
<1>4. \A n \in Seq(Callable(s[1])) : n \o Tail(s) \in Seq(S)
  BY <1>1, <1>2, ConcatProperties
<1> QED
  BY <1>1, <1>3, <1>4

\* The order of calls is kept, and so is the request.
LEMMA ActsOrdered ==
    ASSUME TypeOK, NEW w \in Workers, Acts(w), Shaped(Top(w)),
           Ordered(agenda[w])
    PROVE  /\ Ordered(agenda'[w])
           /\ agenda'[w] # <<>> => Asked(agenda'[w]) = Asked(agenda[w])
<1> DEFINE s == agenda[w]
<1>1. /\ s \in Seq(Call) /\ s # <<>>
      /\ \/ agenda'[w] = <<>>
         \/ agenda'[w] = Unwind(s)
         \/ \E n \in Seq(Callable(s[1])) :
               /\ agenda'[w] = n \o Tail(s)
               /\ s[1].op = "reply" => n = <<>>
  BY ActsLeaves
<1>2. CASE agenda'[w] = <<>>
  BY <1>2 DEF Ordered
<1>3. CASE agenda'[w] = Unwind(s)
  BY <1>1, <1>3, OrderedUnwound
<1>4. ASSUME NEW n \in Seq(Callable(s[1])), agenda'[w] = n \o Tail(s),
             s[1].op = "reply" => n = <<>>
      PROVE  /\ Ordered(agenda'[w])
             /\ agenda'[w] # <<>> => Asked(agenda'[w]) = Asked(s)
  <2>1. n \in Seq(Call)
    BY DEF Callable
  <2>2. Ordered(agenda'[w])
    BY <1>1, <1>4, OrderedReplaced
  <2>3. CASE s[1].op # "reply"
    BY <1>1, <1>4, <2>1, <2>2, <2>3, AskedReplaced
  <2>4. CASE s[1].op = "reply"
    <3>1. \A k \in 2..Len(s) : FALSE
      BY <1>1, <2>4, FirstBefore DEF Before
    <3>2. Tail(s) = <<>> /\ n = <<>>
      BY <1>1, <1>4, <2>4, <3>1, TailWithin, ElementOfSeq, EmptySeq
    <3>3. agenda'[w] = <<>>
      BY <1>4, <3>2
    <3> QED
      BY <2>2, <3>3
  <2> QED
    BY <2>3, <2>4
<1> QED
  BY <1>1, <1>2, <1>3, <1>4

\* Calls keep finding what they take for granted.
LEMMA ActsSane ==
    ASSUME TypeOK, NEW w \in Workers, Acts(w), OneAtATime(w)
    PROVE  Top(w) \in Sane /\ agenda'[w] \in Seq(Sane')
<1> DEFINE s == agenda[w]
           t == Top(w)
<1>1. s \in Seq(Call) /\ s # <<>> /\ s[1] = t
  BY AgendaTyped, Writes DEF Top
<1>2. t \in Sane /\ \A k \in 2..Len(s) : s[k] \in Sane /\ Before(t, s[k])
  BY <1>1, FirstBefore, ElementOfSeq, LenProperties, EmptySeq DEF OneAtATime
<1>3. /\ \A a \in Accounts :
            accIssue[a] # None => accIssue'[a] # None \/ ErasesIssue(t)
      /\ \A a \in Accounts, u \in Users :
            userIssue[a][u] # None => userIssue'[a][u] # None \/ ErasesUser(t)
  BY <1>2, Effects
<1>4. ASSUME NEW c \in Sane, ErasesIssue(t) => ~Depends(c),
             ErasesUser(t) => c.op # "periodicEachUser"
      PROVE  c \in Sane'
  <2>1. c \in Call /\ Shaped(c) /\ (c.op = "putNkey" => c.gen # 0)
    BY DEF Sane
  <2>2. ASSUME c.op = "periodicEachAccount", NEW a \in c.todo
        PROVE  accIssue'[a] # None
    <3>1. accIssue[a] # None
      BY <2>2 DEF Sane
    <3>2. a \in Accounts
      BY <2>1, <2>2, AccountCallFields DEF AccLoopCalls
    <3>3. ~ErasesIssue(t)
      BY <1>4, <2>2 DEF Depends
    <3> QED
      BY <1>3, <3>1, <3>2, <3>3
  <2>3. ASSUME c.op = "periodicEachUser", NEW u \in c.todo
        PROVE  userIssue'[c.acc][u] # None
    <3>1. userIssue[c.acc][u] # None
      BY <2>3 DEF Sane
    <3>2. c.acc \in Accounts /\ u \in Users
      BY <2>1, <2>3, UserCallFields DEF UserLoopCalls
    <3> QED
      BY <1>3, <1>4, <2>3, <3>1, <3>2
  <2> QED
    BY <2>1, <2>2, <2>3 DEF Sane
<1>5. ASSUME NEW c \in Callable(t)
      PROVE  c \in Sane'
  <2>1. c \in Call /\ MayCall(t, c)
    BY DEF Callable
  <2>2. ASSUME c.op = "periodicEachAccount", NEW a \in c.todo
        PROVE  accIssue[a] # None
    BY <1>2, <2>1, <2>2 DEF MayCall, Sane
  <2>3. ASSUME c.op = "periodicEachUser", NEW u \in c.todo
        PROVE  userIssue[c.acc][u] # None
    BY <1>2, <2>1, <2>3 DEF MayCall, Sane
  <2>4. c \in Sane
    BY <2>1, <2>2, <2>3 DEF MayCall, Sane
  <2> QED
    BY <1>4, <2>1, <2>4 DEF MayCall
<1>6. \A k \in 2..Len(s) : s[k] \in Sane'
  BY <1>2, <1>4 DEF Before
<1>7. Shaped(t) /\ Sane' \subseteq Call
  BY <1>2 DEF Sane
<1> QED
  BY <1>2, <1>5, <1>6, <1>7, ActsWithin

\* No call comes to create an account that the request may not create.
LEMMA ActsFaithful ==
    ASSUME TypeOK, NEW w \in Workers, Acts(w), OneAtATime(w)
    PROVE  agenda'[w] \in Seq({c \in Call : \A a \in Accounts :
               Creates(c, a) =>
                  accIssue'[a] # None \/ Allowed(Asked(agenda[w]), a)})
<1> DEFINE s == agenda[w]
           t == Top(w)
           S == {c \in Call : \A a \in Accounts :
                    Creates(c, a) =>
                       accIssue'[a] # None \/ Allowed(Asked(s), a)}
<1>1. s \in Seq(Call) /\ s # <<>> /\ s[1] = t
  BY AgendaTyped, Writes DEF Top
<1>2. /\ t \in Faithful(Asked(s))
      /\ \A k \in 2..Len(s) : s[k] \in Faithful(Asked(s)) /\ Before(t, s[k])
  BY <1>1, FirstBefore, ElementOfSeq, LenProperties, EmptySeq DEF OneAtATime
<1>3. \A a \in Accounts :
         accIssue[a] # None => accIssue'[a] # None \/ ErasesIssue(t)
  BY ActsSane, Effects
<1>4. ASSUME NEW c \in Faithful(Asked(s)), ErasesIssue(t) => ~Depends(c)
      PROVE  c \in S
  BY <1>3, <1>4 DEF Faithful, Depends
<1>5. ASSUME NEW c \in Callable(t)
      PROVE  c \in S
  <2>1. c \in Call /\ MayCall(t, c)
    BY DEF Callable
  <2>2. ASSUME NEW a \in Accounts, Creates(c, a)
        PROVE  accIssue[a] # None \/ Allowed(Asked(s), a)
    BY <1>2, <2>1, <2>2 DEF MayCall, Faithful
  <2>3. c \in Faithful(Asked(s))
    BY <2>1, <2>2 DEF Faithful
  <2>4. ErasesIssue(t) => ~Depends(c)
    BY <2>1 DEF MayCall
  <2> QED
    BY <1>4, <2>3, <2>4
<1>6. \A k \in 2..Len(s) : s[k] \in S
  BY <1>2, <1>4 DEF Before
<1>7. Shaped(t) /\ S \subseteq Call
  BY ActsSane DEF Sane
<1> HIDE DEF S
<1>8. agenda'[w] \in Seq(S)
  BY <1>5, <1>6, <1>7, ActsWithin
<1> QED
  BY <1>8 DEF S

\* Agendas on which the operator's nkey is created before its JWT is issued
\* stay so, if the call that creates it leaves one that does.
LEMMA KeysAheadReplaced ==
    ASSUME NEW s \in Seq(Call), s # <<>>, KeysAhead(s),
           NEW n \in Seq(Call), KeysAhead(n),
           s[1].op = "issueOperatorNkeys" /\ OpPath \in s[1].todo =>
              /\ Len(n) = 2 /\ n[1].op = "addNkey" /\ n[1].path = OpPath
              /\ n[2].op = "issueOperatorNkeys",
           s[1].op \in {"addNkey", "putNkey"} /\ s[1].path = OpPath =>
              Len(n) = 1 /\ n[1].op = "putNkey" /\ n[1].path = OpPath
    PROVE  KeysAhead(n \o Tail(s))
<1> DEFINE m == n \o Tail(s)
<1>1. /\ m \in Seq(Call) /\ Len(n) \in Nat /\ Len(s) \in Nat /\ Len(s) > 0
      /\ Len(m) = Len(n) + Len(s) - 1
      /\ \A k \in 1..Len(n) : m[k] = n[k]
      /\ \A k \in 2..Len(s) : m[Len(n) + k - 1] = s[k]
      /\ \A j \in 1..Len(m) : \/ j \in 1..Len(n)
                              \/ \E k \in 2..Len(s) : j = Len(n) + k - 1
  BY Replaced
<1> HIDE DEF m
<1>2. ASSUME NEW j \in 1..Len(n), n[j].op = "issueOperatorJWT"
      PROVE  KeyAhead(m, j)
  <2>1. KeyAhead(n, j)
    BY <1>2 DEF KeysAhead
  <2>2. \A i \in {1, 2} : j > i => j - i \in 1..Len(n) /\ m[j - i] = n[j - i]
    <3>1. \A i \in {1, 2} : j > i => j - i \in 1..Len(n)
      <4>1. Len(n) \in Nat
        BY <1>1
      <4> QED
        BY <4>1
    <3> QED
      BY <1>1, <3>1
  <2> QED
    BY <2>1, <2>2 DEF KeyAhead
<1>3. ASSUME NEW k \in 2..Len(s), s[k].op = "issueOperatorJWT"
      PROVE  KeyAhead(m, Len(n) + k - 1)
  <2> DEFINE j == Len(n) + k - 1
  <2>1. k \in 1..Len(s) /\ j \in Nat /\ j >= k - 1 /\ KeyAhead(s, k)
    BY <1>1, <1>3 DEF KeysAhead
  <2>2. \A i \in {1, 2} : k - i > 1 => j > i /\ m[j - i] = s[k - i]
    <3>1. Len(n) \in Nat /\ Len(s) \in Nat
      BY <1>1
    <3>2. ASSUME NEW i \in {1, 2}, k - i > 1
          PROVE  k - i \in 2..Len(s) /\ j - i = Len(n) + (k - i) - 1 /\ j > i
      BY <3>1, <3>2
    <3>3. \A l \in 2..Len(s) : m[Len(n) + l - 1] = s[l]
      BY <1>1
    <3> HIDE DEF j
    <3> QED
      BY <3>2, <3>3
  <2>3. CASE s[k - 1].op = "issueOperatorNkeys" /\ OpPath \in s[k - 1].todo
    <3>1. CASE k > 2
      BY <2>1, <2>2, <2>3, <3>1 DEF KeyAhead
    <3>2. CASE k = 2
      <4>1. k - 1 = 1
        BY <3>2
      <4>2. Len(n) = 2 /\ n[1].op = "addNkey" /\ n[1].path = OpPath
            /\ n[2].op = "issueOperatorNkeys"
        BY <2>3, <4>1
      <4>3. j = 3 /\ 1 \in 1..Len(n) /\ 2 \in 1..Len(n)
        BY <3>2, <4>2
      <4>4. m[1] = n[1] /\ m[2] = n[2]
        BY <1>1, <4>3
      <4>5. j > 2 /\ j - 1 = 2 /\ j - 2 = 1
        BY <4>3
      <4> HIDE DEF j
      <4>6. KeyAhead(m, j)
        BY <4>2, <4>4, <4>5 DEF KeyAhead
      <4> QED
        BY <4>6 DEF j
    <3> QED
      BY <2>1, <3>1, <3>2
  <2>4. CASE /\ k > 2 /\ s[k - 1].op = "issueOperatorNkeys"
             /\ s[k - 2].op \in {"addNkey", "putNkey"} /\ s[k - 2].path = OpPath
    <3>1. m[j - 1] = s[k - 1]
      BY <2>2, <2>4
    <3>2. CASE k > 3
      BY <2>1, <2>2, <2>4, <3>1, <3>2 DEF KeyAhead
    <3>3. CASE k = 3
      <4>1. k - 2 = 1
        BY <3>3
      <4>2. Len(n) = 1 /\ n[1].op = "putNkey" /\ n[1].path = OpPath
        BY <2>4, <4>1
      <4>3. j = 3 /\ m[1] = n[1]
        <5>1. j = 3 /\ 1 \in 1..Len(n)
          BY <3>3, <4>2
        <5> QED
          BY <1>1, <5>1
      <4>4. m[2].op = "issueOperatorNkeys"
        BY <2>4, <3>1, <3>3, <4>3
      <4>5. j > 2 /\ j - 1 = 2 /\ j - 2 = 1
        BY <4>3
      <4> HIDE DEF j
      <4>6. KeyAhead(m, j)
        BY <4>2, <4>3, <4>4, <4>5 DEF KeyAhead
      <4> QED
        BY <4>6 DEF j
    <3>4. k > 3 \/ k = 3
      BY <2>1, <2>4
    <3> QED
      BY <3>2, <3>3, <3>4
  <2>5. \/ s[k - 1].op = "issueOperatorNkeys" /\ OpPath \in s[k - 1].todo
        \/ /\ k > 2 /\ s[k - 1].op = "issueOperatorNkeys"
           /\ s[k - 2].op \in {"addNkey", "putNkey"} /\ s[k - 2].path = OpPath
    BY <2>1 DEF KeyAhead
  <2> QED
    BY <2>3, <2>4, <2>5
<1>4. ASSUME NEW j \in 1..Len(m), m[j].op = "issueOperatorJWT"
      PROVE  KeyAhead(m, j)
  <2>1. CASE j \in 1..Len(n)
    BY <1>1, <1>2, <1>4, <2>1
  <2>2. ASSUME NEW k \in 2..Len(s), j = Len(n) + k - 1
        PROVE  KeyAhead(m, j)
    BY <1>1, <1>3, <1>4, <2>2
  <2> QED
    BY <1>1, <2>1, <2>2
<1> QED
  BY <1>4 DEF KeysAhead, m

\* An error takes the JWT along with the nkey.
LEMMA KeysAheadUnwound ==
    ASSUME NEW s \in Seq(Call), KeysAhead(s)
    PROVE  KeysAhead(Unwind(s))
<1> DEFINE m == Unwind(s)
<1>1. CASE m = <<>>
  BY <1>1 DEF KeysAhead
<1>2. CASE m # <<>>
  <2>1. PICK f \in 1..Len(s) : /\ s[f].op = "catch" /\ Len(m) = Len(s) - f
                               /\ \A k \in 1..(Len(s) - f) : m[k] = s[f + k]
    BY <1>2, Unwound
  <2>2. Len(s) \in Nat
    BY LenProperties
  <2> HIDE DEF m
  <2>3. ASSUME NEW j \in 1..Len(m), m[j].op = "issueOperatorJWT"
        PROVE  KeyAhead(m, j)
    <3>1. f + j \in 1..Len(s) /\ m[j] = s[f + j]
      BY <2>1, <2>2
    <3>2. KeyAhead(s, f + j)
      BY <2>3, <3>1 DEF KeysAhead
    <3>3. \A i \in {1, 2} : j > i =>
             j - i \in 1..(Len(s) - f) /\ f + (j - i) = f + j - i
      <4>1. j \in 1..(Len(s) - f) /\ Len(s) \in Nat /\ f \in 1..Len(s)
        BY <2>1, <2>2
      <4> HIDE DEF m
      <4> QED
        BY <4>1
    <3>4. \A i \in {1, 2} : j > i => m[j - i] = s[f + j - i]
      BY <2>1, <3>3
    <3>5. /\ j = 1 => f + j - 1 = f
          /\ j = 2 => f + j - 2 = f
          /\ j \in Nat /\ j > 0
      BY <2>1, <2>2
    <3>6. j > 1 /\ m[j - 1] = s[f + j - 1]
      <4>1. s[f + j - 1].op = "issueOperatorNkeys"
        BY <3>2 DEF KeyAhead
      <4>2. j # 1
        BY <2>1, <3>5, <4>1
      <4>3. j > 1
        BY <3>5, <4>2
      <4> QED
        BY <3>4, <4>3
    <3>7. CASE s[f + j - 1].op = "issueOperatorNkeys"
               /\ OpPath \in s[f + j - 1].todo
      BY <3>6, <3>7 DEF KeyAhead
    <3>8. CASE /\ s[f + j - 1].op = "issueOperatorNkeys"
               /\ s[f + j - 2].op \in {"addNkey", "putNkey"}
               /\ s[f + j - 2].path = OpPath
      <4>1. j > 2
        BY <2>1, <3>5, <3>6, <3>8
      <4>2. m[j - 2] = s[f + j - 2]
        BY <3>4, <4>1
      <4> QED
        BY <3>6, <3>8, <4>1, <4>2 DEF KeyAhead
    <3> QED
      BY <3>2, <3>7, <3>8 DEF KeyAhead
  <2> QED
    BY <2>3 DEF KeysAhead, m
<1> QED
  BY <1>1, <1>2

\* What the calls left of w's agenda are, by what its first call did.
LEMMA DoLeaves ==
    ASSUME TypeOK, NEW w \in Workers
    PROVE  /\ \A n : Do(w, n) => agenda'[w] = n \o Tail(agenda[w])
           /\ Fail(w) => agenda'[w] = Unwind(agenda[w])
           /\ StorageError(w) => agenda'[w] = Unwind(agenda[w])
BY DEF Do, Fail, StorageError, TypeOK, AgendaOK

\* refreshOperator has the nkeys created before the JWT is issued.
LEMMA RefreshKeysAhead ==
    ASSUME TypeOK, NEW w \in Workers, RefreshOperator(w)
    PROVE  \E n \in Seq(Call) : Do(w, n) /\ KeysAhead(n)
<1> DEFINE i  == Top(w).iss
           nk == [op |-> "issueOperatorNkeys", iss |-> i,
                  todo |-> OperatorPaths(i), fresh |-> FALSE]
           jw == [op |-> "issueOperatorJWT", iss |-> i]
           y  == IF i.sys THEN issueSystemAccount ELSE <<>>
           q  == <<nk, jw>>
<1>1. i \in OpIssue
  BY RunningTyped, OperatorCallFields DEF RefreshOperator, OpCalls
<1>2. OperatorPaths(i) \in SUBSET Path /\ OpPath \in OperatorPaths(i)
  BY <1>1, PathTyped, PathsTyped DEF OperatorPaths, OpIssue
<1>3. nk \in Call /\ jw \in Call
  BY <1>1, <1>2, OperatorCallsMade DEF OpCalls
<1>4. y \in Seq(Call) /\ \A k \in 1..Len(y) : y[k].op # "issueOperatorJWT"
  <2>1. CASE i.sys
    <3>1. issueSystemAccount \in Seq(Call)
      BY SystemAccountQuiet, QuietIsCall
    <3>2. \A k \in 1..Len(issueSystemAccount) :
             issueSystemAccount[k].op # "issueOperatorJWT"
      BY DEF issueSystemAccount
    <3> QED
      BY <2>1, <3>1, <3>2
  <2>2. CASE ~i.sys
    BY <2>2, EmptySeq
  <2> QED
    BY <2>1, <2>2
<1>5. Do(w, q \o y)
  BY DEF RefreshOperator
<1>6. /\ nk.op = "issueOperatorNkeys" /\ OpPath \in nk.todo
      /\ jw.op = "issueOperatorJWT"
  BY <1>2
<1> HIDE DEF nk, jw, y
<1>7. q \in Seq(Call) /\ Len(q) = 2 /\ q[1] = nk /\ q[2] = jw
  BY <1>3
<1> HIDE DEF q
<1>8. /\ q \o y \in Seq(Call)
      /\ Len(q \o y) = 2 + Len(y) /\ Len(y) \in Nat
      /\ \A k \in 1..(2 + Len(y)) :
            (q \o y)[k] = IF k <= 2 THEN q[k] ELSE y[k - 2]
  <2>1. /\ q \o y \in Seq(Call)
        /\ Len(q \o y) = Len(q) + Len(y)
        /\ \A k \in 1..(Len(q) + Len(y)) :
              (q \o y)[k] = IF k <= Len(q) THEN q[k] ELSE y[k - Len(q)]
    BY <1>4, <1>7, ConcatProperties
  <2>2. Len(y) \in Nat
    BY <1>4, LenProperties
  <2> QED
    BY <1>7, <2>1, <2>2
<1>9. ASSUME NEW k \in 1..Len(q \o y), (q \o y)[k].op = "issueOperatorJWT"
      PROVE  KeyAhead(q \o y, k)
  <2>1. CASE k = 1
    BY <1>6, <1>7, <1>8, <1>9, <2>1
  <2>2. CASE k = 2
    BY <1>6, <1>7, <1>8, <2>2 DEF KeyAhead
  <2>3. CASE k > 2
    <3>1. k - 2 \in 1..Len(y) /\ (q \o y)[k] = y[k - 2]
      BY <1>8, <2>3
    <3> QED
      BY <1>4, <1>9, <3>1
  <2> QED
    BY <1>8, <2>1, <2>2, <2>3
<1> QED
  BY <1>5, <1>8, <1>9 DEF KeysAhead

\* The operator's nkey is stored, or is before the JWT is issued.
LEMMA ActsKeysAhead ==
    ASSUME TypeOK, NEW w \in Workers, Acts(w), OneAtATime(w)
    PROVE  Stored(OpPath)' \/ KeysAhead(agenda'[w])
<1> DEFINE s == agenda[w]
           t == Top(w)
<1>1. /\ s \in Seq(Call) /\ s # <<>> /\ s[1] = t /\ t \in Call
      /\ t \in Sane /\ Shaped(t)
  <2>1. t \in Sane
    BY ActsSane
  <2>2. s \in Seq(Call) /\ s # <<>> /\ s[1] = t
    BY AgendaTyped, Writes DEF Top
  <2> QED
    BY <2>1, <2>2 DEF Sane
<1>2. CASE Stored(OpPath) /\ ~Stored(OpPath)'
  <2>1. ErasesIssue(t)
    BY <1>1, <1>2, Effects, PathTyped DEF Stored, Sane
  <2> DEFINE S == {c \in Call : ~Depends(c)}
  <2>2. \A k \in 2..Len(s) : s[k] \in S
    BY <1>1, <2>1, FirstBefore DEF Before, OneAtATime
  <2>3. Callable(t) \subseteq S
    BY <2>1 DEF Callable, MayCall
  <2>4. S \subseteq Call /\ \A c \in S : c.op # "issueOperatorJWT"
    BY DEF Depends
  <2> HIDE DEF S
  <2>5. agenda'[w] \in Seq(S)
    BY <1>1, <2>2, <2>3, <2>4, ActsWithin
  <2> QED
    BY <2>4, <2>5, ElementOfSeq DEF KeysAhead
<1>3. CASE ~Stored(OpPath) /\ ~Stored(OpPath)'
  <2>1. KeysAhead(s)
    BY <1>3 DEF OneAtATime
  <2>2. CASE agenda'[w] = Unwind(s) \/ agenda'[w] = <<>>
    BY <1>1, <2>1, <2>2, KeysAheadUnwound DEF KeysAhead
  <2>3. CASE RefreshOperator(w)
    <3>1. PICK n \in Seq(Call) : Do(w, n) /\ KeysAhead(n)
      BY <2>3, RefreshKeysAhead
    <3>2. t.op = "refreshOperator" /\ agenda'[w] = n \o Tail(s)
      BY <2>3, <3>1, DoLeaves DEF RefreshOperator, Running, Top
    <3> QED
      BY <1>1, <2>1, <3>1, <3>2, KeysAheadReplaced
  <2>4. CASE IssueOperatorNkey(w) /\ OpPath \in t.todo
    <3>1. t.op = "issueOperatorNkeys"
      BY <2>4 DEF IssueOperatorNkey, Running, Top
    <3> DEFINE c == [op |-> "addNkey", path |-> OpPath, seed |-> FALSE]
               d == [t EXCEPT !.todo = @ \ {OpPath}, !.fresh = TRUE]
               n == addNkey(OpPath, FALSE) \o <<d>>
               Nkeying == [op : {"issueOperatorNkeys"}, iss : OpIssue,
                           todo : SUBSET Path, fresh : BOOLEAN]
    <3>2. Do(w, n)
      BY <1>3, <2>4 DEF IssueOperatorNkey
    <3>3. c \in Call
      BY PathTyped, NkeyCallsMade
    <3>4. d \in Call /\ d.op = "issueOperatorNkeys"
      <4>1. t \in Nkeying
        BY <1>1, <3>1, OperatorCallFields
      <4> HIDE DEF t
      <4>2. d \in Nkeying
        BY <4>1
      <4> QED
        BY <4>2 DEF Call, InnerCall
    <3>5. c.op = "addNkey" /\ c.path = OpPath /\ n = <<c>> \o <<d>>
      BY DEF addNkey
    <3> HIDE DEF c, d, n
    <3>6. n \in Seq(Call) /\ Len(n) = 2 /\ n[1] = c /\ n[2] = d
      BY <3>3, <3>4, <3>5
    <3>7. \A j \in 1..Len(n) : n[j].op # "issueOperatorJWT"
      BY <3>4, <3>5, <3>6
    <3>8. KeysAhead(n)
      BY <3>7 DEF KeysAhead
    <3>9. agenda'[w] = n \o Tail(s)
      BY <3>2, DoLeaves
    <3> QED
      BY <1>1, <2>1, <3>1, <3>4, <3>5, <3>6, <3>8, <3>9, KeysAheadReplaced
  <2>5. CASE AddNkey(w)
    <3>1. t.op = "addNkey" /\ t.path \in Path /\ minted[t.path] \in Nat
          /\ nkey[t.path] \in Nat
      BY <1>1, <2>5, NkeyCallFields
         DEF AddNkey, Running, Top, TypeOK, StorageOK
    <3>2. PICK g \in Nat :
             Do(w, <<[op |-> "putNkey", path |-> t.path, gen |-> g]>>)
      BY <2>5, <3>1 DEF AddNkey
    <3> DEFINE c == [op |-> "putNkey", path |-> t.path, gen |-> g]
    <3>3. c \in Call /\ c.op = "putNkey" /\ c.path = t.path
      BY <3>1, NkeyCallsMade
    <3> HIDE DEF c
    <3>4. <<c>> \in Seq(Call) /\ Len(<<c>>) = 1 /\ <<c>>[1] = c
          /\ KeysAhead(<<c>>)
      BY <3>3 DEF KeysAhead
    <3>5. agenda'[w] = <<c>> \o Tail(s)
      BY <3>2, DoLeaves DEF c
    <3> QED
      BY <1>1, <2>1, <3>1, <3>3, <3>4, <3>5, KeysAheadReplaced
  <2>6. ASSUME t.op # "refreshOperator",
               t.op = "issueOperatorNkeys" => OpPath \notin t.todo,
               t.op # "addNkey", t.op = "putNkey" => t.path # OpPath,
               NEW n \in Seq(Callable(t)), agenda'[w] = n \o Tail(s)
        PROVE  KeysAhead(agenda'[w])
    <3>1. n \in Seq(Call)
      BY DEF Callable
    <3>2. \A j \in 1..Len(n) : n[j].op # "issueOperatorJWT"
      BY <2>6, ElementOfSeq DEF Callable, MayCall
    <3> QED
      BY <1>1, <2>1, <2>6, <3>1, <3>2, KeysAheadReplaced DEF KeysAhead
  <2>7. CASE PutNkey(w) /\ t.path = OpPath
    BY <1>1, <1>3, <2>7, PathTyped
       DEF PutNkey, Running, Top, Stored, Sane, TypeOK, StorageOK
  <2>8. CASE StorageError(w)
    BY <2>2, <2>8, DoLeaves
  <2>9. CASE IssueOperatorNkeysDone(w)
    <3>1. t.op = "issueOperatorNkeys" /\ t.todo = {}
      BY <2>9 DEF IssueOperatorNkeysDone, Running, Top
    <3> QED
      BY <1>1, <2>2, <2>6, <3>1, ActsLeaves
  <2>10. \/ agenda'[w] = <<>> \/ agenda'[w] = Unwind(s)
         \/ \E n \in Seq(Callable(t)) : agenda'[w] = n \o Tail(s)
    BY <1>1, ActsLeaves
  <2> QED
    BY <2>2, <2>3, <2>4, <2>5, <2>6, <2>7, <2>8, <2>9, <2>10, ActionOf
<1> QED
  BY <1>2, <1>3

\* An agenda that imports no seed needs nothing.
LEMMA TameSeeded ==
    ASSUME NEW m \in Seq(Tame), NEW keys
    PROVE  Seeded(m, keys)
<1> SUFFICES ASSUME m # <<>>
             PROVE  Seeded(m, keys)
  BY DEF Seeded
<1>1. m[1] \in Tame /\ Tail(m) \in Seq(Tame)
  BY ElementOfSeq, EmptySeq, HeadTailProperties
<1> QED
  BY <1>1 DEF Seeded, Tame

\* Only the request itself imports a seed.
LEMMA ActsSeeded ==
    ASSUME TypeOK, NEW w \in Workers, Acts(w), OneAtATime(w)
    PROVE  Seeded(agenda'[w], nkey')
<1> DEFINE s == agenda[w]
           t == Top(w)
<1>1. /\ s \in Seq(Call) /\ s # <<>> /\ s[1] = t /\ t \in Call
      /\ Shaped(t) /\ Tail(s) \in Seq(Tame)
  <2>1. t \in Sane
    BY ActsSane
  <2>2. s \in Seq(Call) /\ s # <<>> /\ s[1] = t
    BY AgendaTyped, Writes DEF Top
  <2>3. Tail(s) \in Seq(Tame)
    BY <2>2 DEF OneAtATime, Seeded
  <2> QED
    BY <2>1, <2>2, <2>3 DEF Sane
<1>2. CASE agenda'[w] = <<>>
  BY <1>2, TameSeeded, EmptySeq
<1>3. CASE agenda'[w] = Unwind(s)
  BY <1>1, <1>3, TameSeeded, UnwoundTail
<1>4. ASSUME t.op # "addNkey", NEW n \in Seq(Callable(t)),
             agenda'[w] = n \o Tail(s)
      PROVE  Seeded(agenda'[w], nkey')
  <2>1. Callable(t) \subseteq Tame
    BY <1>4 DEF Callable, MayCall, Tame
  <2>2. n \o Tail(s) \in Seq(Tame)
    BY <1>1, <2>1, ConcatProperties
  <2> QED
    BY <1>4, <2>2, TameSeeded
<1>5. CASE AddNkey(w)
  <2>1. t.op = "addNkey" /\ t.path \in Path /\ t.seed \in BOOLEAN
        /\ minted[t.path] \in Nat /\ nkey[t.path] \in Nat
    BY <1>1, <1>5, NkeyCallFields DEF AddNkey, Running, Top, TypeOK, StorageOK
  <2>2. nkey' = nkey
    BY <1>5 DEF AddNkey
  <2>3. PICK g \in Nat :
           /\ Do(w, <<[op |-> "putNkey", path |-> t.path, gen |-> g]>>)
           /\ nkey[t.path] \in {0, g} \/ t.seed
    BY <1>5, <2>1 DEF AddNkey, TakesNewSeed, Stored
  <2> DEFINE c == [op |-> "putNkey", path |-> t.path, gen |-> g]
  <2>4. c \in Call /\ c.op = "putNkey" /\ c.path = t.path /\ c.gen = g
    BY <2>1, NkeyCallsMade
  <2>5. agenda'[w] = <<c>> \o Tail(s)
    BY <2>3, DoLeaves
  <2> HIDE DEF c
  <2> DEFINE m == <<c>> \o Tail(s)
  <2>6. /\ Len(m) = Len(s) /\ m[1] = c
        /\ \A k \in 2..Len(s) : m[k] = s[k]
    BY <1>1, <2>4, ReplacedByOne
  <2>7. m # <<>> /\ Tail(m) = Tail(s)
    BY <1>1, <2>4
  <2>8. t.seed => Asked(m) = t
    <3>1. ASSUME t.seed
          PROVE  Len(s) = 2 /\ Asked(s) = t
      BY <1>1, <2>1, <3>1 DEF OneAtATime, Seeded
    <3> QED
      BY <2>6, <3>1 DEF Asked
  <2> HIDE DEF m
  <2>9. Seeded(m, nkey)
    BY <1>1, <2>1, <2>3, <2>4, <2>6, <2>7, <2>8 DEF Seeded
  <2> QED
    BY <2>2, <2>5, <2>9 DEF m
<1>6. StorageError(w) => agenda'[w] = Unwind(s)
  BY DoLeaves
<1>7. \/ agenda'[w] = <<>> \/ agenda'[w] = Unwind(s)
      \/ \E n \in Seq(Callable(t)) : agenda'[w] = n \o Tail(s)
  BY <1>1, ActsLeaves
<1> QED
  BY <1>2, <1>3, <1>4, <1>5, <1>6, <1>7, ActionOf

-----------------------------------------------------------------------------
(* The invariant, and what follows from it.                                *)

\* Every step of a handler keeps the invariant.
LEMMA ActsKeep ==
    ASSUME TypeOK, NEW w \in Workers, Acts(w), OneAtATime(w)
    PROVE  OneAtATime(w)'
<1>1. Shaped(Top(w)) /\ Ordered(agenda[w])
  BY ActsSane DEF Sane, OneAtATime
<1>2. /\ Ordered(agenda'[w])
      /\ agenda'[w] # <<>> => Asked(agenda'[w]) = Asked(agenda[w])
  BY <1>1, ActsOrdered
<1>3. agenda'[w] # <<>> =>
         agenda'[w] \in Seq({c \in Call : \A a \in Accounts :
             Creates(c, a) =>
                accIssue'[a] # None \/ Allowed(Asked(agenda'[w]), a)})
  BY <1>2, ActsFaithful
<1>4. agenda'[w] \in Seq(Sane')
  BY ActsSane
<1> QED
  BY <1>2, <1>3, <1>4, ActsKeysAhead, ActsSeeded DEF OneAtATime, Faithful

\* A handler that dereferences nil does not find what it takes for granted.
LEMMA ActsNoPanic ==
    ASSUME TypeOK, NEW w \in Workers, Acts(w), OneAtATime(w)
    PROVE  panicked' = panicked
<1> DEFINE s == agenda[w]
           t == Top(w)
<1>1. t \in Sane /\ s \in Seq(Call) /\ s # <<>> /\ s[1] = t
  <2>1. t \in Sane
    BY ActsSane
  <2>2. s \in Seq(Call) /\ s # <<>> /\ s[1] = t
    BY AgendaTyped, Writes DEF Top
  <2> QED
    BY <2>1, <2>2
<1>2. CASE IssueOperatorJWT(w)
  <2>1. t.op = "issueOperatorJWT"
    BY <1>2 DEF IssueOperatorJWT, Running, Top
  <2>2. 1 \in 1..Len(s) /\ ~KeyAhead(s, 1)
    BY <1>1, EmptySeq, LenProperties DEF KeyAhead
  <2>3. Stored(OpPath)
    BY <1>1, <2>1, <2>2 DEF OneAtATime, KeysAhead
  <2> QED
    BY <1>2, <2>3 DEF IssueOperatorJWT
<1>3. CASE PeriodicEachAccount(w)
  <2>1. t.op = "periodicEachAccount"
    BY <1>3 DEF PeriodicEachAccount, Running, Top
  <2>2. \A a \in t.todo : accIssue[a] # None
    BY <1>1, <2>1 DEF Sane
  <2> QED
    BY <1>3, <2>2 DEF PeriodicEachAccount
<1>4. CASE PeriodicEachUser(w)
  <2>1. t.op = "periodicEachUser"
    BY <1>4 DEF PeriodicEachUser, Running, Top
  <2>2. \A u \in t.todo : userIssue[t.acc][u] # None
    BY <1>1, <2>1 DEF Sane
  <2> QED
    BY <1>4, <2>2 DEF PeriodicEachUser
<1> QED
  BY <1>2, <1>3, <1>4, Writes

\* A request finds what it takes for granted.
LEMMA ReceiveKeeps ==
    ASSUME TypeOK, NEW w \in Workers, Receive(w)
    PROVE  OneAtATime(w)' /\ panicked' = panicked
<1>1. PICK r \in Request :
         agenda'[w] = <<r, [op |-> "reply", req |-> r, faults |-> faults]>>
  BY RequestsAssumption DEF Receive, TypeOK, WorldOK, AgendaOK
<1> DEFINE p == [op |-> "reply", req |-> r, faults |-> faults]
           s == <<r, p>>
<1>2. r \in Call /\ p \in Call /\ p.op = "reply" /\ p.req = r
  BY DEF Call, Reply, TypeOK, WorldOK
<1>3. /\ r.op \in {"addOperatorIssue", "deleteOperatorIssue",
                   "addAccountIssue", "deleteAccountIssue", "addUserIssue",
                   "deleteUserIssue", "generateUserCreds", "addNkey",
                   "deleteNkeys", "addOperatorJWT", "deleteOperatorJWT",
                   "addAccountJWT", "deleteAccountJWT", "periodicFunc"}
  BY DEF Request, IssueOperatorRequest, IssueAccountRequest,
         IssueUserRequest, UserCredsRequest, NkeyRequest, OperatorJWTRequest,
         AccountJWTRequest
<1> HIDE DEF p
<1>4. /\ s \in Seq(Call) /\ s # <<>> /\ Len(s) = 2 /\ s[1] = r /\ s[2] = p
      /\ Tail(s) = <<p>>
  BY <1>2
<1> HIDE DEF s
<1>5. ~Depends(p) /\ p.op # "periodicEachUser" /\ Shaped(p)
  BY <1>2 DEF Depends, Creates, Shaped, Syncs
<1>6. Ordered(s) /\ Asked(s) = r
  BY <1>2, <1>3, <1>4, <1>5 DEF Ordered, Before, Asked
<1>7. \A S : r \in S /\ p \in S => s \in Seq(S)
  BY DEF s
<1>8. r \in Sane' /\ p \in Sane'
  BY <1>2, <1>3, <1>5 DEF Sane, Shaped
<1>9. /\ \A a \in Accounts : Creates(r, a) => Allowed(r, a)
      /\ \A a \in Accounts : ~Creates(p, a)
  BY <1>2, <1>3 DEF Creates, Allowed, Syncs
<1>10. s \in Seq({c \in Call : \A a \in Accounts :
                     Creates(c, a) => accIssue'[a] # None \/ Allowed(r, a)})
  BY <1>2, <1>7, <1>9
<1>11. KeysAhead(s)
  BY <1>2, <1>3, <1>4 DEF KeysAhead
<1>12. Seeded(s, nkey')
  <2>1. p \in Tame
    BY <1>2 DEF Tame
  <2>2. Tail(s) \in Seq(Tame)
    BY <1>4, <2>1, ShortSeq
  <2> QED
    BY <1>3, <1>4, <1>6, <2>2 DEF Seeded
<1>13. agenda'[w] = s
  BY <1>1 DEF s, p
<1> QED
  BY <1>6, <1>7, <1>8, <1>10, <1>11, <1>12, <1>13
     DEF OneAtATime, Faithful, Receive, world

\* With one worker, a step is a request that comes, a step of its handler or
\* a crash.
LEMMA OneWorker ==
    ASSUME NEW w, Workers = {w}, [Next]_vars
    PROVE  Receive(w) \/ Acts(w) \/ Crash \/ UNCHANGED vars
BY DEF Next, Acts, Rest

\* Every step of the plugin keeps the invariant.
LEMMA OneAtATimeNext ==
    ASSUME NEW w, Workers = {w}, TypeOK, OneAtATime(w), [Next]_vars
    PROVE  OneAtATime(w)' /\ panicked' = panicked
<1>1. w \in Workers
  OBVIOUS
<1>2. CASE Receive(w)
  BY <1>1, <1>2, ReceiveKeeps
<1>3. CASE Acts(w)
  BY <1>1, <1>3, ActsKeep, ActsNoPanic
<1>4. CASE Crash
  <2>1. agenda'[w] = <<>> /\ panicked' = panicked
    BY <1>1, <1>4 DEF Crash
  <2>2. \A S : <<>> \in Seq(S)
    OBVIOUS
  <2>3. Ordered(<<>>) /\ KeysAhead(<<>>) /\ Seeded(<<>>, nkey')
    BY DEF Ordered, KeysAhead, Seeded
  <2> QED
    BY <2>1, <2>2, <2>3 DEF OneAtATime
<1>5. CASE UNCHANGED vars
  BY <1>5 DEF vars, issues, tokens, seeds, world, OneAtATime, Sane, Faithful,
              Stored
<1> QED
  BY <1>2, <1>3, <1>4, <1>5, OneWorker

\* Nothing is on an agenda at the beginning.
LEMMA OneAtATimeInit ==
    ASSUME NEW w \in Workers, Init
    PROVE  OneAtATime(w) /\ ~panicked
<1>1. agenda[w] = <<>> /\ ~panicked
  BY DEF Init, InitWith
<1>2. \A S : <<>> \in Seq(S)
  OBVIOUS
<1>3. Ordered(<<>>) /\ KeysAhead(<<>>) /\ Seeded(<<>>, nkey)
  BY DEF Ordered, KeysAhead, Seeded
<1> QED
  BY <1>1, <1>2, <1>3 DEF OneAtATime

\* One request at a time, agendas are in order, and their calls find what
\* they count on.
THEOREM OneAtATimeHolds ==
    ASSUME NEW one, Workers = {one}
    PROVE  Spec => []OneAtATime(one)
<1>1. Init => OneAtATime(one)
  BY OneAtATimeInit
<1>2. TypeOK /\ OneAtATime(one) /\ [Next]_vars => OneAtATime(one)'
  BY OneAtATimeNext
<1> QED
  BY <1>1, <1>2, TypeCorrect, PTL DEF Spec

\* One request at a time, whatever requests come and whatever fails, no
\* handler dereferences nil: issueOperatorJWT finds the operator's nkey, and
\* the periodic function the issues it has listed.
THEOREM NoNilDereference ==
    ASSUME NEW one, Workers = {one}
    PROVE  Spec => []NoPanic
<1>1. Init => NoPanic
  BY OneAtATimeInit DEF NoPanic
<1>2. TypeOK /\ OneAtATime(one) /\ NoPanic /\ [Next]_vars => NoPanic'
  BY OneAtATimeNext DEF NoPanic
<1> QED
  BY <1>1, <1>2, TypeCorrect, OneAtATimeHolds, PTL DEF Spec

\* One request at a time, a stored seed is only ever replaced by one that the
\* request imports for its path.
THEOREM StoredSeedsStay ==
    ASSUME NEW one, Workers = {one}
    PROVE  Spec => SeedsKept
<1>1. TypeOK /\ OneAtATime(one) /\ [Next]_vars =>
        [\A p \in Path :
            (Stored(p) /\ nkey'[p] \notin {0, nkey[p]}) =>
                \E w \in Workers :
                    /\ Serving(w, "addNkey")
                    /\ agenda[w][Len(agenda[w])].req.path = p
                    /\ agenda[w][Len(agenda[w])].req.seed]_vars
  <2> SUFFICES ASSUME TypeOK, OneAtATime(one), Next, NEW p \in Path,
                      Stored(p), nkey'[p] \notin {0, nkey[p]}
               PROVE  /\ Serving(one, "addNkey")
                      /\ agenda[one][Len(agenda[one])].req.path = p
                      /\ agenda[one][Len(agenda[one])].req.seed
    OBVIOUS
  <2>1. nkey' # nkey
    OBVIOUS
  <2>2. Acts(one)
    BY <2>1, OneWorker DEF Receive, Crash, vars, seeds
  <2> DEFINE s == agenda[one]
             t == Top(one)
  <2>3. t \in Sane /\ s # <<>> /\ s[1] = t
    <3>1. t \in Sane
      BY <2>2, ActsSane
    <3>2. s # <<>> /\ s[1] = t
      BY <2>2, AgendaTyped, Writes DEF Top
    <3> QED
      BY <3>1, <3>2
  <2>4. t.op = "putNkey" /\ t.path = p /\ t.gen \notin {0, nkey[p]}
    BY <2>2, <2>3, Effects
  <2>5. nkey[p] # 0
    BY DEF Stored
  <2>6. Asked(s).op = "addNkey" /\ Asked(s).seed /\ Asked(s).path = p
    BY <2>3, <2>4, <2>5 DEF OneAtATime, Seeded
  <2>7. s[Len(s)].op = "reply"
    BY <2>3 DEF OneAtATime, Ordered
  <2> QED
    BY <2>3, <2>6, <2>7 DEF Serving, Asked
<1>2. Spec => []OneAtATime(one)
  BY OneAtATimeHolds, PTL
<1> QED
  BY <1>1, <1>2, TypeCorrect, PTL DEF Spec, SeedsKept

\* One request at a time, an account comes to exist only by a request that
\* creates it: none that was deleted is put back.
THEOREM NoAccountComesBack ==
    ASSUME NEW one, Workers = {one}
    PROVE  Spec => OnlyRequestsCreate
<1>1. TypeOK /\ OneAtATime(one) /\ [Next]_vars =>
        [\A a \in Accounts :
            (accIssue[a] = None /\ accIssue'[a] # None) =>
                \/ Rewriting(a)
                \/ \E w \in Workers : \/ Serving(w, "addNkey")
                                     \/ Serving(w, "addAccountJWT")]_vars
  <2> SUFFICES ASSUME TypeOK, OneAtATime(one), Next, NEW a \in Accounts,
                      accIssue[a] = None, accIssue'[a] # None
               PROVE  \/ Rewriting(a)
                      \/ Serving(one, "addNkey") \/ Serving(one, "addAccountJWT")
    OBVIOUS
  <2>1. accIssue' # accIssue
    OBVIOUS
  <2>2. Acts(one)
    BY <2>1, OneWorker DEF Receive, Crash, vars, issues
  <2> DEFINE s == agenda[one]
             t == Top(one)
  <2>3. t \in Sane /\ s # <<>> /\ s[1] = t
    <3>1. t \in Sane
      BY <2>2, ActsSane
    <3>2. s # <<>> /\ s[1] = t
      BY <2>2, AgendaTyped, Writes DEF Top
    <3> QED
      BY <3>1, <3>2
  <2>4. Creates(t, a)
    BY <2>2, <2>3, Effects
  <2>5. s \in Seq(Faithful(Asked(s)))
    BY <2>3 DEF OneAtATime
  <2>6. t \in Faithful(Asked(s))
    BY <2>3, <2>5, ElementOfSeq, EmptySeq
  <2>7. Allowed(Asked(s), a)
    BY <2>4, <2>6 DEF Faithful
  <2>8. s[Len(s)].op = "reply"
    BY <2>3 DEF OneAtATime, Ordered
  <2> QED
    BY <2>3, <2>7, <2>8 DEF Serving, Asked, Allowed, Rewriting
<1>2. Spec => []OneAtATime(one)
  BY OneAtATimeHolds, PTL
<1> QED
  BY <1>1, <1>2, TypeCorrect, PTL DEF Spec, OnlyRequestsCreate

-----------------------------------------------------------------------------
(* The status that is answered.  A refresh stores what it finds, and what  *)
(* it found stays until the account or the user is deleted; a deletion     *)
(* takes nkey and JWT first, and is not interrupted as long as nothing     *)
(* fails.                                                                  *)

\* account a is deleted by the call at k, and before it only what is a's
Doomed(s, j, a) ==
    \E k \in j..Len(s) :
        /\ s[k].op = "deleteAccountEntry" /\ s[k].acc = a
        /\ \A i \in j..(k - 1) : s[i].op \in {"deleteNkeys", "deleteAccountJWT"}

\* the call at j deletes user u of account a
Removes(s, j, a, u) ==
    /\ j \in 1..Len(s) /\ s[j].op = "deleteUserTemplate"
    /\ s[j].acc = a /\ s[j].user = u

\* whoever takes nkey or JWT goes on to delete the account, or the user
Paired(s) ==
    \A j \in 1..Len(s) :
        /\ \A a \in Accounts : Undoes(s[j], a) => Doomed(s, j, a)
        /\ s[j].op = "deleteUserNkey" => Removes(s, j + 1, s[j].acc, s[j].user)

\* calls that store a true status, and leave users their nkeys
Truthful ==
    {c \in Call : /\ Saves(c) => Honest(c.acc, c.iss)
                  /\ c.op = "deleteNkeys" => \A p \in c.paths : p[1] # "user"}

\* the inductive invariant
StatusKept(w) ==
    LET s == agenda[w] IN
    /\ s \in Seq(Truthful)
    /\ Paired(s)
    /\ \A a \in Accounts :
          accIssue[a] # None => Honest(a, accIssue[a]) \/ Doomed(s, 1, a)
    /\ \A a \in Accounts, u \in Users :
          (userIssue[a][u] # None /\ userIssue[a][u].nkey) =>
              Stored(UserPath(a, u)) \/ Removes(s, 1, a, u)

\* A call that is left where it was keeps what follows it.
LEMMA PairedReplaced ==
    ASSUME NEW s \in Seq(Call), s # <<>>, Paired(s), NEW n \in Seq(Call),
           \/ Paired(n)
           \/ /\ s[1].op \in {"deleteNkeys", "deleteAccountJWT"}
              /\ \A i \in 1..Len(n) :
                    /\ n[i].op = "deleteNkeys"
                    /\ \A a \in Accounts : Undoes(n[i], a) => Undoes(s[1], a)
    PROVE  /\ Paired(n \o Tail(s))
           /\ \A a \in Accounts :
                 (/\ s[1].op \in {"deleteNkeys", "deleteAccountJWT"}
                  /\ \A i \in 1..Len(n) : n[i].op = "deleteNkeys"
                  /\ Doomed(s, 1, a)) => Doomed(n \o Tail(s), 1, a)
           /\ \A a \in Accounts, u \in Users :
                 (n = <<>> /\ Removes(s, 2, a, u)) =>
                     Removes(n \o Tail(s), 1, a, u)
<1> DEFINE m == n \o Tail(s)
           l == Len(n)
<1>1. /\ m \in Seq(Call) /\ l \in Nat /\ Len(s) \in Nat /\ Len(s) > 0
      /\ Len(m) = l + Len(s) - 1
      /\ \A k \in 1..l : m[k] = n[k]
      /\ \A k \in 2..Len(s) : m[l + k - 1] = s[k]
      /\ \A j \in 1..Len(m) :
            j \in 1..l \/ \E k \in 2..Len(s) : j = l + k - 1
  BY Replaced
<1>2. n = <<>> => l = 0
  OBVIOUS
<1> HIDE DEF m, l
<1>3. ASSUME NEW k \in 2..Len(s), NEW a, Doomed(s, k, a)
      PROVE  Doomed(m, l + k - 1, a)
  <2>1. PICK e \in k..Len(s) :
           /\ s[e].op = "deleteAccountEntry" /\ s[e].acc = a
           /\ \A i \in k..(e - 1) :
                 s[i].op \in {"deleteNkeys", "deleteAccountJWT"}
    BY <1>3 DEF Doomed
  <2>2. /\ e \in 2..Len(s) /\ l + e - 1 \in (l + k - 1)..Len(m)
        /\ m[l + e - 1] = s[e]
    BY <1>1
  <2>3. ASSUME NEW i \in (l + k - 1)..((l + e - 1) - 1)
        PROVE  m[i].op \in {"deleteNkeys", "deleteAccountJWT"}
    <3>1. i - l + 1 \in k..(e - 1) /\ i - l + 1 \in 2..Len(s)
          /\ i = l + (i - l + 1) - 1
      BY <1>1
    <3>2. m[i] = s[i - l + 1]
      BY <1>1, <3>1
    <3> QED
      BY <2>1, <3>1, <3>2
  <2> QED
    BY <2>1, <2>2, <2>3 DEF Doomed
<1>4. ASSUME NEW k \in 2..Len(s), NEW a, NEW u, Removes(s, k, a, u)
      PROVE  Removes(m, l + k - 1, a, u)
  BY <1>1, <1>4 DEF Removes
<1>5. ASSUME s[1].op \in {"deleteNkeys", "deleteAccountJWT"},
             \A i \in 1..l : n[i].op = "deleteNkeys",
             NEW a, Doomed(s, 1, a)
      PROVE  /\ Doomed(m, 1, a)
             /\ \A j \in 1..l : Doomed(m, j, a)
  <2>1. PICK e \in 1..Len(s) :
           /\ s[e].op = "deleteAccountEntry" /\ s[e].acc = a
           /\ \A i \in 1..(e - 1) :
                 s[i].op \in {"deleteNkeys", "deleteAccountJWT"}
    BY <1>5 DEF Doomed
  <2>2. e # 1
    BY <1>5, <2>1
  <2>3. /\ e \in 2..Len(s) /\ l + e - 1 \in 1..Len(m)
        /\ m[l + e - 1] = s[e]
    BY <1>1, <2>2
  <2>4. ASSUME NEW i \in 1..((l + e - 1) - 1)
        PROVE  m[i].op \in {"deleteNkeys", "deleteAccountJWT"}
    <3>1. CASE i \in 1..l
      BY <1>1, <1>5, <3>1
    <3>2. CASE i \notin 1..l
      <4>1. i - l + 1 \in 1..(e - 1) /\ i - l + 1 \in 2..Len(s)
            /\ i = l + (i - l + 1) - 1
        BY <1>1, <3>2
      <4>2. m[i] = s[i - l + 1]
        BY <1>1, <4>1
      <4> QED
        BY <2>1, <4>1, <4>2
    <3> QED
      BY <3>1, <3>2
  <2>5. ASSUME NEW j \in 1..(l + 1)
        PROVE  Doomed(m, j, a)
    <3>1. l + e - 1 \in j..Len(m)
          /\ \A i \in j..((l + e - 1) - 1) : i \in 1..((l + e - 1) - 1)
      BY <1>1, <2>3
    <3> QED
      BY <2>1, <2>3, <2>4, <3>1 DEF Doomed
  <2> QED
    BY <1>1, <2>5
<1>6. ASSUME NEW j \in 1..l, NEW a \in Accounts, Undoes(m[j], a)
      PROVE  Doomed(m, j, a)
  <2>1. m[j] = n[j]
    BY <1>1
  <2>2. CASE Paired(n)
    <3>1. Doomed(n, j, a)
      BY <1>6, <2>1, <2>2 DEF Paired, l
    <3>2. PICK e \in j..l :
             /\ n[e].op = "deleteAccountEntry" /\ n[e].acc = a
             /\ \A i \in j..(e - 1) :
                   n[i].op \in {"deleteNkeys", "deleteAccountJWT"}
      BY <3>1 DEF Doomed, l
    <3>3. e \in j..Len(m) /\ m[e] = n[e] /\ \A i \in j..(e - 1) : m[i] = n[i]
      BY <1>1
    <3> QED
      BY <3>2, <3>3 DEF Doomed
  <2>3. CASE ~Paired(n)
    <3>1. /\ s[1].op \in {"deleteNkeys", "deleteAccountJWT"}
          /\ \A i \in 1..l : n[i].op = "deleteNkeys"
          /\ Undoes(s[1], a)
      BY <1>6, <2>1, <2>3 DEF l
    <3>2. Doomed(s, 1, a)
      BY <1>1, <3>1 DEF Paired
    <3> QED
      BY <1>5, <3>1, <3>2
  <2> QED
    BY <2>2, <2>3
<1>7. ASSUME NEW j \in 1..l, m[j].op = "deleteUserNkey"
      PROVE  Removes(m, j + 1, m[j].acc, m[j].user)
  <2>1. m[j] = n[j] /\ Paired(n)
    BY <1>1, <1>7 DEF l
  <2>2. Removes(n, j + 1, n[j].acc, n[j].user)
    BY <1>7, <2>1 DEF Paired, l
  <2>3. j + 1 \in 1..l
    BY <2>2 DEF Removes, l
  <2> QED
    BY <1>1, <2>1, <2>2, <2>3 DEF Removes
<1>8. ASSUME NEW k \in 2..Len(s)
      PROVE  LET j == l + k - 1 IN
             /\ \A a \in Accounts : Undoes(m[j], a) => Doomed(m, j, a)
             /\ m[j].op = "deleteUserNkey" =>
                   Removes(m, j + 1, m[j].acc, m[j].user)
  <2>1. m[l + k - 1] = s[k] /\ k \in 1..Len(s)
    BY <1>1
  <2>2. s[k].op = "deleteUserNkey" =>
           /\ k + 1 \in 2..Len(s) /\ Removes(s, k + 1, s[k].acc, s[k].user)
    BY <2>1 DEF Paired, Removes
  <2>3. l + (k + 1) - 1 = (l + k - 1) + 1
    BY <1>1
  <2>4. s[k].op = "deleteUserNkey" =>
           Removes(m, (l + k - 1) + 1, s[k].acc, s[k].user)
    BY <1>4, <2>2, <2>3
  <2>5. \A a \in Accounts : Undoes(s[k], a) => Doomed(m, l + k - 1, a)
    BY <1>3, <2>1 DEF Paired
  <2> QED
    BY <2>1, <2>4, <2>5
<1>9. Paired(m)
  <2>1. ASSUME NEW j \in 1..Len(m)
        PROVE  /\ \A a \in Accounts : Undoes(m[j], a) => Doomed(m, j, a)
               /\ m[j].op = "deleteUserNkey" =>
                     Removes(m, j + 1, m[j].acc, m[j].user)
    <3>1. CASE j \in 1..l
      BY <1>6, <1>7, <3>1
    <3>2. CASE j \notin 1..l
      <4>1. PICK k \in 2..Len(s) : j = l + k - 1
        BY <1>1, <3>2
      <4> QED
        BY <1>8, <4>1
    <3> QED
      BY <3>1, <3>2
  <2> QED
    BY <2>1 DEF Paired
<1>10. ASSUME NEW a, NEW u, n = <<>>, Removes(s, 2, a, u)
       PROVE  Removes(m, 1, a, u)
  <2>1. 2 \in 2..Len(s) /\ l + 2 - 1 = 1
    BY <1>1, <1>2, <1>10 DEF Removes
  <2> QED
    BY <1>4, <1>10, <2>1
<1> QED
  BY <1>5, <1>9, <1>10 DEF m, l

\* After an error the calls that are left are paired as before.
LEMMA PairedUnwound ==
    ASSUME NEW s \in Seq(Call), Paired(s)
    PROVE  Paired(Unwind(s))
<1> DEFINE m == Unwind(s)
<1>1. CASE m = <<>>
  BY <1>1 DEF Paired
<1>2. CASE m # <<>>
  <2>1. PICK f \in 1..Len(s) : /\ s[f].op = "catch" /\ Len(m) = Len(s) - f
                               /\ \A k \in 1..(Len(s) - f) : m[k] = s[f + k]
    BY <1>2, Unwound
  <2>2. Len(s) \in Nat
    BY LenProperties
  <2> HIDE DEF m
  <2>3. ASSUME NEW j \in 1..Len(m)
        PROVE  /\ \A a \in Accounts : Undoes(m[j], a) => Doomed(m, j, a)
               /\ m[j].op = "deleteUserNkey" =>
                     Removes(m, j + 1, m[j].acc, m[j].user)
    <3>1. m[j] = s[f + j] /\ f + j \in 1..Len(s)
      BY <2>1, <2>2
    <3>2. ASSUME NEW a \in Accounts, Undoes(m[j], a)
          PROVE  Doomed(m, j, a)
      <4>5. Doomed(s, f + j, a)
        BY <3>1, <3>2 DEF Paired
      <4>1. PICK e \in (f + j)..Len(s) :
               /\ s[e].op = "deleteAccountEntry" /\ s[e].acc = a
               /\ \A i \in (f + j)..(e - 1) :
                     s[i].op \in {"deleteNkeys", "deleteAccountJWT"}
        BY <4>5 DEF Doomed
      <4>2. e - f \in j..Len(m) /\ e - f \in 1..(Len(s) - f) /\ f + (e - f) = e
        BY <2>1, <2>2
      <4>3. m[e - f] = s[e]
        BY <2>1, <4>2
      <4>4. ASSUME NEW i \in j..((e - f) - 1)
            PROVE  m[i].op \in {"deleteNkeys", "deleteAccountJWT"}
        <5>1. f + i \in (f + j)..(e - 1) /\ i \in 1..(Len(s) - f)
          BY <2>1, <2>2, <4>2
        <5> QED
          BY <2>1, <4>1, <5>1
      <4> QED
        BY <4>1, <4>2, <4>3, <4>4 DEF Doomed
    <3>3. ASSUME m[j].op = "deleteUserNkey"
          PROVE  Removes(m, j + 1, m[j].acc, m[j].user)
      <4>1. Removes(s, f + j + 1, m[j].acc, m[j].user)
        BY <3>1, <3>3 DEF Paired
      <4>2. j + 1 \in 1..Len(m) /\ f + (j + 1) = f + j + 1
        BY <2>1, <2>2, <4>1 DEF Removes
      <4>3. m[j + 1] = s[f + j + 1]
        BY <2>1, <4>2
      <4> QED
        BY <4>1, <4>2, <4>3 DEF Removes
    <3> QED
      BY <3>2, <3>3
  <2> QED
    BY <2>3 DEF Paired, m
<1> QED
  BY <1>1, <1>2

\* Which actions take nkeys and JWTs, and lead to it.
LEMMA StepOf ==
    ASSUME NEW w, Step(w)
    PROVE  /\ agenda[w] # <<>>
           /\ Top(w).op = "deleteNkeys" => DeleteNkeys(w)
           /\ Top(w).op = "deleteAccountJWT" => DeleteAccountJWT(w)
           /\ Top(w).op = "deleteUserNkey" => DeleteUserNkey(w)
           /\ Top(w).op = "deleteUserTemplate" => DeleteUserTemplate(w)
           /\ Top(w).op = "deleteAccountEntry" => DeleteAccountEntry(w)
           /\ Top(w).op = "addUserToRevocationList" =>
                 AddUserToRevocationList(w)
           /\ Top(w).op \in Syncs =>
                 \/ RefreshAccountResolver(w) \/ PushAccount(w)
                 \/ DeleteAccounts(w)
           /\ accJWT' = accJWT \/ AddAccountJWT(w) \/ DeleteAccountJWT(w)
           /\ nkey' = nkey \/ userIssue' = userIssue
BY DEF Running, Top, Syncs, issues, tokens, seeds, world,
       Step, NkeyStep, UserStep, ServerStep, AccountStep,
       OperatorStep, PeriodicStep, LeaveCatch, Respond, storeUserStatus,
       AddNkey, PutNkey, EnsureIssue, DeleteNkeys, AddOperatorJWT,
       AddAccountJWT, DeleteOperatorJWT, DeleteAccountJWT, AddUserIssue,
       IssueUserNKeys, StoreUserIssueUpdate, RefreshPushUser,
       DeleteUserIssue, DeleteUserNkey, DeleteUserTemplate,
       GenerateUserCreds, GenerateUserJWT, FormatUserConfig, ReturnCreds,
       RefreshAccountResolver, PushAccount, DeleteAccounts,
       RefreshAccountResolvers, PushEach, AddAccountIssue, PutAccountIssue,
       IssueAccountNKey, IssueAccountNKeysDone, UpdateUserIssues,
       UpdateEachUser, IssueAccountJWT, UpdateAccountStatus,
       DeleteAccountIssue, DeleteAccountEntry, AddUserToRevocationList,
       AddOperatorIssue, PutOperatorIssue, RefreshOperator, IssueOperatorNkey,
       IssueOperatorNkeysDone, UpdateEachAccount, IssueOperatorJWT,
       DeleteOperatorIssue, DeleteOperatorEntry, PeriodicFunc,
       PeriodicAccount, PeriodicRefreshAccountIssues, PeriodicEachAccount,
       PeriodicRefreshUserIssues, PeriodicEachUser, PeriodicSync

\* Most calls take nothing, nor do those they make.
LEMMA CallablePaired ==
    ASSUME NEW t, NEW n \in Seq(Callable(t)), t.op # "deleteNkeys",
           t.op # "addUserToRevocationList",
           ~(t.op \in Syncs /\ t.mode = "delete")
    PROVE  Paired(n)
<1>1. ASSUME NEW j \in 1..Len(n)
      PROVE  /\ \A a \in Accounts : ~Undoes(n[j], a)
             /\ n[j].op # "deleteUserNkey"
  <2>1. MayCall(t, n[j])
    BY ElementOfSeq DEF Callable
  <2> QED
    BY <2>1 DEF MayCall
<1> QED
  BY <1>1 DEF Paired

\* Positions of the calls of an agenda put together from three parts.
LEMMA ThreeParts ==
    ASSUME NEW b \in Call, NEW c \in Call, NEW d \in Call, NEW e \in Call
    PROVE  LET m == (<<b>> \o <<>>) \o <<d, e>>
               l == (<<b>> \o <<c>>) \o <<d, e>>
           IN  /\ m \in Seq(Call) /\ Len(m) = 3
               /\ m[1] = b /\ m[2] = d /\ m[3] = e
               /\ l \in Seq(Call) /\ Len(l) = 4
               /\ l[1] = b /\ l[2] = c /\ l[3] = d /\ l[4] = e
OBVIOUS

\* Deleting an account, its nkeys and JWT go before its issue.
LEMMA ErasePaired ==
    ASSUME NEW a \in Accounts, NEW i \in AccIssue
    PROVE  eraseAccount(a, i) \in Seq(Call) /\ Paired(eraseAccount(a, i))
<1> DEFINE ss  == AccSignings(a, i.par.signing)
           own == [op |-> "deleteNkeys", paths |-> {AccPath(a)}]
           sig == [op |-> "deleteNkeys", paths |-> ss]
           jwt == [op |-> "deleteAccountJWT", acc |-> a]
           ent == [op |-> "deleteAccountEntry", acc |-> a]
<1>1. i.par.signing \in SUBSET AccKeys
  BY DEF AccIssue, AccPar
<1>2. ss \in SUBSET Path /\ \A p \in ss : p[3] # None
  BY <1>1, PathsTyped, SigningPaths
<1>3. own \in Call /\ sig \in Call /\ jwt \in Call /\ ent \in Call
  BY <1>2, PathTyped, NkeyCallsMade, AccountCallsMade DEF AccNameCalls
<1>4. \A b \in Accounts : /\ Undoes(own, b) => b = a
                          /\ ~Undoes(sig, b)
                          /\ Undoes(jwt, b) => b = a
                          /\ ~Undoes(ent, b)
  BY <1>2, SigningPaths DEF Undoes, AccPath
<1>5. /\ own.op = "deleteNkeys" /\ sig.op = "deleteNkeys"
      /\ jwt.op = "deleteAccountJWT"
      /\ ent.op = "deleteAccountEntry" /\ ent.acc = a
  OBVIOUS
<1>6. /\ eraseAccount(a, i) \in Seq(Call)
      /\ Len(eraseAccount(a, i)) \in {3, 4}
      /\ eraseAccount(a, i)[Len(eraseAccount(a, i))] = ent
      /\ \A j \in 1..(Len(eraseAccount(a, i)) - 1) :
            eraseAccount(a, i)[j] \in {own, sig, jwt}
  <2>1. deleteNkeys({AccPath(a)}) = <<own>>
    BY DEF deleteNkeys
  <2>2. deleteNkeys(ss) \in {<<>>, <<sig>>}
    BY DEF deleteNkeys
  <2>3. eraseAccount(a, i) = deleteNkeys({AccPath(a)}) \o deleteNkeys(ss)
                             \o <<jwt, ent>>
    BY DEF eraseAccount
  <2> HIDE DEF own, sig, jwt, ent, ss
  <2>4. <<own>> \in Seq(Call) /\ <<sig>> \in Seq(Call)
        /\ <<jwt, ent>> \in Seq(Call)
    BY <1>3
  <2> DEFINE m == (<<own>> \o <<>>) \o <<jwt, ent>>
             l == (<<own>> \o <<sig>>) \o <<jwt, ent>>
  <2>5. /\ m \in Seq(Call) /\ Len(m) = 3
        /\ m[1] = own /\ m[2] = jwt /\ m[3] = ent
    BY <1>3, ThreeParts
  <2>6. /\ l \in Seq(Call) /\ Len(l) = 4
        /\ l[1] = own /\ l[2] = sig /\ l[3] = jwt /\ l[4] = ent
    BY <1>3, ThreeParts
  <2>7. eraseAccount(a, i) \in {m, l}
    BY <2>1, <2>2, <2>3
  <2> HIDE DEF m, l
  <2>8. \A x \in {m, l} : /\ x \in Seq(Call) /\ Len(x) \in {3, 4}
                          /\ x[Len(x)] = ent
                          /\ \A j \in 1..(Len(x) - 1) : x[j] \in {own, sig, jwt}
    <3>1. \A j \in 1..2 : m[j] \in {own, sig, jwt}
      BY <2>5
    <3>2. \A j \in 1..3 : l[j] \in {own, sig, jwt}
      BY <2>6
    <3>3. Len(m) - 1 = 2 /\ Len(l) - 1 = 3 /\ m[Len(m)] = ent /\ l[Len(l)] = ent
      BY <2>5, <2>6
    <3> QED
      BY <2>5, <2>6, <3>1, <3>2, <3>3
  <2> QED
    BY <2>7, <2>8
<1> HIDE DEF own, sig, jwt, ent
<1> DEFINE m == eraseAccount(a, i)
<1> HIDE DEF m
<1>7. /\ m \in Seq(Call) /\ Len(m) \in {3, 4} /\ m[Len(m)] = ent
      /\ \A j \in 1..(Len(m) - 1) : m[j] \in {own, sig, jwt}
  BY <1>6 DEF m
<1>8. \A j \in 1..Len(m) : j # Len(m) => j \in 1..(Len(m) - 1)
  BY <1>7
<1>9. ASSUME NEW j \in 1..Len(m), NEW b \in Accounts, Undoes(m[j], b)
      PROVE  Doomed(m, j, b)
  <2>1. b = a
    BY <1>4, <1>7, <1>8, <1>9
  <2>2. Len(m) \in j..Len(m) /\ j..(Len(m) - 1) \subseteq 1..(Len(m) - 1)
    BY <1>7
  <2> QED
    BY <1>5, <1>7, <2>1, <2>2 DEF Doomed
<1>10. \A j \in 1..Len(m) : m[j].op # "deleteUserNkey"
  BY <1>5, <1>7, <1>8
<1> QED
  BY <1>7, <1>9, <1>10 DEF Paired, m

\* Deleting a user, the nkey goes before the template.
LEMMA RevocationPaired ==
    ASSUME TypeOK, NEW w \in Workers, AddUserToRevocationList(w)
    PROVE  \E n \in Seq(Call) : Do(w, n) /\ Paired(n)
<1>1. PICK a \in Accounts, u \in Users :
         \/ Do(w, eraseUser(a, u, None))
         \/ \E i \in AccIssue, key \in Key :
               Do(w, <<[op |-> "putAccountIssue", acc |-> a, iss |-> i]>>
                     \o refreshAccount(a, i) \o eraseUser(a, u, key))
  BY RevocationStep
<1>2. ASSUME NEW key \in Key \cup {None}
      PROVE  /\ eraseUser(a, u, key) \in Seq(Call)
             /\ Len(eraseUser(a, u, key)) = 2
             /\ eraseUser(a, u, key)[1].op = "deleteUserNkey"
             /\ eraseUser(a, u, key)[1].acc = a
             /\ eraseUser(a, u, key)[1].user = u
             /\ eraseUser(a, u, key)[2].op = "deleteUserTemplate"
             /\ eraseUser(a, u, key)[2].acc = a
             /\ eraseUser(a, u, key)[2].user = u
  <2>1. eraseUser(a, u, key) \in Seq(Call)
    BY UserCallsMade, ShortSeq DEF eraseUser, UserNameCalls
  <2> QED
    BY <2>1 DEF eraseUser
<1>3. ASSUME NEW key \in Key \cup {None}, NEW q \in Seq(Call),
             \A k \in 1..Len(q) : /\ q[k].op # "deleteUserNkey"
                                  /\ \A b \in Accounts : ~Undoes(q[k], b)
      PROVE  q \o eraseUser(a, u, key) \in Seq(Call)
             /\ Paired(q \o eraseUser(a, u, key))
  <2> DEFINE e == eraseUser(a, u, key)
             m == q \o e
  <2>1. /\ m \in Seq(Call) /\ Len(q) \in Nat /\ Len(m) = Len(q) + 2
        /\ \A k \in 1..Len(m) :
              m[k] = IF k <= Len(q) THEN q[k] ELSE e[k - Len(q)]
    <3>1. e \in Seq(Call) /\ Len(e) = 2
      BY <1>2
    <3> HIDE DEF e
    <3>2. /\ m \in Seq(Call) /\ Len(q) \in Nat /\ Len(m) = Len(q) + Len(e)
          /\ \A k \in 1..(Len(q) + Len(e)) :
                m[k] = IF k <= Len(q) THEN q[k] ELSE e[k - Len(q)]
      BY <3>1, ConcatProperties, LenProperties
    <3> QED
      BY <3>1, <3>2
  <2>2. \A b \in Accounts : ~Undoes(e[1], b) /\ ~Undoes(e[2], b)
    BY <1>2 DEF Undoes
  <2> HIDE DEF m
  <2>3. /\ \A k \in 1..Len(q) : k \in 1..Len(m) /\ m[k] = q[k]
        /\ m[Len(q) + 1] = e[1] /\ m[Len(q) + 2] = e[2]
        /\ \A k \in 1..Len(m) : \/ k \in 1..Len(q) \/ k = Len(q) + 1
                                \/ k = Len(q) + 2
    <3>1. \A l \in Nat : (l + 1) - l = 1 /\ (l + 2) - l = 2
      OBVIOUS
    <3>2. /\ Len(q) \in Nat /\ Len(m) = Len(q) + 2
          /\ Len(q) + 1 \in 1..Len(m) /\ Len(q) + 2 \in 1..Len(m)
          /\ ~(Len(q) + 1 <= Len(q)) /\ ~(Len(q) + 2 <= Len(q))
          /\ \A k \in 1..Len(q) : k \in 1..Len(m) /\ k <= Len(q)
          /\ \A k \in 1..Len(m) : \/ k \in 1..Len(q) \/ k = Len(q) + 1
                                  \/ k = Len(q) + 2
      BY <2>1
    <3> HIDE DEF e
    <3> QED
      BY <2>1, <3>1, <3>2
  <2> HIDE DEF e
  <2>4. Removes(m, (Len(q) + 1) + 1, a, u)
    BY <1>2, <2>1, <2>3 DEF Removes, e
  <2>5. m[Len(q) + 1].acc = a /\ m[Len(q) + 1].user = u
        /\ m[Len(q) + 2].op = "deleteUserTemplate"
    BY <1>2, <2>3 DEF e
  <2>6. \A j \in 1..Len(m) :
           m[j].op = "deleteUserNkey" => Removes(m, j + 1, m[j].acc, m[j].user)
    BY <1>3, <2>3, <2>4, <2>5
  <2>7. \A j \in 1..Len(m), b \in Accounts : ~Undoes(m[j], b)
    BY <1>3, <2>2, <2>3
  <2> QED
    BY <2>1, <2>6, <2>7 DEF Paired, m, e
<1>4. CASE Do(w, eraseUser(a, u, None))
  <2> DEFINE q == <<>>
  <2>1. eraseUser(a, u, None) \in Seq(Call)
    BY <1>2
  <2>2. /\ q \in Seq(Call) /\ Len(q) = 0
        /\ q \o eraseUser(a, u, None) = eraseUser(a, u, None)
    BY <2>1
  <2> HIDE DEF q
  <2>5. None \in Key \cup {None} /\ \A k \in 1..Len(q) : FALSE
    BY <2>2
  <2>4. Paired(q \o eraseUser(a, u, None))
    BY <1>3, <2>2, <2>5, Zenon
  <2>3. Paired(eraseUser(a, u, None))
    BY <2>2, <2>4
  <2> QED
    BY <1>2, <1>4, <2>3
<1>5. ASSUME NEW i \in AccIssue, NEW key \in Key,
             Do(w, <<[op |-> "putAccountIssue", acc |-> a, iss |-> i]>>
                   \o refreshAccount(a, i) \o eraseUser(a, u, key))
      PROVE  \E n \in Seq(Call) : Do(w, n) /\ Paired(n)
  <2> DEFINE put == [op |-> "putAccountIssue", acc |-> a, iss |-> i]
             nks == accountNkeys(a, i)
             jwt == [op |-> "issueAccountJWT", acc |-> a, iss |-> i]
             res == [op |-> "refreshAccountResolver", acc |-> a, iss |-> i,
                     mode |-> "refresh"]
             q   == <<put>> \o refreshAccount(a, i)
  <2>1. refreshAccount(a, i) \in Seq(Call) /\ <<put>> \in Seq(Call)
    BY AccountCallsQuiet, QuietIsCall
  <2>2. q \in Seq(Call)
    BY <2>1, ConcatProperties
  <2>3. Len(q) = 4 /\ q[1] = put /\ q[2] = nks /\ q[3] = jwt /\ q[4] = res
    <3>1. refreshAccount(a, i) = <<nks, jwt>> \o <<res>>
      BY DEF refreshAccount, accountResolver
    <3> HIDE DEF nks, jwt, res, put
    <3> QED
      BY <3>1, FourCalls
  <2>4. \A c \in {put, nks, jwt, res} :
           c.op # "deleteUserNkey" /\ \A b \in Accounts : ~Undoes(c, b)
    BY DEF Undoes, accountNkeys
  <2> HIDE DEF q, put, nks, jwt, res
  <2>5. \A k \in 1..Len(q) : q[k] \in {put, nks, jwt, res}
    BY <2>3
  <2>6. q \o eraseUser(a, u, key) \in Seq(Call)
        /\ Paired(q \o eraseUser(a, u, key))
    BY <1>3, <2>2, <2>4, <2>5
  <2> QED
    BY <1>5, <2>6 DEF q, put
<1> QED
  BY <1>1, <1>4, <1>5

\* The calls a step brings are paired, or go on with taking.
LEMMA StepPaired ==
    ASSUME TypeOK, NEW w \in Workers, Step(w), Top(w) \in Sane,
           Paired(agenda[w])
    PROVE  LET s == agenda[w] IN
           /\ Paired(agenda'[w])
           /\ s[1].op \in {"deleteNkeys", "deleteAccountJWT"} =>
                 \A a \in Accounts : Doomed(s, 1, a) => Doomed(agenda'[w], 1, a)
           /\ s[1].op = "deleteUserNkey" =>
                 \A a \in Accounts, u \in Users :
                    Removes(s, 2, a, u) => Removes(agenda'[w], 1, a, u)
<1> DEFINE s == agenda[w]
           t == Top(w)
<1>1. /\ s \in Seq(Call) /\ s # <<>> /\ s[1] = t /\ t \in Call
      /\ \/ agenda'[w] = <<>>
         \/ agenda'[w] = Unwind(s)
         \/ \E n \in Seq(Callable(t)) : agenda'[w] = n \o Tail(s)
  BY ActsLeaves DEF Acts, Sane
<1>2. CASE t.op = "deleteNkeys"
  <2>1. DeleteNkeys(w) /\ t.paths \in SUBSET Path
    BY <1>1, <1>2, StepOf, NkeyCallFields
  <2>2. PICK p \in t.paths : Do(w, deleteNkeys(t.paths \ {p}))
    BY <2>1 DEF DeleteNkeys
  <2> DEFINE n == deleteNkeys(t.paths \ {p})
             c == [op |-> "deleteNkeys", paths |-> t.paths \ {p}]
  <2>3. c \in Call /\ c.op = "deleteNkeys"
        /\ \A a \in Accounts : Undoes(c, a) => Undoes(t, a)
    BY <1>2, <2>1, NkeyCallsMade DEF Undoes
  <2>4. n = <<>> \/ n = <<c>>
    BY DEF deleteNkeys
  <2> HIDE DEF c, n
  <2>5. /\ n \in Seq(Call)
        /\ \A i \in 1..Len(n) : n[i] = c
    <3>1. CASE n = <<>>
      BY <3>1
    <3>2. CASE n = <<c>>
      <4>1. n \in Seq(Call) /\ Len(n) = 1 /\ n[1] = c
        BY <2>3, <3>2
      <4> QED
        BY <4>1
    <3> QED
      BY <2>4, <3>1, <3>2
  <2>6. agenda'[w] = n \o Tail(s)
    BY <2>2, DoLeaves DEF n
  <2> QED
    BY <1>1, <1>2, <2>3, <2>5, <2>6, PairedReplaced
<1>3. CASE t.op \in {"deleteAccountJWT", "deleteUserNkey"}
  <2>1. Do(w, <<>>)
    BY <1>3, StepOf DEF DeleteAccountJWT, DeleteUserNkey
  <2>2. agenda'[w] = <<>> \o Tail(s)
    BY <2>1, DoLeaves
  <2> DEFINE n == <<>>
  <2>3. n \in Seq(Call) /\ Paired(n) /\ n = <<>> /\ \A i \in 1..Len(n) : FALSE
    BY DEF Paired
  <2>4. agenda'[w] = n \o Tail(s)
    BY <2>2
  <2> HIDE DEF n
  <2>5. /\ Paired(n \o Tail(s))
        /\ \A a \in Accounts :
              (s[1].op \in {"deleteNkeys", "deleteAccountJWT"}
               /\ Doomed(s, 1, a)) => Doomed(n \o Tail(s), 1, a)
        /\ \A a \in Accounts, u \in Users :
              Removes(s, 2, a, u) => Removes(n \o Tail(s), 1, a, u)
    BY <1>1, <2>3, PairedReplaced
  <2> QED
    BY <1>1, <1>3, <2>4, <2>5
<1>4. ASSUME t.op \notin {"deleteNkeys", "deleteAccountJWT", "deleteUserNkey"}
      PROVE  Paired(agenda'[w])
  <2>1. CASE agenda'[w] = <<>>
    BY <2>1 DEF Paired
  <2>2. CASE agenda'[w] = Unwind(s)
    BY <1>1, <2>2, PairedUnwound
  <2>3. ASSUME NEW n \in Seq(Call), Paired(n), agenda'[w] = n \o Tail(s)
        PROVE  Paired(agenda'[w])
    BY <1>1, <2>3, PairedReplaced
  <2>4. CASE t.op = "addUserToRevocationList"
    BY <2>3, <2>4, StepOf, RevocationPaired, DoLeaves
  <2>5. CASE t.op \in Syncs /\ t.mode = "delete"
    <3>1. t.acc \in Accounts /\ t.iss \in AccIssue
      BY <1>1, <2>5, ServerCallFields DEF Syncs
    <3>2. \/ RefreshAccountResolver(w) \/ PushAccount(w) \/ DeleteAccounts(w)
      BY <2>5, StepOf
    <3> DEFINE c == [op |-> "deleteAccounts", acc |-> t.acc, iss |-> t.iss,
                     mode |-> "delete", tok |-> accJWT[t.acc]]
    <3>3. \/ Fail(w)
          \/ Do(w, eraseAccount(t.acc, t.iss))
          \/ Do(w, eraseAccount(t.acc, Marked(t.iss, "delete")))
          \/ Do(w, <<c>>) /\ accJWT[t.acc] # None
      BY <2>5, <3>2
         DEF RefreshAccountResolver, PushAccount, DeleteAccounts, AfterSync,
             SyncWanted
    <3>4. Marked(t.iss, "delete") \in AccIssue
      BY <3>1 DEF Marked, AccIssue
    <3>5. CASE Fail(w)
      BY <2>2, <3>5, DoLeaves
    <3>6. CASE Do(w, <<c>>) /\ accJWT[t.acc] # None
      <4>1. accJWT[t.acc] \in AccToken
        BY <3>1, <3>6 DEF TypeOK, StorageOK
      <4>2. c \in Call
        BY <3>1, <4>1, ServerCallsMade DEF Resolvable, ResolverModes
      <4>3. c.op = "deleteAccounts" /\ \A a \in Accounts : ~Undoes(c, a)
        BY DEF Undoes
      <4> HIDE DEF c
      <4>4. <<c>> \in Seq(Call) /\ Paired(<<c>>)
        BY <4>2, <4>3 DEF Paired
      <4> QED
        BY <2>3, <3>6, <4>4, DoLeaves
    <3> QED
      BY <2>3, <3>1, <3>3, <3>4, <3>5, <3>6, ErasePaired, DoLeaves
  <2>6. ASSUME t.op # "addUserToRevocationList",
               ~(t.op \in Syncs /\ t.mode = "delete"),
               NEW n \in Seq(Callable(t)), agenda'[w] = n \o Tail(s)
        PROVE  Paired(agenda'[w])
    <3>1. n \in Seq(Call)
      BY DEF Callable
    <3>2. Paired(n)
      BY <1>4, <2>6, CallablePaired
    <3> QED
      BY <2>3, <2>6, <3>1, <3>2
  <2> QED
    BY <1>1, <2>1, <2>2, <2>4, <2>5, <2>6
<1> QED
  BY <1>1, <1>2, <1>3, <1>4

\* What a step may take, and what it stores about it.
LEMMA StatusEffects ==
    ASSUME TypeOK, NEW w \in Workers, Step(w), Top(w) \in Sane,
           Top(w) \in Truthful
    PROVE  /\ \A a \in Accounts :
                 /\ Stored(AccPath(a)) =>
                       Stored(AccPath(a))' \/ Undoes(Top(w), a)
                 /\ accJWT[a] # None => accJWT'[a] # None \/ Undoes(Top(w), a)
                 /\ \/ accIssue'[a] = accIssue[a]
                    \/ /\ Top(w).op = "putAccountIssue" /\ Top(w).acc = a
                       /\ accIssue'[a] = Top(w).iss
                    \/ Top(w).op = "deleteAccountEntry" /\ accIssue'[a] = None
                 /\ Top(w).op = "deleteAccountEntry" /\ Top(w).acc = a =>
                       accIssue'[a] = None
           /\ \A a \in Accounts, u \in Users :
                 /\ Stored(UserPath(a, u)) =>
                       \/ Stored(UserPath(a, u))'
                       \/ /\ Top(w).op = "deleteUserNkey"
                          /\ Top(w).acc = a /\ Top(w).user = u
                 /\ \/ userIssue'[a][u] = userIssue[a][u]
                    \/ userIssue'[a][u] = None
                    \/ /\ Top(w).op # "deleteUserTemplate"
                       /\ userIssue'[a][u].nkey =>
                             \/ Stored(UserPath(a, u))
                             \/ userIssue[a][u] # None /\ userIssue[a][u].nkey
                 /\ /\ Top(w).op = "deleteUserTemplate"
                    /\ Top(w).acc = a /\ Top(w).user = u
                    => userIssue'[a][u] = None
<1> DEFINE t == Top(w)
<1>1. t \in Call /\ (t.op = "putNkey" => t.gen # 0) /\ Acts(w)
  BY DEF Sane, Acts
<1>2. ASSUME NEW a \in Accounts
      PROVE  /\ \/ accIssue'[a] = accIssue[a]
                \/ t.op = "putAccountIssue" /\ t.acc = a /\ accIssue'[a] = t.iss
                \/ t.op = "deleteAccountEntry" /\ accIssue'[a] = None
             /\ t.op = "deleteAccountEntry" /\ t.acc = a =>
                   accIssue'[a] = None
  <2>1. PutAccountIssue(w) => t.op = "putAccountIssue" /\ t.acc \in Accounts
    BY <1>1, AccountCallFields DEF PutAccountIssue, Running, Top, AccIssueCalls
  <2>2. DeleteAccountEntry(w) =>
           t.op = "deleteAccountEntry" /\ t.acc \in Accounts
    BY <1>1, AccountCallFields DEF DeleteAccountEntry, Running, Top, AccNameCalls
  <2>3. t.op = "deleteAccountEntry" => DeleteAccountEntry(w)
    BY StepOf
  <2> QED
    BY <1>1, <2>1, <2>2, <2>3, Writes
       DEF PutAccountIssue, DeleteAccountEntry, TypeOK, StorageOK
<1>3. ASSUME NEW a \in Accounts, accJWT[a] # None
      PROVE  accJWT'[a] # None \/ Undoes(t, a)
  <2>1. CASE accJWT' = accJWT
    BY <1>3, <2>1
  <2>2. CASE AddAccountJWT(w)
    <3>1. t.acc \in Accounts /\ t.tok \in AccToken
      BY <1>1, <2>2, AccountCallFields DEF AddAccountJWT, Running, Top
    <3>2. accJWT'[a] \in {accJWT[a], t.tok}
      BY <2>2, <3>1 DEF AddAccountJWT, TypeOK, StorageOK
    <3> QED
      BY <1>3, <3>1, <3>2, NoneAssumption
  <2>3. CASE DeleteAccountJWT(w)
    <3>1. t.op = "deleteAccountJWT" /\ t.acc \in Accounts
      BY <1>1, <2>3, AccountCallFields
         DEF DeleteAccountJWT, Running, Top, AccNameCalls
    <3>2. a # t.acc => accJWT'[a] = accJWT[a]
      BY <2>3, <3>1 DEF DeleteAccountJWT, TypeOK, StorageOK
    <3> QED
      BY <1>3, <3>1, <3>2 DEF Undoes
  <2> QED
    BY <2>1, <2>2, <2>3, StepOf
<1>4. ASSUME NEW p \in Path, nkey[p] # 0, nkey'[p] = 0
      PROVE  \/ t.op = "deleteNkeys" /\ p \in t.paths
             \/ t.op = "deleteUserNkey" /\ p = UserPath(t.acc, t.user)
  <2>1. CASE nkey' = nkey
    BY <1>4, <2>1
  <2>2. CASE PutNkey(w)
    <3>1. t.op = "putNkey" /\ t.path \in Path
      BY <1>1, <2>2, NkeyCallFields DEF PutNkey, Running, Top
    <3> QED
      BY <1>1, <1>4, <2>2, <3>1 DEF PutNkey, TypeOK, StorageOK
  <2>3. CASE DeleteNkeys(w)
    <3>1. t.op = "deleteNkeys" /\ t.paths \in SUBSET Path
      BY <1>1, <2>3, NkeyCallFields DEF DeleteNkeys, Running, Top
    <3> QED
      BY <1>4, <2>3, <3>1 DEF DeleteNkeys, TypeOK, StorageOK
  <2>4. CASE DeleteUserNkey(w)
    <3>1. t.op = "deleteUserNkey"
      BY <2>4 DEF DeleteUserNkey, Running, Top
    <3> QED
      BY <1>4, <2>4, <3>1 DEF DeleteUserNkey, TypeOK, StorageOK
  <2> QED
    BY <1>1, <2>1, <2>2, <2>3, <2>4, Writes
<1>5. ASSUME NEW a \in Accounts, Stored(AccPath(a)), ~Stored(AccPath(a))'
      PROVE  Undoes(t, a)
  <2>1. /\ AccPath(a) \in Path /\ nkey[AccPath(a)] # 0
        /\ nkey'[AccPath(a)] = 0
    BY <1>5, PathTyped DEF Stored
  <2>2. AccPath(a) # UserPath(t.acc, t.user)
    BY DEF AccPath, UserPath
  <2> QED
    BY <1>4, <2>1, <2>2 DEF Undoes
<1>6. ASSUME NEW a \in Accounts, NEW u \in Users,
             Stored(UserPath(a, u)), ~Stored(UserPath(a, u))'
      PROVE  t.op = "deleteUserNkey" /\ t.acc = a /\ t.user = u
  <2>1. /\ UserPath(a, u) \in Path /\ nkey[UserPath(a, u)] # 0
        /\ nkey'[UserPath(a, u)] = 0 /\ UserPath(a, u)[1] = "user"
    BY <1>6, PathTyped DEF Stored, UserPath
  <2>2. ~(t.op = "deleteNkeys" /\ UserPath(a, u) \in t.paths)
    BY <2>1 DEF Truthful
  <2>3. t.op = "deleteUserNkey" /\ UserPath(a, u) = UserPath(t.acc, t.user)
    BY <1>4, <2>1, <2>2
  <2> QED
    BY <2>3 DEF UserPath
<1>7. ASSUME NEW a \in Accounts, NEW u \in Users
      PROVE  /\ \/ userIssue'[a][u] = userIssue[a][u]
                \/ userIssue'[a][u] = None
                \/ /\ t.op # "deleteUserTemplate"
                   /\ userIssue'[a][u].nkey =>
                         \/ Stored(UserPath(a, u))
                         \/ userIssue[a][u] # None /\ userIssue[a][u].nkey
             /\ (t.op = "deleteUserTemplate" /\ t.acc = a /\ t.user = u) =>
                   userIssue'[a][u] = None
  <2>1. CASE DeleteUserTemplate(w)
    <3>1. t.op = "deleteUserTemplate" /\ t.acc \in Accounts /\ t.user \in Users
      BY <1>1, <2>1, UserCallFields
         DEF DeleteUserTemplate, Running, Top, UserNameCalls
    <3> QED
      BY <2>1, <3>1 DEF DeleteUserTemplate, TypeOK, StorageOK
  <2>2. CASE AddUserIssue(w)
    <3>1. /\ t.op = "addUserIssue"
          /\ t.acc \in Accounts /\ t.user \in Users /\ t.par \in UserPar
      BY <1>1, <2>2, UserCallFields DEF AddUserIssue, Running, Top
    <3> DEFINE old == userIssue[t.acc][t.user]
               i   == [par |-> t.par, nkey |-> old # None /\ old.nkey]
    <3>2. userIssue' = [userIssue EXCEPT ![t.acc][t.user] = i]
      BY <2>2 DEF AddUserIssue
    <3>3. i.nkey = (old # None /\ old.nkey)
      OBVIOUS
    <3> HIDE DEF i
    <3>4. userIssue'[a][u] = IF a = t.acc /\ u = t.user THEN i
                             ELSE userIssue[a][u]
      BY <3>1, <3>2 DEF TypeOK, StorageOK
    <3> QED
      BY <3>1, <3>3, <3>4
  <2>3. ASSUME NEW found \in BOOLEAN, storeUserStatus(w, found),
               found => Stored(UserPath(t.acc, t.user))
        PROVE  /\ t.op = "storeUserIssueUpdate"
               /\ userIssue'[a][u].nkey =>
                     \/ Stored(UserPath(a, u))
                     \/ userIssue'[a][u] = userIssue[a][u]
    <3>1. /\ t.op = "storeUserIssueUpdate"
          /\ t.acc \in Accounts /\ t.user \in Users /\ t.iss \in UserIssue
      BY <1>1, <2>3, UserCallFields DEF storeUserStatus, Running, Top
    <3> DEFINE i == [t.iss EXCEPT !.nkey = found]
    <3>2. userIssue' = [userIssue EXCEPT ![t.acc][t.user] = i]
      BY <2>3 DEF storeUserStatus
    <3>3. i.nkey = found
      BY <3>1 DEF UserIssue
    <3> HIDE DEF i
    <3>4. userIssue'[a][u] = IF a = t.acc /\ u = t.user THEN i
                             ELSE userIssue[a][u]
      BY <3>1, <3>2 DEF TypeOK, StorageOK
    <3> QED
      BY <2>3, <3>1, <3>3, <3>4
  <2>4. CASE userIssue' = userIssue /\ t.op # "deleteUserTemplate"
    BY <2>4
  <2>5. t.op = "deleteUserTemplate" => DeleteUserTemplate(w)
    BY StepOf
  <2>6. Stored(UserPath(t.acc, t.user)) \in BOOLEAN
    BY DEF Stored
  <2> QED
    BY <1>1, <2>1, <2>2, <2>3, <2>4, <2>5, <2>6, Writes
       DEF StoreUserIssueUpdate, StatusUnread
<1> QED
  BY <1>2, <1>3, <1>5, <1>6, <1>7

\* The deletion of an account is next, or what goes before it.
LEMMA DoomedFirst ==
    ASSUME NEW s \in Seq(Call), NEW a, Doomed(s, 1, a)
    PROVE  \/ s[1].op \in {"deleteNkeys", "deleteAccountJWT"}
           \/ s[1].op = "deleteAccountEntry" /\ s[1].acc = a
<1>1. PICK k \in 1..Len(s) :
         /\ s[k].op = "deleteAccountEntry" /\ s[k].acc = a
         /\ \A i \in 1..(k - 1) : s[i].op \in {"deleteNkeys", "deleteAccountJWT"}
  BY DEF Doomed
<1>2. k = 1 \/ 1 \in 1..(k - 1)
  BY LenProperties
<1> QED
  BY <1>1, <1>2

\* Calls that take something of an account lead to its deletion.
LEMMA UndoesErases ==
    ASSUME NEW c, NEW a, Undoes(c, a)
    PROVE  ErasesIssue(c)
BY DEF Undoes, ErasesIssue, AccPath

\* Calls that store a status make an account, if need be.
LEMMA SavesDepends ==
    ASSUME NEW c \in Call, Saves(c)
    PROVE  c.acc \in Accounts /\ Depends(c)
<1>1. c.acc \in Accounts
  BY AccountCallFields, ServerCallFields DEF Saves, AccIssueCalls, Syncs
<1>2. Creates(c, c.acc)
  BY DEF Saves, Creates
<1> QED
  BY <1>1, <1>2 DEF Depends

\* Every step keeps the status calls are to store true.
LEMMA StepTruthful ==
    ASSUME TypeOK, NEW w \in Workers, Step(w), OneAtATime(w), StatusKept(w)
    PROVE  Top(w) \in Truthful /\ agenda'[w] \in Seq(Truthful')
<1> DEFINE s == agenda[w]
           t == Top(w)
<1>1. /\ s \in Seq(Call) /\ s # <<>> /\ s[1] = t /\ Acts(w)
      /\ t \in Sane /\ t \in Call /\ Shaped(t)
  <2>1. Acts(w)
    BY DEF Acts
  <2>2. t \in Sane
    BY <2>1, ActsSane
  <2>3. s \in Seq(Call) /\ s # <<>> /\ s[1] = t
    BY <2>1, AgendaTyped, Writes DEF Top
  <2> QED
    BY <2>1, <2>2, <2>3 DEF Sane
<1>2. t \in Truthful /\ \A k \in 2..Len(s) : s[k] \in Truthful /\ Before(t, s[k])
  BY <1>1, FirstBefore, ElementOfSeq, LenProperties, EmptySeq
     DEF StatusKept, OneAtATime
<1>3. \A a \in Accounts :
         /\ Stored(AccPath(a)) => Stored(AccPath(a))' \/ Undoes(t, a)
         /\ accJWT[a] # None => accJWT'[a] # None \/ Undoes(t, a)
  BY <1>1, <1>2, StatusEffects
<1>4. ASSUME NEW c \in Truthful, ErasesIssue(t) => ~Depends(c)
      PROVE  c \in Truthful'
  <2>1. c \in Call /\ (c.op = "deleteNkeys" => \A p \in c.paths : p[1] # "user")
    BY DEF Truthful
  <2>2. ASSUME Saves(c)
        PROVE  Honest(c.acc, c.iss)'
    <3>1. c.acc \in Accounts /\ ~ErasesIssue(t)
      BY <1>4, <2>1, <2>2, SavesDepends
    <3>2. ~Undoes(t, c.acc)
      BY <3>1, UndoesErases
    <3>3. Honest(c.acc, c.iss)
      BY <2>2 DEF Truthful
    <3> QED
      BY <1>3, <3>1, <3>2, <3>3 DEF Honest
  <2> QED
    BY <2>1, <2>2 DEF Truthful, Saves
<1>5. ASSUME NEW c \in Callable(t)
      PROVE  c \in Truthful'
  <2>1. c \in Call /\ MayCall(t, c)
    BY DEF Callable
  <2>2. ErasesIssue(t) => ~Depends(c)
    BY <2>1 DEF MayCall
  <2>3. ASSUME Saves(c)
        PROVE  Honest(c.acc, c.iss)
    <3>1. c.acc \in Accounts /\ ~ErasesIssue(t) /\ t.op # "deleteNkeys"
      <4>1. c.acc \in Accounts /\ Depends(c)
        BY <2>1, <2>3, SavesDepends
      <4>2. c.op # "deleteNkeys"
        BY <2>3 DEF Saves, Syncs
      <4> QED
        BY <2>1, <2>2, <4>1, <4>2 DEF MayCall
    <3>2. \/ Honest(c.acc, c.iss)
          \/ accIssue[c.acc] # None /\ SameFlags(c.iss, accIssue[c.acc])
          \/ Saves(t) /\ t.acc = c.acc /\ SameFlags(c.iss, t.iss)
      BY <2>1, <2>3 DEF MayCall
    <3>3. CASE accIssue[c.acc] # None /\ SameFlags(c.iss, accIssue[c.acc])
      <4>1. ~Doomed(s, 1, c.acc)
        BY <1>1, <3>1, DoomedFirst DEF ErasesIssue
      <4>2. Honest(c.acc, accIssue[c.acc])
        BY <3>1, <3>3, <4>1 DEF StatusKept
      <4> QED
        BY <3>3, <4>2 DEF Honest, SameFlags
    <3>4. CASE Saves(t) /\ t.acc = c.acc /\ SameFlags(c.iss, t.iss)
      <4>1. Honest(c.acc, t.iss)
        BY <1>2, <3>4 DEF Truthful
      <4> QED
        BY <3>4, <4>1 DEF Honest, SameFlags
    <3> QED
      BY <3>2, <3>3, <3>4
  <2>4. ASSUME c.op = "deleteNkeys", NEW p \in c.paths
        PROVE  p[1] # "user"
    BY <1>2, <2>1, <2>4 DEF MayCall, Truthful
  <2>5. c \in Truthful
    BY <2>1, <2>3, <2>4 DEF Truthful
  <2> QED
    BY <1>4, <2>2, <2>5
<1>6. \A k \in 2..Len(s) : s[k] \in Truthful'
  BY <1>2, <1>4 DEF Before
<1>7. Truthful' \subseteq Call
  BY DEF Truthful
<1> QED
  BY <1>1, <1>2, <1>5, <1>6, <1>7, ActsWithin

\* What is stored stays true.
LEMMA StepStatus ==
    ASSUME TypeOK, NEW w \in Workers, Step(w), OneAtATime(w), StatusKept(w)
    PROVE  StatusKept(w)'
<1> DEFINE s == agenda[w]
           m == agenda'[w]
           t == Top(w)
<1>1. s[1] = t /\ Acts(w) /\ t \in Sane /\ t \in Truthful
      /\ m \in Seq(Truthful')
  BY StepTruthful, ActsSane DEF Acts, Top
<1>2. /\ Paired(m)
      /\ t.op \in {"deleteNkeys", "deleteAccountJWT"} =>
            \A a \in Accounts : Doomed(s, 1, a) => Doomed(m, 1, a)
      /\ t.op = "deleteUserNkey" =>
            \A a \in Accounts, u \in Users :
               Removes(s, 2, a, u) => Removes(m, 1, a, u)
  BY <1>1, StepPaired DEF StatusKept
<1>3. s \in Seq(Call) /\ s # <<>> /\ 1 \in 1..Len(s)
  BY <1>1, AgendaTyped, Writes, LenProperties, EmptySeq
<1>4. ASSUME NEW a \in Accounts, accIssue'[a] # None
      PROVE  Honest(a, accIssue[a])' \/ Doomed(m, 1, a)
  <2>1. /\ Stored(AccPath(a)) => Stored(AccPath(a))' \/ Undoes(t, a)
        /\ accJWT[a] # None => accJWT'[a] # None \/ Undoes(t, a)
        /\ \/ accIssue'[a] = accIssue[a]
           \/ /\ t.op = "putAccountIssue" /\ t.acc = a
              /\ accIssue'[a] = t.iss
        /\ ~(t.op = "deleteAccountEntry" /\ t.acc = a)
    BY <1>1, <1>4, StatusEffects
  <2>2. Undoes(t, a) => Doomed(s, 1, a) /\ Doomed(m, 1, a)
    <3>1. Undoes(t, a) => Doomed(s, 1, a)
      BY <1>1, <1>3 DEF StatusKept, Paired
    <3>2. Undoes(t, a) => t.op \in {"deleteNkeys", "deleteAccountJWT"}
      BY DEF Undoes
    <3> QED
      BY <1>2, <3>1, <3>2
  <2>3. CASE t.op = "putAccountIssue"
    <3>1. ~Undoes(t, a) /\ ~Doomed(s, 1, a)
      BY <1>1, <1>3, <2>3 DEF Undoes, Doomed
    <3>2. Honest(a, accIssue'[a])
      BY <1>1, <1>4, <2>1, <2>3, <3>1 DEF Truthful, Saves, StatusKept
    <3> QED
      BY <2>1, <3>1, <3>2 DEF Honest
  <2>4. CASE accIssue'[a] = accIssue[a]
    <3>1. Honest(a, accIssue[a]) \/ Doomed(s, 1, a)
      BY <1>4, <2>4 DEF StatusKept
    <3>2. CASE Doomed(s, 1, a)
      <4>1. t.op \in {"deleteNkeys", "deleteAccountJWT"}
        BY <1>1, <1>3, <2>1, <3>2, DoomedFirst
      <4> QED
        BY <1>2, <3>2, <4>1
    <3>3. CASE Honest(a, accIssue[a])
      BY <2>1, <2>2, <2>4, <3>3 DEF Honest
    <3> QED
      BY <3>1, <3>2, <3>3
  <2> QED
    BY <2>1, <2>3, <2>4
<1>5. ASSUME NEW a \in Accounts, NEW u \in Users,
             userIssue'[a][u] # None, userIssue'[a][u].nkey
      PROVE  Stored(UserPath(a, u))' \/ Removes(m, 1, a, u)
  <2>1. /\ Stored(UserPath(a, u)) =>
              \/ Stored(UserPath(a, u))'
              \/ t.op = "deleteUserNkey" /\ t.acc = a /\ t.user = u
        /\ \/ userIssue'[a][u] = userIssue[a][u]
           \/ /\ t.op # "deleteUserTemplate"
              /\ \/ Stored(UserPath(a, u))
                 \/ userIssue[a][u] # None /\ userIssue[a][u].nkey
        /\ ~(t.op = "deleteUserTemplate" /\ t.acc = a /\ t.user = u)
    BY <1>1, <1>5, StatusEffects
  <2>2. Stored(UserPath(a, u)) \/ Removes(s, 1, a, u)
    BY <1>5, <2>1 DEF StatusKept
  <2>3. ~Removes(s, 1, a, u)
    BY <1>1, <2>1 DEF Removes
  <2>4. t.op = "deleteUserNkey" /\ t.acc = a /\ t.user = u =>
           Removes(s, 1 + 1, a, u)
    BY <1>1, <1>3 DEF StatusKept, Paired
  <2>5. 1 + 1 = 2
    OBVIOUS
  <2> QED
    BY <1>2, <2>1, <2>2, <2>3, <2>4, <2>5
<1> QED
  BY <1>1, <1>2, <1>4, <1>5 DEF StatusKept

\* Requests that leave accounts and users that stay their nkeys and JWTs.
NothingTaken ==
    \A r \in Requests :
        /\ \A a \in Accounts : ~Undoes(r, a)
        /\ r.op = "deleteNkeys" => \A p \in r.paths : p[1] # "user"

\* A request that comes finds every status true.
LEMMA ReceiveStatus ==
    ASSUME TypeOK, NothingTaken, NEW w \in Workers, Receive(w), StatusKept(w)
    PROVE  StatusKept(w)'
<1>1. agenda[w] = <<>> /\ UNCHANGED <<issues, tokens, seeds>>
  BY DEF Receive
<1>2. PICK r \in Requests :
         agenda'[w] = <<r, [op |-> "reply", req |-> r, faults |-> faults]>>
  BY DEF Receive, TypeOK, WorldOK, AgendaOK
<1> DEFINE p == [op |-> "reply", req |-> r, faults |-> faults]
           s == <<r, p>>
<1>3. r \in Request /\ r \in Call /\ p \in Call /\ p.op = "reply"
  BY RequestsAssumption DEF Call, Reply, TypeOK, WorldOK
<1>4. ~Saves(r) /\ r.op # "deleteUserNkey"
  BY <1>3 DEF Saves, Syncs, Request, IssueOperatorRequest, IssueAccountRequest,
              IssueUserRequest, UserCredsRequest, NkeyRequest,
              OperatorJWTRequest, AccountJWTRequest
<1> HIDE DEF p
<1>5. r \in Truthful' /\ p \in Truthful'
  BY <1>3, <1>4 DEF Truthful, NothingTaken, Saves, Syncs
<1>6. \A a \in Accounts : ~Undoes(r, a) /\ ~Undoes(p, a)
  BY <1>3 DEF NothingTaken, Undoes
<1>7. Len(s) = 2 /\ s[1] = r /\ s[2] = p /\ s \in Seq(Truthful')
  BY <1>5
<1> HIDE DEF s
<1>8. Paired(s)
  BY <1>3, <1>4, <1>6, <1>7 DEF Paired
<1>9. agenda'[w] = s
  BY <1>2 DEF s, p
<1>10. (\A a : ~Doomed(<<>>, 1, a)) /\ \A a, u : ~Removes(<<>>, 1, a, u)
  BY DEF Doomed, Removes
<1> QED
  BY <1>1, <1>7, <1>8, <1>9, <1>10
     DEF StatusKept, issues, tokens, seeds, Honest, Stored

\* As long as nothing fails, every step keeps the status true.
LEMMA StatusNext ==
    ASSUME NEW w, Workers = {w}, MaxFaults = 0, NothingTaken,
           TypeOK, OneAtATime(w), StatusKept(w), [Next]_vars
    PROVE  StatusKept(w)'
<1>1. w \in Workers /\ ~OneFault
  BY DEF OneFault, TypeOK, WorldOK
<1>2. CASE Receive(w)
  BY <1>1, <1>2, ReceiveStatus
<1>3. CASE Acts(w)
  <2>1. Step(w)
    BY <1>1, <1>3 DEF Acts, StorageError, StatusUnread, SyncSkipped
  <2> QED
    BY <1>1, <2>1, StepStatus
<1>4. CASE Crash
  BY <1>1, <1>4 DEF Crash
<1>5. CASE UNCHANGED vars
  BY <1>5 DEF vars, issues, tokens, seeds, StatusKept, Truthful, Saves, Honest,
              Stored
<1> QED
  BY <1>2, <1>3, <1>4, <1>5, OneWorker

\* One request at a time, as long as no storage access fails and no request
\* takes nkey or JWT from an account or a user that stays, the status they are
\* read with is true whenever no request runs.
THEOREM StatusIsTrue ==
    ASSUME NEW one, Workers = {one}, MaxFaults = 0, NothingTaken
    PROVE  Spec => []StatusTrue
<1>1. Init => StatusKept(one)
  <2> SUFFICES ASSUME Init
               PROVE  StatusKept(one)
    OBVIOUS
  <2>1. agenda[one] = <<>> /\ (\A a \in Accounts : accIssue[a] = None)
        /\ \A a \in Accounts, u \in Users : userIssue[a][u] = None
    BY DEF Init, InitWith
  <2>2. <<>> \in Seq(Truthful) /\ Paired(<<>>)
    BY DEF Paired
  <2> QED
    BY <2>1, <2>2 DEF StatusKept
<1>2. TypeOK /\ OneAtATime(one) /\ StatusKept(one) /\ [Next]_vars =>
         StatusKept(one)'
  BY StatusNext
<1>3. StatusKept(one) => StatusTrue
  <2> SUFFICES ASSUME StatusKept(one), agenda[one] = <<>>
               PROVE  StatusTrue
    BY DEF StatusTrue, Idle
  <2>1. (\A a : ~Doomed(<<>>, 1, a)) /\ \A a, u : ~Removes(<<>>, 1, a, u)
    BY DEF Doomed, Removes
  <2> QED
    BY <2>1 DEF StatusKept, StatusTrue, readAccountStatus, readUserStatus,
                Status, Honest, AccountList, UserList
<1>4. Spec => []OneAtATime(one)
  BY OneAtATimeHolds, PTL
<1> QED
  BY <1>1, <1>2, <1>3, <1>4, TypeCorrect, PTL DEF Spec

-----------------------------------------------------------------------------
(* The account server.  The JWT that is pushed was read some calls before  *)
(* it is sent, but with one worker none of them comes in between, so it is *)
(* still the one in storage; and a deletion is sent only by a handler that *)
(* deletes the account, however deep in other handlers.                    *)

\* the calls that change what the account server holds
Pushes == {"pushAccount", "deleteAccounts"}

\* calls that push nothing, and store no JWT of another account's nkey
Proper == {c \in Call : /\ c.op \notin Pushes
                        /\ c.op = "addAccountJWT" =>
                              c.tok.sub[1] = AccPath(c.acc)}

\* calls that delete an account only if request r asks for it
Sparing(r) ==
    {c \in Call :
        /\ c.op = "deleteOperatorIssue" => r.op = c.op
        /\ c.op = "deleteAccountIssue" \/ (c.op \in Syncs /\ c.mode = "delete") =>
              \/ r.op = "deleteOperatorIssue"
              \/ r.op = "deleteAccountIssue" /\ r.acc = c.acc}

\* a call that pushes what jwts holds of its account, or deletes the account
Current(c, jwts) == /\ c.op \in Pushes /\ c.tok = jwts[c.acc]
                    /\ c.op = "deleteAccounts" => c.mode = "delete"

\* the inductive invariant: what is pushed is what is stored now
PushedIsStored(w) ==
    LET s == agenda[w] IN
    /\ \A a \in Accounts : accJWT[a] # None => accJWT[a].sub[1] = AccPath(a)
    /\ s # <<>> => /\ Tail(s) \in Seq(Proper)
                   /\ s[1] \in Proper \/ Current(s[1], accJWT)
                   /\ s \in Seq(Sparing(Asked(s)))

\* What comes after the account server was asked pushes nothing.
LEMMA AfterSyncProper ==
    ASSUME NEW a \in Accounts, NEW i, NEW mode, Resolvable(i, mode)
    PROVE  AfterSync(a, i, mode) \in Seq(Proper)
<1>1. CASE mode = "discard"
  BY <1>1, ShortSeq DEF AfterSync
<1>2. CASE mode \in {"refresh", "periodic"} /\ i \in AccIssue
  <2>1. \A op \in AccIssueCalls : [op |-> op, acc |-> a, iss |-> i] \in Call
    BY <1>2, AccountCallsMade
  <2>2. \A op \in {"updateAccountStatus", "putAccountIssue"} :
           [op |-> op, acc |-> a, iss |-> i] \in Proper
    BY <2>1 DEF Proper, Pushes, AccIssueCalls
  <2> QED
    BY <1>2, <2>2, ShortSeq DEF AfterSync
<1>3. CASE mode = "delete" /\ i \in AccIssue
  <2>1. \A ps \in SUBSET Path : deleteNkeys(ps) \in Seq(Proper)
    <3>1. \A ps \in SUBSET Path :
             [op |-> "deleteNkeys", paths |-> ps] \in Proper
      BY NkeyCallsMade DEF Proper, Pushes
    <3> QED
      BY <3>1, ShortSeq DEF deleteNkeys
  <2>2. i.par.signing \in SUBSET AccKeys
    BY <1>3 DEF AccIssue, AccPar
  <2>3. /\ deleteNkeys({AccPath(a)}) \in Seq(Proper)
        /\ deleteNkeys(AccSignings(a, i.par.signing)) \in Seq(Proper)
    BY <2>1, <2>2, PathTyped, PathsTyped
  <2>4. \A op \in {"deleteAccountJWT", "deleteAccountEntry"} :
           [op |-> op, acc |-> a] \in Proper
    BY AccountCallsMade DEF Proper, Pushes, AccNameCalls
  <2> QED
    BY <1>3, <2>3, <2>4, ShortSeq DEF AfterSync, eraseAccount
<1> QED
  BY <1>1, <1>2, <1>3 DEF Resolvable, ResolverModes

\* Which actions write account JWTs and the account server, and which one
\* decides on a push.
LEMMA TokenWrites ==
    ASSUME NEW w, Acts(w)
    PROVE  /\ accJWT' = accJWT \/ AddAccountJWT(w) \/ DeleteAccountJWT(w)
           /\ server' = server \/ PushAccount(w) \/ DeleteAccounts(w)
           /\ Top(w).op = "refreshAccountResolver" =>
                 RefreshAccountResolver(w) \/ StorageError(w)
BY DEF Acts, StorageError, StatusUnread, SyncSkipped, StoreUserIssueUpdate,
       OneFault, issues, tokens, seeds, world, Running, Top, storeUserStatus,
       Step, NkeyStep, UserStep, ServerStep, AccountStep,
       OperatorStep, PeriodicStep, LeaveCatch, Respond,
       AddNkey, PutNkey, EnsureIssue, DeleteNkeys, AddOperatorJWT,
       AddAccountJWT, DeleteOperatorJWT, DeleteAccountJWT, AddUserIssue,
       IssueUserNKeys, RefreshPushUser,
       DeleteUserIssue, DeleteUserNkey, DeleteUserTemplate,
       GenerateUserCreds, GenerateUserJWT, FormatUserConfig, ReturnCreds,
       RefreshAccountResolver, PushAccount, DeleteAccounts,
       RefreshAccountResolvers, PushEach, AddAccountIssue, PutAccountIssue,
       IssueAccountNKey, IssueAccountNKeysDone, UpdateUserIssues,
       UpdateEachUser, IssueAccountJWT, UpdateAccountStatus,
       DeleteAccountIssue, DeleteAccountEntry, AddUserToRevocationList,
       AddOperatorIssue, PutOperatorIssue, RefreshOperator, IssueOperatorNkey,
       IssueOperatorNkeysDone, UpdateEachAccount, IssueOperatorJWT,
       DeleteOperatorIssue, DeleteOperatorEntry, PeriodicFunc,
       PeriodicAccount, PeriodicRefreshAccountIssues, PeriodicEachAccount,
       PeriodicRefreshUserIssues, PeriodicEachUser, PeriodicSync

\* A push is made at once, of the JWT that is stored.
LEMMA ActsPush ==
    ASSUME TypeOK, NEW w \in Workers, Acts(w), Shaped(Top(w)),
           Tail(agenda[w]) \in Seq(Proper), agenda'[w] # <<>>
    PROVE  LET m == agenda'[w] IN
           /\ Tail(m) \in Seq(Proper)
           /\ m[1] \in Proper \/ Current(m[1], accJWT')
<1> DEFINE s == agenda[w]
           m == agenda'[w]
           t == Top(w)
<1>1. s \in Seq(Call) /\ s # <<>> /\ s[1] = t /\ t \in Call /\ m \in Seq(Call)
  BY ActsLeaves
<1>2. ASSUME m \in Seq(Proper)
      PROVE  Tail(m) \in Seq(Proper) /\ m[1] \in Proper
  BY <1>2, HeadTailProperties
<1>3. CASE m = Unwind(s)
  BY <1>1, <1>2, <1>3, UnwoundTail
<1>4. CASE t.op # "refreshAccountResolver"
  <2>1. Callable(t) \subseteq Proper /\ Proper \subseteq Call
    BY <1>4 DEF Callable, MayCall, Proper, Pushes
  <2>2. \A k \in 2..Len(s) : s[k] \in Proper
    <3>1. /\ Len(Tail(s)) = Len(s) - 1 /\ Len(s) \in Nat
          /\ \A k \in 1..(Len(s) - 1) : Tail(s)[k] = s[k + 1]
      BY <1>1, HeadTailProperties, LenProperties
    <3>2. ASSUME NEW k \in 2..Len(s)
          PROVE  s[k] \in Proper
      <4>1. k - 1 \in 1..(Len(s) - 1) /\ (k - 1) + 1 = k
        BY <3>1
      <4>2. Tail(s)[k - 1] \in Proper
        BY <3>1, <4>1, ElementOfSeq
      <4> QED
        BY <3>1, <4>1, <4>2
    <3> QED
      BY <3>2
  <2>3. m \in Seq(Proper)
    BY <2>1, <2>2, ActsWithin
  <2> QED
    BY <1>2, <2>3
<1>5. CASE RefreshAccountResolver(w)
  <2>1. t.op = "refreshAccountResolver" /\ t \in Call /\ accJWT' = accJWT
    BY <1>5, RunningTyped DEF RefreshAccountResolver, tokens
  <2>2. t.acc \in Accounts /\ Resolvable(t.iss, t.mode)
    BY <2>1, ServerCallFields DEF Resolvable
  <2> DEFINE tok == accJWT[t.acc]
             c   == [op |-> IF t.mode = "delete" THEN "deleteAccounts"
                            ELSE "pushAccount",
                     acc |-> t.acc, iss |-> t.iss, mode |-> t.mode,
                     tok |-> tok]
  <2>3. \/ Fail(w)
        \/ Do(w, AfterSync(t.acc, t.iss, t.mode))
        \/ Do(w, <<c>>)
    BY <1>5 DEF RefreshAccountResolver
  <2>4. Current(c, accJWT)
    BY DEF Pushes, Current
  <2> HIDE DEF c
  <2>5. CASE Do(w, <<c>>)
    <3>1. m = <<c>> \o Tail(s)
      BY <2>5, DoLeaves
    <3>2. m[1] = c /\ Tail(m) = Tail(s)
      BY <1>1, <3>1, HeadTailProperties
    <3> QED
      BY <2>1, <2>4, <3>2
  <2>6. CASE Do(w, AfterSync(t.acc, t.iss, t.mode))
    <3>1. m = AfterSync(t.acc, t.iss, t.mode) \o Tail(s)
      BY <2>6, DoLeaves
    <3>2. m \in Seq(Proper)
      BY <2>2, <3>1, AfterSyncProper, ConcatProperties
    <3> QED
      BY <1>2, <3>2
  <2> QED
    BY <1>3, <2>3, <2>5, <2>6, DoLeaves
<1> QED
  BY <1>3, <1>4, <1>5, TokenWrites, DoLeaves

\* No call comes to delete an account that the request does not delete.
LEMMA ActsSpare ==
    ASSUME TypeOK, NEW w \in Workers, Acts(w), OneAtATime(w),
           agenda[w] \in Seq(Sparing(Asked(agenda[w])))
    PROVE  agenda'[w] \in Seq(Sparing(Asked(agenda[w])))
<1> DEFINE s == agenda[w]
           t == Top(w)
           S == Sparing(Asked(s))
<1>1. s \in Seq(Call) /\ s # <<>> /\ s[1] = t
  BY AgendaTyped, Writes DEF Top
<1>2. t \in S /\ \A k \in 2..Len(s) : s[k] \in S
  BY <1>1, FirstBefore, ElementOfSeq, LenProperties, EmptySeq DEF OneAtATime
<1>3. Callable(t) \subseteq S /\ S \subseteq Call
  BY <1>2 DEF Callable, MayCall, Sparing
<1>4. Shaped(t)
  BY ActsSane DEF Sane
<1> QED
  BY <1>2, <1>3, <1>4, ActsWithin

\* The stored JWTs of accounts stay those of their own nkeys.
LEMMA ActsSubjects ==
    ASSUME TypeOK, NEW w \in Workers, Acts(w), PushedIsStored(w),
           NEW a \in Accounts, accJWT'[a] # None
    PROVE  accJWT'[a].sub[1] = AccPath(a)
<1> DEFINE t == Top(w)
<1>1. CASE accJWT' = accJWT
  BY <1>1 DEF PushedIsStored
<1>2. CASE AddAccountJWT(w)
  <2>1. agenda[w] # <<>> /\ t \in Call /\ t.op = "addAccountJWT"
    BY <1>2, RunningTyped DEF AddAccountJWT
  <2>2. t.tok.sub[1] = AccPath(t.acc)
    BY <2>1 DEF PushedIsStored, Proper, Pushes, Current, Top
  <2>3. accJWT'[a] = IF a = t.acc THEN t.tok ELSE accJWT[a]
    BY <1>2 DEF AddAccountJWT, TypeOK, StorageOK
  <2> QED
    BY <2>2, <2>3 DEF PushedIsStored
<1>3. CASE DeleteAccountJWT(w)
  <2>1. accJWT'[a] \in {None, accJWT[a]}
    BY <1>3 DEF DeleteAccountJWT, TypeOK, StorageOK
  <2> QED
    BY <2>1 DEF PushedIsStored
<1> QED
  BY <1>1, <1>2, <1>3, TokenWrites

\* Requests that import no JWT of another account's nkey.
OwnSubjects == \A r \in Requests :
                  r.op = "addAccountJWT" => r.tok.sub[1] = AccPath(r.acc)

\* A request that comes pushes nothing.
LEMMA ReceivePushed ==
    ASSUME TypeOK, OwnSubjects, NEW w \in Workers, Receive(w),
           PushedIsStored(w)
    PROVE  PushedIsStored(w)'
<1>1. accJWT' = accJWT
  BY DEF Receive, tokens
<1>2. PICK r \in Requests :
         agenda'[w] = <<r, [op |-> "reply", req |-> r, faults |-> faults]>>
  BY DEF Receive, TypeOK, WorldOK, AgendaOK
<1> DEFINE p == [op |-> "reply", req |-> r, faults |-> faults]
           s == <<r, p>>
<1>3. r \in Request /\ r \in Call /\ p \in Call /\ p.op = "reply" /\ p.req = r
  BY RequestsAssumption DEF Call, Reply, TypeOK, WorldOK
<1>4. r.op \notin Syncs
  BY <1>3 DEF Syncs, Request, IssueOperatorRequest, IssueAccountRequest,
              IssueUserRequest, UserCredsRequest, NkeyRequest,
              OperatorJWTRequest, AccountJWTRequest
<1> HIDE DEF p
<1>5. r \in Proper /\ p \in Proper
  BY <1>3, <1>4 DEF Proper, Pushes, Syncs, OwnSubjects
<1>6. r \in Sparing(r) /\ p \in Sparing(r)
  BY <1>3, <1>4 DEF Sparing, Syncs
<1>7. /\ s # <<>> /\ s[1] = r /\ Asked(s) = r /\ Tail(s) = <<p>>
      /\ s \in Seq(Sparing(r)) /\ Tail(s) \in Seq(Proper)
  BY <1>3, <1>5, <1>6 DEF Asked
<1> HIDE DEF s
<1>8. agenda'[w] = s
  BY <1>2 DEF s, p
<1> QED
  BY <1>1, <1>5, <1>7, <1>8 DEF PushedIsStored

\* Every step pushes only what is stored.
LEMMA PushedNext ==
    ASSUME NEW w, Workers = {w}, OwnSubjects,
           TypeOK, OneAtATime(w), PushedIsStored(w), [Next]_vars
    PROVE  PushedIsStored(w)'
<1>1. w \in Workers
  OBVIOUS
<1>2. CASE Receive(w)
  BY <1>1, <1>2, ReceivePushed
<1>3. CASE Acts(w)
  <2>1. agenda[w] # <<>> /\ Shaped(Top(w)) /\ Ordered(agenda[w])
    BY <1>1, <1>3, Writes, ActsSane DEF Sane, OneAtATime
  <2>2. /\ agenda'[w] \in Seq(Sparing(Asked(agenda[w])))
        /\ agenda'[w] # <<>> => Asked(agenda'[w]) = Asked(agenda[w])
    BY <1>1, <1>3, <2>1, ActsSpare, ActsOrdered DEF PushedIsStored
  <2>3. agenda'[w] # <<>> =>
           /\ Tail(agenda'[w]) \in Seq(Proper)
           /\ agenda'[w][1] \in Proper \/ Current(agenda'[w][1], accJWT')
    BY <1>1, <1>3, <2>1, ActsPush DEF PushedIsStored
  <2>4. \A a \in Accounts :
           accJWT'[a] # None => accJWT'[a].sub[1] = AccPath(a)
    BY <1>1, <1>3, ActsSubjects
  <2> QED
    BY <2>2, <2>3, <2>4 DEF PushedIsStored
<1>4. CASE Crash
  BY <1>1, <1>4 DEF Crash, tokens, PushedIsStored
<1>5. CASE UNCHANGED vars
  BY <1>5 DEF vars, tokens, PushedIsStored
<1> QED
  BY <1>2, <1>3, <1>4, <1>5, OneWorker

\* A push leaves every account's JWT that is current, and so does a deletion
\* that no request for the account asked for.
LEMMA ActsHold ==
    ASSUME TypeOK, NEW w \in Workers, Acts(w), OneAtATime(w),
           PushedIsStored(w),
           NEW a \in Accounts, accJWT[a] \in server, ~Removing(a)
    PROVE  accJWT[a] \in server'
<1> DEFINE s == agenda[w]
           t == Top(w)
<1>1. /\ s \in Seq(Call) /\ s # <<>> /\ s[1] = t /\ t \in Call
      /\ s[Len(s)].op = "reply" /\ t \in Sparing(Asked(s))
  <2>1. s # <<>> /\ s \in Seq(Call) /\ s[1] = t
    BY AgendaTyped, Writes DEF Top
  <2> QED
    BY <2>1, ElementOfSeq, LenProperties, EmptySeq
       DEF OneAtATime, Ordered, PushedIsStored, Sparing
<1>2. accJWT[a] # None /\ accJWT[a].sub[1] = AccPath(a)
  <2>1. accJWT[a] # None
    BY NoneAssumption DEF TypeOK, WorldOK
  <2> QED
    BY <2>1 DEF PushedIsStored
<1>3. t.op \in Pushes => /\ t.acc \in Accounts /\ t.tok = accJWT[t.acc]
                         /\ t.tok \in AccToken
                         /\ t.op = "deleteAccounts" => t.mode = "delete"
  BY <1>1, ServerCallFields DEF PushedIsStored, Proper, Pushes, Current
<1>4. \A b \in Accounts : AccPath(b) = AccPath(a) => b = a
  BY DEF AccPath
<1>5. CASE PushAccount(w)
  <2>1. t.op = "pushAccount" /\ server' \in {server, Accepted(t.tok)}
    BY <1>5 DEF PushAccount, Running, Top
  <2>2. t.tok = accJWT[t.acc] /\ t.tok.sub[1] = AccPath(t.acc)
        /\ t.acc \in Accounts
    BY <1>3, <2>1, NoneAssumption DEF Pushes, PushedIsStored
  <2>3. accJWT[a].sub # t.tok.sub \/ accJWT[a] = t.tok
    BY <1>2, <1>4, <2>2
  <2> QED
    BY <2>1, <2>3 DEF Accepted
<1>6. CASE DeleteAccounts(w)
  <2>1. /\ t.op = "deleteAccounts"
        /\ server' \in {server, {j \in server : j.sub # Pub(AccPath(t.acc))}}
    BY <1>6 DEF DeleteAccounts, Running, Top
  <2>2. t.acc # a
    <3>1. t.mode = "delete"
      BY <1>3, <2>1 DEF Pushes
    <3>2. Asked(s).op = "deleteOperatorIssue"
          \/ (Asked(s).op = "deleteAccountIssue" /\ Asked(s).acc = t.acc)
      BY <1>1, <2>1, <3>1 DEF Sparing, Syncs
    <3> QED
      BY <1>1, <3>2 DEF Removing, Serving, Asked
  <2>3. Pub(AccPath(t.acc))[1] = AccPath(t.acc)
    BY DEF Pub
  <2> QED
    BY <1>2, <1>3, <1>4, <2>1, <2>2, <2>3 DEF Pushes
<1> QED
  BY <1>5, <1>6, TokenWrites

\* One request at a time, whatever fails, and as long as no JWT is imported
\* for an account that is not for its nkey: what the server holds of an
\* account and is the JWT in storage it keeps, until a request deletes the
\* account.
THEOREM CurrentIsKept ==
    ASSUME NEW one, Workers = {one}, OwnSubjects
    PROVE  Spec => CurrentStaysHeld
<1>1. Init => PushedIsStored(one)
  BY DEF Init, InitWith, PushedIsStored
<1>2. TypeOK /\ OneAtATime(one) /\ PushedIsStored(one) /\ [Next]_vars =>
         PushedIsStored(one)'
  BY PushedNext
<1>3. TypeOK /\ OneAtATime(one) /\ PushedIsStored(one) /\ [Next]_vars =>
        [\A a \in Accounts :
            (/\ accJWT[a] \in server
             /\ accJWT'[a] = accJWT[a]
             /\ ~Removing(a))
            => accJWT[a] \in server']_vars
  <2> SUFFICES ASSUME TypeOK, OneAtATime(one), PushedIsStored(one), Next,
                      NEW a \in Accounts, accJWT[a] \in server, ~Removing(a)
               PROVE  accJWT[a] \in server'
    OBVIOUS
  <2>1. CASE Acts(one)
    BY <2>1, ActsHold
  <2>2. CASE ~Acts(one)
    BY <2>2, OneWorker DEF Receive, Crash, vars, world
  <2> QED
    BY <2>1, <2>2
<1>4. Spec => []OneAtATime(one)
  BY OneAtATimeHolds, PTL
<1> QED
  BY <1>1, <1>2, <1>3, <1>4, TypeCorrect, PTL DEF Spec, CurrentStaysHeld
=============================================================================
