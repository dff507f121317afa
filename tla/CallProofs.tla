---------------------------- MODULE CallProofs ----------------------------
(***************************************************************************)
(* What a handler may call.  The handlers call each other recursively, so  *)
(* agendas are as long as they like, and what is proved about them goes by *)
(* what one call may leave in its place: MayCall says it, and every step   *)
(* of a worker is shown to keep to it.  Mostly it says what a call may not *)
(* lead to: the deletion of an issue, the creation of an account, a new    *)
(* seed or a false status, unless its caller might do so already; a        *)
(* request for an operator, or the storing of other claims of it; an nkey  *)
(* or a JWT of an entity without an issue.  Only the handlers named in     *)
(* Leads make calls that have to do with signing nkeys, and only           *)
(* refreshAccountResolver pushes, what is stored at that step.             *)
(***************************************************************************)
EXTENDS NatsBackendProofs

\* the calls that keep the account server in step
Syncs == {"refreshAccountResolver", "pushAccount", "deleteAccounts"}

\* calls that erase something of an operator or an account, now or by the
\* calls they make; other than a signing key
ErasesIssue(c) ==
    \/ c.op \in {"deleteOperatorIssue", "deleteAccountIssue",
                 "deleteAccountJWT", "deleteAccountEntry"}
    \/ c.op \in Syncs /\ c.mode = "delete"
    \/ c.op = "deleteNkeys" /\ \E p \in c.paths : p[3] = None

\* the same for users
ErasesUser(c) ==
    c.op \in {"deleteOperatorIssue", "deleteUserIssue",
              "addUserToRevocationList", "deleteUserNkey",
              "deleteUserTemplate"}

\* calls after which account a may have an issue, by the calls they make
Creates(c, a) ==
    \/ /\ c.op \in {"addAccountIssue", "putAccountIssue", "issueAccountNKeys",
                    "issueAccountJWT", "addAccountJWT", "updateAccountStatus"}
       /\ c.acc = a
    \/ c.op \in Syncs /\ c.acc = a /\ c.mode \in {"refresh", "periodic"}
    \/ /\ c.op \in {"addNkey", "putNkey", "ensureIssue"}
       /\ c.path[1] = "account" /\ c.path[2] = a
    \/ /\ a = SysAccount
       /\ \/ c.op = "addOperatorIssue" /\ c.par.sys
          \/ c.op = "refreshOperator" /\ c.iss.sys

\* calls that count on an issue or the operator's nkey
Depends(c) ==
    \/ c.op \in {"issueOperatorJWT", "periodicEachAccount", "periodicEachUser"}
    \/ \E a \in Accounts : Creates(c, a)

\* the loops that add nkeys add their own
Shaped(c) ==
    /\ c.op = "issueOperatorNkeys" => \A p \in c.todo : p[1] = "operator"
    /\ c.op = "issueAccountNKeys" =>
          /\ \A p \in c.todo : p[1] = "account" /\ p[2] = c.acc
          /\ c.operator => c.acc = SysAccount

\* calls that store their copy of an account issue with the status in it
Saves(c) == \/ c.op = "putAccountIssue"
            \/ c.op \in Syncs /\ c.mode = "periodic"

\* the status in i is true of account a, or that of the issue j
Honest(a, i)    == /\ i.nkey => Stored(AccPath(a))
                   /\ i.jwt => accJWT[a] # None
SameFlags(i, j) == i.nkey = j.nkey /\ i.jwt = j.jwt

\* calls that make the status of account a untrue
Undoes(c, a) == \/ c.op = "deleteNkeys" /\ AccPath(a) \in c.paths
                \/ c.op = "deleteAccountJWT" /\ c.acc = a

\* calls that have nothing to do with signing nkeys: they rewrite no issue,
\* hold no account's issue and add no nkey but a user's
Rootless(c) ==
    /\ c.op \notin {"putOperatorIssue", "deleteOperatorEntry",
                    "putAccountIssue", "deleteAccountEntry",
                    "updateAccountStatus", "putNkey", "refreshOperator",
                    "issueOperatorNkeys", "issueAccountNKeys"}
    /\ c.op \in Syncs => c.mode = "discard"
    /\ c.op = "addNkey" => c.path[1] = "user"
    /\ c.op \in {"addOperatorIssue", "addAccountIssue"} => c.par.signing = {}

\* calls that create the nkey at p, or something else that belongs to the issue
\* p belongs to, now or by the calls they make
Fills(c, p) ==
    \/ c.op \in {"addNkey", "putNkey"} /\ c.path = p
    \/ /\ p[1] = "operator"
       /\ c.op \in {"refreshOperator", "issueOperatorNkeys",
                    "issueOperatorJWT", "addOperatorJWT"}
    \/ /\ p[1] = "account" /\ c.acc = p[2]
       /\ c.op \in {"issueAccountNKeys", "issueAccountJWT", "addAccountJWT"}
    \/ /\ p[1] = "user" /\ c.acc = p[2] /\ c.user = p[3]
       /\ c.op = "issueUserNKeys"

\* calls that store that issue first
Founds(c, p) ==
    \/ p[1] = "operator" /\ c.op = "addOperatorIssue"
    \/ p[1] = "account" /\ c.op = "addAccountIssue" /\ c.acc = p[2]
    \/ /\ p[1] = "user" /\ c.op = "addUserIssue"
       /\ c.acc = p[2] /\ c.user = p[3]

\* the calls that make others
Leads == {"addOperatorIssue", "refreshOperator", "issueOperatorNkeys",
          "deleteOperatorIssue", "addAccountIssue", "issueAccountNKeys",
          "updateEachAccount", "updateAccountStatus", "deleteAccountIssue",
          "addUserToRevocationList", "periodicEachAccount", "periodicSync",
          "addNkey"} \cup Syncs

\* What the calls c may be that the call t makes.
MayCall(t, c) ==
    /\ Rootless(c) \/ t.op \in Leads
    /\ c.op # "reply" /\ Shaped(c)
    /\ c.op # "deleteOperatorIssue"
    /\ c.op = "addOperatorIssue" => ~c.par.sys
    /\ c.op = "putOperatorIssue" => t.op = "addOperatorIssue" /\ c.iss = t.par
    /\ ErasesIssue(c) => ErasesIssue(t)
    /\ ErasesIssue(t) => ~Depends(c)
    /\ ErasesUser(c) => ErasesUser(t)
    /\ ErasesUser(t) => c.op # "periodicEachUser"
    /\ \A a \in Accounts : Creates(c, a) => accIssue[a] # None \/ Creates(t, a)
    /\ c.op = "addNkey" => ~c.seed
    /\ c.op = "putNkey" =>
          /\ t.op = "addNkey" /\ c.path = t.path /\ c.gen # 0
          /\ t.seed \/ ~Stored(c.path) \/ c.gen = nkey[c.path]
    /\ c.op = "issueOperatorJWT" => t.op = "refreshOperator"
    /\ c.op = "periodicEachAccount" =>
          \A a \in c.todo : accIssue[a] # None \/ (t.op = c.op /\ a \in t.todo)
    /\ c.op = "periodicEachUser" =>
          \A u \in c.todo : \/ userIssue[c.acc][u] # None
                            \/ t.op = c.op /\ t.acc = c.acc /\ u \in t.todo
    /\ Saves(c) =>
          \/ Honest(c.acc, c.iss)
          \/ accIssue[c.acc] # None /\ SameFlags(c.iss, accIssue[c.acc])
          \/ Saves(t) /\ t.acc = c.acc /\ SameFlags(c.iss, t.iss)
    /\ t.op = "deleteNkeys" => c.op = "deleteNkeys" /\ c.paths \subseteq t.paths
    /\ c.op = "deleteNkeys" =>
          t.op = "deleteNkeys" \/ \A p \in c.paths : p[1] # "user"
    /\ (\E a \in Accounts : Undoes(c, a)) =>
          t.op = "deleteNkeys" \/ (t.op \in Syncs /\ t.mode = "delete")
    /\ c.op = "deleteUserNkey" => t.op = "addUserToRevocationList"
    /\ c.op = "deleteOperatorEntry" => t.op = "deleteOperatorIssue"
    /\ c.op = "deleteAccountIssue" => t.op = "deleteOperatorIssue"
    /\ c.op \in Syncs /\ c.mode = "delete" =>
          /\ t.op = "deleteAccountIssue" \/ (t.op \in Syncs /\ t.mode = "delete")
          /\ t.acc = c.acc
    /\ c.op \in {"pushAccount", "deleteAccounts"} =>
          t.op = "refreshAccountResolver" /\ c.tok = accJWT[c.acc]
    /\ c.op = "deleteAccounts" => c.mode = "delete"
    /\ c.op = "addAccountJWT" => c.tok.sub[1] = AccPath(c.acc)
    /\ \A p \in Path : Fills(c, p) => HasIssue(p) \/ Fills(t, p) \/ Founds(t, p)

Callable(t) == {c \in Call : MayCall(t, c)}

\* the first call of w fails, ends the process or makes calls that it may
Moves(w) == Fail(w) \/ Panic \/ \E n \in Seq(Callable(Top(w))) : Do(w, n)

-----------------------------------------------------------------------------
(* Every handler makes only calls that it may make.                        *)

\* Short sequences over a set, and longer ones made of them.
LEMMA ShortSeq ==
    ASSUME NEW S
    PROVE  /\ <<>> \in Seq(S)
           /\ \A c \in S : <<c>> \in Seq(S)
           /\ \A c, d \in S : <<c, d>> \in Seq(S)
           /\ \A c, d, e \in S : <<c, d, e>> \in Seq(S)
           /\ \A s, t \in Seq(S) : s \o t \in Seq(S)
BY ConcatProperties

HarmlessCalls ==
    {"catch", "issueUserNKeys", "storeUserIssueUpdate", "refreshPushUser",
     "refreshAccountResolvers", "pushEach", "updateUserIssues",
     "updateEachUser", "updateEachAccount", "generateUserJWT",
     "formatUserConfig", "creds", "addUserIssue", "putOperatorIssue",
     "addOperatorJWT", "deleteOperatorJWT", "deleteOperatorEntry",
     "periodicRefreshAccountIssues", "periodicRefreshUserIssues",
     "periodicAccount", "periodicSync"}

\* Calls of most kinds may be made by any call.
LEMMA HarmlessMayCall ==
    ASSUME NEW t, NEW c \in Call, c.op \in HarmlessCalls, t.op # "deleteNkeys",
           c.op = "deleteOperatorEntry" => t.op = "deleteOperatorIssue",
           \A p \in Path :
              Fills(c, p) => HasIssue(p) \/ Fills(t, p) \/ Founds(t, p),
           c.op = "putOperatorIssue" =>
              t.op = "addOperatorIssue" /\ c.iss = t.par
    PROVE  c \in Callable(t)
BY DEF HarmlessCalls, Callable, MayCall, Shaped, Rootless, Leads,
       ErasesIssue, ErasesUser, Creates, Depends, Saves, Undoes, Syncs,
       Fills, Founds

\* Signing keys are deleted by whoever removes them.
LEMMA DeleteNkeysMayCall ==
    ASSUME NEW t, NEW ps \in SUBSET Path, t.op # "deleteNkeys",
           \A p \in ps : p[1] # "user",
           (\E p \in ps : p[3] = None) => ErasesIssue(t),
           (\E a \in Accounts : AccPath(a) \in ps) =>
               t.op \in Syncs /\ t.mode = "delete"
    PROVE  deleteNkeys(ps) \in Seq(Callable(t))
<1> DEFINE c == [op |-> "deleteNkeys", paths |-> ps]
<1>1. c \in Call
  BY NkeyCallsMade
<1>2. c \in Callable(t)
  BY <1>1 DEF Callable, MayCall, Rootless, Leads, Shaped,
              ErasesIssue, ErasesUser, Creates, Depends, Saves, Undoes, Syncs,
              Fills, Founds
<1> HIDE DEF c
<1> QED
  BY <1>2, ShortSeq DEF deleteNkeys, c

\* Nkeys.
LEMMA NkeyMoves ==
    ASSUME TypeOK, NEW w \in Workers, NkeyStep(w), Shaped(Top(w))
    PROVE  Moves(w)
<1> DEFINE t == Top(w)
<1>1. CASE AddNkey(w)
  <2>1. /\ t.op = "addNkey" /\ t.path \in Path /\ t.seed \in BOOLEAN
        /\ minted[t.path] \in Nat /\ nkey[t.path] \in Nat
    BY <1>1, RunningTyped, NkeyCallFields DEF AddNkey, TypeOK, StorageOK
  <2>2. PICK g \in Nat :
           /\ Do(w, <<[op |-> "putNkey", path |-> t.path, gen |-> g]>>)
           /\ g # 0 /\ (t.seed \/ ~Stored(t.path) \/ g = nkey[t.path])
    <3>1. minted[t.path] + 1 \in Nat /\ minted[t.path] + 1 # 0
      BY <2>1
    <3> QED
      BY <1>1, <2>1, <3>1 DEF AddNkey, TakesNewSeed, Stored
  <2> DEFINE c == [op |-> "putNkey", path |-> t.path, gen |-> g]
  <2>3. c \in Call
    BY <2>1, NkeyCallsMade
  <2>4. c \in Callable(t)
    BY <2>1, <2>2, <2>3
       DEF Callable, MayCall, Rootless, Leads, Shaped,
           ErasesIssue, ErasesUser, Creates, Depends, Saves, Undoes, Syncs,
           Fills, Founds
  <2> QED
    BY <2>2, <2>4, ShortSeq DEF Moves
<1>2. CASE PutNkey(w)
  <2>1. t.op = "putNkey" /\ t.path \in Path
    BY <1>2, RunningTyped, NkeyCallFields DEF PutNkey
  <2> DEFINE c == [op |-> "ensureIssue", path |-> t.path]
  <2>2. c \in Call
    BY <2>1, NkeyCallsMade
  <2>3. c \in Callable(t)
    BY <2>1, <2>2
       DEF Callable, MayCall, Rootless, Leads, Shaped,
           ErasesIssue, ErasesUser, Creates, Depends, Saves, Undoes, Syncs,
           Fills, Founds
  <2> QED
    BY <1>2, <2>3, ShortSeq DEF Moves, PutNkey
<1>3. CASE EnsureIssue(w)
  <2>1. t.op = "ensureIssue" /\ t.path \in Path
    BY <1>3, RunningTyped, NkeyCallFields DEF EnsureIssue
  <2>2. Catch \in Seq(Callable(t))
    <3>1. [op |-> "catch"] \in Call
      BY OperatorCallsMade DEF PlainCalls
    <3>2. [op |-> "catch"] \in Callable(t)
      BY <2>1, <3>1, HarmlessMayCall DEF HarmlessCalls, Fills, Leads
    <3> QED
      BY <3>2, ShortSeq DEF Catch
  <2>3. addDefaultIssue(t.path) \in Seq(Callable(t))
    <3>1. CASE t.path[1] = "operator"
      <4> DEFINE c == [op |-> "addOperatorIssue", par |-> DefaultOp]
      <4>1. c \in Call
        BY DefaultsTyped, OperatorCallsMade
      <4>2. c \in Callable(t)
        BY <2>1, <4>1
           DEF Callable, MayCall, Rootless, Leads, Shaped,
               ErasesIssue, ErasesUser, Creates, Depends, Saves, Undoes, Syncs,
               Fills, Founds, DefaultOp
      <4> QED
        BY <3>1, <4>2, ShortSeq DEF addDefaultIssue
    <3>2. CASE t.path[1] = "account"
      <4> DEFINE c == [op |-> "addAccountIssue", acc |-> t.path[2],
                       par |-> DefaultAcc]
      <4>1. t.path[2] \in Accounts
        BY <2>1, <3>2 DEF Path
      <4>2. c \in Call
        BY <4>1, DefaultsTyped, AccountCallsMade
      <4>3. c \in Callable(t)
        BY <2>1, <3>2, <4>2
           DEF Callable, MayCall, Rootless, Leads, Shaped,
               ErasesIssue, ErasesUser, Creates, Depends, Saves, Undoes, Syncs,
               Fills, Founds, DefaultAcc
      <4> QED
        BY <3>2, <4>3, ShortSeq DEF addDefaultIssue
    <3>3. CASE t.path[1] = "user"
      <4> DEFINE c == [op |-> "addUserIssue", acc |-> t.path[2],
                       user |-> t.path[3], par |-> DefaultUser]
      <4>1. t.path[2] \in Accounts /\ t.path[3] \in Users
        BY <2>1, <3>3 DEF Path
      <4>2. c \in Call
        BY <4>1, DefaultsTyped, UserCallsMade
      <4>3. c \in Callable(t)
        BY <2>1, <4>2, HarmlessMayCall DEF HarmlessCalls, Fills, Leads
      <4> QED
        BY <3>3, <4>3, ShortSeq DEF addDefaultIssue
    <3>4. t.path[1] \in {"operator", "account", "user"}
      BY <2>1 DEF Path
    <3> QED
      BY <3>1, <3>2, <3>3, <3>4
  <2>4. addDefaultIssue(t.path) \o Catch \in Seq(Callable(t))
    BY <2>2, <2>3, ShortSeq
  <2> QED
    BY <1>3, <2>4, ShortSeq DEF Moves, EnsureIssue
<1>4. CASE DeleteNkeys(w)
  <2>1. t.op = "deleteNkeys" /\ t.paths \in SUBSET Path
    BY <1>4, RunningTyped, NkeyCallFields DEF DeleteNkeys
  <2>2. PICK p \in t.paths : Do(w, deleteNkeys(t.paths \ {p}))
    BY <1>4 DEF DeleteNkeys
  <2> DEFINE c == [op |-> "deleteNkeys", paths |-> t.paths \ {p}]
  <2>3. c \in Call
    BY <2>1, NkeyCallsMade
  <2>4. c \in Callable(t)
    BY <2>1, <2>3
       DEF Callable, MayCall, Rootless, Leads, Shaped,
           ErasesIssue, ErasesUser, Creates, Depends, Saves, Undoes, Syncs,
           Fills, Founds
  <2>5. deleteNkeys(t.paths \ {p}) \in Seq(Callable(t))
    BY <2>4, ShortSeq DEF deleteNkeys
  <2> QED
    BY <2>2, <2>5 DEF Moves
<1>5. CASE AddOperatorJWT(w)
  <2>1. t.op = "addOperatorJWT"
    BY <1>5, RunningTyped DEF AddOperatorJWT
  <2> DEFINE c == [op |-> "ensureIssue", path |-> OpPath]
  <2>2. c \in Call
    BY PathTyped, NkeyCallsMade
  <2>3. c \in Callable(t)
    BY <2>1, <2>2
       DEF Callable, MayCall, Rootless, Leads, Shaped,
           ErasesIssue, ErasesUser, Creates, Depends, Saves, Undoes, Syncs,
           Fills, Founds, OpPath
  <2> QED
    BY <1>5, <2>3, ShortSeq DEF Moves, AddOperatorJWT
<1>6. CASE AddAccountJWT(w)
  <2>1. t.op = "addAccountJWT" /\ t.acc \in Accounts
    BY <1>6, RunningTyped, AccountCallFields DEF AddAccountJWT
  <2> DEFINE c == [op |-> "ensureIssue", path |-> AccPath(t.acc)]
  <2>2. c \in Call
    BY <2>1, PathTyped, NkeyCallsMade
  <2>3. c \in Callable(t)
    BY <2>1, <2>2
       DEF Callable, MayCall, Rootless, Leads, Shaped,
           ErasesIssue, ErasesUser, Creates, Depends, Saves, Undoes, Syncs,
           Fills, Founds, AccPath
  <2> QED
    BY <1>6, <2>3, ShortSeq DEF Moves, AddAccountJWT
<1>7. CASE DeleteOperatorJWT(w) \/ DeleteAccountJWT(w)
  BY <1>7, ShortSeq DEF Moves, DeleteOperatorJWT, DeleteAccountJWT
<1> QED
  BY <1>1, <1>2, <1>3, <1>4, <1>5, <1>6, <1>7 DEF NkeyStep

\* The paths of signing keys are no main ones.
LEMMA SigningPaths ==
    /\ \A ks \in SUBSET OpKeys : \A p \in OpSignings(ks) :
          p[1] = "operator" /\ p[3] # None
    /\ \A a \in Accounts : \A ss \in SUBSET AccKeys :
          \A p \in AccSignings(a, ss) :
             p[1] = "account" /\ p[2] = a /\ p[3] # None
    /\ \A a \in Accounts : AccPath(a)[1] = "account" /\ AccPath(a)[2] = a
                           /\ AccPath(a)[3] = None
    /\ OpPath[1] = "operator" /\ OpPath[3] = None
BY NamesAssumption DEF OpSignings, OpSigning, AccSignings, AccSigning,
                       AccPath, OpPath

\* The calls that refresh a user may be made by any call that found or stored
\* the template.
LEMMA RefreshUserMayCall ==
    ASSUME NEW t, t.op # "deleteNkeys", NEW a \in Accounts, NEW u \in Users,
           NEW i \in UserIssue,
           \/ userIssue[a][u] # None
           \/ t.op = "addUserIssue" /\ t.acc = a /\ t.user = u
    PROVE  refreshUser(a, u, i) \in Seq(Callable(t))
<1>1. /\ [op |-> "issueUserNKeys", acc |-> a, user |-> u] \in Call
      /\ [op |-> "storeUserIssueUpdate", acc |-> a, user |-> u, iss |-> i]
            \in Call
  BY UserCallsMade DEF UserNameCalls
<1>2. /\ [op |-> "issueUserNKeys", acc |-> a, user |-> u] \in Callable(t)
      /\ [op |-> "storeUserIssueUpdate", acc |-> a, user |-> u, iss |-> i]
            \in Callable(t)
  BY <1>1, HarmlessMayCall
     DEF HarmlessCalls, Fills, Founds, HasIssue, Leads
<1> QED
  BY <1>2, ShortSeq DEF refreshUser

\* User templates and credentials.
LEMMA UserMoves ==
    ASSUME TypeOK, NEW w \in Workers, UserStep(w)
    PROVE  Moves(w)
<1> DEFINE t == Top(w)
<1>1. CASE AddUserIssue(w)
  <2>1. /\ t.op = "addUserIssue"
        /\ t.acc \in Accounts /\ t.user \in Users /\ t.par \in UserPar
    BY <1>1, RunningTyped, UserCallFields DEF AddUserIssue
  <2> DEFINE i == [par  |-> t.par,
                   nkey |-> userIssue[t.acc][t.user] # None
                            /\ userIssue[t.acc][t.user].nkey]
  <2>2. i.nkey \in BOOLEAN
    BY <2>1 DEF TypeOK, StorageOK, UserIssue
  <2>3. i \in UserIssue
    BY <2>1, <2>2 DEF UserIssue
  <2>4. refreshUser(t.acc, t.user, i) \in Seq(Callable(t))
    BY <2>1, <2>3, RefreshUserMayCall
  <2> QED
    BY <1>1, <2>4 DEF Moves, AddUserIssue
<1>2. CASE IssueUserNKeys(w)
  <2>1. t.op = "issueUserNKeys" /\ t.acc \in Accounts /\ t.user \in Users
    BY <1>2, RunningTyped, UserCallFields DEF IssueUserNKeys, UserNameCalls
  <2> DEFINE c == [op |-> "addNkey", path |-> UserPath(t.acc, t.user),
                   seed |-> FALSE]
  <2>2. /\ c \in Call
        /\ c.path[1] = "user" /\ c.path[2] = t.acc /\ c.path[3] = t.user
    BY <2>1, PathTyped, NkeyCallsMade DEF UserPath
  <2> HIDE DEF c
  <2>3. c.op = "addNkey" /\ c.seed = FALSE
    BY DEF c
  <2>4. \A p \in Path : Fills(c, p) => Fills(t, p)
    BY <2>1, <2>2, <2>3 DEF Fills
  <2>5. c \in Callable(t)
    BY <2>1, <2>2, <2>3, <2>4
       DEF Callable, MayCall, Rootless, Leads, Shaped,
           ErasesIssue, ErasesUser, Creates, Depends, Saves, Undoes, Syncs
  <2> QED
    BY <1>2, <2>5, ShortSeq DEF Moves, IssueUserNKeys, c
<1>3. CASE StoreUserIssueUpdate(w)
  <2>1. t.op = "storeUserIssueUpdate"
    BY <1>3, RunningTyped DEF StoreUserIssueUpdate, storeUserStatus
  <2>2. [op |-> "refreshPushUser"] \in Callable(t)
    BY <2>1, OperatorCallsMade, HarmlessMayCall DEF PlainCalls, HarmlessCalls, Fills
  <2> QED
    BY <1>3, <2>2, ShortSeq DEF Moves, StoreUserIssueUpdate, storeUserStatus
<1>4. CASE RefreshPushUser(w)
  <2>1. t.op = "refreshPushUser" /\ (opIssue = None \/ opIssue \in OpIssue)
    BY <1>4, RunningTyped DEF RefreshPushUser, TypeOK, StorageOK
  <2>2. opIssue # None =>
           [op |-> "refreshAccountResolvers", iss |-> opIssue] \in Callable(t)
    BY <2>1, OperatorCallsMade, HarmlessMayCall DEF OpCalls, HarmlessCalls, Fills
  <2> QED
    BY <1>4, <2>2, ShortSeq DEF Moves, RefreshPushUser
<1>5. CASE DeleteUserIssue(w)
  <2>1. t.op = "deleteUserIssue" /\ t.acc \in Accounts /\ t.user \in Users
    BY <1>5, RunningTyped, UserCallFields DEF DeleteUserIssue, UserNameCalls
  <2> DEFINE c == [op |-> "addUserToRevocationList", acc |-> t.acc,
                   user |-> t.user]
  <2>2. c \in Call
    BY <2>1, UserCallsMade DEF UserNameCalls
  <2>3. c \in Callable(t)
    BY <2>1, <2>2
       DEF Callable, MayCall, Rootless, Leads, Shaped,
           ErasesIssue, ErasesUser, Creates, Depends, Saves, Undoes, Syncs,
           Fills, Founds
  <2> QED
    BY <1>5, <2>3, ShortSeq DEF Moves, DeleteUserIssue
<1>6. CASE DeleteUserNkey(w) \/ DeleteUserTemplate(w) \/ ReturnCreds(w)
  BY <1>6, ShortSeq DEF Moves, DeleteUserNkey, DeleteUserTemplate, ReturnCreds
<1>7. CASE GenerateUserCreds(w)
  <2>1. /\ t.op = "generateUserCreds" /\ t.acc \in Accounts /\ t.user \in Users
        /\ userIssue[t.acc][t.user] = None
           \/ userIssue[t.acc][t.user] \in UserIssue
    BY <1>7, RunningTyped, UserCallFields, SMTT(60)
       DEF GenerateUserCreds, TypeOK, StorageOK
  <2> DEFINE i == userIssue[t.acc][t.user]
             c == [op |-> "generateUserJWT", acc |-> t.acc,
                   user |-> t.user, use |-> i.par.use]
  <2>2. i # None => i.par.use \in AccKeys \cup {None}
    BY <2>1 DEF UserIssue, UserPar
  <2>3. i # None => c \in Callable(t)
    BY <2>1, <2>2, UserCallsMade, HarmlessMayCall DEF HarmlessCalls, Fills, Leads
  <2>4. Fail(w) \/ (i # None /\ Do(w, <<c>>))
    BY <1>7 DEF GenerateUserCreds
  <2> QED
    BY <2>3, <2>4, ShortSeq DEF Moves
<1>8. CASE GenerateUserJWT(w)
  <2>1. /\ t.op = "generateUserJWT" /\ t.acc \in Accounts /\ t.user \in Users
        /\ t.use \in AccKeys \cup {None}
    BY <1>8, RunningTyped, UserCallFields DEF GenerateUserJWT
  <2>2. UserJWT(t.acc, t.user, t.use) \in UserToken
    BY <2>1, UserJWTTyped DEF TypeOK
  <2> DEFINE c == [op |-> "formatUserConfig", acc |-> t.acc, user |-> t.user,
                   tok |-> UserJWT(t.acc, t.user, t.use)]
  <2>3. c \in Callable(t)
    BY <2>1, <2>2, UserCallsMade, HarmlessMayCall DEF HarmlessCalls, Fills, Leads
  <2> QED
    BY <1>8, <2>3, ShortSeq DEF Moves, GenerateUserJWT
<1>9. CASE FormatUserConfig(w)
  <2>1. /\ t.op = "formatUserConfig" /\ t.acc \in Accounts /\ t.user \in Users
        /\ t.tok \in UserToken
    BY <1>9, RunningTyped, UserCallFields DEF FormatUserConfig
  <2> DEFINE c == [op |-> "creds", acc |-> t.acc, tok |-> t.tok,
                   seed |-> Pub(UserPath(t.acc, t.user))]
  <2>2. Pub(UserPath(t.acc, t.user)) \in Key
    BY <2>1, PathTyped, PubTyped DEF TypeOK
  <2>3. c \in Callable(t)
    BY <2>1, <2>2, UserCallsMade, HarmlessMayCall DEF HarmlessCalls, Fills, Leads
  <2> QED
    BY <1>9, <2>3, ShortSeq DEF Moves, FormatUserConfig
<1> QED
  BY <1>1, <1>2, <1>3, <1>4, <1>5, <1>6, <1>7, <1>8, <1>9 DEF UserStep

\* Loops over accounts that no account is created by.
LEMMA EachMayCall ==
    ASSUME NEW t, t.op # "deleteNkeys", NEW todo \in SUBSET Accounts,
           NEW op \in {"pushEach", "updateEachAccount"}
    PROVE  Each(op, todo) \in Seq(Callable(t))
<1>1. [op |-> op, todo |-> todo] \in Call
  BY AccountCallsMade DEF AccLoopCalls
<1>2. [op |-> op, todo |-> todo] \in Callable(t)
  BY <1>1, HarmlessMayCall DEF HarmlessCalls, Fills, Leads
<1> QED
  BY <1>2, ShortSeq DEF Each

\* What comes after the account server was asked.
LEMMA AfterSyncMayCall ==
    ASSUME NEW t \in Call, t.op \in Syncs,
           NEW i, Resolvable(i, t.mode), i # None => SameFlags(i, t.iss)
    PROVE  AfterSync(t.acc, i, t.mode) \in Seq(Callable(t))
<1>1. t.acc \in Accounts /\ t.op # "deleteNkeys"
  BY ServerCallFields DEF Syncs
<1> DEFINE save   == [op |-> "putAccountIssue", acc |-> t.acc, iss |-> i]
           update == [op |-> "updateAccountStatus", acc |-> t.acc, iss |-> i]
<1>2. CASE t.mode = "discard"
  BY <1>2, ShortSeq DEF AfterSync
<1>3. CASE t.mode = "refresh" /\ i \in AccIssue
  <2>1. update \in Call
    BY <1>1, <1>3, AccountCallsMade DEF AccIssueCalls
  <2>2. update \in Callable(t)
    BY <1>1, <1>3, <2>1
       DEF Callable, MayCall, Rootless, Leads, Shaped,
           ErasesIssue, ErasesUser, Creates, Depends, Saves, Undoes, Syncs,
           Fills, Founds
  <2> QED
    BY <1>3, <2>2, ShortSeq DEF AfterSync
<1>4. CASE t.mode = "periodic" /\ i \in AccIssue
  <2>1. save \in Call
    BY <1>1, <1>4, AccountCallsMade DEF AccIssueCalls
  <2>2. SameFlags(i, t.iss)
    BY <1>4, NoneAssumption
  <2>3. save \in Callable(t)
    BY <1>1, <1>4, <2>1, <2>2
       DEF Callable, MayCall, Rootless, Leads, Shaped,
           ErasesIssue, ErasesUser, Creates, Depends, Saves, Undoes, Syncs,
           Fills, Founds
  <2> QED
    BY <1>4, <2>3, ShortSeq DEF AfterSync
<1>5. CASE t.mode = "delete" /\ i \in AccIssue
  <2>1. i.par.signing \in SUBSET AccKeys
    BY <1>5 DEF AccIssue, AccPar
  <2>2. ErasesIssue(t)
    BY <1>5 DEF ErasesIssue
  <2>3. deleteNkeys({AccPath(t.acc)}) \in Seq(Callable(t))
    BY <1>1, <1>5, <2>2, PathTyped, SigningPaths, DeleteNkeysMayCall
  <2>4. deleteNkeys(AccSignings(t.acc, i.par.signing)) \in Seq(Callable(t))
    BY <1>1, <1>5, <2>1, <2>2, PathsTyped, SigningPaths, DeleteNkeysMayCall
  <2>5. /\ [op |-> "deleteAccountJWT", acc |-> t.acc] \in Call
        /\ [op |-> "deleteAccountEntry", acc |-> t.acc] \in Call
    BY <1>1, AccountCallsMade DEF AccNameCalls
  <2>6. /\ [op |-> "deleteAccountJWT", acc |-> t.acc] \in Callable(t)
        /\ [op |-> "deleteAccountEntry", acc |-> t.acc] \in Callable(t)
    BY <1>1, <1>5, <2>2, <2>5
       DEF Callable, MayCall, Rootless, Leads, Shaped,
           ErasesIssue, ErasesUser, Creates, Depends, Saves, Undoes, Syncs,
           Fills, Founds
  <2> QED
    BY <1>5, <2>3, <2>4, <2>6, ShortSeq DEF AfterSync, eraseAccount
<1> QED
  BY <1>2, <1>3, <1>4, <1>5 DEF Resolvable, ResolverModes

\* The account server.
LEMMA ServerMoves ==
    ASSUME TypeOK, NEW w \in Workers, ServerStep(w)
    PROVE  Moves(w)
<1> DEFINE t == Top(w)
<1>1. ASSUME t.op \in Syncs, t \in Call,
             NEW i, i \in {t.iss, Marked(t.iss, t.mode)}
      PROVE  AfterSync(t.acc, i, t.mode) \in Seq(Callable(t))
  <2>1. Resolvable(t.iss, t.mode)
    BY <1>1, ServerCallFields DEF Syncs, Resolvable
  <2>2. Resolvable(i, t.mode)
    BY <1>1, <2>1, ServerCallFields, ServerCallsQuiet DEF Syncs
  <2>3. i # None => SameFlags(i, t.iss)
    <3>1. CASE t.iss = None /\ t.mode = "discard"
      BY <1>1, <3>1 DEF Marked
    <3>2. CASE t.iss \in AccIssue
      BY <1>1, <3>2 DEF Marked, SameFlags, AccIssue
    <3> QED
      BY <2>1, <3>1, <3>2 DEF Resolvable
  <2> QED
    BY <1>1, <2>2, <2>3, AfterSyncMayCall
<1>2. CASE RefreshAccountResolver(w)
  <2>1. t \in Call /\ t.op = "refreshAccountResolver"
    BY <1>2, RunningTyped DEF RefreshAccountResolver
  <2>2. t.acc \in Accounts /\ Resolvable(t.iss, t.mode)
    BY <2>1, ServerCallFields DEF Resolvable
  <2> DEFINE tok  == accJWT[t.acc]
             push == [op |-> "pushAccount", acc |-> t.acc, iss |-> t.iss,
                      mode |-> t.mode, tok |-> tok]
             del  == [op |-> "deleteAccounts", acc |-> t.acc, iss |-> t.iss,
                      mode |-> t.mode, tok |-> tok]
  <2>3. tok # None => tok \in AccToken
    BY <2>2 DEF TypeOK, StorageOK
  <2>4. tok # None => push \in Call /\ (t.mode = "delete" => del \in Call)
    BY <2>2, <2>3, ServerCallsMade
  <2>5. tok # None /\ t.mode # "delete" => push \in Callable(t)
    BY <2>1, <2>4
       DEF Callable, MayCall, Rootless, Leads, Shaped,
           ErasesIssue, ErasesUser, Creates, Depends, Saves, SameFlags, Undoes, Syncs,
           Fills, Founds
  <2>6. tok # None /\ t.mode = "delete" => del \in Callable(t)
    BY <2>1, <2>4
       DEF Callable, MayCall, Rootless, Leads, Shaped,
           ErasesIssue, ErasesUser, Creates, Depends, Saves, Undoes, Syncs,
           Fills, Founds
  <2>7. \/ Fail(w)
        \/ Do(w, AfterSync(t.acc, t.iss, t.mode))
        \/ tok # None /\ t.mode = "delete" /\ Do(w, <<del>>)
        \/ tok # None /\ t.mode # "delete" /\ Do(w, <<push>>)
    BY <1>2 DEF RefreshAccountResolver, SyncWanted
  <2>8. AfterSync(t.acc, t.iss, t.mode) \in Seq(Callable(t))
    BY <1>1, <2>1 DEF Syncs
  <2> QED
    BY <2>5, <2>6, <2>7, <2>8, ShortSeq DEF Moves
<1>3. CASE PushAccount(w)
  <2>1. t \in Call /\ t.op = "pushAccount"
    BY <1>3, RunningTyped DEF PushAccount
  <2>2. PICK i \in {t.iss, Marked(t.iss, t.mode)} :
           Do(w, AfterSync(t.acc, i, t.mode))
    BY <1>3 DEF PushAccount
  <2> QED
    BY <1>1, <2>1, <2>2 DEF Moves, Syncs
<1>4. CASE DeleteAccounts(w)
  <2>1. t \in Call /\ t.op = "deleteAccounts"
    BY <1>4, RunningTyped DEF DeleteAccounts
  <2>2. PICK i \in {t.iss, Marked(t.iss, t.mode)} :
           Do(w, AfterSync(t.acc, i, t.mode))
    BY <1>4 DEF DeleteAccounts
  <2> QED
    BY <1>1, <2>1, <2>2 DEF Moves, Syncs
<1>5. CASE RefreshAccountResolvers(w)
  <2>1. t.op = "refreshAccountResolvers"
    BY <1>5, RunningTyped DEF RefreshAccountResolvers
  <2>2. Each("pushEach", AccountList) \in Seq(Callable(t))
    BY <2>1, EachMayCall DEF AccountList
  <2> QED
    BY <1>5, <2>2, ShortSeq DEF Moves, RefreshAccountResolvers
<1>6. CASE PushEach(w)
  <2>1. t.op = "pushEach" /\ t.todo \in SUBSET Accounts
    BY <1>6, RunningTyped, AccountCallFields DEF PushEach, AccLoopCalls
  <2>2. PICK a \in t.todo : Do(w, accountResolver(a, None, "discard")
                                   \o Each("pushEach", t.todo \ {a}))
    BY <1>6 DEF PushEach
  <2> DEFINE c == [op |-> "refreshAccountResolver", acc |-> a, iss |-> None,
                   mode |-> "discard"]
  <2>3. c \in Call
    BY <2>1, ServerCallsMade DEF Resolvable
  <2>4. c \in Callable(t)
    BY <2>1, <2>3
       DEF Callable, MayCall, Rootless, Leads, Shaped,
           ErasesIssue, ErasesUser, Creates, Depends, Saves, Undoes, Syncs,
           Fills, Founds
  <2>5. Each("pushEach", t.todo \ {a}) \in Seq(Callable(t))
    BY <2>1, EachMayCall
  <2> QED
    BY <2>2, <2>4, <2>5, ShortSeq DEF Moves, accountResolver
<1> QED
  BY <1>2, <1>3, <1>4, <1>5, <1>6 DEF ServerStep

\* What refreshes an account may be called where the account exists, or
\* where it is going to.
LEMMA RefreshAccountMayCall ==
    ASSUME NEW t, t.op \in Leads, ~ErasesIssue(t),
           NEW a \in Accounts, NEW i \in AccIssue,
           accIssue[a] # None \/ (t.op = "addAccountIssue" /\ t.acc = a)
    PROVE  refreshAccount(a, i) \in Seq(Callable(t))
<1>1. i.par.signing \in SUBSET AccKeys
  BY DEF AccIssue, AccPar
<1>2. AccountPaths(a, i) \in SUBSET Path
  BY <1>1, PathTyped, PathsTyped DEF AccountPaths
<1>3. accountNkeys(a, i) \in Call
  BY <1>2, AccountCallsMade DEF accountNkeys
<1>4. \A p \in AccountPaths(a, i) : p[1] = "account" /\ p[2] = a
  BY <1>1, SigningPaths DEF AccountPaths
<1>5. /\ accIssue[a] # None \/ Creates(t, a)
      /\ \A p \in Path : p[1] = "account" /\ p[2] = a =>
            HasIssue(p) \/ Founds(t, p)
  BY DEF Creates, Founds, HasIssue
<1>6. accountNkeys(a, i) \in Callable(t)
  <2>1. \A p \in Path : Fills(accountNkeys(a, i), p) =>
           p[1] = "account" /\ p[2] = a
    BY DEF Fills, accountNkeys
  <2> QED
    BY <1>3, <1>4, <1>5, <2>1
       DEF accountNkeys, Callable, MayCall, Shaped, Rootless, Leads,
           ErasesIssue, ErasesUser, Creates, Depends, Saves, Undoes, Syncs
<1> DEFINE jwt == [op |-> "issueAccountJWT", acc |-> a, iss |-> i]
           res == [op |-> "refreshAccountResolver", acc |-> a, iss |-> i,
                   mode |-> "refresh"]
<1>7. jwt \in Call /\ res \in Call
  BY AccountCallsMade, ServerCallsMade
     DEF AccIssueCalls, Resolvable, ResolverModes
<1>8. jwt \in Callable(t) /\ res \in Callable(t)
  <2>1. /\ \A p \in Path : Fills(jwt, p) => p[1] = "account" /\ p[2] = a
        /\ \A p \in Path : ~Fills(res, p)
    BY DEF Fills
  <2> QED
    BY <1>5, <1>7, <2>1
       DEF Callable, MayCall, Rootless, Leads, Shaped,
           ErasesIssue, ErasesUser, Creates, Depends, Saves, Undoes, Syncs
<1> QED
  BY <1>6, <1>8, ShortSeq DEF refreshAccount, accountResolver

\* So may what stores it first, with the status it has.
LEMMA PutAccountMayCall ==
    ASSUME NEW t, t.op \in Leads, ~ErasesIssue(t),
           NEW a \in Accounts, NEW i \in AccIssue,
           accIssue[a] # None \/ Creates(t, a),
           \/ Honest(a, i)
           \/ accIssue[a] # None /\ SameFlags(i, accIssue[a])
    PROVE  <<[op |-> "putAccountIssue", acc |-> a, iss |-> i]>>
              \in Seq(Callable(t))
<1> DEFINE put == [op |-> "putAccountIssue", acc |-> a, iss |-> i]
<1>1. put \in Call
  BY AccountCallsMade DEF AccIssueCalls
<1>2. put \in Callable(t)
  BY <1>1
     DEF Callable, MayCall, Rootless, Leads, Shaped,
         ErasesIssue, ErasesUser, Creates, Depends, Saves, Undoes, Syncs,
         Fills, Founds
<1> QED
  BY <1>2, ShortSeq

\* The calls that go through the users of an account.
LEMMA UserLoopMayCall ==
    ASSUME NEW t, t.op # "deleteNkeys", NEW a \in Accounts,
           NEW todo \in SUBSET Users
    PROVE  /\ updateEachUser(a, todo) \in Seq(Callable(t))
           /\ updateUserIssues(a) \in Seq(Callable(t))
<1>1. /\ [op |-> "updateEachUser", acc |-> a, todo |-> todo] \in Call
      /\ [op |-> "updateUserIssues", acc |-> a] \in Call
  BY UserCallsMade, AccountCallsMade DEF UserLoopCalls, AccNameCalls
<1>2. /\ [op |-> "updateEachUser", acc |-> a, todo |-> todo] \in Callable(t)
      /\ [op |-> "updateUserIssues", acc |-> a] \in Callable(t)
  BY <1>1, HarmlessMayCall DEF HarmlessCalls, Fills, Leads
<1> QED
  BY <1>2, ShortSeq DEF updateEachUser, updateUserIssues

\* Account issues.
LEMMA AccountMoves ==
    ASSUME TypeOK, NEW w \in Workers, AccountStep(w), Shaped(Top(w))
    PROVE  Moves(w)
<1> DEFINE t == Top(w)
<1>1. CASE AddAccountIssue(w)
  <2>1. t.op = "addAccountIssue" /\ t.acc \in Accounts /\ t.par \in AccPar
    BY <1>1, RunningTyped, AccountCallFields DEF AddAccountIssue
  <2> DEFINE old  == accIssue[t.acc]
             i    == IF old = None
                     THEN [par |-> t.par, nkey |-> FALSE, jwt |-> FALSE,
                           synced |-> FALSE]
                     ELSE [old EXCEPT !.par = t.par]
             gone == IF old = None THEN {}
                     ELSE old.par.signing \ t.par.signing
  <2>2. old = None \/ old \in AccIssue
    BY <2>1 DEF TypeOK, StorageOK
  <2>3. i \in AccIssue
    BY <2>1, <2>2 DEF AccIssue
  <2>4. gone \in SUBSET AccKeys
    BY <2>2 DEF AccIssue, AccPar
  <2>5. Honest(t.acc, i) \/ (old # None /\ SameFlags(i, old))
    BY <2>2 DEF Honest, SameFlags, AccIssue
  <2>6. ~ErasesIssue(t) /\ Creates(t, t.acc)
    BY <2>1 DEF ErasesIssue, Creates, Syncs
  <2>7. deleteNkeys(AccSignings(t.acc, gone)) \in Seq(Callable(t))
    BY <2>1, <2>4, PathsTyped, SigningPaths, DeleteNkeysMayCall
  <2>8. /\ <<[op |-> "putAccountIssue", acc |-> t.acc, iss |-> i]>>
              \in Seq(Callable(t))
        /\ refreshAccount(t.acc, i) \in Seq(Callable(t))
    BY <2>1, <2>3, <2>5, <2>6, PutAccountMayCall, RefreshAccountMayCall DEF Leads
  <2>9. Do(w, deleteNkeys(AccSignings(t.acc, gone))
              \o <<[op |-> "putAccountIssue", acc |-> t.acc, iss |-> i]>>
              \o refreshAccount(t.acc, i))
    BY <1>1 DEF AddAccountIssue
  <2> QED
    BY <2>7, <2>8, <2>9, ShortSeq DEF Moves
<1>2. CASE PutAccountIssue(w) \/ DeleteAccountEntry(w)
  BY <1>2, ShortSeq DEF Moves, PutAccountIssue, DeleteAccountEntry
<1>3. CASE IssueAccountNKey(w)
  <2>1. /\ t \in Call /\ t.op = "issueAccountNKeys"
        /\ t.acc \in Accounts /\ t.iss \in AccIssue /\ t.todo \in SUBSET Path
        /\ t.users \in BOOLEAN /\ t.operator \in BOOLEAN
        /\ t = [op |-> t.op, acc |-> t.acc, iss |-> t.iss, todo |-> t.todo,
                users |-> t.users, operator |-> t.operator]
    BY <1>3, RunningTyped, AccountCallFields DEF IssueAccountNKey
  <2>2. PICK p \in t.todo :
           \/ Do(w, <<[t EXCEPT !.todo = @ \ {p}]>>)
           \/ Do(w, addNkey(p, FALSE)
                    \o <<[t EXCEPT !.todo = @ \ {p}, !.users = TRUE,
                          !.operator = @ \/ p = AccPath(SysAccount)]>>)
    BY <1>3 DEF IssueAccountNKey
  <2> DEFINE same == [t EXCEPT !.todo = @ \ {p}]
             more == [t EXCEPT !.todo = @ \ {p}, !.users = TRUE,
                               !.operator = @ \/ p = AccPath(SysAccount)]
             add  == [op |-> "addNkey", path |-> p, seed |-> FALSE]
             Nkeying == [op : {"issueAccountNKeys"}, acc : Accounts,
                         iss : AccIssue, todo : SUBSET Path,
                         users : BOOLEAN, operator : BOOLEAN]
  <2>3. /\ \A c \in {same, more} : c \in Nkeying /\ c.op = "issueAccountNKeys"
              /\ c.acc = t.acc /\ c.todo = t.todo \ {p}
        /\ same.operator = t.operator
        /\ more.operator = (t.operator \/ p = AccPath(SysAccount))
    <3>1. /\ t \in Nkeying /\ t.todo \ {p} \in SUBSET Path
          /\ (t.operator \/ p = AccPath(SysAccount)) \in BOOLEAN
      BY <2>1
    <3> HIDE DEF t
    <3> QED
      BY <3>1
  <2> HIDE DEF same, more
  <2>4. \A q \in t.todo : q[1] = "account" /\ q[2] = t.acc
    BY <2>1 DEF Shaped
  <2>5. t.operator \/ p = AccPath(SysAccount) => t.acc = SysAccount
    BY <2>1, <2>2, <2>4, SigningPaths, NamesAssumption DEF Shaped
  <2>6. add \in Callable(t)
    <3>1. add \in Call
      BY <2>1, NkeyCallsMade
    <3> QED
      BY <2>1, <2>2, <2>4, <3>1
         DEF Callable, MayCall, Rootless, Leads, Shaped,
             ErasesIssue, ErasesUser, Creates, Depends, Saves, Undoes, Syncs,
             Fills, Founds
  <2>7. ASSUME NEW c \in {same, more}
        PROVE  c \in Callable(t)
    <3>1. c \in Call
      BY <2>3 DEF Call, InnerCall
    <3>2. /\ c.op = "issueAccountNKeys" /\ c.acc = t.acc
          /\ \A q \in c.todo : q[1] = "account" /\ q[2] = c.acc
          /\ c.operator => c.acc = SysAccount
      BY <2>3, <2>4, <2>5
    <3> QED
      BY <2>1, <3>1, <3>2
         DEF Callable, MayCall, Rootless, Leads, Shaped,
             ErasesIssue, ErasesUser, Creates, Depends, Saves, Undoes, Syncs,
             Fills, Founds
  <2> QED
    BY <2>2, <2>6, <2>7, ShortSeq DEF Moves, addNkey, same, more
<1>4. CASE IssueAccountNKeysDone(w)
  <2>1. /\ t.op = "issueAccountNKeys" /\ t.acc \in Accounts
        /\ t.operator => t.acc = SysAccount
    BY <1>4, RunningTyped, AccountCallFields DEF IssueAccountNKeysDone, Shaped
  <2> DEFINE users == IF t.users THEN updateUserIssues(t.acc) ELSE <<>>
             c     == [op |-> "refreshOperator", iss |-> opIssue]
  <2>2. users \in Seq(Callable(t))
    BY <2>1, UserLoopMayCall, ShortSeq
  <2>3. opIssue # None => c \in Call
    BY OperatorCallsMade DEF TypeOK, StorageOK, OpCalls
  <2>4. opIssue # None /\ t.operator => c \in Callable(t)
    BY <2>1, <2>3
       DEF Callable, MayCall, Rootless, Leads, Shaped,
           ErasesIssue, ErasesUser, Creates, Depends, Saves, Undoes, Syncs,
           Fills, Founds, HasIssue
  <2>5. \/ Do(w, <<>>)
        \/ opIssue # None /\ t.operator /\ Do(w, <<c>> \o users)
        \/ Do(w, users)
    BY <1>4 DEF IssueAccountNKeysDone
  <2> QED
    BY <2>2, <2>4, <2>5, ShortSeq DEF Moves
<1>5. CASE UpdateUserIssues(w)
  <2>1. t.op = "updateUserIssues" /\ t.acc \in Accounts
    BY <1>5, RunningTyped, AccountCallFields DEF UpdateUserIssues, AccNameCalls
  <2>2. updateEachUser(t.acc, UserList(t.acc)) \in Seq(Callable(t))
    BY <2>1, UserLoopMayCall DEF UserList
  <2> QED
    BY <1>5, <2>2 DEF Moves, UpdateUserIssues
<1>6. CASE UpdateEachUser(w)
  <2>1. /\ t.op = "updateEachUser"
        /\ t.acc \in Accounts /\ t.todo \in SUBSET Users
    BY <1>6, RunningTyped, UserCallFields DEF UpdateEachUser, UserLoopCalls
  <2>2. PICK u \in t.todo :
           \/ Do(w, <<>>)
           \/ /\ userIssue[t.acc][u] # None
              /\ Do(w, refreshUser(t.acc, u, userIssue[t.acc][u])
                       \o updateEachUser(t.acc, t.todo \ {u}))
    BY <1>6 DEF UpdateEachUser
  <2>3. userIssue[t.acc][u] # None => userIssue[t.acc][u] \in UserIssue
    BY <2>1 DEF TypeOK, StorageOK
  <2>4. /\ userIssue[t.acc][u] # None =>
              refreshUser(t.acc, u, userIssue[t.acc][u]) \in Seq(Callable(t))
        /\ updateEachUser(t.acc, t.todo \ {u}) \in Seq(Callable(t))
    BY <2>1, <2>3, RefreshUserMayCall, UserLoopMayCall
  <2> QED
    BY <2>2, <2>4, ShortSeq DEF Moves
<1>7. CASE IssueAccountJWT(w)
  <2>1. t.op = "issueAccountJWT" /\ t.acc \in Accounts /\ t.iss \in AccIssue
    BY <1>7, RunningTyped, AccountCallFields DEF IssueAccountJWT, AccIssueCalls
  <2> DEFINE c == [op |-> "addAccountJWT", acc |-> t.acc,
                   tok |-> AccountToken(t.acc, t.iss.par)]
  <2>2. c \in Call /\ c.tok.sub[1] = AccPath(t.acc)
    BY <2>1, AccountTokenTyped, AccountCallsMade
       DEF TypeOK, AccIssue, AccountToken, Pub
  <2>3. c \in Callable(t)
    BY <2>1, <2>2
       DEF Callable, MayCall, Rootless, Leads, Shaped,
           ErasesIssue, ErasesUser, Creates, Depends, Saves, Undoes, Syncs,
           Fills, Founds
  <2> QED
    BY <1>7, <2>3, ShortSeq DEF Moves, IssueAccountJWT
<1>8. CASE UpdateAccountStatus(w)
  <2>1. /\ t.op = "updateAccountStatus"
        /\ t.acc \in Accounts /\ t.iss \in AccIssue
    BY <1>8, RunningTyped, AccountCallFields
       DEF UpdateAccountStatus, AccIssueCalls
  <2> DEFINE i == [t.iss EXCEPT !.nkey = Stored(AccPath(t.acc)),
                                !.jwt = accJWT[t.acc] # None]
  <2>2. i \in AccIssue /\ Honest(t.acc, i)
    BY <2>1 DEF AccIssue, Honest, Stored
  <2>3. ~ErasesIssue(t) /\ Creates(t, t.acc)
    BY <2>1 DEF ErasesIssue, Creates, Syncs
  <2> HIDE DEF i
  <2>4. <<[op |-> "putAccountIssue", acc |-> t.acc, iss |-> i]>>
           \in Seq(Callable(t))
    BY <2>1, <2>2, <2>3, PutAccountMayCall DEF Leads
  <2> QED
    BY <1>8, <2>4 DEF Moves, UpdateAccountStatus, i
<1>9. CASE DeleteAccountIssue(w)
  <2>1. t.op = "deleteAccountIssue" /\ t.acc \in Accounts
    BY <1>9, RunningTyped, AccountCallFields
       DEF DeleteAccountIssue, AccNameCalls
  <2> DEFINE c == [op |-> "refreshAccountResolver", acc |-> t.acc,
                   iss |-> accIssue[t.acc], mode |-> "delete"]
  <2>2. accIssue[t.acc] # None => c \in Call
    BY <2>1, ServerCallsMade DEF Resolvable, ResolverModes, TypeOK, StorageOK
  <2>3. accIssue[t.acc] # None => c \in Callable(t)
    BY <2>1, <2>2
       DEF Callable, MayCall, Rootless, Leads, Shaped,
           ErasesIssue, ErasesUser, Creates, Depends, Saves, Undoes, Syncs,
           Fills, Founds
  <2> QED
    BY <1>9, <2>3, ShortSeq DEF Moves, DeleteAccountIssue, accountResolver
<1>10. CASE AddUserToRevocationList(w)
  <2>1. /\ t.op = "addUserToRevocationList"
        /\ t.acc \in Accounts /\ t.user \in Users
    BY <1>10, RunningTyped, UserCallFields
       DEF AddUserToRevocationList, UserNameCalls
  <2> DEFINE p == UserPath(t.acc, t.user)
             i == revoke(accIssue[t.acc], Pub(p))
  <2>2. accIssue[t.acc] # None =>
           i \in AccIssue /\ SameFlags(i, accIssue[t.acc])
    <3>1. Pub(p) \in Key
      BY <2>1, PathTyped, PubTyped DEF TypeOK
    <3>2. accIssue[t.acc] # None => accIssue[t.acc] \in AccIssue
      BY <2>1 DEF TypeOK, StorageOK
    <3> QED
      BY <3>1, <3>2 DEF revoke, SameFlags, AccIssue, AccPar
  <2>3. ~ErasesIssue(t)
    BY <2>1 DEF ErasesIssue, Syncs
  <2>4. accIssue[t.acc] # None =>
           /\ <<[op |-> "putAccountIssue", acc |-> t.acc, iss |-> i]>>
                 \in Seq(Callable(t))
           /\ refreshAccount(t.acc, i) \in Seq(Callable(t))
    BY <2>1, <2>2, <2>3, PutAccountMayCall, RefreshAccountMayCall DEF Leads
  <2>5. ASSUME NEW key \in Key \cup {None}
        PROVE  eraseUser(t.acc, t.user, key) \in Seq(Callable(t))
    <3> DEFINE c == [op |-> "deleteUserNkey", acc |-> t.acc,
                     user |-> t.user, key |-> key]
               d == [op |-> "deleteUserTemplate", acc |-> t.acc,
                     user |-> t.user]
    <3>1. c \in Call /\ d \in Call
      BY <2>1, UserCallsMade DEF UserNameCalls
    <3>2. c \in Callable(t) /\ d \in Callable(t)
      BY <2>1, <3>1
         DEF Callable, MayCall, Rootless, Leads, Shaped,
             ErasesIssue, ErasesUser, Creates, Depends, Saves, Undoes, Syncs,
             Fills, Founds
    <3> QED
      BY <3>2, ShortSeq DEF eraseUser
  <2>6. \/ Do(w, eraseUser(t.acc, t.user, None))
        \/ /\ accIssue[t.acc] # None
           /\ Do(w, <<[op |-> "putAccountIssue", acc |-> t.acc, iss |-> i]>>
                    \o refreshAccount(t.acc, i)
                    \o eraseUser(t.acc, t.user, Pub(p)))
    BY <1>10 DEF AddUserToRevocationList
  <2>7. Pub(p) \in Key
    BY <2>1, PathTyped, PubTyped DEF TypeOK
  <2> QED
    BY <2>4, <2>5, <2>6, <2>7, ShortSeq DEF Moves
<1> QED
  BY <1>1, <1>2, <1>3, <1>4, <1>5, <1>6, <1>7, <1>8, <1>9, <1>10
     DEF AccountStep

\* Operator issues.
LEMMA OperatorMoves ==
    ASSUME TypeOK, NEW w \in Workers, OperatorStep(w), Shaped(Top(w))
    PROVE  Moves(w)
<1> DEFINE t == Top(w)
<1>1. CASE AddOperatorIssue(w)
  <2>1. t.op = "addOperatorIssue" /\ t.par \in OpIssue
    BY <1>1, RunningTyped, OperatorCallFields DEF AddOperatorIssue
  <2> DEFINE i    == t.par
             gone == IF opIssue = None THEN {} ELSE opIssue.signing \ i.signing
             put  == [op |-> "putOperatorIssue", iss |-> i]
             ref  == [op |-> "refreshOperator", iss |-> i]
             push == [op |-> "refreshAccountResolvers", iss |-> i]
  <2>2. gone \in SUBSET OpKeys
    BY DEF TypeOK, StorageOK, OpIssue
  <2>3. deleteNkeys(OpSignings(gone)) \in Seq(Callable(t))
    BY <2>1, <2>2, PathsTyped, SigningPaths, DeleteNkeysMayCall
  <2>4. put \in Call /\ ref \in Call /\ push \in Call
    BY <2>1, OperatorCallsMade DEF OpCalls
  <2>5. put \in Callable(t) /\ push \in Callable(t)
    BY <2>1, <2>4, HarmlessMayCall DEF HarmlessCalls, Fills, Leads
  <2>6. ref \in Callable(t)
    BY <2>1, <2>4
       DEF Callable, MayCall, Rootless, Leads, Shaped,
           ErasesIssue, ErasesUser, Creates, Depends, Saves, Undoes, Syncs,
           Fills, Founds
  <2>7. Do(w, deleteNkeys(OpSignings(gone)) \o <<put, ref, push>>)
    BY <1>1 DEF AddOperatorIssue
  <2> QED
    BY <2>3, <2>5, <2>6, <2>7, ShortSeq DEF Moves
<1>2. CASE PutOperatorIssue(w) \/ DeleteOperatorEntry(w)
  BY <1>2, ShortSeq DEF Moves, PutOperatorIssue, DeleteOperatorEntry
<1>3. CASE RefreshOperator(w)
  <2>1. t.op = "refreshOperator" /\ t.iss \in OpIssue
    BY <1>3, RunningTyped, OperatorCallFields DEF RefreshOperator, OpCalls
  <2> DEFINE i    == t.iss
             keys == [op |-> "issueOperatorNkeys", iss |-> i,
                      todo |-> OperatorPaths(i), fresh |-> FALSE]
             jwt  == [op |-> "issueOperatorJWT", iss |-> i]
             acc  == [op |-> "addAccountIssue", acc |-> SysAccount,
                      par |-> DefaultAcc]
             user == [op |-> "addUserIssue", acc |-> SysAccount,
                      user |-> PushUser, par |-> DefaultUser]
  <2>2. i.signing \in SUBSET OpKeys
    BY <2>1 DEF OpIssue
  <2>3. /\ OperatorPaths(i) \in SUBSET Path
        /\ \A p \in OperatorPaths(i) : p[1] = "operator"
    BY <2>2, PathTyped, PathsTyped, SigningPaths DEF OperatorPaths
  <2>4. keys \in Call /\ jwt \in Call /\ acc \in Call /\ user \in Call
    BY <2>1, <2>3, NamesAssumption, DefaultsTyped,
       OperatorCallsMade, AccountCallsMade, UserCallsMade DEF OpCalls
  <2>5. keys \in Callable(t) /\ jwt \in Callable(t)
    BY <2>1, <2>3, <2>4
       DEF Callable, MayCall, Rootless, Leads, Shaped,
           ErasesIssue, ErasesUser, Creates, Depends, Saves, Undoes, Syncs,
           Fills, Founds
  <2>6. i.sys => acc \in Callable(t)
    BY <2>1, <2>4
       DEF Callable, MayCall, Rootless, Leads, Shaped,
           ErasesIssue, ErasesUser, Creates, Depends, Saves, Undoes, Syncs,
           Fills, Founds
  <2>7. user \in Callable(t)
    BY <2>1, <2>4, HarmlessMayCall DEF HarmlessCalls, Fills, Leads
  <2>8. (IF i.sys THEN issueSystemAccount ELSE <<>>) \in Seq(Callable(t))
    BY <2>6, <2>7, ShortSeq DEF issueSystemAccount
  <2>9. Do(w, <<keys, jwt>> \o (IF i.sys THEN issueSystemAccount ELSE <<>>))
    BY <1>3 DEF RefreshOperator
  <2> QED
    BY <2>5, <2>8, <2>9, ShortSeq DEF Moves
<1>4. CASE IssueOperatorNkey(w)
  <2>1. /\ t.op = "issueOperatorNkeys"
        /\ t.iss \in OpIssue /\ t.todo \in SUBSET Path /\ t.fresh \in BOOLEAN
        /\ t = [op |-> t.op, iss |-> t.iss, todo |-> t.todo,
                fresh |-> t.fresh]
    BY <1>4, RunningTyped, OperatorCallFields DEF IssueOperatorNkey
  <2>2. PICK p \in t.todo :
           \/ Do(w, <<[t EXCEPT !.todo = @ \ {p}]>>)
           \/ Do(w, addNkey(p, FALSE)
                    \o <<[t EXCEPT !.todo = @ \ {p}, !.fresh = TRUE]>>)
    BY <1>4 DEF IssueOperatorNkey
  <2> DEFINE same == [t EXCEPT !.todo = @ \ {p}]
             more == [t EXCEPT !.todo = @ \ {p}, !.fresh = TRUE]
             add  == [op |-> "addNkey", path |-> p, seed |-> FALSE]
             Nkeying == [op : {"issueOperatorNkeys"}, iss : OpIssue,
                         todo : SUBSET Path, fresh : BOOLEAN]
  <2>3. \A c \in {same, more} :
           c \in Nkeying /\ c.op = "issueOperatorNkeys" /\ c.todo = t.todo \ {p}
    <3>1. t \in Nkeying /\ t.todo \ {p} \in SUBSET Path
      BY <2>1
    <3> HIDE DEF t
    <3> QED
      BY <3>1
  <2> HIDE DEF same, more
  <2>4. \A q \in t.todo : q[1] = "operator"
    BY <2>1 DEF Shaped
  <2>5. add \in Callable(t)
    <3>1. add \in Call
      BY <2>1, NkeyCallsMade
    <3> QED
      BY <2>1, <2>2, <2>4, <3>1
         DEF Callable, MayCall, Rootless, Leads, Shaped,
             ErasesIssue, ErasesUser, Creates, Depends, Saves, Undoes, Syncs,
             Fills, Founds
  <2>6. ASSUME NEW c \in {same, more}
        PROVE  c \in Callable(t)
    <3>1. c \in Call
      BY <2>3 DEF Call, InnerCall
    <3>2. c.op = "issueOperatorNkeys" /\ \A q \in c.todo : q[1] = "operator"
      BY <2>3, <2>4
    <3> QED
      BY <2>1, <3>1, <3>2
         DEF Callable, MayCall, Rootless, Leads, Shaped,
             ErasesIssue, ErasesUser, Creates, Depends, Saves, Undoes, Syncs,
             Fills, Founds
  <2> QED
    BY <2>2, <2>5, <2>6, ShortSeq DEF Moves, addNkey, same, more
<1>5. CASE IssueOperatorNkeysDone(w)
  <2>1. t.op = "issueOperatorNkeys"
    BY <1>5, RunningTyped DEF IssueOperatorNkeysDone
  <2>2. Each("updateEachAccount", AccountList) \in Seq(Callable(t))
    BY <2>1, EachMayCall DEF AccountList
  <2> QED
    BY <1>5, <2>2, ShortSeq DEF Moves, IssueOperatorNkeysDone
<1>6. CASE UpdateEachAccount(w)
  <2>1. t.op = "updateEachAccount" /\ t.todo \in SUBSET Accounts
    BY <1>6, RunningTyped, AccountCallFields
       DEF UpdateEachAccount, AccLoopCalls
  <2>2. PICK a \in t.todo :
           \/ Do(w, <<>>)
           \/ /\ accIssue[a] # None
              /\ Do(w, refreshAccount(a, accIssue[a])
                       \o Each("updateEachAccount", t.todo \ {a}))
    BY <1>6 DEF UpdateEachAccount
  <2>3. accIssue[a] # None => accIssue[a] \in AccIssue
    BY <2>1 DEF TypeOK, StorageOK
  <2>4. ~ErasesIssue(t)
    BY <2>1 DEF ErasesIssue, Syncs
  <2>5. /\ accIssue[a] # None =>
              refreshAccount(a, accIssue[a]) \in Seq(Callable(t))
        /\ Each("updateEachAccount", t.todo \ {a}) \in Seq(Callable(t))
    BY <2>1, <2>3, <2>4, RefreshAccountMayCall, EachMayCall DEF Leads
  <2> QED
    BY <2>2, <2>5, ShortSeq DEF Moves
<1>7. CASE IssueOperatorJWT(w)
  <2>1. t.op = "issueOperatorJWT" /\ t.iss \in OpIssue
    BY <1>7, RunningTyped, OperatorCallFields DEF IssueOperatorJWT, OpCalls
  <2> DEFINE c == [op |-> "addOperatorJWT", tok |-> OperatorToken(t.iss)]
  <2>2. c \in Call
    BY <2>1, OperatorTokenTyped, OperatorCallsMade DEF TypeOK
  <2>3. c \in Callable(t)
    BY <2>1, <2>2, HarmlessMayCall DEF HarmlessCalls, Fills, Leads
  <2> QED
    BY <1>7, <2>3, ShortSeq DEF Moves, IssueOperatorJWT
<1>8. CASE DeleteOperatorIssue(w)
  <2>1. t.op = "deleteOperatorIssue" /\ ErasesIssue(t) /\ ErasesUser(t)
    BY <1>8, RunningTyped DEF DeleteOperatorIssue, ErasesIssue, ErasesUser
  <2> DEFINE user  == [op |-> "deleteUserIssue", acc |-> SysAccount,
                       user |-> PushUser]
             acc   == [op |-> "deleteAccountIssue", acc |-> SysAccount]
             jwt   == [op |-> "deleteOperatorJWT"]
             entry == [op |-> "deleteOperatorEntry"]
             s     == IF opIssue.sys THEN <<user, acc>> ELSE <<>>
  <2>2. opIssue # None => opIssue.signing \in SUBSET OpKeys
    BY DEF TypeOK, StorageOK, OpIssue
  <2>3. /\ deleteNkeys({OpPath}) \in Seq(Callable(t))
        /\ opIssue # None =>
              deleteNkeys(OpSignings(opIssue.signing)) \in Seq(Callable(t))
    BY <2>1, <2>2, PathTyped, PathsTyped, SigningPaths, DeleteNkeysMayCall
  <2>4. user \in Call /\ acc \in Call /\ jwt \in Call /\ entry \in Call
    BY NamesAssumption, OperatorCallsMade, AccountCallsMade, UserCallsMade
       DEF PlainCalls, AccNameCalls, UserNameCalls
  <2>5. jwt \in Callable(t) /\ entry \in Callable(t)
    BY <2>1, <2>4, HarmlessMayCall DEF HarmlessCalls, Fills, Leads
  <2>6. user \in Callable(t) /\ acc \in Callable(t)
    BY <2>1, <2>4
       DEF Callable, MayCall, Rootless, Leads, Shaped,
           ErasesIssue, ErasesUser, Creates, Depends, Saves, Undoes, Syncs,
           Fills, Founds
  <2>7. s \in Seq(Callable(t))
    BY <2>6, ShortSeq
  <2>8. \/ Do(w, <<>>)
        \/ /\ opIssue # None
           /\ Do(w, deleteNkeys({OpPath})
                    \o deleteNkeys(OpSignings(opIssue.signing))
                    \o s \o <<jwt, entry>>)
    BY <1>8 DEF DeleteOperatorIssue
  <2> QED
    BY <2>3, <2>5, <2>7, <2>8, ShortSeq DEF Moves
<1> QED
  BY <1>1, <1>2, <1>3, <1>4, <1>5, <1>6, <1>7, <1>8 DEF OperatorStep

\* The periodic function.
LEMMA PeriodicMoves ==
    ASSUME TypeOK, NEW w \in Workers, PeriodicStep(w)
    PROVE  Moves(w)
<1> DEFINE t == Top(w)
<1>1. ASSUME NEW sync \in BOOLEAN, NEW todo \in SUBSET Accounts,
             t.op # "deleteNkeys"
      PROVE  periodicAccounts(sync, todo) \in Seq(Callable(t))
  <2>1. [op |-> "periodicAccount", sync |-> sync, todo |-> todo] \in Callable(t)
    BY <1>1, AccountCallsMade, HarmlessMayCall DEF HarmlessCalls, Fills, Leads
  <2> QED
    BY <2>1, ShortSeq DEF periodicAccounts
<1>2. CASE PeriodicFunc(w)
  <2>1. t.op = "periodicFunc"
    BY <1>2, RunningTyped DEF PeriodicFunc
  <2>2. periodicAccounts(opIssue.sync # "off", AccountList) \in Seq(Callable(t))
    BY <1>1, <2>1 DEF AccountList
  <2> QED
    BY <1>2, <2>2, ShortSeq DEF Moves, PeriodicFunc
<1>3. CASE PeriodicAccount(w)
  <2>1. /\ t.op = "periodicAccount"
        /\ t.sync \in BOOLEAN /\ t.todo \in SUBSET Accounts
    BY <1>3, RunningTyped, OperatorCallFields DEF PeriodicAccount
  <2>2. PICK a \in t.todo :
          Do(w, <<[op |-> "periodicRefreshAccountIssues"]>> \o Catch
                \o <<[op |-> "periodicRefreshUserIssues", acc |-> a]>> \o Catch
                \o (IF t.sync THEN <<[op |-> "periodicSync", acc |-> a]>>
                    ELSE <<>>)
                \o periodicAccounts(t.sync, t.todo \ {a}))
    BY <1>3 DEF PeriodicAccount
  <2>3. /\ [op |-> "catch"] \in Call
        /\ [op |-> "periodicRefreshAccountIssues"] \in Call
        /\ [op |-> "periodicRefreshUserIssues", acc |-> a] \in Call
        /\ [op |-> "periodicSync", acc |-> a] \in Call
    BY <2>1, OperatorCallsMade, AccountCallsMade DEF PlainCalls, AccNameCalls
  <2>4. /\ [op |-> "catch"] \in Callable(t)
        /\ [op |-> "periodicRefreshAccountIssues"] \in Callable(t)
        /\ [op |-> "periodicRefreshUserIssues", acc |-> a] \in Callable(t)
        /\ [op |-> "periodicSync", acc |-> a] \in Callable(t)
    BY <2>1, <2>3, HarmlessMayCall DEF HarmlessCalls, Fills, Leads
  <2>5. Catch \in Seq(Callable(t))
    BY <2>4, ShortSeq DEF Catch
  <2>6. periodicAccounts(t.sync, t.todo \ {a}) \in Seq(Callable(t))
    BY <1>1, <2>1
  <2> QED
    BY <2>2, <2>4, <2>5, <2>6, ShortSeq DEF Moves
<1>4. ASSUME t.op \in {"periodicRefreshAccountIssues", "periodicEachAccount"},
             NEW todo \in SUBSET Accounts,
             \A a \in todo : accIssue[a] # None
                             \/ (t.op = "periodicEachAccount" /\ a \in t.todo)
      PROVE  Each("periodicEachAccount", todo) \in Seq(Callable(t))
  <2> DEFINE c == [op |-> "periodicEachAccount", todo |-> todo]
  <2>1. c \in Call
    BY AccountCallsMade DEF AccLoopCalls
  <2>2. c \in Callable(t)
    BY <1>4, <2>1
       DEF Callable, MayCall, Rootless, Leads, Shaped,
           ErasesIssue, ErasesUser, Creates, Depends, Saves, Undoes, Syncs,
           Fills, Founds
  <2> QED
    BY <2>2, ShortSeq DEF Each
<1>5. CASE PeriodicRefreshAccountIssues(w)
  <2>1. t.op = "periodicRefreshAccountIssues"
    BY <1>5, RunningTyped DEF PeriodicRefreshAccountIssues
  <2>2. Each("periodicEachAccount", AccountList) \in Seq(Callable(t))
    BY <1>4, <2>1 DEF AccountList
  <2> QED
    BY <1>5, <2>2 DEF Moves, PeriodicRefreshAccountIssues
<1>6. CASE PeriodicEachAccount(w)
  <2>1. t.op = "periodicEachAccount" /\ t.todo \in SUBSET Accounts
    BY <1>6, RunningTyped, AccountCallFields
       DEF PeriodicEachAccount, AccLoopCalls
  <2>2. PICK a \in t.todo :
           \/ Panic
           \/ /\ accIssue[a] # None
              /\ \/ Do(w, Each("periodicEachAccount", t.todo \ {a}))
                 \/ Do(w, refreshAccount(a, accIssue[a])
                          \o Each("periodicEachAccount", t.todo \ {a}))
    BY <1>6 DEF PeriodicEachAccount
  <2>3. accIssue[a] # None => accIssue[a] \in AccIssue
    BY <2>1 DEF TypeOK, StorageOK
  <2>4. ~ErasesIssue(t)
    BY <2>1 DEF ErasesIssue, Syncs
  <2>5. /\ accIssue[a] # None =>
              refreshAccount(a, accIssue[a]) \in Seq(Callable(t))
        /\ Each("periodicEachAccount", t.todo \ {a}) \in Seq(Callable(t))
    BY <1>4, <2>1, <2>3, <2>4, RefreshAccountMayCall DEF Leads
  <2> QED
    BY <2>2, <2>5, ShortSeq DEF Moves
<1>7. ASSUME t.op \in {"periodicRefreshUserIssues", "periodicEachUser"},
             t.acc \in Accounts, NEW todo \in SUBSET Users,
             \A u \in todo : userIssue[t.acc][u] # None
                             \/ (t.op = "periodicEachUser" /\ u \in t.todo)
      PROVE  periodicEachUser(t.acc, todo) \in Seq(Callable(t))
  <2> DEFINE c == [op |-> "periodicEachUser", acc |-> t.acc, todo |-> todo]
  <2>1. c \in Call
    BY <1>7, UserCallsMade DEF UserLoopCalls
  <2>2. c \in Callable(t)
    BY <1>7, <2>1
       DEF Callable, MayCall, Rootless, Leads, Shaped,
           ErasesIssue, ErasesUser, Creates, Depends, Saves, Undoes, Syncs,
           Fills, Founds
  <2> QED
    BY <2>2, ShortSeq DEF periodicEachUser
<1>8. CASE PeriodicRefreshUserIssues(w)
  <2>1. t.op = "periodicRefreshUserIssues" /\ t.acc \in Accounts
    BY <1>8, RunningTyped, AccountCallFields
       DEF PeriodicRefreshUserIssues, AccNameCalls
  <2>2. periodicEachUser(t.acc, UserList(t.acc)) \in Seq(Callable(t))
    BY <1>7, <2>1 DEF UserList
  <2> QED
    BY <1>8, <2>2 DEF Moves, PeriodicRefreshUserIssues
<1>9. CASE PeriodicEachUser(w)
  <2>1. /\ t.op = "periodicEachUser"
        /\ t.acc \in Accounts /\ t.todo \in SUBSET Users
    BY <1>9, RunningTyped, UserCallFields DEF PeriodicEachUser, UserLoopCalls
  <2>2. PICK u \in t.todo :
           \/ Panic
           \/ /\ userIssue[t.acc][u] # None
              /\ \/ Do(w, periodicEachUser(t.acc, t.todo \ {u}))
                 \/ Do(w, refreshUser(t.acc, u, userIssue[t.acc][u])
                          \o periodicEachUser(t.acc, t.todo \ {u}))
    BY <1>9 DEF PeriodicEachUser
  <2>3. userIssue[t.acc][u] # None => userIssue[t.acc][u] \in UserIssue
    BY <2>1 DEF TypeOK, StorageOK
  <2>4. /\ userIssue[t.acc][u] # None =>
              refreshUser(t.acc, u, userIssue[t.acc][u]) \in Seq(Callable(t))
        /\ periodicEachUser(t.acc, t.todo \ {u}) \in Seq(Callable(t))
    BY <1>7, <2>1, <2>3, RefreshUserMayCall
  <2> QED
    BY <2>2, <2>4, ShortSeq DEF Moves
<1>10. CASE PeriodicSync(w)
  <2>1. t.op = "periodicSync" /\ t.acc \in Accounts
    BY <1>10, RunningTyped, AccountCallFields DEF PeriodicSync, AccNameCalls
  <2> DEFINE c == [op |-> "refreshAccountResolver", acc |-> t.acc,
                   iss |-> accIssue[t.acc], mode |-> "periodic"]
  <2>2. accIssue[t.acc] # None => c \in Call
    BY <2>1, ServerCallsMade DEF Resolvable, ResolverModes, TypeOK, StorageOK
  <2>3. accIssue[t.acc] # None => c \in Callable(t)
    BY <2>1, <2>2
       DEF Callable, MayCall, Rootless, Leads, Shaped,
           ErasesIssue, ErasesUser, Creates, Depends, Saves, SameFlags, Undoes, Syncs,
           Fills, Founds
  <2> QED
    BY <1>10, <2>3, ShortSeq DEF Moves, PeriodicSync, accountResolver
<1> QED
  BY <1>2, <1>3, <1>5, <1>6, <1>8, <1>9, <1>10 DEF PeriodicStep

\* Every step of a worker makes only calls that its first call may make.
LEMMA StepMoves ==
    ASSUME TypeOK, NEW w \in Workers, Step(w), Shaped(Top(w))
    PROVE  Moves(w)
<1>1. CASE LeaveCatch(w) \/ Respond(w)
  BY <1>1, ShortSeq DEF LeaveCatch, Respond, Moves
<1> QED
  BY <1>1, NkeyMoves, UserMoves, ServerMoves, AccountMoves, OperatorMoves,
     PeriodicMoves DEF Step
=============================================================================
