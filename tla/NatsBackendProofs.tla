------------------------- MODULE NatsBackendProofs -------------------------
(***************************************************************************)
(* Type correctness of NatsBackend, for any workers, names, requests and   *)
(* bounds: Spec => []TypeOK.                                               *)
(*                                                                         *)
(* What is to prove is that every handler is called with what it expects:  *)
(* a call on an agenda was put there by some earlier step, from the call   *)
(* it replaced and from storage.  So each action's lemma says what it      *)
(* leaves in storage and that it either fails or puts well-typed calls in  *)
(* place of the first one.  The calls of almost all actions are "quiet":   *)
(* none of them deletes the nkey of a user.                                *)
(***************************************************************************)
EXTENDS NatsProperties, SequenceTheorems, TLAPS

Quiet == {c \in Call : c.op # "deleteUserNkey"}

\* the first call of w fails or is replaced by quiet ones
Calm(w) == Fail(w) \/ \E n \in Seq(Quiet) : Do(w, n)

-----------------------------------------------------------------------------
(* Calls.                                                                  *)

\* what refreshAccountResolver is called with
Resolvable(i, mode) == \/ i \in AccIssue /\ mode \in ResolverModes
                       \/ i = None /\ mode = "discard"

\* Calls about the operator.
LEMMA OperatorCallsMade ==
    /\ \A i \in OpIssue, op \in OpCalls : [op |-> op, iss |-> i] \in Call
    /\ \A op \in PlainCalls : [op |-> op] \in Call
    /\ \A i \in OpIssue, ps \in SUBSET Path, b \in BOOLEAN :
          [op |-> "issueOperatorNkeys", iss |-> i, todo |-> ps, fresh |-> b]
             \in Call
    /\ \A i \in OpIssue : [op |-> "addOperatorIssue", par |-> i] \in Call
    /\ \A t \in OpToken : [op |-> "addOperatorJWT", tok |-> t] \in Call
BY DEF Call, InnerCall, OpCalls, PlainCalls, Request, IssueOperatorRequest,
       OperatorJWTRequest

\* Calls about accounts.
LEMMA AccountCallsMade ==
    /\ \A a \in Accounts, op \in AccNameCalls : [op |-> op, acc |-> a] \in Call
    /\ \A a \in Accounts, i \in AccIssue, op \in AccIssueCalls :
          [op |-> op, acc |-> a, iss |-> i] \in Call
    /\ \A a \in Accounts, i \in AccIssue, ps \in SUBSET Path,
          b \in BOOLEAN, d \in BOOLEAN :
          [op |-> "issueAccountNKeys", acc |-> a, iss |-> i, todo |-> ps,
           users |-> b, operator |-> d] \in Call
    /\ \A op \in AccLoopCalls, todo \in SUBSET Accounts :
          [op |-> op, todo |-> todo] \in Call
    /\ \A b \in BOOLEAN, todo \in SUBSET Accounts :
          [op |-> "periodicAccount", sync |-> b, todo |-> todo] \in Call
    /\ \A a \in Accounts, par \in AccPar :
          [op |-> "addAccountIssue", acc |-> a, par |-> par] \in Call
    /\ \A a \in Accounts, t \in AccToken :
          [op |-> "addAccountJWT", acc |-> a, tok |-> t] \in Call
<1>1. /\ [op : AccNameCalls, acc : Accounts] \subseteq Call
      /\ [op : AccIssueCalls, acc : Accounts, iss : AccIssue] \subseteq Call
      /\ [op : {"issueAccountNKeys"}, acc : Accounts, iss : AccIssue,
          todo : SUBSET Path, users : BOOLEAN, operator : BOOLEAN]
            \subseteq Call
      /\ [op : AccLoopCalls, todo : SUBSET Accounts] \subseteq Call
      /\ [op : {"periodicAccount"}, sync : BOOLEAN, todo : SUBSET Accounts]
            \subseteq Call
      /\ [op : {"addAccountIssue"}, acc : Accounts, par : AccPar] \subseteq Call
      /\ [op : {"addAccountJWT"}, acc : Accounts, tok : AccToken] \subseteq Call
  BY DEF Call, InnerCall, AccNameCalls, Request, IssueAccountRequest,
         AccountJWTRequest
<1> QED
  BY <1>1

\* Calls about users.
LEMMA UserCallsMade ==
    ASSUME NEW a \in Accounts
    PROVE  /\ \A op \in UserLoopCalls, todo \in SUBSET Users :
                 [op |-> op, acc |-> a, todo |-> todo] \in Call
           /\ \A op \in UserNameCalls, u \in Users :
                 [op |-> op, acc |-> a, user |-> u] \in Call
           /\ \A u \in Users, i \in UserIssue :
                 [op |-> "storeUserIssueUpdate", acc |-> a, user |-> u,
                  iss |-> i] \in Call
           /\ \A u \in Users, key \in Key \cup {None} :
                 [op |-> "deleteUserNkey", acc |-> a, user |-> u, key |-> key]
                    \in Call
           /\ \A u \in Users, use \in AccKeys \cup {None} :
                 [op |-> "generateUserJWT", acc |-> a, user |-> u, use |-> use]
                    \in Call
           /\ \A u \in Users, t \in UserToken :
                 [op |-> "formatUserConfig", acc |-> a, user |-> u, tok |-> t]
                    \in Call
           /\ \A t \in UserToken, key \in Key :
                 [op |-> "creds", acc |-> a, tok |-> t, seed |-> key] \in Call
           /\ \A u \in Users, par \in UserPar :
                 [op |-> "addUserIssue", acc |-> a, user |-> u, par |-> par]
                    \in Call
BY DEF Call, InnerCall, UserLoopCalls, UserNameCalls, Request, IssueUserRequest

\* Calls about nkeys.
LEMMA NkeyCallsMade ==
    /\ \A p \in Path, b \in BOOLEAN :
          [op |-> "addNkey", path |-> p, seed |-> b] \in Call
    /\ \A ps \in SUBSET Path : [op |-> "deleteNkeys", paths |-> ps] \in Call
    /\ \A p \in Path, g \in Nat :
          [op |-> "putNkey", path |-> p, gen |-> g] \in Call
    /\ \A p \in Path : [op |-> "ensureIssue", path |-> p] \in Call
BY DEF Call, InnerCall, Request, NkeyRequest

\* Calls about the account server.
LEMMA ServerCallsMade ==
    ASSUME NEW a \in Accounts, NEW i, NEW mode, Resolvable(i, mode)
    PROVE  /\ [op |-> "refreshAccountResolver", acc |-> a, iss |-> i,
               mode |-> mode] \in Call
           /\ \A t \in AccToken :
                 /\ [op |-> "pushAccount", acc |-> a, iss |-> i,
                     mode |-> mode, tok |-> t] \in Call
                 /\ mode # "discard" =>
                       [op |-> "deleteAccounts", acc |-> a, iss |-> i,
                        mode |-> mode, tok |-> t] \in Call
BY DEF Resolvable, Call, InnerCall

-----------------------------------------------------------------------------
(* Agendas.                                                                *)

\* Quiet calls are calls.
LEMMA QuietIsCall == Seq(Quiet) \subseteq Seq(Call)
BY DEF Quiet

\* The first call of a worker is a call.
LEMMA TopTyped ==
    ASSUME AgendaOK, NEW w \in Workers, agenda[w] # <<>>
    PROVE  Top(w) \in Call
BY HeadTailProperties DEF AgendaOK, Top

\* Putting calls in place of the first one keeps agendas well-typed.
LEMMA DoTyped ==
    ASSUME AgendaOK, NEW w \in Workers, agenda[w] # <<>>,
           NEW n \in Seq(Call), Do(w, n)
    PROVE  AgendaOK'
<1>1. Tail(agenda[w]) \in Seq(Call)
  BY HeadTailProperties DEF AgendaOK
<1>2. n \o Tail(agenda[w]) \in Seq(Call)
  BY <1>1, ConcatProperties
<1> QED
  BY <1>2 DEF Do, AgendaOK

\* What an error leaves is an end of the agenda, or nothing.
LEMMA UnwindEnd ==
    ASSUME NEW s \in Seq(Call)
    PROVE  \/ Unwind(s) = <<>>
           \/ \E f \in 1..Len(s) : /\ s[f].op = "catch"
                                   /\ Unwind(s) = SubSeq(s, f + 1, Len(s))
BY DEF Unwind

\* What an error leaves is an agenda.
LEMMA UnwindTyped ==
    ASSUME NEW s \in Seq(Call)
    PROVE  Unwind(s) \in Seq(Call)
<1>1. ASSUME NEW f \in 1..Len(s)
      PROVE  SubSeq(s, f + 1, Len(s)) \in Seq(Call)
  <2>1. \A k \in (f + 1)..Len(s) : s[k] \in Call
    BY ElementOfSeq
  <2> QED
    BY <2>1, SubSeqProperties
<1>2. <<>> \in Seq(Call)
  OBVIOUS
<1> QED
  BY <1>1, <1>2, UnwindEnd

\* An error keeps agendas well-typed.
LEMMA FailTyped ==
    ASSUME AgendaOK, NEW w \in Workers, Fail(w)
    PROVE  AgendaOK'
<1>1. Unwind(agenda[w]) \in Seq(Call)
  BY UnwindTyped DEF AgendaOK
<1> QED
  BY <1>1 DEF Fail, AgendaOK

\* So does every calm step.
LEMMA CalmTyped ==
    ASSUME AgendaOK, NEW w \in Workers, agenda[w] # <<>>, Calm(w)
    PROVE  AgendaOK'
BY FailTyped, DoTyped, QuietIsCall DEF Calm

-----------------------------------------------------------------------------
(* Storage paths and entries.                                              *)

\* The helpers that name storage paths name paths.
LEMMA PathTyped ==
    /\ OpPath \in Path
    /\ \A k \in OpKeys : OpSigning(k) \in Path
    /\ \A a \in Accounts : AccPath(a) \in Path
    /\ \A a \in Accounts, s \in AccKeys : AccSigning(a, s) \in Path
    /\ \A a \in Accounts, u \in Users : UserPath(a, u) \in Path
BY DEF Path, OpPath, OpSigning, AccPath, AccSigning, UserPath

\* The paths of declared signing keys are paths.
LEMMA PathsTyped ==
    /\ \A ks \in SUBSET OpKeys : OpSignings(ks) \in SUBSET Path
    /\ \A a \in Accounts, ss \in SUBSET AccKeys :
          AccSignings(a, ss) \in SUBSET Path
BY PathTyped DEF OpSignings, AccSignings

\* The public key of a path is a key.
LEMMA PubTyped ==
    ASSUME StorageOK
    PROVE  /\ \A p \in Path : Pub(p) \in Key
           /\ \A ps \in SUBSET Path : Pubs(ps) \in SUBSET Key
BY DEF StorageOK, Pub, Pubs, Key

\* The parameters of issues made without any.
LEMMA DefaultsTyped == DefaultOp \in OpIssue /\ DefaultAcc \in AccPar
                       /\ DefaultUser \in UserPar
BY NamesAssumption
   DEF DefaultOp, DefaultAcc, DefaultUser, OpIssue, AccPar, UserPar
-----------------------------------------------------------------------------
(* The arguments of a call, by its name.                                   *)

\* Calls about the operator, and the loop of the periodic function.
LEMMA OperatorCallFields ==
    ASSUME NEW c \in Call
    PROVE  /\ c.op = "addOperatorIssue" => c.par \in OpIssue
           /\ c.op \in OpCalls => c.iss \in OpIssue
           /\ c.op = "issueOperatorNkeys" =>
                 /\ c.iss \in OpIssue /\ c.todo \in SUBSET Path
                 /\ c = [op |-> c.op, iss |-> c.iss, todo |-> c.todo,
                         fresh |-> c.fresh]
                 /\ c.fresh \in BOOLEAN
           /\ c.op = "addOperatorJWT" => c.tok \in OpToken
           /\ c.op = "periodicAccount" =>
                 c.sync \in BOOLEAN /\ c.todo \in SUBSET Accounts
BY DEF Call, Request,
         IssueOperatorRequest, IssueAccountRequest,
         IssueUserRequest, UserCredsRequest, NkeyRequest, OperatorJWTRequest,
         AccountJWTRequest, InnerCall, Reply, OpCalls, PlainCalls, AccNameCalls,
       AccIssueCalls, AccLoopCalls, UserLoopCalls, UserNameCalls

\* Calls about an account.
LEMMA AccountCallFields ==
    ASSUME NEW c \in Call
    PROVE  /\ c.op = "addAccountIssue" => c.acc \in Accounts /\ c.par \in AccPar
           /\ c.op \in AccNameCalls => c.acc \in Accounts
           /\ c.op \in AccIssueCalls => c.acc \in Accounts /\ c.iss \in AccIssue
           /\ c.op \in AccLoopCalls => c.todo \in SUBSET Accounts
           /\ c.op = "issueAccountNKeys" =>
                 /\ c.acc \in Accounts /\ c.iss \in AccIssue
                 /\ c.todo \in SUBSET Path
                 /\ c.users \in BOOLEAN /\ c.operator \in BOOLEAN
                 /\ c = [op |-> c.op, acc |-> c.acc, iss |-> c.iss,
                         todo |-> c.todo, users |-> c.users,
                         operator |-> c.operator]
           /\ c.op = "addAccountJWT" => c.acc \in Accounts /\ c.tok \in AccToken
BY DEF Call, Request,
         IssueOperatorRequest, IssueAccountRequest,
         IssueUserRequest, UserCredsRequest, NkeyRequest, OperatorJWTRequest,
         AccountJWTRequest, InnerCall, Reply, OpCalls, PlainCalls, AccNameCalls,
       AccIssueCalls, AccLoopCalls, UserLoopCalls, UserNameCalls

\* Calls about the account server.
LEMMA ServerCallFields ==
    ASSUME NEW c \in Call,
           c.op \in {"refreshAccountResolver", "pushAccount", "deleteAccounts"}
    PROVE  /\ c.acc \in Accounts
           /\ \/ c.iss \in AccIssue /\ c.mode \in ResolverModes
              \/ /\ c.iss = None /\ c.mode = "discard"
                 /\ c.op # "deleteAccounts"
           /\ c.op # "refreshAccountResolver" => c.tok \in AccToken
BY DEF Call, Request,
         IssueOperatorRequest, IssueAccountRequest,
         IssueUserRequest, UserCredsRequest, NkeyRequest, OperatorJWTRequest,
         AccountJWTRequest, InnerCall, Reply, OpCalls, PlainCalls, AccNameCalls,
       AccIssueCalls, AccLoopCalls, UserLoopCalls, UserNameCalls

\* Calls about a user.
LEMMA UserCallFields ==
    ASSUME NEW c \in Call
    PROVE  /\ c.op = "addUserIssue" =>
                 c.acc \in Accounts /\ c.user \in Users /\ c.par \in UserPar
           /\ c.op \in UserNameCalls => c.acc \in Accounts /\ c.user \in Users
           /\ c.op \in UserLoopCalls =>
                 c.acc \in Accounts /\ c.todo \in SUBSET Users
           /\ c.op = "storeUserIssueUpdate" =>
                 c.acc \in Accounts /\ c.user \in Users /\ c.iss \in UserIssue
           /\ c.op = "deleteUserNkey" => c.acc \in Accounts /\ c.user \in Users
           /\ c.op = "generateUserCreds" => c.acc \in Accounts /\ c.user \in Users
           /\ c.op = "generateUserJWT" =>
                 /\ c.acc \in Accounts /\ c.user \in Users
                 /\ c.use \in AccKeys \cup {None}
           /\ c.op = "formatUserConfig" =>
                 c.acc \in Accounts /\ c.user \in Users /\ c.tok \in UserToken
BY DEF Call, Request,
         IssueOperatorRequest, IssueAccountRequest,
         IssueUserRequest, UserCredsRequest, NkeyRequest, OperatorJWTRequest,
         AccountJWTRequest, InnerCall, Reply, OpCalls, PlainCalls, AccNameCalls,
       AccIssueCalls, AccLoopCalls, UserLoopCalls, UserNameCalls

\* Calls about nkeys.
LEMMA NkeyCallFields ==
    ASSUME NEW c \in Call
    PROVE  /\ c.op = "addNkey" => c.path \in Path /\ c.seed \in BOOLEAN
           /\ c.op = "putNkey" => c.path \in Path /\ c.gen \in Nat
           /\ c.op = "ensureIssue" => c.path \in Path
           /\ c.op = "deleteNkeys" => c.paths \in SUBSET Path
BY DEF Call, Request,
         IssueOperatorRequest, IssueAccountRequest,
         IssueUserRequest, UserCredsRequest, NkeyRequest, OperatorJWTRequest,
         AccountJWTRequest, InnerCall, Reply, OpCalls, PlainCalls, AccNameCalls,
       AccIssueCalls, AccLoopCalls, UserLoopCalls, UserNameCalls
-----------------------------------------------------------------------------
(* Steps.  For every action: what it leaves in storage, and that it is     *)
(* calm.                                                                   *)

\* A running call is the first one of its agenda.
LEMMA RunningTyped ==
    ASSUME TypeOK, NEW w \in Workers, NEW op, Running(w, op)
    PROVE  agenda[w] # <<>> /\ Top(w) \in Call /\ Top(w).op = op
BY TopTyped DEF TypeOK, Running, Top

\* a list of at most three quiet calls
LEMMA QuietSeq ==
    /\ <<>> \in Seq(Quiet)
    /\ \A c \in Quiet : <<c>> \in Seq(Quiet)
    /\ \A c, d \in Quiet : <<c, d>> \in Seq(Quiet)
    /\ \A c, d, e \in Quiet : <<c, d, e>> \in Seq(Quiet)
    /\ \A s, t \in Seq(Quiet) : s \o t \in Seq(Quiet)
BY ConcatProperties

\* the helpers that make calls
LEMMA NkeyCallsQuiet ==
    /\ \A p \in Path, b \in BOOLEAN : addNkey(p, b) \in Seq(Quiet)
    /\ \A ps \in SUBSET Path : deleteNkeys(ps) \in Seq(Quiet)
    /\ \A p \in Path : addDefaultIssue(p) \in Seq(Quiet)
    /\ Catch \in Seq(Quiet)
<1>1. \A p \in Path, b \in BOOLEAN : addNkey(p, b) \in Seq(Quiet)
  BY QuietSeq DEF addNkey, Quiet, Call, Request,
         IssueOperatorRequest, IssueAccountRequest,
         IssueUserRequest, UserCredsRequest, NkeyRequest, OperatorJWTRequest,
         AccountJWTRequest
<1>2. \A ps \in SUBSET Path : deleteNkeys(ps) \in Seq(Quiet)
  BY QuietSeq DEF deleteNkeys, Quiet, Call, Request,
         IssueOperatorRequest, IssueAccountRequest,
         IssueUserRequest, UserCredsRequest, NkeyRequest, OperatorJWTRequest,
         AccountJWTRequest
<1>3. Catch \in Seq(Quiet)
  BY QuietSeq DEF Catch, Quiet, Call, InnerCall, PlainCalls
<1>4. ASSUME NEW p \in Path
      PROVE  addDefaultIssue(p) \in Seq(Quiet)
  <2>1. CASE p[1] = "operator"
    BY <2>1, QuietSeq, DefaultsTyped DEF addDefaultIssue, Quiet, Call, Request,
         IssueOperatorRequest, IssueAccountRequest,
         IssueUserRequest, UserCredsRequest, NkeyRequest, OperatorJWTRequest,
         AccountJWTRequest
  <2>2. CASE p[1] = "account"
    <3>1. p[2] \in Accounts
      BY <2>2 DEF Path
    <3> QED
      BY <2>2, <3>1, QuietSeq, DefaultsTyped
         DEF addDefaultIssue, Quiet, Call, Request,
         IssueOperatorRequest, IssueAccountRequest,
         IssueUserRequest, UserCredsRequest, NkeyRequest, OperatorJWTRequest,
         AccountJWTRequest
  <2>3. CASE p[1] = "user"
    <3>1. p[2] \in Accounts /\ p[3] \in Users
      BY <2>3 DEF Path
    <3> QED
      BY <2>3, <3>1, QuietSeq, DefaultsTyped
         DEF addDefaultIssue, Quiet, Call, Request,
         IssueOperatorRequest, IssueAccountRequest,
         IssueUserRequest, UserCredsRequest, NkeyRequest, OperatorJWTRequest,
         AccountJWTRequest
  <2>4. p[1] \in {"operator", "account", "user"}
    BY DEF Path
  <2> QED
    BY <2>1, <2>2, <2>3, <2>4
<1> QED
  BY <1>1, <1>2, <1>3, <1>4

\* Nkeys: every action is calm.
LEMMA NkeyStepCalm ==
    ASSUME TypeOK, NEW w \in Workers, NkeyStep(w)
    PROVE  StorageOK' /\ WorldOK' /\ Calm(w)
<1> DEFINE t == Top(w)
<1> USE DEF issues, tokens, seeds, world
<1>1. CASE AddNkey(w)
  <2>1. t.path \in Path /\ minted[t.path] \in Nat /\ nkey[t.path] \in Nat
    BY <1>1, RunningTyped, NkeyCallFields DEF AddNkey, TypeOK, StorageOK
  <2>2. \A n \in Nat : <<[op |-> "putNkey", path |-> t.path, gen |-> n]>>
                          \in Seq(Quiet)
    BY <2>1, QuietSeq DEF Quiet, Call, InnerCall
  <2>3. PICK n \in Nat :
               Do(w, <<[op |-> "putNkey", path |-> t.path, gen |-> n]>>)
    BY <1>1, <2>1 DEF AddNkey
  <2>4. Calm(w)
    BY <2>2, <2>3 DEF Calm
  <2>5. minted' \in [Path -> Nat]
    BY <1>1, <2>1 DEF AddNkey, TypeOK, StorageOK
  <2> QED
    BY <1>1, <2>4, <2>5 DEF AddNkey, TypeOK, StorageOK, WorldOK
<1>2. CASE PutNkey(w)
  <2>1. t.path \in Path /\ t.gen \in Nat
    BY <1>2, RunningTyped, NkeyCallFields DEF PutNkey
  <2>2. <<[op |-> "ensureIssue", path |-> t.path]>> \in Seq(Quiet)
    BY <2>1, QuietSeq DEF Quiet, Call, InnerCall
  <2> QED
    BY <1>2, <2>1, <2>2 DEF PutNkey, TypeOK, StorageOK, WorldOK, Calm
<1>3. CASE EnsureIssue(w)
  <2>1. t.path \in Path
    BY <1>3, RunningTyped, NkeyCallFields DEF EnsureIssue
  <2>2. addDefaultIssue(t.path) \o Catch \in Seq(Quiet)
    BY <2>1, NkeyCallsQuiet, QuietSeq
  <2>3. Calm(w)
    BY <1>3, <2>2, QuietSeq DEF EnsureIssue, Calm
  <2> QED
    BY <1>3, <2>3 DEF EnsureIssue, TypeOK, StorageOK, WorldOK
<1>4. CASE DeleteNkeys(w)
  <2>1. t.paths \in SUBSET Path
    BY <1>4, RunningTyped, NkeyCallFields DEF DeleteNkeys
  <2>2. PICK p \in t.paths : /\ nkey' = [nkey EXCEPT ![p] = 0]
                             /\ Do(w, deleteNkeys(t.paths \ {p}))
    BY <1>4 DEF DeleteNkeys
  <2>3. deleteNkeys(t.paths \ {p}) \in Seq(Quiet)
    BY <2>1, NkeyCallsQuiet
  <2> QED
    BY <1>4, <2>1, <2>2, <2>3
       DEF DeleteNkeys, TypeOK, StorageOK, WorldOK, Calm
<1>5. CASE AddOperatorJWT(w)
  <2>1. t.tok \in OpToken
    BY <1>5, RunningTyped, OperatorCallFields DEF AddOperatorJWT
  <2>2. <<[op |-> "ensureIssue", path |-> OpPath]>> \in Seq(Quiet)
    BY PathTyped, QuietSeq DEF Quiet, Call, InnerCall
  <2> QED
    BY <1>5, <2>1, <2>2 DEF AddOperatorJWT, TypeOK, StorageOK, WorldOK, Calm
<1>6. CASE AddAccountJWT(w)
  <2>1. t.acc \in Accounts /\ t.tok \in AccToken
    BY <1>6, RunningTyped, AccountCallFields DEF AddAccountJWT
  <2>2. <<[op |-> "ensureIssue", path |-> AccPath(t.acc)]>> \in Seq(Quiet)
    BY <2>1, PathTyped, QuietSeq DEF Quiet, Call, InnerCall
  <2>3. t.tok.revs \in SUBSET Key
    BY <2>1 DEF AccToken
  <2> QED
    BY <1>6, <2>1, <2>2, <2>3
       DEF AddAccountJWT, TypeOK, StorageOK, WorldOK, Calm
<1>7. CASE DeleteOperatorJWT(w)
  BY <1>7, QuietSeq DEF DeleteOperatorJWT, TypeOK, StorageOK, WorldOK, Calm
<1>8. CASE DeleteAccountJWT(w)
  <2>1. t.acc \in Accounts
    BY <1>8, RunningTyped, AccountCallFields DEF DeleteAccountJWT, AccNameCalls
  <2> QED
    BY <1>8, <2>1, QuietSeq
       DEF DeleteAccountJWT, TypeOK, StorageOK, WorldOK, Calm
<1> QED
  BY <1>1, <1>2, <1>3, <1>4, <1>5, <1>6, <1>7, <1>8 DEF NkeyStep

-----------------------------------------------------------------------------
\* The calls that refresh users are quiet.
LEMMA UserCallsQuiet ==
    ASSUME NEW a \in Accounts, NEW u \in Users
    PROVE  /\ \A i \in UserIssue : refreshUser(a, u, i) \in Seq(Quiet)
           /\ \A todo \in SUBSET Users :
                 /\ updateEachUser(a, todo) \in Seq(Quiet)
                 /\ periodicEachUser(a, todo) \in Seq(Quiet)
<1>1. ASSUME NEW i \in UserIssue
      PROVE  refreshUser(a, u, i) \in Seq(Quiet)
  BY QuietSeq DEF refreshUser, Quiet, Call, InnerCall, UserNameCalls
<1>2. ASSUME NEW todo \in SUBSET Users
      PROVE  /\ updateEachUser(a, todo) \in Seq(Quiet)
             /\ periodicEachUser(a, todo) \in Seq(Quiet)
  <2>1. \A op \in UserLoopCalls : [op |-> op, acc |-> a, todo |-> todo] \in Quiet
    BY UserCallsMade DEF Quiet, UserLoopCalls
  <2> QED
    BY <2>1, QuietSeq DEF updateEachUser, periodicEachUser, UserLoopCalls
<1> QED
  BY <1>1, <1>2

\* The JWT generateUserJWT makes.
LEMMA UserJWTTyped ==
    ASSUME StorageOK, NEW a \in Accounts, NEW u \in Users,
           NEW use \in AccKeys \cup {None}
    PROVE  UserJWT(a, u, use) \in UserToken
<1>1. /\ Pub(UserPath(a, u)) \in Key /\ Pub(AccPath(a)) \in Key
      /\ use # None => Pub(AccSigning(a, use)) \in Key
  BY PathTyped, PubTyped
<1> QED
  BY <1>1 DEF UserJWT, UserToken

\* The status of a user is stored, whatever it is.
LEMMA UserStatusCalm ==
    ASSUME TypeOK, NEW w \in Workers, NEW found \in BOOLEAN,
           storeUserStatus(w, found)
    PROVE  /\ userIssue' \in [Accounts -> [Users -> UserIssue \cup {None}]]
           /\ Calm(w)
<1> DEFINE t == Top(w)
           i == [t.iss EXCEPT !.nkey = found]
<1>1. t.acc \in Accounts /\ t.user \in Users /\ t.iss \in UserIssue
  BY RunningTyped, UserCallFields DEF storeUserStatus
<1>2. i \in UserIssue
  BY <1>1 DEF UserIssue
<1>3. <<[op |-> "refreshPushUser"]>> \in Seq(Quiet)
  BY QuietSeq DEF Quiet, Call, InnerCall, PlainCalls
<1>4. userIssue' = [userIssue EXCEPT ![t.acc][t.user] = i]
  BY DEF storeUserStatus
<1>5. userIssue' \in [Accounts -> [Users -> UserIssue \cup {None}]]
  BY <1>1, <1>2, <1>4 DEF TypeOK, StorageOK
<1>6. Calm(w)
  BY <1>3, QuietSeq DEF storeUserStatus, Calm
<1> QED
  BY <1>5, <1>6

\* UserIssues: every action is calm.
LEMMA UserStepCalm ==
    ASSUME TypeOK, NEW w \in Workers, UserStep(w)
    PROVE  StorageOK' /\ WorldOK' /\ Calm(w)
<1> DEFINE t == Top(w)
<1> USE DEF issues, tokens, seeds, world
<1>1. CASE AddUserIssue(w)
  <2>1. t.acc \in Accounts /\ t.user \in Users /\ t.par \in UserPar
    BY <1>1, RunningTyped, UserCallFields DEF AddUserIssue
  <2> DEFINE i == [par  |-> t.par,
                   nkey |-> userIssue[t.acc][t.user] # None
                            /\ userIssue[t.acc][t.user].nkey]
  <2>2. i.nkey \in BOOLEAN
    BY <2>1 DEF TypeOK, StorageOK, UserIssue
  <2>3. i \in UserIssue
    BY <2>1, <2>2 DEF UserIssue
  <2>4. refreshUser(t.acc, t.user, i) \in Seq(Quiet)
    BY <2>1, <2>3, UserCallsQuiet
  <2>5. /\ userIssue' = [userIssue EXCEPT ![t.acc][t.user] = i]
        /\ Do(w, refreshUser(t.acc, t.user, i))
    BY <1>1 DEF AddUserIssue
  <2>6. Calm(w)
    BY <2>4, <2>5 DEF Calm
  <2>7. userIssue' \in [Accounts -> [Users -> UserIssue \cup {None}]]
    BY <2>1, <2>3, <2>5 DEF TypeOK, StorageOK
  <2> QED
    BY <1>1, <2>6, <2>7 DEF AddUserIssue, TypeOK, StorageOK, WorldOK
<1>2. CASE IssueUserNKeys(w)
  <2>1. t.acc \in Accounts /\ t.user \in Users
    BY <1>2, RunningTyped, UserCallFields DEF IssueUserNKeys, UserNameCalls
  <2>2. addNkey(UserPath(t.acc, t.user), FALSE) \in Seq(Quiet)
    BY <2>1, PathTyped, NkeyCallsQuiet
  <2> QED
    BY <1>2, <2>2, QuietSeq
       DEF IssueUserNKeys, TypeOK, StorageOK, WorldOK, Calm, addNkey
<1>3. CASE StoreUserIssueUpdate(w)
  <2>1. userIssue' \in [Accounts -> [Users -> UserIssue \cup {None}]] /\ Calm(w)
    BY <1>3, UserStatusCalm DEF StoreUserIssueUpdate, Stored
  <2> QED
    BY <1>3, <2>1
       DEF StoreUserIssueUpdate, storeUserStatus, TypeOK, StorageOK, WorldOK
<1>4. CASE RefreshPushUser(w)
  <2>1. opIssue # None =>
           <<[op |-> "refreshAccountResolvers", iss |-> opIssue]>> \in Seq(Quiet)
    BY QuietSeq DEF TypeOK, StorageOK, Quiet, Call, InnerCall, OpCalls
  <2> QED
    BY <1>4, <2>1, QuietSeq
       DEF RefreshPushUser, TypeOK, StorageOK, WorldOK, Calm
<1>5. CASE DeleteUserIssue(w)
  <2>1. t.acc \in Accounts /\ t.user \in Users
    BY <1>5, RunningTyped, UserCallFields DEF DeleteUserIssue, UserNameCalls
  <2>2. <<[op |-> "addUserToRevocationList", acc |-> t.acc, user |-> t.user]>>
           \in Seq(Quiet)
    BY <2>1, QuietSeq DEF Quiet, Call, InnerCall, UserNameCalls
  <2> QED
    BY <1>5, <2>2, QuietSeq
       DEF DeleteUserIssue, TypeOK, StorageOK, WorldOK, Calm
<1>6. CASE DeleteUserNkey(w)
  <2>1. t.acc \in Accounts /\ t.user \in Users
    BY <1>6, RunningTyped, UserCallFields DEF DeleteUserNkey
  <2>2. UserPath(t.acc, t.user) \in Path
    BY <2>1, PathTyped
  <2> QED
    BY <1>6, <2>2, QuietSeq
       DEF DeleteUserNkey, TypeOK, StorageOK, WorldOK, Calm
<1>7. CASE DeleteUserTemplate(w)
  <2>1. t.acc \in Accounts /\ t.user \in Users
    BY <1>7, RunningTyped, UserCallFields DEF DeleteUserTemplate, UserNameCalls
  <2>2. userIssue' \in [Accounts -> [Users -> UserIssue \cup {None}]]
    BY <1>7, <2>1 DEF DeleteUserTemplate, TypeOK, StorageOK
  <2> QED
    BY <1>7, <2>2, QuietSeq
       DEF DeleteUserTemplate, TypeOK, StorageOK, WorldOK, Calm
<1>8. CASE GenerateUserCreds(w)
  <2>1. t.acc \in Accounts /\ t.user \in Users
    BY <1>8, RunningTyped, UserCallFields DEF GenerateUserCreds
  <2> DEFINE i == userIssue[t.acc][t.user]
             n == <<[op |-> "generateUserJWT", acc |-> t.acc,
                     user |-> t.user, use |-> i.par.use]>>
  <2>2. i # None => i.par.use \in AccKeys \cup {None}
    BY <2>1 DEF TypeOK, StorageOK, UserIssue, UserPar
  <2>3. i # None => n \in Seq(Quiet)
    BY <2>1, <2>2, UserCallsMade, QuietSeq DEF Quiet
  <2>4. Fail(w) \/ (i # None /\ Do(w, n))
    BY <1>8 DEF GenerateUserCreds
  <2>5. Calm(w)
    BY <2>3, <2>4 DEF Calm
  <2> QED
    BY <1>8, <2>5 DEF GenerateUserCreds, TypeOK, StorageOK, WorldOK
<1>9. CASE GenerateUserJWT(w)
  <2>1. /\ t.acc \in Accounts /\ t.user \in Users
        /\ t.use \in AccKeys \cup {None}
    BY <1>9, RunningTyped, UserCallFields DEF GenerateUserJWT
  <2> DEFINE n == <<[op |-> "formatUserConfig", acc |-> t.acc, user |-> t.user,
                     tok |-> UserJWT(t.acc, t.user, t.use)]>>
  <2>2. n \in Seq(Quiet)
    BY <2>1, UserJWTTyped, QuietSeq DEF TypeOK, Quiet, Call, InnerCall
  <2>3. Fail(w) \/ Do(w, n)
    BY <1>9 DEF GenerateUserJWT
  <2>4. Calm(w)
    BY <2>2, <2>3 DEF Calm
  <2> QED
    BY <1>9, <2>4 DEF GenerateUserJWT, TypeOK, StorageOK, WorldOK
<1>10. CASE FormatUserConfig(w)
  <2>1. t.acc \in Accounts /\ t.user \in Users /\ t.tok \in UserToken
    BY <1>10, RunningTyped, UserCallFields DEF FormatUserConfig
  <2> DEFINE n == <<[op |-> "creds", acc |-> t.acc, tok |-> t.tok,
                     seed |-> Pub(UserPath(t.acc, t.user))]>>
  <2>2. n \in Seq(Quiet)
    BY <2>1, PathTyped, PubTyped, QuietSeq DEF TypeOK, Quiet, Call, InnerCall
  <2>3. Fail(w) \/ Do(w, n)
    BY <1>10 DEF FormatUserConfig
  <2>4. Calm(w)
    BY <2>2, <2>3 DEF Calm
  <2> QED
    BY <1>10, <2>4 DEF FormatUserConfig, TypeOK, StorageOK, WorldOK
<1>11. CASE ReturnCreds(w)
  BY <1>11, QuietSeq DEF ReturnCreds, TypeOK, StorageOK, WorldOK, Calm
<1> QED
  BY <1>1, <1>2, <1>3, <1>4, <1>5, <1>6, <1>7, <1>8, <1>9, <1>10, <1>11
     DEF UserStep

-----------------------------------------------------------------------------
\* The calls of loops over accounts are quiet.
LEMMA EachQuiet ==
    ASSUME NEW op \in AccLoopCalls, NEW todo \in SUBSET Accounts
    PROVE  Each(op, todo) \in Seq(Quiet)
<1>1. [op |-> op, todo |-> todo] \in Quiet
  BY AccountCallsMade DEF Quiet, AccLoopCalls
<1> QED
  BY <1>1, QuietSeq DEF Each

\* The calls before and after the account server is asked are quiet.
LEMMA ServerCallsQuiet ==
    ASSUME NEW a \in Accounts, NEW i, NEW mode, Resolvable(i, mode)
    PROVE  /\ accountResolver(a, i, mode) \in Seq(Quiet)
           /\ AfterSync(a, i, mode) \in Seq(Quiet)
           /\ Resolvable(Marked(i, mode), mode)
<1>1. accountResolver(a, i, mode) \in Seq(Quiet)
  BY QuietSeq DEF accountResolver, Resolvable, Quiet, Call, InnerCall
<1>2. ASSUME i \in AccIssue
      PROVE  eraseAccount(a, i) \in Seq(Quiet)
  <2>1. i.par.signing \in SUBSET AccKeys
    BY <1>2 DEF AccIssue, AccPar
  <2>2. /\ deleteNkeys({AccPath(a)}) \in Seq(Quiet)
        /\ deleteNkeys(AccSignings(a, i.par.signing)) \in Seq(Quiet)
    BY <2>1, PathTyped, PathsTyped, NkeyCallsQuiet
  <2>3. [op |-> "deleteAccountJWT", acc |-> a] \in Quiet
    BY DEF Quiet, Call, InnerCall, AccNameCalls
  <2>4. [op |-> "deleteAccountEntry", acc |-> a] \in Quiet
    BY DEF Quiet, Call, InnerCall, AccNameCalls
  <2> QED
    BY <2>2, <2>3, <2>4, QuietSeq DEF eraseAccount
<1>3. AfterSync(a, i, mode) \in Seq(Quiet)
  <2>1. CASE i = None /\ mode = "discard"
    BY <2>1, QuietSeq DEF AfterSync
  <2>2. CASE i \in AccIssue /\ mode \in ResolverModes
    <3>1. /\ [op |-> "updateAccountStatus", acc |-> a, iss |-> i] \in Quiet
          /\ [op |-> "putAccountIssue", acc |-> a, iss |-> i] \in Quiet
      BY <2>2 DEF Quiet, Call, InnerCall, AccIssueCalls
    <3> QED
      BY <2>2, <3>1, <1>2, QuietSeq DEF AfterSync, ResolverModes
  <2> QED
    BY <2>1, <2>2 DEF Resolvable
<1>4. Resolvable(Marked(i, mode), mode)
  BY DEF Resolvable, Marked, AccIssue, ResolverModes
<1> QED
  BY <1>1, <1>3, <1>4

\* AccountServer: every action is calm.
LEMMA ServerStepCalm ==
    ASSUME TypeOK, NEW w \in Workers, ServerStep(w)
    PROVE  StorageOK' /\ WorldOK' /\ Calm(w)
<1> DEFINE t == Top(w)
<1> USE DEF issues, tokens, seeds, world
<1>1. CASE RefreshAccountResolver(w)
  <2>1. t.acc \in Accounts /\ Resolvable(t.iss, t.mode)
    BY <1>1, RunningTyped, ServerCallFields
       DEF RefreshAccountResolver, Resolvable
  <2> DEFINE n == <<[op |-> IF t.mode = "delete" THEN "deleteAccounts"
                            ELSE "pushAccount",
                     acc |-> t.acc, iss |-> t.iss, mode |-> t.mode,
                     tok |-> accJWT[t.acc]]>>
  <2>2. accJWT[t.acc] # None => accJWT[t.acc] \in AccToken
    BY <2>1 DEF TypeOK, StorageOK
  <2>3. accJWT[t.acc] # None => n \in Seq(Quiet)
    BY <2>1, <2>2, QuietSeq DEF Resolvable, Quiet, Call, InnerCall
  <2>4. \/ Fail(w)
        \/ Do(w, AfterSync(t.acc, t.iss, t.mode))
        \/ accJWT[t.acc] # None /\ Do(w, n)
    BY <1>1 DEF RefreshAccountResolver, SyncWanted
  <2>5. Calm(w)
    BY <2>1, <2>3, <2>4, ServerCallsQuiet DEF Calm
  <2> QED
    BY <1>1, <2>5 DEF RefreshAccountResolver, TypeOK, StorageOK, WorldOK
<1>2. CASE PushAccount(w)
  <2>1. /\ t.acc \in Accounts /\ Resolvable(t.iss, t.mode)
        /\ t.tok \in AccToken
    BY <1>2, RunningTyped, ServerCallFields DEF PushAccount, Resolvable
  <2>2. Calm(w)
    BY <1>2, <2>1, ServerCallsQuiet DEF PushAccount, Calm
  <2>3. server' \in SUBSET AccToken
    BY <1>2, <2>1 DEF PushAccount, Accepted, TypeOK, WorldOK
  <2> QED
    BY <1>2, <2>2, <2>3 DEF PushAccount, TypeOK, StorageOK, WorldOK
<1>3. CASE DeleteAccounts(w)
  <2>1. t.acc \in Accounts /\ Resolvable(t.iss, t.mode)
    BY <1>3, RunningTyped, ServerCallFields DEF DeleteAccounts, Resolvable
  <2>2. Calm(w)
    BY <1>3, <2>1, ServerCallsQuiet DEF DeleteAccounts, Calm
  <2>3. server' \in SUBSET AccToken
    BY <1>3 DEF DeleteAccounts, TypeOK, WorldOK
  <2> QED
    BY <1>3, <2>2, <2>3 DEF DeleteAccounts, TypeOK, StorageOK, WorldOK
<1>4. CASE RefreshAccountResolvers(w)
  <2>1. Each("pushEach", AccountList) \in Seq(Quiet)
    BY EachQuiet DEF AccLoopCalls, AccountList
  <2> QED
    BY <1>4, <2>1, QuietSeq
       DEF RefreshAccountResolvers, TypeOK, StorageOK, WorldOK, Calm
<1>5. CASE PushEach(w)
  <2>1. t.todo \in SUBSET Accounts
    BY <1>5, RunningTyped, AccountCallFields DEF PushEach, AccLoopCalls
  <2>2. PICK a \in t.todo : Do(w, accountResolver(a, None, "discard")
                                   \o Each("pushEach", t.todo \ {a}))
    BY <1>5 DEF PushEach
  <2>3. /\ accountResolver(a, None, "discard") \in Seq(Quiet)
        /\ Each("pushEach", t.todo \ {a}) \in Seq(Quiet)
    BY <2>1, ServerCallsQuiet, EachQuiet DEF Resolvable, AccLoopCalls
  <2>4. Calm(w)
    BY <2>2, <2>3, QuietSeq DEF Calm
  <2> QED
    BY <1>5, <2>4 DEF PushEach, TypeOK, StorageOK, WorldOK
<1> QED
  BY <1>1, <1>2, <1>3, <1>4, <1>5 DEF ServerStep

-----------------------------------------------------------------------------
\* The calls that refresh an account are quiet.
LEMMA AccountCallsQuiet ==
    ASSUME NEW a \in Accounts
    PROVE  /\ \A i \in AccIssue :
                 /\ refreshAccount(a, i) \in Seq(Quiet)
                 /\ <<[op |-> "putAccountIssue", acc |-> a, iss |-> i]>>
                       \in Seq(Quiet)
           /\ updateUserIssues(a) \in Seq(Quiet)
<1>1. ASSUME NEW i \in AccIssue
      PROVE  /\ refreshAccount(a, i) \in Seq(Quiet)
             /\ <<[op |-> "putAccountIssue", acc |-> a, iss |-> i]>>
                   \in Seq(Quiet)
  <2>1. i.par.signing \in SUBSET AccKeys
    BY DEF AccIssue, AccPar
  <2>2. AccountPaths(a, i) \in SUBSET Path
    BY <2>1, PathTyped, PathsTyped DEF AccountPaths
  <2>3. accountNkeys(a, i) \in Quiet
    BY <2>2 DEF accountNkeys, Quiet, Call, InnerCall
  <2>4. /\ [op |-> "issueAccountJWT", acc |-> a, iss |-> i] \in Quiet
        /\ [op |-> "putAccountIssue", acc |-> a, iss |-> i] \in Quiet
    BY DEF Quiet, Call, InnerCall, AccIssueCalls
  <2>5. accountResolver(a, i, "refresh") \in Seq(Quiet)
    BY ServerCallsQuiet DEF Resolvable, ResolverModes
  <2>6. refreshAccount(a, i) \in Seq(Quiet)
    BY <2>3, <2>4, <2>5, QuietSeq DEF refreshAccount
  <2> QED
    BY <2>4, <2>6, QuietSeq
<1>2. updateUserIssues(a) \in Seq(Quiet)
  BY QuietSeq DEF updateUserIssues, Quiet, Call, InnerCall, AccNameCalls
<1> QED
  BY <1>1, <1>2

\* The JWT issueAccountJWT makes.
LEMMA AccountTokenTyped ==
    ASSUME StorageOK, NEW a \in Accounts, NEW par \in AccPar
    PROVE  AccountToken(a, par) \in AccToken
<1>1. /\ par.signing \in SUBSET AccKeys /\ par.revs \in SUBSET Key
      /\ par.claims \in Claims /\ par.use \in OpKeys \cup {None}
  BY DEF AccPar
<1>2. Pub(AccPath(a)) \in Key
  BY PathTyped, PubTyped
<1>3. Signer(par) \in Path
  BY <1>1, PathTyped DEF Signer
<1>4. Pub(Signer(par)) \in Key
  BY <1>3, PubTyped
<1>5. Pubs(AccSignings(a, par.signing)) \in SUBSET Key
  BY <1>1, PathsTyped, PubTyped
<1> QED
  BY <1>1, <1>2, <1>4, <1>5 DEF AccountToken, AccToken

\* What addUserToRevocationList puts on the agenda: the deletion of the nkey
\* comes last but one, the JWT that revokes it before it.
LEMMA RevocationStep ==
    ASSUME TypeOK, NEW w \in Workers, AddUserToRevocationList(w)
    PROVE  /\ StorageOK' /\ WorldOK' /\ revoked' = revoked
           /\ \E a \in Accounts, u \in Users :
                 \/ Do(w, eraseUser(a, u, None))
                 \/ \E i \in AccIssue, key \in Key :
                       /\ key \in i.par.revs
                       /\ Do(w, <<[op |-> "putAccountIssue", acc |-> a,
                                   iss |-> i]>>
                                \o refreshAccount(a, i)
                                \o eraseUser(a, u, key))
<1> DEFINE t == Top(w)
           p == UserPath(t.acc, t.user)
           i == revoke(accIssue[t.acc], Pub(p))
<1>1. t.acc \in Accounts /\ t.user \in Users
  BY RunningTyped, UserCallFields DEF AddUserToRevocationList, UserNameCalls
<1>2. Pub(p) \in Key
  BY <1>1, PathTyped, PubTyped DEF TypeOK
<1>3. accIssue[t.acc] # None => i \in AccIssue /\ Pub(p) \in i.par.revs
  <2>1. accIssue[t.acc] # None => accIssue[t.acc] \in AccIssue
    BY <1>1 DEF TypeOK, StorageOK
  <2> QED
    BY <1>2, <2>1 DEF revoke, AccIssue, AccPar
<1>4. \/ Do(w, eraseUser(t.acc, t.user, None))
      \/ /\ accIssue[t.acc] # None
         /\ Do(w, <<[op |-> "putAccountIssue", acc |-> t.acc, iss |-> i]>>
                  \o refreshAccount(t.acc, i)
                  \o eraseUser(t.acc, t.user, Pub(p)))
  BY DEF AddUserToRevocationList
<1>5. StorageOK' /\ WorldOK' /\ revoked' = revoked
  BY DEF AddUserToRevocationList, TypeOK, StorageOK, WorldOK,
         issues, tokens, seeds, world
<1> QED
  BY <1>1, <1>2, <1>3, <1>4, <1>5

\* The calls addUserToRevocationList makes are calls.
LEMMA RevocationStepTyped ==
    ASSUME TypeOK, NEW w \in Workers, AddUserToRevocationList(w)
    PROVE  AgendaOK'
<1>1. \A a \in Accounts, u \in Users, key \in Key \cup {None} :
         eraseUser(a, u, key) \in Seq(Call)
  BY DEF eraseUser, Call, InnerCall, UserNameCalls
<1>2. ASSUME NEW a \in Accounts, NEW u \in Users, NEW key \in Key,
             NEW i \in AccIssue
      PROVE  <<[op |-> "putAccountIssue", acc |-> a, iss |-> i]>>
             \o refreshAccount(a, i) \o eraseUser(a, u, key) \in Seq(Call)
  BY <1>1, AccountCallsQuiet, QuietIsCall, ConcatProperties
<1>3. \E n \in Seq(Call) : Do(w, n)
  BY <1>1, <1>2, RevocationStep
<1>4. agenda[w] # <<>>
  BY DEF AddUserToRevocationList, Running
<1> QED
  BY <1>3, <1>4, DoTyped DEF TypeOK

\* AccountIssues: every action but the revocation is calm.
LEMMA AccountStepCalm ==
    ASSUME TypeOK, NEW w \in Workers, AccountStep(w),
           ~AddUserToRevocationList(w)
    PROVE  StorageOK' /\ WorldOK' /\ Calm(w)
<1> DEFINE t == Top(w)
<1> USE DEF issues, tokens, seeds, world
<1>1. CASE AddAccountIssue(w)
  <2>1. t.acc \in Accounts /\ t.par \in AccPar
    BY <1>1, RunningTyped, AccountCallFields DEF AddAccountIssue
  <2> DEFINE old  == accIssue[t.acc]
             i    == IF old = None
                     THEN [par |-> t.par, nkey |-> FALSE, jwt |-> FALSE,
                           synced |-> FALSE]
                     ELSE [old EXCEPT !.par = t.par]
             gone == IF old = None THEN {}
                     ELSE old.par.signing \ t.par.signing
             n    == deleteNkeys(AccSignings(t.acc, gone))
                     \o <<[op |-> "putAccountIssue", acc |-> t.acc, iss |-> i]>>
                     \o refreshAccount(t.acc, i)
  <2>2. old = None \/ old \in AccIssue
    BY <2>1 DEF TypeOK, StorageOK
  <2>3. i \in AccIssue
    BY <2>1, <2>2 DEF AccIssue
  <2>4. gone \in SUBSET AccKeys
    BY <2>2 DEF AccIssue, AccPar
  <2>5. deleteNkeys(AccSignings(t.acc, gone)) \in Seq(Quiet)
    BY <2>1, <2>4, PathsTyped, NkeyCallsQuiet
  <2>6. n \in Seq(Quiet)
    BY <2>1, <2>3, <2>5, AccountCallsQuiet, QuietSeq
  <2>7. Do(w, n)
    BY <1>1 DEF AddAccountIssue
  <2>8. Calm(w)
    BY <2>6, <2>7 DEF Calm
  <2> QED
    BY <1>1, <2>8 DEF AddAccountIssue, TypeOK, StorageOK, WorldOK
<1>2. CASE PutAccountIssue(w)
  <2>1. t.acc \in Accounts /\ t.iss \in AccIssue
    BY <1>2, RunningTyped, AccountCallFields DEF PutAccountIssue, AccIssueCalls
  <2> QED
    BY <1>2, <2>1, QuietSeq
       DEF PutAccountIssue, TypeOK, StorageOK, WorldOK, Calm
<1>3. CASE IssueAccountNKey(w)
  <2>1. /\ t \in Call /\ t.op = "issueAccountNKeys"
        /\ t.acc \in Accounts /\ t.iss \in AccIssue /\ t.todo \in SUBSET Path
        /\ t.users \in BOOLEAN /\ t.operator \in BOOLEAN
        /\ t = [op |-> t.op, acc |-> t.acc, iss |-> t.iss, todo |-> t.todo,
                users |-> t.users, operator |-> t.operator]
    BY <1>3, RunningTyped, AccountCallFields DEF IssueAccountNKey
  <2> DEFINE Nkeying == [op : {"issueAccountNKeys"}, acc : Accounts,
                         iss : AccIssue, todo : SUBSET Path,
                         users : BOOLEAN, operator : BOOLEAN]
  <2>2. PICK p \in t.todo :
           \/ Do(w, <<[t EXCEPT !.todo = @ \ {p}]>>)
           \/ Do(w, addNkey(p, FALSE)
                    \o <<[t EXCEPT !.todo = @ \ {p}, !.users = TRUE,
                          !.operator = @ \/ p = AccPath(SysAccount)]>>)
    BY <1>3 DEF IssueAccountNKey
  <2>3. /\ [t EXCEPT !.todo = @ \ {p}] \in Nkeying
        /\ [t EXCEPT !.todo = @ \ {p}, !.users = TRUE,
                     !.operator = @ \/ p = AccPath(SysAccount)] \in Nkeying
    <3>1. /\ t \in Nkeying /\ t.todo \ {p} \in SUBSET Path
          /\ (t.operator \/ p = AccPath(SysAccount)) \in BOOLEAN
      BY <2>1
    <3> HIDE DEF t
    <3> QED
      BY <3>1
  <2>4. Nkeying \subseteq Quiet
    BY DEF Quiet, Call, InnerCall
  <2>5. addNkey(p, FALSE) \in Seq(Quiet)
    BY <2>1, NkeyCallsQuiet
  <2>6. Calm(w)
    BY <2>2, <2>3, <2>4, <2>5, QuietSeq DEF Calm
  <2> QED
    BY <1>3, <2>6 DEF IssueAccountNKey, TypeOK, StorageOK, WorldOK
<1>4. CASE IssueAccountNKeysDone(w)
  <2>1. t.acc \in Accounts
    BY <1>4, RunningTyped, AccountCallFields DEF IssueAccountNKeysDone
  <2> DEFINE users == IF t.users THEN updateUserIssues(t.acc) ELSE <<>>
  <2>2. users \in Seq(Quiet)
    BY <2>1, AccountCallsQuiet, QuietSeq
  <2>3. opIssue # None =>
           <<[op |-> "refreshOperator", iss |-> opIssue]>> \in Seq(Quiet)
    BY QuietSeq DEF TypeOK, StorageOK, Quiet, Call, InnerCall, OpCalls
  <2>4. \/ Do(w, <<>>)
        \/ /\ opIssue # None
           /\ Do(w, <<[op |-> "refreshOperator", iss |-> opIssue]>> \o users)
        \/ Do(w, users)
    BY <1>4 DEF IssueAccountNKeysDone
  <2>5. Calm(w)
    BY <2>2, <2>3, <2>4, QuietSeq DEF Calm
  <2> QED
    BY <1>4, <2>5 DEF IssueAccountNKeysDone, TypeOK, StorageOK, WorldOK
<1>5. CASE UpdateUserIssues(w)
  <2>1. t.acc \in Accounts
    BY <1>5, RunningTyped, AccountCallFields DEF UpdateUserIssues, AccNameCalls
  <2>2. updateEachUser(t.acc, UserList(t.acc)) \in Seq(Quiet)
    BY <2>1, QuietSeq DEF UserList, updateEachUser, Quiet, Call, InnerCall,
                          UserLoopCalls
  <2> QED
    BY <1>5, <2>2 DEF UpdateUserIssues, TypeOK, StorageOK, WorldOK, Calm
<1>6. CASE UpdateEachUser(w)
  <2>1. t.acc \in Accounts /\ t.todo \in SUBSET Users
    BY <1>6, RunningTyped, UserCallFields DEF UpdateEachUser, UserLoopCalls
  <2>2. PICK u \in t.todo :
           \/ Do(w, <<>>)
           \/ /\ userIssue[t.acc][u] # None
              /\ Do(w, refreshUser(t.acc, u, userIssue[t.acc][u])
                       \o updateEachUser(t.acc, t.todo \ {u}))
    BY <1>6 DEF UpdateEachUser
  <2>3. userIssue[t.acc][u] # None => userIssue[t.acc][u] \in UserIssue
    BY <2>1 DEF TypeOK, StorageOK
  <2>4. /\ userIssue[t.acc][u] # None =>
              refreshUser(t.acc, u, userIssue[t.acc][u]) \in Seq(Quiet)
        /\ updateEachUser(t.acc, t.todo \ {u}) \in Seq(Quiet)
    BY <2>1, <2>3, UserCallsQuiet
  <2>5. Calm(w)
    BY <2>2, <2>4, QuietSeq DEF Calm
  <2> QED
    BY <1>6, <2>5 DEF UpdateEachUser, TypeOK, StorageOK, WorldOK
<1>7. CASE IssueAccountJWT(w)
  <2>1. t.acc \in Accounts /\ t.iss \in AccIssue
    BY <1>7, RunningTyped, AccountCallFields DEF IssueAccountJWT, AccIssueCalls
  <2> DEFINE n == <<[op |-> "addAccountJWT", acc |-> t.acc,
                     tok |-> AccountToken(t.acc, t.iss.par)]>>
  <2>2. AccountToken(t.acc, t.iss.par) \in AccToken
    BY <2>1, AccountTokenTyped DEF TypeOK, AccIssue
  <2>3. n \in Seq(Quiet)
    BY <2>1, <2>2, QuietSeq DEF Quiet, Call, Request,
         IssueOperatorRequest, IssueAccountRequest,
         IssueUserRequest, UserCredsRequest, NkeyRequest, OperatorJWTRequest,
         AccountJWTRequest
  <2>4. Fail(w) \/ Do(w, n)
    BY <1>7 DEF IssueAccountJWT
  <2>5. Calm(w)
    BY <2>3, <2>4 DEF Calm
  <2> QED
    BY <1>7, <2>5 DEF IssueAccountJWT, TypeOK, StorageOK, WorldOK
<1>8. CASE UpdateAccountStatus(w)
  <2>1. t.acc \in Accounts /\ t.iss \in AccIssue
    BY <1>8, RunningTyped, AccountCallFields
       DEF UpdateAccountStatus, AccIssueCalls
  <2> DEFINE i == [t.iss EXCEPT !.nkey = Stored(AccPath(t.acc)),
                                !.jwt = accJWT[t.acc] # None]
  <2>2. i \in AccIssue
    BY <2>1 DEF AccIssue, Stored
  <2>3. Do(w, <<[op |-> "putAccountIssue", acc |-> t.acc, iss |-> i]>>)
    BY <1>8 DEF UpdateAccountStatus
  <2>4. Calm(w)
    BY <2>1, <2>2, <2>3, AccountCallsQuiet DEF Calm
  <2> QED
    BY <1>8, <2>4 DEF UpdateAccountStatus, TypeOK, StorageOK, WorldOK
<1>9. CASE DeleteAccountIssue(w)
  <2>1. t.acc \in Accounts
    BY <1>9, RunningTyped, AccountCallFields
       DEF DeleteAccountIssue, AccNameCalls
  <2>2. accIssue[t.acc] # None =>
           accountResolver(t.acc, accIssue[t.acc], "delete") \in Seq(Quiet)
    BY <2>1, ServerCallsQuiet DEF Resolvable, ResolverModes, TypeOK, StorageOK
  <2> QED
    BY <1>9, <2>2, QuietSeq
       DEF DeleteAccountIssue, TypeOK, StorageOK, WorldOK, Calm
<1>10. CASE DeleteAccountEntry(w)
  <2>1. t.acc \in Accounts
    BY <1>10, RunningTyped, AccountCallFields
       DEF DeleteAccountEntry, AccNameCalls
  <2> QED
    BY <1>10, <2>1, QuietSeq
       DEF DeleteAccountEntry, TypeOK, StorageOK, WorldOK, Calm
<1> QED
  BY <1>1, <1>2, <1>3, <1>4, <1>5, <1>6, <1>7, <1>8, <1>9, <1>10
     DEF AccountStep

-----------------------------------------------------------------------------
\* The calls that refresh an operator are quiet.
LEMMA OperatorCallsQuiet ==
    ASSUME NEW i \in OpIssue, NEW op \in OpCalls
    PROVE  [op |-> op, iss |-> i] \in Quiet
BY DEF Quiet, Call, InnerCall, OpCalls

\* The calls that create the system account are quiet.
LEMMA SystemAccountQuiet == issueSystemAccount \in Seq(Quiet)
BY NamesAssumption, DefaultsTyped, QuietSeq
   DEF issueSystemAccount, Quiet, Call, Request,
         IssueOperatorRequest, IssueAccountRequest,
         IssueUserRequest, UserCredsRequest, NkeyRequest, OperatorJWTRequest,
         AccountJWTRequest

\* The JWT issueOperatorJWT makes.
LEMMA OperatorTokenTyped ==
    ASSUME StorageOK, NEW i \in OpIssue
    PROVE  OperatorToken(i) \in OpToken
<1>1. Pub(OpPath) \in Key /\ Pub(AccPath(SysAccount)) \in Key
  BY NamesAssumption, PathTyped, PubTyped
<1>2. Pubs(OpSignings(i.signing)) \in SUBSET Key
  BY PathsTyped, PubTyped DEF OpIssue
<1> QED
  BY <1>1, <1>2 DEF OperatorToken, OpToken

\* OperatorIssues: every action is calm, or the process ends.
LEMMA OperatorStepCalm ==
    ASSUME TypeOK, NEW w \in Workers, OperatorStep(w)
    PROVE  StorageOK' /\ WorldOK' /\ (Calm(w) \/ Panic)
<1> DEFINE t == Top(w)
<1> USE DEF issues, tokens, seeds, world
<1>1. CASE AddOperatorIssue(w)
  <2>1. t.par \in OpIssue
    BY <1>1, RunningTyped, OperatorCallFields DEF AddOperatorIssue
  <2> DEFINE gone == IF opIssue = None THEN {}
                     ELSE opIssue.signing \ t.par.signing
             n    == deleteNkeys(OpSignings(gone))
                     \o <<[op |-> "putOperatorIssue", iss |-> t.par],
                          [op |-> "refreshOperator", iss |-> t.par],
                          [op |-> "refreshAccountResolvers", iss |-> t.par]>>
  <2>2. gone \in SUBSET OpKeys
    BY DEF TypeOK, StorageOK, OpIssue
  <2>3. deleteNkeys(OpSignings(gone)) \in Seq(Quiet)
    BY <2>2, PathsTyped, NkeyCallsQuiet
  <2>4. n \in Seq(Quiet)
    BY <2>1, <2>3, OperatorCallsQuiet, QuietSeq DEF OpCalls
  <2>5. Do(w, n)
    BY <1>1 DEF AddOperatorIssue
  <2>6. Calm(w)
    BY <2>4, <2>5 DEF Calm
  <2> QED
    BY <1>1, <2>6 DEF AddOperatorIssue, TypeOK, StorageOK, WorldOK
<1>2. CASE PutOperatorIssue(w)
  <2>1. t.iss \in OpIssue
    BY <1>2, RunningTyped, OperatorCallFields DEF PutOperatorIssue, OpCalls
  <2> QED
    BY <1>2, <2>1, QuietSeq
       DEF PutOperatorIssue, TypeOK, StorageOK, WorldOK, Calm
<1>3. CASE RefreshOperator(w)
  <2>1. t.iss \in OpIssue
    BY <1>3, RunningTyped, OperatorCallFields DEF RefreshOperator, OpCalls
  <2> DEFINE c == [op |-> "issueOperatorNkeys", iss |-> t.iss,
                   todo |-> OperatorPaths(t.iss), fresh |-> FALSE]
             d == [op |-> "issueOperatorJWT", iss |-> t.iss]
             s == IF t.iss.sys THEN issueSystemAccount ELSE <<>>
  <2>2. OperatorPaths(t.iss) \in SUBSET Path
    BY <2>1, PathTyped, PathsTyped DEF OperatorPaths, OpIssue
  <2>3. c \in Quiet
    BY <2>1, <2>2 DEF Quiet, Call, InnerCall
  <2>4. d \in Quiet
    BY <2>1, OperatorCallsQuiet DEF OpCalls
  <2>5. s \in Seq(Quiet)
    BY SystemAccountQuiet, QuietSeq
  <2>6. Do(w, <<c, d>> \o s)
    BY <1>3 DEF RefreshOperator
  <2>7. Calm(w)
    BY <2>3, <2>4, <2>5, <2>6, QuietSeq DEF Calm
  <2> QED
    BY <1>3, <2>7 DEF RefreshOperator, TypeOK, StorageOK, WorldOK
<1>4. CASE IssueOperatorNkey(w)
  <2>1. /\ t \in Call /\ t.op = "issueOperatorNkeys"
        /\ t.iss \in OpIssue /\ t.todo \in SUBSET Path /\ t.fresh \in BOOLEAN
        /\ t = [op |-> t.op, iss |-> t.iss, todo |-> t.todo, fresh |-> t.fresh]
    BY <1>4, RunningTyped, OperatorCallFields DEF IssueOperatorNkey
  <2> DEFINE Nkeying == [op : {"issueOperatorNkeys"}, iss : OpIssue,
                         todo : SUBSET Path, fresh : BOOLEAN]
  <2>2. PICK p \in t.todo :
           \/ Do(w, <<[t EXCEPT !.todo = @ \ {p}]>>)
           \/ Do(w, addNkey(p, FALSE)
                    \o <<[t EXCEPT !.todo = @ \ {p}, !.fresh = TRUE]>>)
    BY <1>4 DEF IssueOperatorNkey
  <2>3. /\ [t EXCEPT !.todo = @ \ {p}] \in Nkeying
        /\ [t EXCEPT !.todo = @ \ {p}, !.fresh = TRUE] \in Nkeying
    <3>1. t \in Nkeying /\ t.todo \ {p} \in SUBSET Path
      BY <2>1
    <3> HIDE DEF t
    <3> QED
      BY <3>1
  <2>4. Nkeying \subseteq Quiet
    BY DEF Quiet, Call, InnerCall
  <2>5. addNkey(p, FALSE) \in Seq(Quiet)
    BY <2>1, NkeyCallsQuiet
  <2>6. Calm(w)
    BY <2>2, <2>3, <2>4, <2>5, QuietSeq DEF Calm
  <2> QED
    BY <1>4, <2>6 DEF IssueOperatorNkey, TypeOK, StorageOK, WorldOK
<1>5. CASE IssueOperatorNkeysDone(w)
  <2>1. Each("updateEachAccount", AccountList) \in Seq(Quiet)
    BY EachQuiet DEF AccLoopCalls, AccountList
  <2> QED
    BY <1>5, <2>1, QuietSeq
       DEF IssueOperatorNkeysDone, TypeOK, StorageOK, WorldOK, Calm
<1>6. CASE UpdateEachAccount(w)
  <2>1. t.todo \in SUBSET Accounts
    BY <1>6, RunningTyped, AccountCallFields
       DEF UpdateEachAccount, AccLoopCalls
  <2>2. PICK a \in t.todo :
           \/ Do(w, <<>>)
           \/ /\ accIssue[a] # None
              /\ Do(w, refreshAccount(a, accIssue[a])
                       \o Each("updateEachAccount", t.todo \ {a}))
    BY <1>6 DEF UpdateEachAccount
  <2>3. accIssue[a] # None => refreshAccount(a, accIssue[a]) \in Seq(Quiet)
    BY <2>1, AccountCallsQuiet DEF TypeOK, StorageOK
  <2>4. Each("updateEachAccount", t.todo \ {a}) \in Seq(Quiet)
    BY <2>1, EachQuiet DEF AccLoopCalls
  <2>5. Calm(w)
    BY <2>2, <2>3, <2>4, QuietSeq DEF Calm
  <2> QED
    BY <1>6, <2>5 DEF UpdateEachAccount, TypeOK, StorageOK, WorldOK
<1>7. CASE IssueOperatorJWT(w)
  <2>1. t.iss \in OpIssue
    BY <1>7, RunningTyped, OperatorCallFields DEF IssueOperatorJWT, OpCalls
  <2> DEFINE n == <<[op |-> "addOperatorJWT", tok |-> OperatorToken(t.iss)]>>
  <2>2. n \in Seq(Quiet)
    BY <2>1, OperatorTokenTyped, QuietSeq DEF TypeOK, Quiet, Call, Request,
         IssueOperatorRequest, IssueAccountRequest,
         IssueUserRequest, UserCredsRequest, NkeyRequest, OperatorJWTRequest,
         AccountJWTRequest
  <2>3. (Do(w, n) /\ UNCHANGED panicked) \/ Panic
    BY <1>7 DEF IssueOperatorJWT
  <2>4. Calm(w) \/ Panic
    BY <2>2, <2>3 DEF Calm
  <2>5. panicked' \in BOOLEAN
    BY <2>3 DEF Panic, TypeOK, WorldOK
  <2> QED
    BY <1>7, <2>4, <2>5 DEF IssueOperatorJWT, TypeOK, StorageOK, WorldOK
<1>8. CASE DeleteOperatorIssue(w)
  <2> DEFINE s == IF opIssue.sys
                  THEN <<[op |-> "deleteUserIssue", acc |-> SysAccount,
                          user |-> PushUser],
                         [op |-> "deleteAccountIssue", acc |-> SysAccount]>>
                  ELSE <<>>
             e == <<[op |-> "deleteOperatorJWT"],
                    [op |-> "deleteOperatorEntry"]>>
             n == deleteNkeys({OpPath})
                  \o deleteNkeys(OpSignings(opIssue.signing)) \o s \o e
  <2>1. opIssue # None => opIssue.signing \in SUBSET OpKeys
    BY DEF TypeOK, StorageOK, OpIssue
  <2>2. /\ deleteNkeys({OpPath}) \in Seq(Quiet)
        /\ opIssue # None =>
              deleteNkeys(OpSignings(opIssue.signing)) \in Seq(Quiet)
    BY <2>1, PathTyped, PathsTyped, NkeyCallsQuiet
  <2>3. s \in Seq(Quiet)
    <3>1. SysAccount \in Accounts /\ PushUser \in Users
      BY NamesAssumption
    <3>2. /\ [op |-> "deleteUserIssue", acc |-> SysAccount, user |-> PushUser]
               \in Quiet
          /\ [op |-> "deleteAccountIssue", acc |-> SysAccount] \in Quiet
      BY <3>1, UserCallsMade, AccountCallsMade
         DEF Quiet, UserNameCalls, AccNameCalls
    <3> QED
      BY <3>2, QuietSeq
  <2>4. e \in Seq(Quiet)
    BY QuietSeq DEF Quiet, Call, InnerCall, PlainCalls
  <2>5. opIssue # None => n \in Seq(Quiet)
    BY <2>2, <2>3, <2>4, QuietSeq
  <2>6. Do(w, <<>>) \/ (opIssue # None /\ Do(w, n))
    BY <1>8 DEF DeleteOperatorIssue
  <2>7. Calm(w)
    BY <2>5, <2>6, QuietSeq DEF Calm
  <2> QED
    BY <1>8, <2>7 DEF DeleteOperatorIssue, TypeOK, StorageOK, WorldOK
<1>9. CASE DeleteOperatorEntry(w)
  BY <1>9, QuietSeq DEF DeleteOperatorEntry, TypeOK, StorageOK, WorldOK, Calm
<1> QED
  BY <1>1, <1>2, <1>3, <1>4, <1>5, <1>6, <1>7, <1>8, <1>9 DEF OperatorStep

-----------------------------------------------------------------------------
\* The calls of the loop of the periodic function are quiet.
LEMMA PeriodicAccountsQuiet ==
    ASSUME NEW sync \in BOOLEAN, NEW todo \in SUBSET Accounts
    PROVE  periodicAccounts(sync, todo) \in Seq(Quiet)
<1>1. [op |-> "periodicAccount", sync |-> sync, todo |-> todo] \in Quiet
  BY AccountCallsMade DEF Quiet
<1> QED
  BY <1>1, QuietSeq DEF periodicAccounts

\* Periodic: every action is calm, or the process ends.
LEMMA PeriodicStepCalm ==
    ASSUME TypeOK, NEW w \in Workers, PeriodicStep(w)
    PROVE  StorageOK' /\ WorldOK' /\ (Calm(w) \/ Panic)
<1> DEFINE t == Top(w)
<1> USE DEF issues, tokens, seeds, world
<1>1. CASE PeriodicFunc(w)
  <2>1. periodicAccounts(opIssue.sync # "off", AccountList) \in Seq(Quiet)
    BY PeriodicAccountsQuiet DEF AccountList
  <2> QED
    BY <1>1, <2>1, QuietSeq DEF PeriodicFunc, TypeOK, StorageOK, WorldOK, Calm
<1>2. CASE PeriodicAccount(w)
  <2>1. t.sync \in BOOLEAN /\ t.todo \in SUBSET Accounts
    BY <1>2, RunningTyped, OperatorCallFields DEF PeriodicAccount
  <2>2. PICK a \in t.todo :
          Do(w, <<[op |-> "periodicRefreshAccountIssues"]>> \o Catch
                \o <<[op |-> "periodicRefreshUserIssues", acc |-> a]>> \o Catch
                \o (IF t.sync THEN <<[op |-> "periodicSync", acc |-> a]>>
                    ELSE <<>>)
                \o periodicAccounts(t.sync, t.todo \ {a}))
    BY <1>2 DEF PeriodicAccount
  <2>3. /\ [op |-> "periodicRefreshAccountIssues"] \in Quiet
        /\ [op |-> "periodicRefreshUserIssues", acc |-> a] \in Quiet
        /\ [op |-> "periodicSync", acc |-> a] \in Quiet
    BY <2>1 DEF Quiet, Call, InnerCall, PlainCalls, AccNameCalls
  <2>4. periodicAccounts(t.sync, t.todo \ {a}) \in Seq(Quiet)
    BY <2>1, PeriodicAccountsQuiet
  <2>5. Calm(w)
    BY <2>2, <2>3, <2>4, NkeyCallsQuiet, QuietSeq DEF Calm
  <2> QED
    BY <1>2, <2>5 DEF PeriodicAccount, TypeOK, StorageOK, WorldOK
<1>3. CASE PeriodicRefreshAccountIssues(w)
  <2>1. Each("periodicEachAccount", AccountList) \in Seq(Quiet)
    BY EachQuiet DEF AccLoopCalls, AccountList
  <2> QED
    BY <1>3, <2>1
       DEF PeriodicRefreshAccountIssues, TypeOK, StorageOK, WorldOK, Calm
<1>4. CASE PeriodicEachAccount(w)
  <2>1. t.todo \in SUBSET Accounts
    BY <1>4, RunningTyped, AccountCallFields
       DEF PeriodicEachAccount, AccLoopCalls
  <2>2. PICK a \in t.todo :
           \/ Panic
           \/ /\ accIssue[a] # None
              /\ UNCHANGED panicked
              /\ \/ Do(w, Each("periodicEachAccount", t.todo \ {a}))
                 \/ Do(w, refreshAccount(a, accIssue[a])
                          \o Each("periodicEachAccount", t.todo \ {a}))
    BY <1>4 DEF PeriodicEachAccount
  <2>3. accIssue[a] # None => refreshAccount(a, accIssue[a]) \in Seq(Quiet)
    BY <2>1, AccountCallsQuiet DEF TypeOK, StorageOK
  <2>4. Each("periodicEachAccount", t.todo \ {a}) \in Seq(Quiet)
    BY <2>1, EachQuiet DEF AccLoopCalls
  <2>5. Calm(w) \/ Panic
    BY <2>2, <2>3, <2>4, QuietSeq DEF Calm
  <2>6. panicked' \in BOOLEAN
    BY <2>2 DEF Panic, TypeOK, WorldOK
  <2> QED
    BY <1>4, <2>5, <2>6 DEF PeriodicEachAccount, TypeOK, StorageOK, WorldOK
<1>5. CASE PeriodicRefreshUserIssues(w)
  <2>1. t.acc \in Accounts
    BY <1>5, RunningTyped, AccountCallFields
       DEF PeriodicRefreshUserIssues, AccNameCalls
  <2>2. periodicEachUser(t.acc, UserList(t.acc)) \in Seq(Quiet)
    BY <2>1, QuietSeq DEF UserList, periodicEachUser, Quiet, Call, InnerCall,
                          UserLoopCalls
  <2> QED
    BY <1>5, <2>2
       DEF PeriodicRefreshUserIssues, TypeOK, StorageOK, WorldOK, Calm
<1>6. CASE PeriodicEachUser(w)
  <2>1. t.acc \in Accounts /\ t.todo \in SUBSET Users
    BY <1>6, RunningTyped, UserCallFields DEF PeriodicEachUser, UserLoopCalls
  <2>2. PICK u \in t.todo :
           \/ Panic
           \/ /\ userIssue[t.acc][u] # None
              /\ UNCHANGED panicked
              /\ \/ Do(w, periodicEachUser(t.acc, t.todo \ {u}))
                 \/ Do(w, refreshUser(t.acc, u, userIssue[t.acc][u])
                          \o periodicEachUser(t.acc, t.todo \ {u}))
    BY <1>6 DEF PeriodicEachUser
  <2>3. userIssue[t.acc][u] # None => userIssue[t.acc][u] \in UserIssue
    BY <2>1 DEF TypeOK, StorageOK
  <2>4. /\ userIssue[t.acc][u] # None =>
              refreshUser(t.acc, u, userIssue[t.acc][u]) \in Seq(Quiet)
        /\ periodicEachUser(t.acc, t.todo \ {u}) \in Seq(Quiet)
    BY <2>1, <2>3, UserCallsQuiet
  <2>5. Calm(w) \/ Panic
    BY <2>2, <2>4, QuietSeq DEF Calm
  <2>6. panicked' \in BOOLEAN
    BY <2>2 DEF Panic, TypeOK, WorldOK
  <2> QED
    BY <1>6, <2>5, <2>6 DEF PeriodicEachUser, TypeOK, StorageOK, WorldOK
<1>7. CASE PeriodicSync(w)
  <2>1. t.acc \in Accounts
    BY <1>7, RunningTyped, AccountCallFields DEF PeriodicSync, AccNameCalls
  <2>2. accIssue[t.acc] # None =>
           accountResolver(t.acc, accIssue[t.acc], "periodic") \in Seq(Quiet)
    BY <2>1, ServerCallsQuiet DEF Resolvable, ResolverModes, TypeOK, StorageOK
  <2> QED
    BY <1>7, <2>2, QuietSeq DEF PeriodicSync, TypeOK, StorageOK, WorldOK, Calm
<1> QED
  BY <1>1, <1>2, <1>3, <1>4, <1>5, <1>6, <1>7 DEF PeriodicStep

-----------------------------------------------------------------------------
(* The behaviour.                                                          *)

\* The end of the process, by a crash or a nil dereference.
LEMMA EmptyAgendas ==
    ASSUME agenda' = [w \in Workers |-> <<>>]
    PROVE  AgendaOK'
<1>1. <<>> \in Seq(Call)
  OBVIOUS
<1> QED
  BY <1>1 DEF AgendaOK

\* Which action executes a call is in the call's name.
LEMMA WhichAction ==
    ASSUME NEW w, Step(w)
    PROVE  /\ agenda[w] # <<>>
           /\ Top(w).op = "issueAccountJWT" => IssueAccountJWT(w)
           /\ Top(w).op = "addAccountJWT" => AddAccountJWT(w)
           /\ Top(w).op # "addAccountJWT" => revoked' = revoked
BY DEF Step, NkeyStep, UserStep, ServerStep, AccountStep,
       OperatorStep, PeriodicStep, LeaveCatch, Respond, Running, Top,
       AddNkey, PutNkey, EnsureIssue, DeleteNkeys, AddOperatorJWT,
       AddAccountJWT, DeleteOperatorJWT, DeleteAccountJWT, AddUserIssue,
       IssueUserNKeys, StoreUserIssueUpdate, RefreshPushUser,
       storeUserStatus, DeleteUserIssue, DeleteUserNkey, DeleteUserTemplate,
       GenerateUserCreds, GenerateUserJWT, FormatUserConfig, ReturnCreds,
       RefreshAccountResolver, PushAccount, DeleteAccounts,
       RefreshAccountResolvers, PushEach, AddAccountIssue, PutAccountIssue,
       IssueAccountNKey, IssueAccountNKeysDone, UpdateUserIssues,
       UpdateEachUser, IssueAccountJWT, UpdateAccountStatus,
       DeleteAccountIssue, DeleteAccountEntry, AddUserToRevocationList,
       AddOperatorIssue, PutOperatorIssue, RefreshOperator, IssueOperatorNkey,
       IssueOperatorNkeysDone, UpdateEachAccount, IssueOperatorJWT,
       DeleteOperatorIssue, DeleteOperatorEntry, PeriodicFunc,
       PeriodicAccount, PeriodicRefreshAccountIssues, PeriodicEachAccount,
       PeriodicRefreshUserIssues, PeriodicEachUser, PeriodicSync,
       tokens

\* Every step of a worker but the revocation is calm, or the process ends.
LEMMA StepCalm ==
    ASSUME TypeOK, NEW w \in Workers, Step(w), ~AddUserToRevocationList(w)
    PROVE  StorageOK' /\ WorldOK' /\ (Calm(w) \/ Panic)
<1>1. CASE LeaveCatch(w) \/ Respond(w)
  BY <1>1, QuietSeq
     DEF LeaveCatch, Respond, Calm, TypeOK, StorageOK, WorldOK,
         issues, tokens, seeds, world
<1>2. CASE ~(LeaveCatch(w) \/ Respond(w))
  BY <1>2, NkeyStepCalm, UserStepCalm, ServerStepCalm, AccountStepCalm,
     OperatorStepCalm, PeriodicStepCalm DEF Step
<1> QED
  BY <1>1, <1>2

\* Every step of a worker leaves all variables well-typed.
LEMMA StepTyped ==
    ASSUME TypeOK, NEW w \in Workers, Step(w)
    PROVE  TypeOK'
<1>1. CASE AddUserToRevocationList(w)
  BY <1>1, RevocationStep, RevocationStepTyped DEF TypeOK
<1>2. CASE ~AddUserToRevocationList(w)
  <2>1. StorageOK' /\ WorldOK' /\ (Calm(w) \/ Panic)
    BY <1>2, StepCalm
  <2>2. AgendaOK'
    BY <2>1, WhichAction, CalmTyped, EmptyAgendas DEF Panic, TypeOK
  <2> QED
    BY <2>1, <2>2 DEF TypeOK
<1> QED
  BY <1>1, <1>2

\* So are the storage errors that do not end a call.
LEMMA FaultCalm ==
    ASSUME TypeOK, NEW w \in Workers, StatusUnread(w) \/ SyncSkipped(w)
    PROVE  /\ agenda[w] # <<>> /\ Calm(w) /\ StorageOK' /\ WorldOK'
           /\ Top(w).op \in {"storeUserIssueUpdate", "periodicSync"}
           /\ revoked' = revoked
<1> USE DEF issues, tokens, seeds, OneFault
<1>1. CASE StatusUnread(w)
  <2>1. userIssue' \in [Accounts -> [Users -> UserIssue \cup {None}]] /\ Calm(w)
    BY <1>1, UserStatusCalm DEF StatusUnread
  <2>2. /\ UNCHANGED <<opIssue, accIssue, opJWT, accJWT, nkey, minted, server,
                      revoked, panicked, pending>>
        /\ faults' = faults + 1 /\ Running(w, "storeUserIssueUpdate")
    BY <1>1 DEF StatusUnread, storeUserStatus
  <2> QED
    BY <2>1, <2>2 DEF Running, Top, TypeOK, StorageOK, WorldOK
<1>2. CASE SyncSkipped(w)
  <2>1. Calm(w)
    BY <1>2, QuietSeq DEF SyncSkipped, Calm
  <2> QED
    BY <1>2, <2>1 DEF SyncSkipped, Running, Top, TypeOK, StorageOK, WorldOK
<1> QED
  BY <1>1, <1>2

\* A request comes with well-typed arguments.
LEMMA ReceiveTyped ==
    ASSUME TypeOK, NEW w \in Workers, Receive(w)
    PROVE  TypeOK'
<1> USE DEF issues, tokens, seeds
<1>1. PICK r \in pending :
        /\ agenda' = [agenda EXCEPT ![w] =
                         <<r, [op |-> "reply", req |-> r, faults |-> faults]>>]
        /\ pending' \subseteq pending
  BY DEF Receive
<1>2. r \in Request
  BY RequestsAssumption DEF TypeOK, WorldOK
<1>3. [op |-> "reply", req |-> r, faults |-> faults] \in Reply
  BY <1>2 DEF Reply, TypeOK, WorldOK
<1>4. <<r, [op |-> "reply", req |-> r, faults |-> faults]>> \in Seq(Call)
  BY <1>2, <1>3 DEF Call
<1>5. AgendaOK'
  BY <1>1, <1>4 DEF TypeOK, AgendaOK
<1>6. WorldOK'
  BY <1>1 DEF Receive, TypeOK, WorldOK
<1>7. StorageOK'
  BY DEF Receive, TypeOK, StorageOK
<1> QED
  BY <1>5, <1>6, <1>7 DEF TypeOK

\* The initial states are well-typed and every step keeps them so.
LEMMA TypeInit == Init => TypeOK
<1> SUFFICES ASSUME Init PROVE TypeOK
  OBVIOUS
<1>1. StorageOK
  BY DEF Init, InitWith, StorageOK
<1>2. WorldOK
  BY DEF Init, InitWith, WorldOK
<1>3. <<>> \in Seq(Call)
  OBVIOUS
<1>4. AgendaOK
  BY <1>3 DEF Init, InitWith, AgendaOK
<1> QED
  BY <1>1, <1>2, <1>4 DEF TypeOK

\* Every step of the plugin leaves all variables well-typed.
LEMMA TypeNext == TypeOK /\ [Next]_vars => TypeOK'
<1> SUFFICES ASSUME TypeOK, [Next]_vars PROVE TypeOK'
  OBVIOUS
<1> USE DEF issues, tokens, seeds, world
<1>1. ASSUME NEW w \in Workers, StorageError(w)
      PROVE  TypeOK'
  BY <1>1, FailTyped DEF StorageError, OneFault, TypeOK, StorageOK, WorldOK
<1>2. CASE Crash
  BY <1>2, EmptyAgendas DEF Crash, OneFault, TypeOK, StorageOK, WorldOK
<1>3. CASE UNCHANGED vars
  BY <1>3 DEF vars, TypeOK, StorageOK, WorldOK, AgendaOK
<1>4. ASSUME NEW w \in Workers, StatusUnread(w) \/ SyncSkipped(w)
      PROVE  TypeOK'
  <2>1. agenda[w] # <<>> /\ Calm(w) /\ StorageOK' /\ WorldOK'
    BY <1>4, FaultCalm
  <2> QED
    BY <2>1, CalmTyped DEF TypeOK
<1> QED
  BY <1>1, <1>2, <1>3, <1>4, ReceiveTyped, StepTyped DEF Next, Rest

\* Type correctness: whatever the requests, however their handlers
\* interleave, fail and crash, storage holds entries of the right shape, and
\* every handler is called with arguments of the shape it expects.
THEOREM TypeCorrect == Spec => []TypeOK
  BY TypeInit, TypeNext, PTL DEF Spec
-----------------------------------------------------------------------------
(***************************************************************************)
(* deleteUserIssue deletes a user's nkey only after an account JWT that    *)
(* revokes it had been stored: Spec => []RevokedBeforeErased.              *)
(*                                                                         *)
(* That is not inductive: when the deletion comes to the top of an agenda, *)
(* nothing says what was executed before it.  RevocationAhead speaks of    *)
(* the deletion wherever it is on an agenda, and is: a revocation that is  *)
(* still to come stays ahead of the deletion while other calls come and    *)
(* go in front of both; an error that takes the revocation away takes the  *)
(* deletion as well; and when the revocation is the first call, executing  *)
(* it makes the JWT, and then stores it.                                   *)
(***************************************************************************)

\* RevocationAhead for one agenda, where the keys in R are revoked
Ahead(s, R) ==
    \A j \in 1..Len(s) :
        s[j].op = "deleteUserNkey" =>
            s[j].key \in R \cup {None} \/ Guarded(s, j)

\* RevocationAhead speaks of each agenda by itself.
LEMMA AheadForAll ==
    RevocationAhead <=> \A w \in Workers : Ahead(agenda[w], revoked)
BY DEF RevocationAhead, Ahead

\* More revoked keys do no harm.
LEMMA AheadMonotone ==
    ASSUME NEW s \in Seq(Call), NEW R, NEW S, R \subseteq S, Ahead(s, R)
    PROVE  Ahead(s, S)
BY DEF Ahead

\* An empty agenda has nothing to guard.
LEMMA AheadEmpty == \A R : Ahead(<<>>, R)
BY DEF Ahead

\* Neither have quiet calls.
LEMMA QuietAhead ==
    ASSUME NEW n \in Seq(Quiet), NEW R
    PROVE  Ahead(n, R)
<1>1. \A j \in 1..Len(n) : n[j] \in Quiet
  BY ElementOfSeq
<1> QED
  BY <1>1 DEF Ahead, Quiet

-----------------------------------------------------------------------------
(* Positions on an agenda.                                                 *)

\* calls that come in place of the first one
LEMMA ReplacedFirst ==
    ASSUME NEW s \in Seq(Call), s # <<>>, NEW n \in Seq(Call)
    PROVE  LET m == n \o Tail(s) IN
           /\ Len(m) = Len(n) + Len(s) - 1
           /\ \A k \in 1..Len(n) : m[k] = n[k]
           /\ \A k \in 2..Len(s) : m[Len(n) + k - 1] = s[k]
<1>1. /\ Tail(s) \in Seq(Call) /\ Len(Tail(s)) = Len(s) - 1
      /\ Len(s) \in Nat /\ Len(s) > 0 /\ Len(n) \in Nat
  BY HeadTailProperties, LenProperties, EmptySeq
<1>2. \A k \in 2..Len(s) : Tail(s)[k - 1] = s[k]
  BY <1>1, HeadTailProperties
<1> QED
  BY <1>1, <1>2, ConcatProperties

\* Calls that guard their own deletions, in place of a first call that is
\* no guard.
LEMMA AheadReplaced ==
    ASSUME NEW s \in Seq(Call), s # <<>>, NEW R, Ahead(s, R),
           NEW n \in Seq(Call), Ahead(n, R),
           \A key : ~Revokes(s[1], key)
    PROVE  Ahead(n \o Tail(s), R)
<1> DEFINE m == n \o Tail(s)
           d == Len(n) - 1
<1>1. Len(n) \in Nat /\ Len(s) \in Nat /\ Len(s) > 0
  BY LenProperties, EmptySeq
<1>2. /\ Len(m) = Len(n) + Len(s) - 1
      /\ \A k \in 1..Len(n) : m[k] = n[k]
      /\ \A k \in 2..Len(s) : m[Len(n) + k - 1] = s[k]
  BY <1>1, ReplacedFirst
<1>3. \A k \in 2..Len(s) : d + k \in 1..Len(m) /\ m[d + k] = s[k]
  BY <1>1, <1>2
<1> SUFFICES ASSUME NEW l \in 1..Len(m), m[l].op = "deleteUserNkey",
                    m[l].key \notin R \cup {None}
             PROVE  Guarded(m, l)
  BY DEF Ahead
<1>4. CASE l \in 1..Len(n)
  <2>1. Guarded(n, l)
    BY <1>2, <1>4 DEF Ahead
  <2>2. PICK i \in 1..(l - 1) : /\ Revokes(n[i], n[l].key)
                                /\ \A k \in i..l : n[k].op # "catch"
    BY <2>1 DEF Guarded
  <2>3. m[l] = n[l] /\ \A k \in i..l : m[k] = n[k]
    BY <1>1, <1>2, <1>4
  <2>4. Revokes(m[i], m[l].key) /\ \A k \in i..l : m[k].op # "catch"
    BY <1>1, <2>2, <2>3, SMTT(30)
  <2> QED
    BY <2>4 DEF Guarded
<1>5. CASE l > Len(n)
  <2>1. PICK j \in 2..Len(s) : l = d + j
    <3>1. l - d \in 2..Len(s)
      BY <1>1, <1>2, <1>5
    <3>2. l = d + (l - d)
      BY <1>1
    <3> QED
      BY <3>1, <3>2
  <2>2. Guarded(s, j)
    BY <1>1, <1>3, <2>1 DEF Ahead
  <2>3. PICK i \in 1..(j - 1) : /\ Revokes(s[i], s[j].key)
                                /\ \A k \in i..j : s[k].op # "catch"
    BY <2>2 DEF Guarded
  <2>4. i \in 2..Len(s)
    BY <2>3
  <2>5. d + i \in 1..(l - 1) /\ Revokes(m[d + i], m[l].key)
    BY <1>1, <1>3, <2>1, <2>3, <2>4
  <2>6. ASSUME NEW k \in (d + i)..l
        PROVE  m[k].op # "catch"
    <3>1. k - d \in i..j /\ k - d \in 2..Len(s) /\ k = d + (k - d)
      BY <1>1, <2>1, <2>4
    <3>2. m[k] = s[k - d]
      BY <1>3, <3>1
    <3> QED
      BY <2>3, <3>1, <3>2
  <2> QED
    BY <2>5, <2>6 DEF Guarded
<1> QED
  BY <1>1, <1>4, <1>5

\* An error takes the deletion along with what guards it.
LEMMA AheadUnwound ==
    ASSUME NEW s \in Seq(Call), NEW R, Ahead(s, R)
    PROVE  Ahead(Unwind(s), R)
<1>1. CASE Unwind(s) = <<>>
  BY <1>1, AheadEmpty
<1>2. ASSUME NEW f \in 1..Len(s), s[f].op = "catch",
             Unwind(s) = SubSeq(s, f + 1, Len(s))
      PROVE  Ahead(Unwind(s), R)
  <2> DEFINE m == SubSeq(s, f + 1, Len(s))
  <2>1. \A k \in (f + 1)..Len(s) : s[k] \in Call
    BY ElementOfSeq
  <2>2. Len(s) \in Nat
    BY LenProperties
  <2>3. Len(m) = Len(s) - f /\ \A k \in 1..(Len(s) - f) : m[k] = s[f + k]
    BY <2>1, <2>2, SubSeqProperties
  <2> SUFFICES ASSUME NEW l \in 1..Len(m), m[l].op = "deleteUserNkey",
                      m[l].key \notin R \cup {None}
               PROVE  Guarded(m, l)
    BY <1>2 DEF Ahead
  <2>4. f + l \in 1..Len(s) /\ m[l] = s[f + l]
    BY <2>2, <2>3
  <2>5. Guarded(s, f + l)
    BY <2>4 DEF Ahead
  <2>6. PICK i \in 1..(f + l - 1) : /\ Revokes(s[i], s[f + l].key)
                                    /\ \A k \in i..(f + l) : s[k].op # "catch"
    BY <2>5 DEF Guarded
  <2>7. i > f
    BY <1>2, <2>2, <2>6
  <2>8. /\ i - f \in 1..(l - 1) /\ i - f \in 1..(Len(s) - f)
        /\ f + (i - f) = i
    BY <2>2, <2>4, <2>6, <2>7
  <2>9. Revokes(m[i - f], m[l].key)
    BY <2>3, <2>4, <2>6, <2>8
  <2>10. ASSUME NEW k \in (i - f)..l
         PROVE  m[k].op # "catch"
    <3>1. f + k \in i..(f + l) /\ k \in 1..(Len(s) - f)
      BY <2>2, <2>3, <2>8
    <3> QED
      BY <2>3, <2>6, <3>1
  <2> QED
    BY <2>8, <2>9, <2>10 DEF Guarded
<1> QED
  BY <1>1, <1>2, UnwindEnd

\* one call in place of the first one
LEMMA ReplacedByOne ==
    ASSUME NEW s \in Seq(Call), s # <<>>, NEW c \in Call
    PROVE  LET m == <<c>> \o Tail(s) IN
           /\ Len(m) = Len(s) /\ m[1] = c
           /\ \A k \in 2..Len(s) : m[k] = s[k]
<1> DEFINE m == <<c>> \o Tail(s)
<1>1. <<c>> \in Seq(Call) /\ Len(<<c>>) = 1 /\ <<c>>[1] = c
      /\ Len(s) \in Nat
  BY LenProperties
<1>2. /\ Len(m) = 1 + Len(s) - 1
      /\ m[1] = c
      /\ \A k \in 2..Len(s) : m[1 + k - 1] = s[k]
  BY <1>1, ReplacedFirst
<1>3. 1 + Len(s) - 1 = Len(s) /\ \A k \in 2..Len(s) : 1 + k - 1 = k
  BY <1>1
<1> QED
  BY <1>2, <1>3

\* A first call that is replaced by one that revokes the same keys.
LEMMA AheadHandedOn ==
    ASSUME NEW s \in Seq(Call), s # <<>>, NEW R, Ahead(s, R),
           NEW c \in Quiet, c.op # "catch",
           \A key : Revokes(s[1], key) => Revokes(c, key)
    PROVE  Ahead(<<c>> \o Tail(s), R)
<1> DEFINE m == <<c>> \o Tail(s)
<1>1. Len(s) \in Nat
  BY LenProperties
<1>2. /\ Len(m) = Len(s) /\ m[1] = c
      /\ \A k \in 2..Len(s) : m[k] = s[k]
  BY ReplacedByOne DEF Quiet
<1> SUFFICES ASSUME NEW j \in 1..Len(m), m[j].op = "deleteUserNkey",
                    m[j].key \notin R \cup {None}
             PROVE  Guarded(m, j)
  BY DEF Ahead
<1>3. j \in 2..Len(s)
  BY <1>1, <1>2 DEF Quiet
<1>4. m[j] = s[j] /\ j \in 1..Len(s)
  BY <1>2, <1>3
<1>5. PICK i \in 1..(j - 1) : /\ Revokes(s[i], s[j].key)
                              /\ \A k \in i..j : s[k].op # "catch"
  BY <1>4 DEF Ahead, Guarded
<1>6. Revokes(m[i], m[j].key)
  <2>1. CASE i = 1
    BY <1>2, <1>4, <1>5, <2>1
  <2>2. CASE i # 1
    BY <1>2, <1>3, <1>4, <1>5, <2>2
  <2> QED
    BY <2>1, <2>2
<1>7. \A k \in i..j : m[k].op # "catch"
  BY <1>2, <1>3, <1>5
<1> QED
  BY <1>5, <1>6, <1>7 DEF Guarded

\* The first call has revoked its keys.
LEMMA AheadDone ==
    ASSUME NEW s \in Seq(Call), s # <<>>, NEW R, NEW S, R \subseteq S,
           Ahead(s, R), NEW c \in Quiet,
           \A key : Revokes(s[1], key) => key \in S
    PROVE  Ahead(<<c>> \o Tail(s), S)
<1> DEFINE m == <<c>> \o Tail(s)
<1>1. Len(s) \in Nat
  BY LenProperties
<1>2. /\ Len(m) = Len(s) /\ m[1] = c
      /\ \A k \in 2..Len(s) : m[k] = s[k]
  BY ReplacedByOne DEF Quiet
<1> SUFFICES ASSUME NEW j \in 1..Len(m), m[j].op = "deleteUserNkey",
                    m[j].key \notin S \cup {None}
             PROVE  Guarded(m, j)
  BY DEF Ahead
<1>3. j \in 2..Len(s)
  BY <1>1, <1>2 DEF Quiet
<1>4. m[j] = s[j] /\ j \in 1..Len(s)
  BY <1>2, <1>3
<1>5. PICK i \in 1..(j - 1) : /\ Revokes(s[i], s[j].key)
                              /\ \A k \in i..j : s[k].op # "catch"
  BY <1>4 DEF Ahead, Guarded
<1>6. i # 1
  BY <1>4, <1>5
<1>7. Revokes(m[i], m[j].key) /\ \A k \in i..j : m[k].op # "catch"
  BY <1>2, <1>3, <1>4, <1>5, <1>6
<1> QED
  BY <1>5, <1>7 DEF Guarded

-----------------------------------------------------------------------------
(* Steps.                                                                  *)

\* An agenda is a sequence of calls.
LEMMA AgendaTyped ==
    ASSUME TypeOK, NEW w \in Workers
    PROVE  agenda[w] \in Seq(Call)
BY DEF TypeOK, AgendaOK

\* Positions of the calls of a refresh.
LEMMA FourCalls ==
    ASSUME NEW b, NEW c, NEW d, NEW e
    PROVE  LET q == <<b>> \o (<<c, d>> \o <<e>>) IN
           Len(q) = 4 /\ q[3] = d /\ q[4] = e
OBVIOUS

\* Positions of two calls after four.
LEMMA SixCalls ==
    ASSUME NEW q \in Seq(Call), Len(q) = 4, NEW c \in Call, NEW d \in Call
    PROVE  LET m == q \o <<c, d>> IN
           /\ Len(m) = 6 /\ \A l \in 1..4 : m[l] = q[l]
           /\ m[5] = c /\ m[6] = d
<1> DEFINE t == <<c, d>>
           m == q \o t
<1>1. t \in Seq(Call) /\ Len(t) = 2 /\ t[1] = c /\ t[2] = d
  OBVIOUS
<1> HIDE DEF t
<1>2. /\ Len(m) = Len(q) + Len(t)
      /\ \A i \in 1..(Len(q) + Len(t)) :
            m[i] = IF i <= Len(q) THEN q[i] ELSE t[i - Len(q)]
  BY <1>1, ConcatProperties
<1> HIDE DEF m
<1>3. Len(m) = 6 /\ \A l \in 1..4 : m[l] = q[l]
  BY <1>1, <1>2
<1>4. m[5] = c /\ m[6] = d
  BY <1>1, <1>2
<1> QED
  BY <1>3, <1>4 DEF m, t

\* What addUserToRevocationList puts in front of the deletion guards it.
LEMMA RevocationStepAhead ==
    ASSUME TypeOK, NEW w \in Workers, AddUserToRevocationList(w),
           Ahead(agenda[w], revoked)
    PROVE  Ahead(agenda'[w], revoked)
<1> DEFINE s == agenda[w]
<1>1. s \in Seq(Call) /\ s # <<>> /\ \A key : ~Revokes(s[1], key)
  BY AgendaTyped DEF AddUserToRevocationList, Running, Revokes
<1>2. PICK a \in Accounts, u \in Users :
         \/ Do(w, eraseUser(a, u, None))
         \/ \E i \in AccIssue, key \in Key :
               /\ key \in i.par.revs
               /\ Do(w, <<[op |-> "putAccountIssue", acc |-> a, iss |-> i]>>
                        \o refreshAccount(a, i)
                        \o eraseUser(a, u, key))
  BY RevocationStep
<1>3. ASSUME NEW n \in Seq(Call), Do(w, n), Ahead(n, revoked)
      PROVE  Ahead(agenda'[w], revoked)
  <2>1. agenda'[w] = n \o Tail(s)
    BY <1>3 DEF Do, TypeOK, AgendaOK
  <2> QED
    BY <1>1, <1>3, <2>1, AheadReplaced
<1>4. \A key \in Key \cup {None} : eraseUser(a, u, key) \in Seq(Call)
  BY DEF eraseUser, Call, InnerCall, UserNameCalls
<1>5. CASE Do(w, eraseUser(a, u, None))
  <2>1. Ahead(eraseUser(a, u, None), revoked)
    BY DEF Ahead, eraseUser
  <2> QED
    BY <1>3, <1>4, <1>5, <2>1
<1>6. ASSUME NEW i \in AccIssue, NEW key \in Key, key \in i.par.revs,
             Do(w, <<[op |-> "putAccountIssue", acc |-> a, iss |-> i]>>
                   \o refreshAccount(a, i) \o eraseUser(a, u, key))
      PROVE  Ahead(agenda'[w], revoked)
  <2> DEFINE put == [op |-> "putAccountIssue", acc |-> a, iss |-> i]
             jwt == [op |-> "issueAccountJWT", acc |-> a, iss |-> i]
             res == [op |-> "refreshAccountResolver", acc |-> a, iss |-> i,
                     mode |-> "refresh"]
             del == [op |-> "deleteUserNkey", acc |-> a, user |-> u,
                     key |-> key]
             tmp == [op |-> "deleteUserTemplate", acc |-> a, user |-> u]
             q   == <<put>> \o refreshAccount(a, i)
             n   == q \o eraseUser(a, u, key)
  <2>1. q \in Seq(Quiet) /\ q \in Seq(Call) /\ n \in Seq(Call)
    BY <1>4, AccountCallsQuiet, QuietSeq, QuietIsCall, ConcatProperties
  <2>2. Len(q) = 4 /\ q[3] = jwt /\ q[4] = res
    <3>1. refreshAccount(a, i) = <<accountNkeys(a, i), jwt>> \o <<res>>
      BY DEF refreshAccount, accountResolver
    <3> QED
      BY <3>1, FourCalls
  <2>3. /\ Len(n) = 6 /\ \A l \in 1..4 : n[l] = q[l]
        /\ n[5] = del /\ n[6] = tmp
    <3>1. del \in Call /\ tmp \in Call
      BY DEF Call, InnerCall, UserNameCalls
    <3>2. eraseUser(a, u, key) = <<del, tmp>>
      BY DEF eraseUser
    <3> HIDE DEF del, tmp, q
    <3> QED
      BY <2>1, <2>2, <3>1, <3>2, SixCalls
  <2>4. Guarded(n, 5)
    <3>1. Revokes(n[3], n[5].key)
      BY <1>6, <2>2, <2>3 DEF Revokes
    <3>2. n[3].op # "catch" /\ n[4].op # "catch" /\ n[5].op # "catch"
      BY <2>2, <2>3
    <3> HIDE DEF n
    <3>3. \A k \in 3..5 : n[k].op # "catch"
      BY <3>2
    <3> QED
      BY <3>1, <3>3 DEF Guarded
  <2>5. \A l \in 1..Len(n) : n[l].op = "deleteUserNkey" => l = 5
    <3>1. \A l \in 1..4 : n[l].op # "deleteUserNkey"
      BY <2>1, <2>2, <2>3, ElementOfSeq DEF Quiet
    <3>2. n[6].op # "deleteUserNkey"
      BY <2>3
    <3> HIDE DEF n
    <3> QED
      BY <2>3, <3>1, <3>2
  <2>6. Ahead(n, revoked)
    BY <2>4, <2>5 DEF Ahead
  <2> QED
    BY <1>3, <1>6, <2>1, <2>6
<1> QED
  BY <1>2, <1>5, <1>6

\* What a calm step leaves of the agenda.
LEMMA CalmAhead ==
    ASSUME TypeOK, NEW w \in Workers, agenda[w] # <<>>, Calm(w),
           Ahead(agenda[w], revoked), \A key : ~Revokes(Top(w), key)
    PROVE  Ahead(agenda'[w], revoked)
<1> DEFINE s == agenda[w]
<1>1. s \in Seq(Call) /\ s[1] = Top(w)
  BY AgendaTyped DEF Top
<1>2. CASE Fail(w)
  <2>1. agenda'[w] = Unwind(s)
    BY <1>2 DEF Fail, TypeOK, AgendaOK
  <2> QED
    BY <1>1, <2>1, AheadUnwound
<1>3. ASSUME NEW n \in Seq(Quiet), Do(w, n)
      PROVE  Ahead(agenda'[w], revoked)
  <2>1. agenda'[w] = n \o Tail(s)
    BY <1>3 DEF Do, TypeOK, AgendaOK
  <2>2. n \in Seq(Call) /\ Ahead(n, revoked)
    BY QuietIsCall, QuietAhead
  <2> QED
    BY <1>1, <2>1, <2>2, AheadReplaced
<1> QED
  BY <1>2, <1>3 DEF Calm

\* The JWT has the revocations of the issue it is made from.
LEMMA IssueAccountJWTAhead ==
    ASSUME TypeOK, NEW w \in Workers, IssueAccountJWT(w),
           Ahead(agenda[w], revoked)
    PROVE  Ahead(agenda'[w], revoked)
<1> DEFINE s == agenda[w]
           t == Top(w)
           c == [op |-> "addAccountJWT", acc |-> t.acc,
                 tok |-> AccountToken(t.acc, t.iss.par)]
<1>1. s \in Seq(Call) /\ s # <<>> /\ s[1] = t /\ t.op = "issueAccountJWT"
  BY AgendaTyped DEF IssueAccountJWT, Running, Top
<1>2. CASE Fail(w)
  <2>1. agenda'[w] = Unwind(s)
    BY <1>2 DEF Fail, TypeOK, AgendaOK
  <2> QED
    BY <1>1, <2>1, AheadUnwound
<1>3. CASE Do(w, <<c>>)
  <2>1. agenda'[w] = <<c>> \o Tail(s)
    BY <1>3 DEF Do, TypeOK, AgendaOK
  <2>2. t.acc \in Accounts /\ t.iss \in AccIssue
    BY <1>1, RunningTyped, AccountCallFields
       DEF IssueAccountJWT, AccIssueCalls
  <2>3. c \in Quiet
    BY <2>2, AccountTokenTyped DEF Quiet, Call, Request,
         IssueOperatorRequest, IssueAccountRequest,
         IssueUserRequest, UserCredsRequest, NkeyRequest, OperatorJWTRequest,
         AccountJWTRequest, TypeOK, AccIssue
  <2>4. \A key : Revokes(s[1], key) => Revokes(c, key)
    BY <1>1 DEF Revokes, AccountToken
  <2> QED
    BY <1>1, <2>1, <2>3, <2>4, AheadHandedOn
<1> QED
  BY <1>2, <1>3 DEF IssueAccountJWT

\* A stored JWT has revoked its keys.
LEMMA AddAccountJWTAhead ==
    ASSUME TypeOK, NEW w \in Workers, AddAccountJWT(w),
           Ahead(agenda[w], revoked)
    PROVE  revoked \subseteq revoked' /\ Ahead(agenda'[w], revoked')
<1> DEFINE s == agenda[w]
           t == Top(w)
           c == [op |-> "ensureIssue", path |-> AccPath(t.acc)]
<1>1. s \in Seq(Call) /\ s # <<>> /\ s[1] = t /\ t.op = "addAccountJWT"
  BY AgendaTyped DEF AddAccountJWT, Running, Top
<1>2. revoked' = revoked \cup t.tok.revs /\ Do(w, <<c>>)
  BY DEF AddAccountJWT
<1>3. agenda'[w] = <<c>> \o Tail(s)
  BY <1>2 DEF Do, TypeOK, AgendaOK
<1>4. t.acc \in Accounts
  BY RunningTyped, AccountCallFields DEF AddAccountJWT
<1>5. c \in Quiet
  BY <1>4, PathTyped DEF Quiet, Call, InnerCall
<1>6. \A key : Revokes(s[1], key) => key \in revoked'
  BY <1>1, <1>2 DEF Revokes
<1> QED
  BY <1>1, <1>2, <1>3, <1>5, <1>6, AheadDone

\* A step of a worker changes no other agenda, but to end it.
LEMMA OtherAgendas ==
    ASSUME TypeOK, NEW w \in Workers, NEW v \in Workers, v # w,
           Calm(w) \/ Panic \/ AddUserToRevocationList(w)
    PROVE  agenda'[v] \in {agenda[v], <<>>}
<1>1. CASE Calm(w)
  BY <1>1 DEF Calm, Do, Fail, TypeOK, AgendaOK
<1>2. CASE Panic
  BY <1>2 DEF Panic
<1>3. CASE AddUserToRevocationList(w)
  BY <1>3 DEF AddUserToRevocationList, Do, TypeOK, AgendaOK
<1> QED
  BY <1>1, <1>2, <1>3

\* Every step of a worker keeps RevocationAhead.
LEMMA StepAhead ==
    ASSUME TypeOK, RevocationAhead, NEW w \in Workers, Step(w)
    PROVE  RevocationAhead'
<1>1. Ahead(agenda[w], revoked) /\ agenda[w] # <<>>
  BY AheadForAll, WhichAction
<1>2. revoked \subseteq revoked'
  BY WhichAction DEF AddAccountJWT
<1>3. Ahead(agenda'[w], revoked')
  <2>1. CASE Top(w).op = "issueAccountJWT"
    BY <1>1, <2>1, WhichAction, IssueAccountJWTAhead
  <2>2. CASE Top(w).op = "addAccountJWT"
    BY <1>1, <2>2, WhichAction, AddAccountJWTAhead
  <2>3. CASE AddUserToRevocationList(w)
    BY <1>1, <2>3, RevocationStep, RevocationStepAhead
  <2>4. CASE /\ Top(w).op \notin {"issueAccountJWT", "addAccountJWT"}
             /\ ~AddUserToRevocationList(w)
    <3>1. revoked' = revoked /\ \A key : ~Revokes(Top(w), key)
      BY <2>4, WhichAction DEF Revokes
    <3>2. CASE Calm(w)
      BY <1>1, <3>1, <3>2, CalmAhead
    <3>3. CASE Panic
      BY <3>3, AheadEmpty DEF Panic
    <3> QED
      BY <2>4, <3>2, <3>3, StepCalm
  <2> QED
    BY <2>1, <2>2, <2>3, <2>4
<1>4. ASSUME NEW v \in Workers, v # w
      PROVE  Ahead(agenda'[v], revoked')
  <2>1. agenda'[v] \in {agenda[v], <<>>}
    BY <1>4, StepCalm, OtherAgendas
  <2>2. Ahead(agenda[v], revoked')
    BY <1>2, AgendaTyped, AheadForAll, AheadMonotone
  <2> QED
    BY <2>1, <2>2, AheadEmpty
<1> QED
  BY <1>3, <1>4 DEF RevocationAhead, Ahead

\* The invariant holds initially and every step keeps it.
LEMMA RevocationInit == Init => RevocationAhead
BY DEF Init, InitWith, RevocationAhead

\* Every step of the plugin keeps RevocationAhead.
LEMMA RevocationNext ==
    TypeOK /\ RevocationAhead /\ [Next]_vars => RevocationAhead'
<1> SUFFICES ASSUME TypeOK, RevocationAhead, [Next]_vars
             PROVE  RevocationAhead'
  OBVIOUS
<1>1. ASSUME NEW w \in Workers, Receive(w)
      PROVE  RevocationAhead'
  <2>1. PICK r \in Request :
           agenda' = [agenda EXCEPT ![w] =
                         <<r, [op |-> "reply", req |-> r, faults |-> faults]>>]
    BY <1>1, RequestsAssumption DEF Receive, TypeOK, WorldOK
  <2>2. r.op # "deleteUserNkey"
    BY DEF Request,
         IssueOperatorRequest, IssueAccountRequest,
         IssueUserRequest, UserCredsRequest, NkeyRequest, OperatorJWTRequest,
         AccountJWTRequest
  <2>3. revoked' = revoked
    BY <1>1 DEF Receive, tokens
  <2>4. Ahead(agenda'[w], revoked')
    BY <2>1, <2>2 DEF Ahead, TypeOK, AgendaOK
  <2>5. \A v \in Workers : v # w => agenda'[v] = agenda[v]
    BY <2>1 DEF TypeOK, AgendaOK
  <2> QED
    BY <2>3, <2>4, <2>5 DEF RevocationAhead, Ahead
<1>2. ASSUME NEW w \in Workers, StorageError(w)
      PROVE  RevocationAhead'
  <2>1. revoked' = revoked /\ agenda' = [agenda EXCEPT ![w] = Unwind(@)]
    BY <1>2 DEF StorageError, Fail, tokens
  <2>2. Ahead(agenda'[w], revoked)
    BY <2>1, AgendaTyped, AheadForAll, AheadUnwound DEF TypeOK, AgendaOK
  <2>3. \A v \in Workers : v # w => agenda'[v] = agenda[v]
    BY <2>1 DEF TypeOK, AgendaOK
  <2> QED
    BY <2>1, <2>2, <2>3 DEF RevocationAhead, Ahead
<1>3. CASE Crash
  BY <1>3 DEF Crash, RevocationAhead
<1>4. CASE UNCHANGED vars
  BY <1>4 DEF vars, tokens, RevocationAhead
<1>5. ASSUME NEW w \in Workers, StatusUnread(w) \/ SyncSkipped(w)
      PROVE  RevocationAhead'
  <2>1. /\ agenda[w] # <<>> /\ Calm(w) /\ revoked' = revoked
        /\ \A key : ~Revokes(Top(w), key)
    BY <1>5, FaultCalm DEF Revokes
  <2>2. Ahead(agenda'[w], revoked')
    BY <2>1, AheadForAll, CalmAhead
  <2>3. ASSUME NEW v \in Workers, v # w
        PROVE  Ahead(agenda'[v], revoked')
    BY <2>1, <2>3, OtherAgendas, AheadForAll, AheadEmpty
  <2> QED
    BY <2>2, <2>3 DEF RevocationAhead, Ahead
<1> QED
  BY <1>1, <1>2, <1>3, <1>4, <1>5, StepAhead DEF Next, Rest

\* As long as the key of a user who is being deleted is not revoked, the
\* JWT that revokes it is still to be made or stored by the same goroutine,
\* before the nkey is deleted, and no error on the way is ignored.
THEOREM RevocationIsAhead == Spec => []RevocationAhead
<1>1. TypeOK /\ RevocationAhead /\ [Next]_vars => RevocationAhead'
  BY RevocationNext
<1> QED
  BY <1>1, RevocationInit, TypeCorrect, PTL DEF Spec

\* deleteUserIssue deletes a user's nkey only after an account JWT that
\* revokes the key was stored.
THEOREM RevocationFirst == Spec => []RevokedBeforeErased
<1>1. TypeOK /\ RevocationAhead => RevokedBeforeErased
  <2> SUFFICES ASSUME TypeOK, RevocationAhead, NEW w \in Workers,
                      Running(w, "deleteUserNkey")
               PROVE  Top(w).key \in revoked \cup {None}
    BY DEF RevokedBeforeErased
  <2>1. ~Guarded(agenda[w], 1)
    BY DEF Guarded
  <2>2. 1 \in 1..Len(agenda[w]) /\ agenda[w][1] = Top(w)
    BY AgendaTyped, EmptySeq, LenProperties DEF Running, Top
  <2>3. agenda[w][1].op = "deleteUserNkey"
    BY <2>2 DEF Running, Top
  <2> QED
    BY <2>1, <2>2, <2>3 DEF RevocationAhead
<1> QED
  BY <1>1, RevocationIsAhead, TypeCorrect, PTL
=============================================================================
