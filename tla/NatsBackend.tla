---------------------------- MODULE NatsBackend ----------------------------
(***************************************************************************)
(* The secrets plugin for one operator: clients' requests and the periodic *)
(* function run on the workers, their steps interleave, storage accesses   *)
(* fail and the plugin process crashes.                                    *)
(***************************************************************************)
EXTENDS Periodic

-----------------------------------------------------------------------------
(* The calls on an agenda, by the shape of their arguments.                *)

OpCalls == {"putOperatorIssue", "refreshOperator", "issueOperatorJWT",
            "refreshAccountResolvers"}
PlainCalls == {"catch", "refreshPushUser", "deleteOperatorIssue",
               "deleteOperatorJWT", "deleteOperatorEntry", "periodicFunc",
               "periodicRefreshAccountIssues"}
AccNameCalls == {"updateUserIssues", "deleteAccountIssue", "deleteAccountJWT",
                 "deleteAccountEntry", "periodicRefreshUserIssues",
                 "periodicSync"}
AccIssueCalls == {"putAccountIssue", "issueAccountJWT", "updateAccountStatus"}
AccLoopCalls  == {"updateEachAccount", "pushEach", "periodicEachAccount"}
UserLoopCalls == {"updateEachUser", "periodicEachUser"}
UserNameCalls == {"issueUserNKeys", "deleteUserIssue", "deleteUserTemplate",
                  "addUserToRevocationList"}
ResolverModes == {"refresh", "periodic", "delete"}

\* What a client can ask for that changes something, by the tables of paths;
\* create and update are one operation, and reads are in NatsReads.
IssueOperatorRequest ==
    [op : {"addOperatorIssue"}, par : OpIssue]
    \cup [op : {"deleteOperatorIssue"}]
IssueAccountRequest ==
    [op : {"addAccountIssue"}, acc : Accounts, par : AccPar]
    \cup [op : {"deleteAccountIssue"}, acc : Accounts]
IssueUserRequest ==
    [op : {"addUserIssue"}, acc : Accounts, user : Users, par : UserPar]
    \cup [op : {"deleteUserIssue"}, acc : Accounts, user : Users]
\* parameters for the template's variables are given, or not
UserCredsRequest ==
    [op : {"generateUserCreds"}, acc : Accounts, user : Users,
     given : BOOLEAN]
\* for each of the five kinds of nkey, with a seed to import or without
NkeyRequest ==
    [op : {"addNkey"}, path : Path, seed : BOOLEAN]
    \cup [op : {"deleteNkeys"}, paths : SUBSET Path]
OperatorJWTRequest ==
    [op : {"addOperatorJWT"}, tok : OpToken]
    \cup [op : {"deleteOperatorJWT"}]
AccountJWTRequest ==
    [op : {"addAccountJWT"}, acc : Accounts, tok : AccToken]
    \cup [op : {"deleteAccountJWT"}, acc : Accounts]

\* what clients and the rollback manager can call
Request ==
    IssueOperatorRequest \cup IssueAccountRequest \cup IssueUserRequest
    \cup UserCredsRequest \cup NkeyRequest
    \cup OperatorJWTRequest \cup AccountJWTRequest
    \cup [op : {"periodicFunc"}]

InnerCall ==
    [op : OpCalls, iss : OpIssue]
    \cup [op : PlainCalls]
    \cup [op : {"issueOperatorNkeys"}, iss : OpIssue, todo : SUBSET Path,
          fresh : BOOLEAN]
    \cup [op : AccNameCalls, acc : Accounts]
    \cup [op : AccIssueCalls, acc : Accounts, iss : AccIssue]
    \cup [op : {"issueAccountNKeys"}, acc : Accounts, iss : AccIssue,
          todo : SUBSET Path, users : BOOLEAN, operator : BOOLEAN]
    \cup [op : AccLoopCalls, todo : SUBSET Accounts]
    \cup [op : {"periodicAccount"}, sync : BOOLEAN, todo : SUBSET Accounts]
    \cup [op : UserLoopCalls, acc : Accounts, todo : SUBSET Users]
    \cup [op : UserNameCalls, acc : Accounts, user : Users]
    \cup [op : {"storeUserIssueUpdate"}, acc : Accounts, user : Users,
          iss : UserIssue]
    \cup [op : {"deleteUserNkey"}, acc : Accounts, user : Users,
          key : Key \cup {None}]
    \cup [op : {"generateUserJWT"}, acc : Accounts, user : Users,
          use : AccKeys \cup {None}]
    \cup [op : {"formatUserConfig"}, acc : Accounts, user : Users,
          tok : UserToken]
    \cup [op : {"creds"}, acc : Accounts, tok : UserToken, seed : Key]
    \cup [op : {"putNkey"}, path : Path, gen : Nat]
    \cup [op : {"ensureIssue"}, path : Path]
    \cup [op : {"refreshAccountResolver"}, acc : Accounts, iss : AccIssue,
          mode : ResolverModes]
    \cup [op : {"refreshAccountResolver"}, acc : Accounts, iss : {None},
          mode : {"discard"}]
    \cup [op : {"pushAccount", "deleteAccounts"}, acc : Accounts,
          iss : AccIssue, mode : ResolverModes, tok : AccToken]
    \cup [op : {"pushAccount"}, acc : Accounts, iss : {None},
          mode : {"discard"}, tok : AccToken]

\* the end of a request that succeeded; faults counts those before it began
Reply == [op : {"reply"}, req : Request, faults : Nat]

Call == Request \cup InnerCall \cup Reply

ASSUME RequestsAssumption == Requests \subseteq Request

StorageOK ==
    /\ opIssue \in OpIssue \cup {None}
    /\ accIssue \in [Accounts -> AccIssue \cup {None}]
    /\ userIssue \in [Accounts -> [Users -> UserIssue \cup {None}]]
    /\ nkey \in [Path -> Nat]
    /\ minted \in [Path -> Nat]
    /\ opJWT \in OpToken \cup {None}
    /\ accJWT \in [Accounts -> AccToken \cup {None}]
WorldOK ==
    /\ server \in SUBSET AccToken
    /\ pending \in SUBSET Requests
    /\ revoked \in SUBSET Key
    /\ faults \in Nat
    /\ panicked \in BOOLEAN
AgendaOK == agenda \in [Workers -> Seq(Call)]
TypeOK   == StorageOK /\ WorldOK /\ AgendaOK

-----------------------------------------------------------------------------
(* Behaviour.                                                              *)

InitWith(requests) ==
    /\ opIssue = None
    /\ accIssue = [a \in Accounts |-> None]
    /\ userIssue = [a \in Accounts |-> [u \in Users |-> None]]
    /\ nkey = [p \in Path |-> 0]
    /\ minted = [p \in Path |-> 0]
    /\ opJWT = None
    /\ accJWT = [a \in Accounts |-> None]
    /\ server = {}
    /\ agenda = [w \in Workers |-> <<>>]
    /\ pending = requests
    /\ revoked = {}
    /\ faults = 0
    /\ panicked = FALSE
Init == InitWith(Requests)

Serving(w, op) == /\ agenda[w] # <<>>
                  /\ agenda[w][Len(agenda[w])].op = "reply"
                  /\ agenda[w][Len(agenda[w])].req.op = op

\* A request arrives.  The rollback manager does not start the periodic
\* function of a backend while it is still running.  (Generating credentials
\* makes no nkey, so it is not bounded by MaxMint.)
Receive(w) ==
    /\ agenda[w] = <<>>
    /\ \E r \in pending :
          /\ r.op = "generateUserCreds" \/ \A p \in Path : minted[p] < MaxMint
          /\ r.op = "periodicFunc" => \A v \in Workers : ~Serving(v, r.op)
          /\ agenda' = [agenda EXCEPT ![w] =
                           <<r, [op |-> "reply", req |-> r, faults |-> faults]>>]
          /\ pending' = IF Repeat THEN pending ELSE pending \ {r}
    /\ UNCHANGED <<issues, tokens, seeds, server, faults, panicked>>

\* success is reported to the client
Respond(w) ==
    /\ Running(w, "reply")
    /\ Do(w, <<>>)
    /\ UNCHANGED <<issues, tokens, seeds, world>>

\* a call whose error is ignored returned without one
LeaveCatch(w) ==
    /\ Running(w, "catch")
    /\ Do(w, <<>>)
    /\ UNCHANGED <<issues, tokens, seeds, world>>

\* does the call access storage, where it may fail?
Accesses(c) ==
    /\ c.op \notin {"catch", "reply", "creds", "pushAccount", "pushEach",
                    "refreshOperator", "periodicAccount"}
    /\ c.op = "issueOperatorNkeys" => c.todo # {} \/ c.fresh
    /\ c.op = "issueAccountNKeys" => c.todo # {} \/ c.operator
    /\ c.op = "refreshAccountResolvers" => c.iss.sync = "on"

OneFault == faults < MaxFaults /\ faults' = faults + 1

\* a storage access of w's next call fails, and so does the call
StorageError(w) ==
    /\ agenda[w] # <<>>
    /\ Accesses(Top(w)) /\ Top(w).op # "periodicSync"
    /\ OneFault
    /\ Fail(w)
    /\ UNCHANGED <<issues, tokens, seeds, server, pending, panicked>>

\* updateUserStatus takes an nkey it cannot read for missing
StatusUnread(w) ==
    /\ storeUserStatus(w, FALSE)
    /\ OneFault
    /\ UNCHANGED <<server, pending, panicked>>

\* periodicFunc logs that it cannot read an account issue and goes on
SyncSkipped(w) ==
    /\ Running(w, "periodicSync")
    /\ OneFault
    /\ Do(w, <<>>)
    /\ UNCHANGED <<issues, tokens, seeds, server, pending, panicked>>

\* the plugin process is killed and started again
Crash ==
    /\ \E w \in Workers : agenda[w] # <<>>
    /\ OneFault
    /\ agenda' = [w \in Workers |-> <<>>]
    /\ UNCHANGED <<issues, tokens, seeds, server, pending, panicked>>

Step(w) == \/ NkeyStep(w) \/ UserStep(w) \/ ServerStep(w) \/ AccountStep(w)
           \/ OperatorStep(w) \/ PeriodicStep(w)
           \/ LeaveCatch(w) \/ Respond(w)

\* no request is being served; another one need not come
Idle == \A w \in Workers : agenda[w] = <<>>
Rest == Idle /\ UNCHANGED vars

Next == \/ \E w \in Workers : \/ Receive(w) \/ Step(w)
                              \/ StorageError(w) \/ StatusUnread(w)
                              \/ SyncSkipped(w)
        \/ Crash
        \/ Rest

Spec     == Init /\ [][Next]_vars
\* a goroutine that has something to do is scheduled
FairSpec == Spec /\ \A w \in Workers : WF_vars(Step(w))
=============================================================================
