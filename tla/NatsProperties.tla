--------------------------- MODULE NatsProperties ---------------------------
(***************************************************************************)
(* What the plugin promises.  Each property says under which requests,     *)
(* faults and interleavings it is meant; the runs choose those.            *)
(***************************************************************************)
EXTENDS NatsReads

Answering(w, op) == Running(w, "reply") /\ Top(w).req.op = op
\* the request being answered met no storage error and no crash
Undisturbed(w)   == Top(w).faults = faults

-----------------------------------------------------------------------------
(* Requests one at a time.                                                 *)

\* The chain of trust: whenever no request is running and operator JWT and
\* issue exist, the operator JWT is signed by the stored operator nkey and
\* names the stored sys account, and the JWT of every account is exactly
\* what its issue and the stored nkeys give, issued by a key the operator
\* JWT vouches for.  (refreshOperator and refreshAccount call each other
\* through several levels to get there, in whatever order the issues come.)
TrustChain ==
    (Idle /\ opIssue # None /\ opJWT # None) =>
        /\ opJWT.sub = Pub(OpPath)
        /\ Stored(AccPath(SysAccount)) => opJWT.sys = Pub(AccPath(SysAccount))
        /\ \A a \in AccountList :
              /\ accJWT[a] = AccountToken(a, accIssue[a].par)
              /\ accJWT[a].iss \in {opJWT.sub} \cup opJWT.signing

\* Credentials generateUserCreds hands out work, whatever became of the keys
\* before: a signing key that was removed and declared again has a new seed,
\* and so has an account that was deleted and created again, with users that
\* were left over.  The seed belongs to the JWT, and the stored JWT of the
\* account accepts the issuer.  (A revocation of the key concerns the JWTs
\* issued before it, so it does not matter here.)
CredsVerify ==
    \A w \in Workers :
        (Running(w, "creds") /\ accJWT[Top(w).acc] # None) =>
            LET c == Top(w)
                j == accJWT[c.acc]
            IN  /\ c.tok.sub = c.seed
                /\ c.tok.iss \in {j.sub} \cup j.signing
                /\ c.tok.issAcc \in {None, j.sub}

\* No handler dereferences nil (issueOperatorJWT without an operator nkey,
\* the periodic function on an issue that is gone).
NoPanic == ~panicked

\* A user that was revoked in the JWT of an account stays revoked as long as
\* the account keeps its nkey, unless a client (or, for the sys account, the
\* operator) writes the account's claims anew.
Rewriting(a) ==
    \E w \in Workers :
        \/ Serving(w, "addAccountIssue") /\ agenda[w][Len(agenda[w])].req.acc = a
        \/ a = SysAccount /\ (\/ Serving(w, "addOperatorIssue")
                              \/ Serving(w, "addAccountIssue"))
RevocationsKept ==
    [][\A a \in Accounts :
          (/\ accJWT[a] # None /\ accJWT'[a] # None
           /\ accJWT'[a].sub = accJWT[a].sub
           /\ ~Rewriting(a))
          => accJWT[a].revs \subseteq accJWT'[a].revs]_vars

\* The account server keeps in step: once it holds the JWT an account has in
\* storage, no handler makes it hold another one or none as long as that is
\* the JWT in storage, except to delete the account.  (The JWT that is pushed
\* was read from storage some calls before it is sent.)
Removing(a) ==
    \E w \in Workers :
        \/ Serving(w, "deleteOperatorIssue")
        \/ /\ Serving(w, "deleteAccountIssue")
           /\ agenda[w][Len(agenda[w])].req.acc = a
CurrentStaysHeld ==
    [][\A a \in Accounts :
          (/\ accJWT[a] \in server
           /\ accJWT'[a] = accJWT[a]
           /\ ~Removing(a))
          => accJWT[a] \in server']_vars

\* What accounts and users are read with is true: a status stored by the last
\* refresh says that there is an nkey, or a JWT, only if there is one, however
\* far the refreshes since have come.
StatusTrue ==
    Idle => \A a \in AccountList :
               /\ readAccountStatus(a).nkey => Stored(AccPath(a))
               /\ readAccountStatus(a).jwt => accJWT[a] # None
               /\ \A u \in UserList(a) :
                     readUserStatus(a, u).nkey => Stored(UserPath(a, u))

\* A stored seed is never replaced by a generated one: only the import of a
\* seed for its path, or a deletion, changes it.  (The handlers get to addNkey
\* along many ways, for nkeys other handlers have made in the meantime.)
SeedsKept ==
    [][\A p \in Path :
          (Stored(p) /\ nkey'[p] \notin {0, nkey[p]}) =>
              \E w \in Workers :
                  /\ Serving(w, "addNkey")
                  /\ agenda[w][Len(agenda[w])].req.path = p
                  /\ agenda[w][Len(agenda[w])].req.seed]_vars

-----------------------------------------------------------------------------
(* One at a time, with storage errors and crashes.                         *)

\* An account that does not exist comes to exist only through a request that
\* creates it: no handler puts a deleted issue back.
OnlyRequestsCreate ==
    [][\A a \in Accounts :
          (accIssue[a] = None /\ accIssue'[a] # None) =>
              \/ Rewriting(a)
              \/ \E w \in Workers : \/ Serving(w, "addNkey")
                                   \/ Serving(w, "addAccountJWT")]_vars

\* A signing nkey in storage is always declared by the issue it belongs to,
\* whatever step a handler was stopped at: none is left behind unreachable.
NoOrphanKeys ==
    Idle => /\ \A a \in Accounts, s \in AccKeys :
                  Stored(AccSigning(a, s)) =>
                      accIssue[a] # None /\ s \in accIssue[a].par.signing
            /\ \A k \in OpKeys :
                  Stored(OpSigning(k)) =>
                      opIssue # None /\ k \in opIssue.signing

\* A delete request that reports success has left no nkey, no JWT and no
\* issue, also when it finishes what an interrupted one began.
DeletedIsGone ==
    \A w \in Workers :
        /\ Answering(w, "deleteAccountIssue") =>
              LET a == Top(w).req.acc IN
              /\ accIssue[a] = None /\ accJWT[a] = None
              /\ \A s \in AccKeys \cup {None} : ~Stored(AccSigning(a, s))
        /\ Answering(w, "deleteUserIssue") =>
              LET r == Top(w).req IN
              /\ userIssue[r.acc][r.user] = None
              /\ ~Stored(UserPath(r.acc, r.user))
        /\ Answering(w, "deleteOperatorIssue") =>
              /\ opIssue = None /\ opJWT = None
              /\ \A k \in OpKeys \cup {None} : ~Stored(OpSigning(k))

\* can every account be signed and pushed?
Healthy ==
    /\ opIssue # None
    /\ Stored(OpPath)
    /\ \A a \in AccountList : /\ accIssue[a].par.claims \in Convertible
                              /\ Stored(Signer(accIssue[a].par))
    /\ userIssue[SysAccount][PushUser] # None =>
           ~userIssue[SysAccount][PushUser].par.vars

\* An undisturbed run of the periodic function leaves every account with an
\* nkey and a JWT, and every user of an account with an nkey, whatever
\* earlier requests were interrupted at.
PeriodicHeals ==
    \A w \in Workers :
        (Answering(w, "periodicFunc") /\ Undisturbed(w) /\ Healthy) =>
            \A a \in AccountList :
                /\ Stored(AccPath(a)) /\ accJWT[a] # None
                /\ accIssue[a].nkey /\ accIssue[a].jwt
                /\ \A u \in UserList(a) :
                      Stored(UserPath(a, u)) /\ userIssue[a][u].nkey

-----------------------------------------------------------------------------
(* Any number of workers, any interleaving, errors and crashes.            *)

\* deleteUserIssue deletes a user's nkey only after an account JWT that
\* revokes the key it read had been stored: whatever fails before that keeps
\* the nkey.
RevokedBeforeErased ==
    \A w \in Workers :
        Running(w, "deleteUserNkey") => Top(w).key \in revoked \cup {None}

\* Why that is so: as long as the key is not revoked, the call that makes the
\* JWT revoking it, or the one that stores it, comes first on the same agenda,
\* and an error on the way takes the deletion along, for nothing in between
\* catches it.
Revokes(c, key) ==
    \/ c.op = "issueAccountJWT" /\ key \in c.iss.par.revs
    \/ c.op = "addAccountJWT" /\ key \in c.tok.revs
Guarded(s, j) ==
    \E i \in 1..(j - 1) : /\ Revokes(s[i], s[j].key)
                         /\ \A k \in i..j : s[k].op # "catch"
RevocationAhead ==
    \A w \in Workers : \A j \in 1..Len(agenda[w]) :
        agenda[w][j].op = "deleteUserNkey" =>
            \/ agenda[w][j].key \in revoked \cup {None}
            \/ Guarded(agenda[w], j)

\* When everything asked for is done, and nothing failed, every account has
\* a JWT issued by the operator, however its creation and that of the
\* operator interleaved: either the account's request saw the operator's
\* nkey, or the operator's request lists the account.
NoAccountLeftUnsigned ==
    (/\ Idle /\ pending = {} /\ faults = 0 /\ ~panicked
     /\ Stored(OpPath)) =>
        \A a \in AccountList : /\ accJWT[a] # None
                               /\ accJWT[a].iss = Pub(OpPath)

\* Every request ends, although the handlers call each other recursively.
RequestsEnd ==
    \A w \in Workers : agenda[w] # <<>> ~> agenda[w] = <<>>

-----------------------------------------------------------------------------
(* What comments of the code say and the code does not do.                 *)

\* "delete issue and all related nkeys and jwt": when a delete request for
\* the operator has ended, successfully or not, and nothing disturbed it,
\* the operator issue is gone.
OperatorDeleteWorks ==
    [][\A w \in Workers :
          (/\ Serving(w, "deleteOperatorIssue")
           /\ agenda'[w] = <<>>
           /\ faults' = 0)
          => opIssue' = None]_vars

\* "delete issue and all related nkeys and jwt": what the periodic function
\* stores for an account it has just pushed never brings back an issue that
\* was deleted since it was read.
Synchronised(w) ==
    /\ Serving(w, "periodicFunc") /\ Running(w, "putAccountIssue")
    /\ \A i \in 1..Len(agenda[w]) : agenda[w][i].op # "catch"
SyncCreatesNothing ==
    [][\A w \in Workers :
          (Synchronised(w) /\ PutAccountIssue(w))
          => accIssue[Top(w).acc] # None]_vars

\* "create nkey and signing nkeys": an account whose request was answered
\* has an nkey for every signing key its issue declares.
DeclaredKeysExist ==
    \A w \in Workers :
        Answering(w, "addAccountIssue") =>
            LET a == Top(w).req.acc IN
            \A s \in accIssue[a].par.signing : Stored(AccSigning(a, s))

\* "Operator JWT to import.": a JWT whose import was answered is stored.
ImportedJWTStored ==
    \A w \in Workers :
        Answering(w, "addOperatorJWT") => opJWT = Top(w).req.tok

\* "User template exists, so JWT can be generated on-demand": when the status
\* of the operator issue says that the system account's user has a JWT, its
\* credentials can be made.
PushUserReady ==
    (Idle /\ getIssueOperatorStatus.systemAccountUser.jwt) =>
        CredsAvailable(SysAccount, PushUser)
=============================================================================
