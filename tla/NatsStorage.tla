---------------------------- MODULE NatsStorage ----------------------------
(***************************************************************************)
(* The state of the NATS secrets plugin for ONE operator, and the          *)
(* primitives its handlers are written with.                               *)
(*                                                                         *)
(* Everything the plugin keeps is in Vault's storage, a map from paths to  *)
(* entries whose single Get, Put, Delete and List are atomic.  The Go      *)
(* handlers take no lock, so a handler is a sequence of such accesses that *)
(* other handlers and the periodic function interleave with.  A goroutine  *)
(* is a worker; its call stack is its agenda, the sequence of calls it     *)
(* still has to make, the next one first.  One step executes the first     *)
(* call: it makes at most one write and replaces the call by the calls     *)
(* that follow from it.                                                    *)
(***************************************************************************)
EXTENDS Naturals, Sequences, FiniteSets

CONSTANTS
    Workers,      \* goroutines that serve requests or run the periodic function
    Accounts,     \* account names below the operator
    SysAccount,   \* DefaultSysAccountName, "sys"
    Users,        \* user names below an account
    PushUser,     \* DefaultPushUser, "default-push"
    OpKeys,       \* names of operator signing keys
    AccKeys,      \* names of account signing keys
    Claims,       \* the account claims a client writes, as far as they differ
    Convertible,  \* the claims v1alpha1.Convert accepts
    DefaultClaims,\* stands for the zero AccountClaims and those of issueSystemAccount
    None,         \* nil, "" or "not found"
    Requests,     \* the calls clients and the rollback manager make
    Repeat,       \* may a request of Requests be made more than once?
    MaxMint,      \* bound: once a path had MaxMint nkeys, only credentials
                  \* are requested
    MaxFaults     \* bound: storage errors and plugin crashes

ASSUME NamesAssumption ==
    /\ SysAccount \in Accounts
    /\ PushUser \in Users
    /\ Convertible \subseteq Claims
    /\ DefaultClaims \in Convertible
    /\ None \notin Accounts \cup Users \cup OpKeys \cup AccKeys
    /\ Repeat \in BOOLEAN
    /\ MaxMint \in Nat
    /\ MaxFaults \in Nat

VARIABLES
    opIssue,      \* issue/operator/O
    accIssue,     \* issue/operator/O/account/A
    userIssue,    \* issue/operator/O/account/A/user/U
    nkey,         \* nkey/...: the generation of the seed at a path, 0 if none
    opJWT,        \* jwt/operator/O
    accJWT,       \* jwt/operator/O/account/A
    server,       \* the account JWTs the NATS account server holds
    agenda,       \* agenda[w]: the calls worker w still has to make
    pending,      \* the requests that may still be made
    minted,       \* how many seeds a path has had (a fresh seed is the next)
    revoked,      \* history: user keys some stored account JWT has revoked
    faults,       \* storage errors and crashes so far
    panicked      \* history: did a nil dereference end the plugin process?

issues  == <<opIssue, accIssue, userIssue>>
tokens  == <<opJWT, accJWT, revoked>>
seeds   == <<nkey, minted>>
world   == <<server, pending, faults, panicked>>
vars    == <<issues, tokens, seeds, world, agenda>>

-----------------------------------------------------------------------------
(* Nkeys.  A seed is known by the path it is stored at and its generation; *)
(* generation 0 stands for seeds that never were in this storage.          *)

Path == ({"operator"} \X {None} \X (OpKeys \cup {None}))
        \cup ({"account"} \X Accounts \X (AccKeys \cup {None}))
        \cup ({"user"} \X Accounts \X Users)
Key  == Path \X Nat

OpPath           == <<"operator", None, None>>
OpSigning(k)     == <<"operator", None, k>>
AccPath(a)       == <<"account", a, None>>
AccSigning(a, s) == <<"account", a, s>>
UserPath(a, u)   == <<"user", a, u>>

Stored(p) == nkey[p] # 0
Pub(p)    == <<p, nkey[p]>>     \* the public key of the seed stored at p

OpSignings(ks)     == {OpSigning(k) : k \in ks}
AccSignings(a, ss) == {AccSigning(a, s) : s \in ss}
Pubs(ps)           == {Pub(p) : p \in {q \in ps : Stored(q)}}

-----------------------------------------------------------------------------
(* Storage entries.                                                        *)

\* sync: SyncAccountServer off; on without a URL; on with AccountServerURL
OpIssue   == [sys : BOOLEAN, sync : {"off", "nourl", "on"},
              signing : SUBSET OpKeys]
AccPar    == [signing : SUBSET AccKeys, use : OpKeys \cup {None},
              claims : Claims, revs : SUBSET Key]
AccIssue  == [par : AccPar, nkey : BOOLEAN, jwt : BOOLEAN, synced : BOOLEAN]
\* vars: does the claims template contain {{variables}}?
UserPar   == [use : AccKeys \cup {None}, vars : BOOLEAN]
UserIssue == [par : UserPar, nkey : BOOLEAN]

OpToken   == [sub : Key, sys : Key \cup {None}, signing : SUBSET Key]
AccToken  == [sub : Key, iss : Key, signing : SUBSET Key, revs : SUBSET Key,
              claims : Claims]
UserToken == [sub : Key, iss : Key, issAcc : Key \cup {None}]

\* what is not found is no entry
ASSUME NoneAssumption ==
    None \notin OpIssue \cup AccIssue \cup UserIssue \cup OpToken \cup AccToken

AccountList    == {a \in Accounts : accIssue[a] # None}
UserList(a)    == {u \in Users : userIssue[a][u] # None}

-----------------------------------------------------------------------------
(* Agendas.                                                                *)

Running(w, op) == agenda[w] # <<>> /\ Head(agenda[w]).op = op
Top(w)         == Head(agenda[w])

\* the first call of w is done and these calls come next
Do(w, calls) == agenda' = [agenda EXCEPT ![w] = calls \o Tail(@)]

\* "ignore error": errors of the calls before it end here
Catch == <<[op |-> "catch"]>>

\* mutant: an error only skips the call it came from
UnwindNothing(s) == Tail(s)

\* return err, up through every caller that passes the error on
Unwind(s) ==
    LET first == {i \in 1..Len(s) :
                     /\ s[i].op = "catch"
                     /\ \A j \in 1..(i - 1) : s[j].op # "catch"}
    IN  IF first = {} THEN <<>>
        ELSE SubSeq(s, (CHOOSE i \in first : TRUE) + 1, Len(s))
Fail(w) == agenda' = [agenda EXCEPT ![w] = Unwind(@)]

\* a nil dereference ends the process, and with it every goroutine
Panic == /\ agenda' = [w \in Workers |-> <<>>]
         /\ panicked' = TRUE

\* the call of a loop over the names in todo; nothing once it is empty
Each(op, todo) == IF todo = {} THEN <<>> ELSE <<[op |-> op, todo |-> todo]>>
=============================================================================
