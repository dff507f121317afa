--------------------------- MODULE MCNatsBackend ---------------------------
(* Instances of NatsProperties for TLC: the requests each run makes.       *)
EXTENDS NatsProperties

CONSTANTS sys, acc, push, usr, k1, s1, mine, broken, dflt

op(s, y, ks) == [op |-> "addOperatorIssue",
                 par |-> [sys |-> s, sync |-> y, signing |-> ks]]
account(a, ss, use, c) ==
    [op |-> "addAccountIssue", acc |-> a,
     par |-> [signing |-> ss, use |-> use, claims |-> c, revs |-> {}]]
user(a, u, use) == [op |-> "addUserIssue", acc |-> a, user |-> u,
                    par |-> [use |-> use, vars |-> FALSE]]
noUser(a, u)    == [op |-> "deleteUserIssue", acc |-> a, user |-> u]
noAccount(a)    == [op |-> "deleteAccountIssue", acc |-> a]
noOp            == [op |-> "deleteOperatorIssue"]
creds(a, u)     == [op |-> "generateUserCreds", acc |-> a, user |-> u,
                    given |-> FALSE]
periodic        == [op |-> "periodicFunc"]
template(a, u)  == [op |-> "addUserIssue", acc |-> a, user |-> u,
                    par |-> [use |-> None, vars |-> TRUE]]
importKey(p)    == [op |-> "addNkey", path |-> p, seed |-> TRUE]
newKey(p)       == [op |-> "addNkey", path |-> p, seed |-> FALSE]
noKey(p)        == [op |-> "deleteNkeys", paths |-> {p}]
importOpJWT     == [op |-> "addOperatorJWT",
                    tok |-> [sub |-> <<OpPath, 0>>, sys |-> None,
                             signing |-> {}]]
importJWT(a)    == [op |-> "addAccountJWT", acc |-> a,
                    tok |-> [sub |-> <<AccPath(a), 0>>,
                             iss |-> <<OpPath, 0>>, signing |-> {},
                             revs |-> {}, claims |-> mine]]
noOpJWT         == [op |-> "deleteOperatorJWT"]
noJWT(a)        == [op |-> "deleteAccountJWT", acc |-> a]

\* creation, change and deletion in any order, with a well-behaved operator:
\* it declares k1 as long as accounts may be signed with it
Orderly ==
    {op(FALSE, "off", {k1}), op(TRUE, "on", {k1}),
     account(acc, {s1}, k1, mine), account(acc, {}, None, mine),
     account(sys, {}, None, mine),
     user(acc, usr, None), user(acc, usr, s1), noUser(acc, usr),
     noAccount(acc), creds(acc, usr), periodic}

\* two users of an account come and go, operator and account change
Revoking ==
    {op(FALSE, "off", {}), op(FALSE, "on", {k1}), op(TRUE, "off", {}),
     account(acc, {s1}, None, mine),
     user(acc, usr, None), noUser(acc, usr),
     user(acc, push, None), noUser(acc, push), periodic}

\* as before with removals of signing keys and of the operator
Disturbed ==
    {op(FALSE, "off", {}), op(FALSE, "on", {k1}), noOp,
     account(acc, {s1}, None, mine), account(acc, {}, None, mine),
     user(acc, usr, None), noUser(acc, usr),
     noAccount(acc), periodic}

\* an operator with system account and account server, created while another
\* account and its user are
Creation ==
    {op(TRUE, "on", {}), account(acc, {s1}, None, mine), user(acc, usr, s1)}

\* deep recursion: the sys account and its push user come and go under an
\* operator that generates them and pushes to an account server
SysAccountCycle ==
    {op(TRUE, "on", {}), op(TRUE, "nourl", {k1}), account(sys, {}, None, mine),
     noAccount(sys), user(sys, push, None), noUser(sys, push), periodic}

\* creation and deletion of a user while the periodic function runs
Removal ==
    {op(FALSE, "off", {}), account(acc, {}, None, mine), user(acc, usr, None),
     noUser(acc, usr), periodic}

\* the periodic function runs while an account is deleted, after operator,
\* system account, push user and account were created one after the other
Creating     == {op(TRUE, "on", {}), account(acc, {}, None, mine)}
Resurrection == Creating \cup {noAccount(acc), periodic}
Prepared ==
    (\/ pending \cap Creating # {}
     \/ \E w \in Workers, r \in Creating :
           agenda[w] # <<>> /\ agenda[w][Len(agenda[w])].req = r)
    => /\ Cardinality({w \in Workers : agenda'[w] # <<>>}) <= 1
       /\ pending \ pending' \subseteq Creating
ResurrectionSpec == Init /\ [][Next /\ Prepared]_vars

\* nkeys and JWTs written and deleted directly, the push user's template
\* with a variable nobody gives a value, claims that do not convert
Imports ==
    {op(FALSE, "on", {}), account(acc, {}, None, mine),
     account(acc, {}, None, broken), template(sys, push), periodic,
     importKey(OpPath), noKey(OpPath), newKey(AccPath(sys)),
     noKey(AccPath(acc)), importJWT(acc), noJWT(acc), importOpJWT, noOpJWT}

\* scenarios that one run explores, each from the start
InitWithOneOf(scenarios) == \E R \in scenarios : InitWith(R)

InOrder       == {Orderly, Revoking, SysAccountCycle}
InOrderAll    == UNION InOrder
InOrderSpec   == InitWithOneOf(InOrder) /\ [][Next]_vars

CutShort      == {Disturbed, Imports}
CutShortAll   == UNION CutShort
CutShortSpec  == InitWithOneOf(CutShort) /\ [][Next]_vars

AtOnce        == {Creation, Removal}
AtOnceAll     == UNION AtOnce
AtOnceSpec    == InitWithOneOf(AtOnce) /\ [][Next]_vars

\* an account is created while its nkey is imported
ImportRace == {account(acc, {}, None, mine), importKey(AccPath(acc))}

\* the JWT of an operator is imported
ImportOperator == {importOpJWT, op(FALSE, "off", {}), noOpJWT, periodic}

\* the life of an operator with a generated system account
WithSysAccount == {op(TRUE, "off", {}), noOp, account(sys, {s1}, None, mine),
                   noAccount(sys)}

\* the same with a signing key, and the system account's nkey deleted
SysKeyTaken == {op(TRUE, "off", {k1}), noOp, noKey(AccPath(sys))}

\* two users of one account are deleted at the same time
TwoDeletions ==
    {account(acc, {}, None, mine), user(acc, usr, None), user(acc, push, None),
     noUser(acc, usr), noUser(acc, push), op(FALSE, "off", {})}

\* two changes of one account at the same time, under an account server
TwoChanges ==
    {op(TRUE, "on", {}), account(acc, {}, None, mine),
     account(acc, {s1}, None, mine)}

\* the system account goes, and its user stays
SysAccountGoes == {op(TRUE, "off", {}), noAccount(sys)}
=============================================================================
