----------------------------- MODULE NatsReads -----------------------------
(***************************************************************************)
(* What the read and list requests answer.  They change nothing, so they   *)
(* are functions of the state and no actions: the status an operator issue *)
(* is read with is made from storage while it is read, that of accounts    *)
(* and users is the one their last refresh stored.                         *)
(***************************************************************************)
EXTENDS NatsBackend

Status(nk, jwt) == [nkey |-> nk, jwt |-> jwt]

\* a template stands for the JWT of the push user, which is made on demand
getIssueOperatorStatus ==
    [operator          |-> Status(Stored(OpPath), opJWT # None),
     systemAccount     |-> Status(Stored(AccPath(SysAccount)),
                                  accJWT[SysAccount] # None),
     systemAccountUser |-> Status(Stored(UserPath(SysAccount, PushUser)),
                                  userIssue[SysAccount][PushUser] # None)]

readAccountStatus(a) == Status(accIssue[a].nkey, accIssue[a].jwt)
readUserStatus(a, u) == Status(userIssue[a][u].nkey, FALSE)

\* what can be listed: templates stand for credentials, too
listUserCreds(a) == UserList(a)
=============================================================================
