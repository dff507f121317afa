------------------------------ MODULE Periodic ------------------------------
(***************************************************************************)
(* The periodic function (backend.go), restricted to one operator: the     *)
(* rollback manager calls it, it repairs accounts and users whose JWT or   *)
(* nkey is missing, and it pushes every account to the account server.     *)
(***************************************************************************)
EXTENDS OperatorIssues

periodicAccounts(sync, todo) ==
    IF todo = {} THEN <<>>
    ELSE <<[op |-> "periodicAccount", sync |-> sync, todo |-> todo]>>

PeriodicFunc(w) ==
    /\ Running(w, "periodicFunc")
    /\ \/ /\ opIssue = None
          /\ Do(w, <<>>)
       \/ /\ opIssue # None
          /\ Do(w, periodicAccounts(opIssue.sync # "off", AccountList))
    /\ UNCHANGED <<issues, tokens, seeds, world>>

\* one turn of the loop: repair ALL accounts, repair the users of this one,
\* push this one; errors of the repairs are logged, one of the push is not
PeriodicAccount(w) ==
    /\ Running(w, "periodicAccount")
    /\ LET t == Top(w) IN
       \E a \in t.todo :
          Do(w, <<[op |-> "periodicRefreshAccountIssues"]>> \o Catch
                \o <<[op |-> "periodicRefreshUserIssues", acc |-> a]>> \o Catch
                \o (IF t.sync THEN <<[op |-> "periodicSync", acc |-> a]>>
                    ELSE <<>>)
                \o periodicAccounts(t.sync, t.todo \ {a}))
    /\ UNCHANGED <<issues, tokens, seeds, world>>

PeriodicRefreshAccountIssues(w) ==
    /\ Running(w, "periodicRefreshAccountIssues")
    /\ Do(w, Each("periodicEachAccount", AccountList))
    /\ UNCHANGED <<issues, tokens, seeds, world>>

\* mutant: only the status is looked at
accountLooksWhole(a, i) == i.jwt /\ i.nkey

accountWhole(a, i) == /\ i.jwt /\ accJWT[a] # None
                      /\ i.nkey /\ Stored(AccPath(a))

\* an issue that vanished after the listing is dereferenced
PeriodicEachAccount(w) ==
    /\ Running(w, "periodicEachAccount")
    /\ \E a \in Top(w).todo :
       LET i    == accIssue[a]
           rest == Each("periodicEachAccount", Top(w).todo \ {a})
       IN
       \/ /\ i = None
          /\ Panic
       \/ /\ i # None
          /\ Do(w, IF accountWhole(a, i) THEN rest
                   ELSE refreshAccount(a, i) \o rest)
          /\ UNCHANGED panicked
    /\ UNCHANGED <<issues, tokens, seeds, server, pending, faults>>

periodicEachUser(a, todo) ==
    IF todo = {} THEN <<>>
    ELSE <<[op |-> "periodicEachUser", acc |-> a, todo |-> todo]>>

PeriodicRefreshUserIssues(w) ==
    /\ Running(w, "periodicRefreshUserIssues")
    /\ Do(w, periodicEachUser(Top(w).acc, UserList(Top(w).acc)))
    /\ UNCHANGED <<issues, tokens, seeds, world>>

PeriodicEachUser(w) ==
    /\ Running(w, "periodicEachUser")
    /\ LET t == Top(w) IN
       \E u \in t.todo :
       LET i     == userIssue[t.acc][u]
           whole == i.nkey /\ Stored(UserPath(t.acc, u))
           rest  == periodicEachUser(t.acc, t.todo \ {u})
       IN
       \/ /\ i = None
          /\ Panic
       \/ /\ i # None
          /\ Do(w, IF whole THEN rest ELSE refreshUser(t.acc, u, i) \o rest)
          /\ UNCHANGED panicked
    /\ UNCHANGED <<issues, tokens, seeds, server, pending, faults>>

\* the issue read here is the one stored after the push
PeriodicSync(w) ==
    /\ Running(w, "periodicSync")
    /\ LET a == Top(w).acc IN
       \/ /\ accIssue[a] = None
          /\ Do(w, <<>>)
       \/ /\ accIssue[a] # None
          /\ Do(w, accountResolver(a, accIssue[a], "periodic"))
    /\ UNCHANGED <<issues, tokens, seeds, world>>

PeriodicStep(w) ==
    \/ PeriodicFunc(w) \/ PeriodicAccount(w)
    \/ PeriodicRefreshAccountIssues(w) \/ PeriodicEachAccount(w)
    \/ PeriodicRefreshUserIssues(w) \/ PeriodicEachUser(w)
    \/ PeriodicSync(w)
=============================================================================
