--------------------------- MODULE OperatorIssues ---------------------------
(***************************************************************************)
(* Operator issues: paths_issue_operator.go.                               *)
(***************************************************************************)
EXTENDS AccountIssues

\* storeOperatorIssue: the nkeys of removed signing keys are deleted, then
\* the whole issue is replaced
AddOperatorIssue(w) ==
    /\ Running(w, "addOperatorIssue")
    /\ LET i    == Top(w).par
           gone == IF opIssue = None THEN {} ELSE opIssue.signing \ i.signing
       IN  Do(w, deleteNkeys(OpSignings(gone))
                 \o <<[op |-> "putOperatorIssue", iss |-> i],
                      [op |-> "refreshOperator", iss |-> i],
                      [op |-> "refreshAccountResolvers", iss |-> i]>>)
    /\ UNCHANGED <<issues, tokens, seeds, world>>

PutOperatorIssue(w) ==
    /\ Running(w, "putOperatorIssue")
    /\ opIssue' = Top(w).iss
    /\ Do(w, <<>>)
    /\ UNCHANGED <<accIssue, userIssue, tokens, seeds, world>>

OperatorPaths(i) == {OpPath} \cup OpSignings(i.signing)

\* what issueSystemAccount asks for
issueSystemAccount ==
    <<[op |-> "addAccountIssue", acc |-> SysAccount, par |-> DefaultAcc],
      [op |-> "addUserIssue", acc |-> SysAccount, user |-> PushUser,
       par |-> DefaultUser]>>

\* mutant: the JWT is issued before the nkeys
RefreshOperatorJWTFirst(w) ==
    /\ Running(w, "refreshOperator")
    /\ LET i == Top(w).iss IN
       Do(w, <<[op |-> "issueOperatorJWT", iss |-> i],
               [op |-> "issueOperatorNkeys", iss |-> i,
                todo |-> OperatorPaths(i), fresh |-> FALSE]>>
             \o (IF i.sys THEN issueSystemAccount ELSE <<>>))
    /\ UNCHANGED <<issues, tokens, seeds, world>>

RefreshOperator(w) ==
    /\ Running(w, "refreshOperator")
    /\ LET i == Top(w).iss IN
       Do(w, <<[op |-> "issueOperatorNkeys", iss |-> i,
                todo |-> OperatorPaths(i), fresh |-> FALSE],
               [op |-> "issueOperatorJWT", iss |-> i]>>
             \o (IF i.sys THEN issueSystemAccount ELSE <<>>))
    /\ UNCHANGED <<issues, tokens, seeds, world>>

\* one turn of the loop of issueOperatorNkeys, the operator's nkey first
IssueOperatorNkey(w) ==
    /\ Running(w, "issueOperatorNkeys")
    /\ LET t == Top(w) IN
       \E p \in t.todo :
          /\ OpPath \in t.todo => p = OpPath
          /\ \/ /\ Stored(p)
                /\ Do(w, <<[t EXCEPT !.todo = @ \ {p}]>>)
             \/ /\ ~Stored(p)
                /\ Do(w, addNkey(p, FALSE)
                         \o <<[t EXCEPT !.todo = @ \ {p}, !.fresh = TRUE]>>)
    /\ UNCHANGED <<issues, tokens, seeds, world>>

\* mutant: the accounts that wait for the operator's nkey are forgotten
IssueOperatorNkeysForget(w) ==
    /\ Running(w, "issueOperatorNkeys")
    /\ Top(w).todo = {}
    /\ Do(w, <<>>)
    /\ UNCHANGED <<issues, tokens, seeds, world>>

\* after the loop: new nkeys make updateAccountIssues list the accounts
IssueOperatorNkeysDone(w) ==
    /\ Running(w, "issueOperatorNkeys")
    /\ Top(w).todo = {}
    /\ Do(w, IF Top(w).fresh THEN Each("updateEachAccount", AccountList)
             ELSE <<>>)
    /\ UNCHANGED <<issues, tokens, seeds, world>>

\* an issue that vanished after the listing ends the loop without an error
UpdateEachAccount(w) ==
    /\ Running(w, "updateEachAccount")
    /\ \E a \in Top(w).todo :
          \/ /\ accIssue[a] = None
             /\ Do(w, <<>>)
          \/ /\ accIssue[a] # None
             /\ Do(w, refreshAccount(a, accIssue[a])
                      \o Each("updateEachAccount", Top(w).todo \ {a}))
    /\ UNCHANGED <<issues, tokens, seeds, world>>

OperatorToken(i) ==
    [sub     |-> Pub(OpPath),
     sys     |-> IF Stored(AccPath(SysAccount)) THEN Pub(AccPath(SysAccount))
                 ELSE None,
     signing |-> Pubs(OpSignings(i.signing))]

\* a missing operator nkey is dereferenced
IssueOperatorJWT(w) ==
    /\ Running(w, "issueOperatorJWT")
    /\ \/ /\ Stored(OpPath)
          /\ Do(w, <<[op |-> "addOperatorJWT",
                      tok |-> OperatorToken(Top(w).iss)]>>)
          /\ UNCHANGED panicked
       \/ /\ ~Stored(OpPath)
          /\ Panic
    /\ UNCHANGED <<issues, tokens, seeds, server, pending, faults>>

\* deleteOperatorIssue: nkeys first, then the system account, JWT and issue
DeleteOperatorIssue(w) ==
    /\ Running(w, "deleteOperatorIssue")
    /\ \/ /\ opIssue = None
          /\ Do(w, <<>>)
       \/ /\ opIssue # None
          /\ Do(w, deleteNkeys({OpPath})
                   \o deleteNkeys(OpSignings(opIssue.signing))
                   \o (IF opIssue.sys
                       THEN <<[op |-> "deleteUserIssue", acc |-> SysAccount,
                               user |-> PushUser],
                              [op |-> "deleteAccountIssue",
                               acc |-> SysAccount]>>
                       ELSE <<>>)
                   \o <<[op |-> "deleteOperatorJWT"],
                        [op |-> "deleteOperatorEntry"]>>)
    /\ UNCHANGED <<issues, tokens, seeds, world>>

DeleteOperatorEntry(w) ==
    /\ Running(w, "deleteOperatorEntry")
    /\ opIssue' = None
    /\ Do(w, <<>>)
    /\ UNCHANGED <<accIssue, userIssue, tokens, seeds, world>>

OperatorStep(w) ==
    \/ AddOperatorIssue(w) \/ PutOperatorIssue(w) \/ RefreshOperator(w)
    \/ IssueOperatorNkey(w) \/ IssueOperatorNkeysDone(w)
    \/ UpdateEachAccount(w) \/ IssueOperatorJWT(w)
    \/ DeleteOperatorIssue(w) \/ DeleteOperatorEntry(w)
=============================================================================
