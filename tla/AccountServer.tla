--------------------------- MODULE AccountServer ---------------------------
(***************************************************************************)
(* Keeping the NATS account server in step: refreshAccountResolver of      *)
(* paths_issue_account.go, refreshAccountResolvers of                      *)
(* paths_issue_operator.go, and what pkg/resolver may do to the server.    *)
(*                                                                         *)
(* mode is why the resolver is called: "refresh" by refreshAccount,        *)
(* "periodic" by periodicFunc, "discard" by refreshAccountResolvers (with  *)
(* an issue that holds only names and is dropped), "delete" by             *)
(* deleteAccountIssue.                                                     *)
(***************************************************************************)
EXTENDS Nkeys, UserIssues

accountResolver(a, i, mode) ==
    <<[op |-> "refreshAccountResolver", acc |-> a, iss |-> i, mode |-> mode]>>

\* mutants: the issue is deleted first; it is stored once more at the end
eraseAccountEntryFirst(a, i) ==
    <<[op |-> "deleteAccountEntry", acc |-> a]>>
    \o deleteNkeys({AccPath(a)})
    \o deleteNkeys(AccSignings(a, i.par.signing))
    \o <<[op |-> "deleteAccountJWT", acc |-> a]>>
eraseAccountAndSave(a, i) ==
    deleteNkeys({AccPath(a)})
    \o deleteNkeys(AccSignings(a, i.par.signing))
    \o <<[op |-> "deleteAccountJWT", acc |-> a],
         [op |-> "deleteAccountEntry", acc |-> a],
         [op |-> "putAccountIssue", acc |-> a, iss |-> i]>>

\* what deleteAccountIssue does after the account server
eraseAccount(a, i) ==
    deleteNkeys({AccPath(a)})
    \o deleteNkeys(AccSignings(a, i.par.signing))
    \o <<[op |-> "deleteAccountJWT", acc |-> a],
         [op |-> "deleteAccountEntry", acc |-> a]>>

\* mutant: refreshAccount tries again until the server has the account
AfterSyncRetry(a, i, mode) ==
    CASE mode = "refresh"  -> IF i.synced
                              THEN <<[op |-> "updateAccountStatus", acc |-> a,
                                      iss |-> i]>>
                              ELSE accountResolver(a, i, mode)
      [] mode = "periodic" -> <<[op |-> "putAccountIssue", acc |-> a,
                                 iss |-> i]>>
      [] mode = "discard"  -> <<>>
      [] mode = "delete"   -> eraseAccount(a, i)

\* what the caller of refreshAccountResolver does when it returns nil
AfterSync(a, i, mode) ==
    CASE mode = "refresh"  -> <<[op |-> "updateAccountStatus", acc |-> a,
                                 iss |-> i]>>
      [] mode = "periodic" -> <<[op |-> "putAccountIssue", acc |-> a,
                                 iss |-> i]>>
      [] mode = "discard"  -> <<>>
      [] mode = "delete"   -> eraseAccount(a, i)

Marked(i, mode) == IF mode = "discard" THEN i ELSE [i EXCEPT !.synced = TRUE]

\* is there anything to do, as far as storage tells?
SyncWanted(a) ==
    /\ opIssue # None
    /\ opIssue.sync = "on"
    /\ accJWT[a] # None
    /\ userIssue[SysAccount][PushUser] # None

\* mutant: only refreshAccount pushes, whoever else calls deletes
RefreshAccountResolverOther(w) ==
    /\ Running(w, "refreshAccountResolver")
    /\ LET t == Top(w) IN
       \/ /\ ~SyncWanted(t.acc)
          /\ Do(w, AfterSync(t.acc, t.iss, t.mode))
       \/ /\ SyncWanted(t.acc)
          /\ ~CredsAvailable(SysAccount, PushUser)
          /\ Fail(w)
       \/ /\ SyncWanted(t.acc)
          /\ CredsAvailable(SysAccount, PushUser)
          /\ Do(w, <<[op |-> IF t.mode = "refresh" THEN "pushAccount"
                             ELSE "deleteAccounts",
                      acc |-> t.acc, iss |-> t.iss, mode |-> t.mode,
                      tok |-> accJWT[t.acc]]>>)
    /\ UNCHANGED <<issues, tokens, seeds, world>>

\* refreshAccountResolver up to the connection: it returns nil where there
\* is nothing to do, and an error where the push user has no credentials
RefreshAccountResolver(w) ==
    /\ Running(w, "refreshAccountResolver")
    /\ LET t == Top(w) IN
       \/ /\ ~SyncWanted(t.acc)
          /\ Do(w, AfterSync(t.acc, t.iss, t.mode))
       \/ /\ SyncWanted(t.acc)
          /\ ~CredsAvailable(SysAccount, PushUser)
          /\ Fail(w)
       \/ /\ SyncWanted(t.acc)
          /\ CredsAvailable(SysAccount, PushUser)
          /\ Do(w, <<[op |-> IF t.mode = "delete" THEN "deleteAccounts"
                             ELSE "pushAccount",
                      acc |-> t.acc, iss |-> t.iss, mode |-> t.mode,
                      tok |-> accJWT[t.acc]]>>)
    /\ UNCHANGED <<issues, tokens, seeds, world>>

\* the server replaces the JWT of the account it belongs to
Accepted(tok) == {j \in server : j.sub # tok.sub} \cup {tok}

\* NewResolver and PushAccount.  No connection, no answer and a refusal are
\* all logged and leave Synced alone; a JWT whose answer is lost is held by
\* the server all the same.
PushAccount(w) ==
    /\ Running(w, "pushAccount")
    /\ LET t == Top(w) IN
       \/ /\ server' = Accepted(t.tok)
          /\ Do(w, AfterSync(t.acc, Marked(t.iss, t.mode), t.mode))
       \/ /\ server' \in {server, Accepted(t.tok)}
          /\ Do(w, AfterSync(t.acc, t.iss, t.mode))
    /\ UNCHANGED <<issues, tokens, seeds, pending, faults, panicked>>

\* NewResolver and DeleteAccounts.  Without the operator's or the account's
\* nkey no request is made; an unanswered request is not an error.
DeleteAccounts(w) ==
    /\ Running(w, "deleteAccounts")
    /\ LET t    == Top(w)
           left == {j \in server : j.sub # Pub(AccPath(t.acc))}
       IN
       \/ /\ Stored(OpPath) /\ Stored(AccPath(t.acc))
          /\ server' \in {server, left}
          /\ Do(w, AfterSync(t.acc, Marked(t.iss, t.mode), t.mode))
       \/ /\ server' = server
          /\ Do(w, AfterSync(t.acc, t.iss, t.mode))
    /\ UNCHANGED <<issues, tokens, seeds, pending, faults, panicked>>

\* push every account, if the push user's template says it has an nkey
RefreshAccountResolvers(w) ==
    /\ Running(w, "refreshAccountResolvers")
    /\ LET user  == userIssue[SysAccount][PushUser]
           ready == /\ Top(w).iss.sync = "on"
                    /\ user # None
                    /\ user.nkey
       IN
       \/ /\ ready
          /\ Do(w, Each("pushEach", AccountList))
       \/ /\ ~ready
          /\ Do(w, <<>>)
    /\ UNCHANGED <<issues, tokens, seeds, world>>

PushEach(w) ==
    /\ Running(w, "pushEach")
    /\ \E a \in Top(w).todo :
          Do(w, accountResolver(a, None, "discard")
                \o Each("pushEach", Top(w).todo \ {a}))
    /\ UNCHANGED <<issues, tokens, seeds, world>>

ServerStep(w) ==
    \/ RefreshAccountResolver(w) \/ PushAccount(w) \/ DeleteAccounts(w)
    \/ RefreshAccountResolvers(w) \/ PushEach(w)
=============================================================================
