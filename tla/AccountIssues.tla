--------------------------- MODULE AccountIssues ---------------------------
(***************************************************************************)
(* Account issues: paths_issue_account.go.                                 *)
(***************************************************************************)
EXTENDS AccountServer

\* the nkeys issueAccountNKeys goes through: the account's own one first
AccountPaths(a, i) == {AccPath(a)} \cup AccSignings(a, i.par.signing)

accountNkeys(a, i) ==
    [op |-> "issueAccountNKeys", acc |-> a, iss |-> i,
     todo |-> AccountPaths(a, i), users |-> FALSE, operator |-> FALSE]

refreshAccount(a, i) ==
    <<accountNkeys(a, i), [op |-> "issueAccountJWT", acc |-> a, iss |-> i]>>
    \o accountResolver(a, i, "refresh")

\* storeAccountIssue: the nkeys of removed signing keys are deleted, all
\* claims (the revocations too) are replaced and the status is kept
AddAccountIssue(w) ==
    /\ Running(w, "addAccountIssue")
    /\ LET t    == Top(w)
           old  == accIssue[t.acc]
           i    == IF old = None
                   THEN [par |-> t.par, nkey |-> FALSE, jwt |-> FALSE,
                         synced |-> FALSE]
                   ELSE [old EXCEPT !.par = t.par]
           gone == IF old = None THEN {}
                   ELSE old.par.signing \ t.par.signing
       IN  Do(w, deleteNkeys(AccSignings(t.acc, gone))
                 \o <<[op |-> "putAccountIssue", acc |-> t.acc, iss |-> i]>>
                 \o refreshAccount(t.acc, i))
    /\ UNCHANGED <<issues, tokens, seeds, world>>

PutAccountIssue(w) ==
    /\ Running(w, "putAccountIssue")
    /\ accIssue' = [accIssue EXCEPT ![Top(w).acc] = Top(w).iss]
    /\ Do(w, <<>>)
    /\ UNCHANGED <<opIssue, userIssue, tokens, seeds, world>>

-----------------------------------------------------------------------------
(* issueAccountNKeys.                                                      *)

\* one turn of the loop: a missing nkey is added and remembered for later
IssueAccountNKey(w) ==
    /\ Running(w, "issueAccountNKeys")
    /\ LET t == Top(w) IN
       \E p \in t.todo :
          /\ AccPath(t.acc) \in t.todo => p = AccPath(t.acc)
          /\ \/ /\ Stored(p)
                /\ Do(w, <<[t EXCEPT !.todo = @ \ {p}]>>)
             \/ /\ ~Stored(p)
                /\ Do(w, addNkey(p, FALSE)
                         \o <<[t EXCEPT !.todo = @ \ {p}, !.users = TRUE,
                               !.operator = @ \/ p = AccPath(SysAccount)]>>)
    /\ UNCHANGED <<issues, tokens, seeds, world>>

updateUserIssues(a) == <<[op |-> "updateUserIssues", acc |-> a]>>

\* mutant: a new nkey of the sys account does not refresh the operator
IssueAccountNKeysForget(w) ==
    /\ Running(w, "issueAccountNKeys")
    /\ Top(w).todo = {}
    /\ Do(w, IF Top(w).users THEN updateUserIssues(Top(w).acc) ELSE <<>>)
    /\ UNCHANGED <<issues, tokens, seeds, world>>

\* after the loop: a new nkey of the sys account refreshes the operator, any
\* new nkey the users; without an operator issue not even the users
IssueAccountNKeysDone(w) ==
    /\ Running(w, "issueAccountNKeys")
    /\ LET t     == Top(w)
           users == IF t.users THEN updateUserIssues(t.acc) ELSE <<>>
       IN
       /\ t.todo = {}
       /\ \/ /\ t.operator /\ opIssue = None
             /\ Do(w, <<>>)
          \/ /\ t.operator /\ opIssue # None
             /\ Do(w, <<[op |-> "refreshOperator", iss |-> opIssue]>> \o users)
          \/ /\ ~t.operator
             /\ Do(w, users)
    /\ UNCHANGED <<issues, tokens, seeds, world>>

updateEachUser(a, todo) ==
    IF todo = {} THEN <<>>
    ELSE <<[op |-> "updateEachUser", acc |-> a, todo |-> todo]>>

UpdateUserIssues(w) ==
    /\ Running(w, "updateUserIssues")
    /\ Do(w, updateEachUser(Top(w).acc, UserList(Top(w).acc)))
    /\ UNCHANGED <<issues, tokens, seeds, world>>

\* a template that vanished after the listing ends the loop without an error
UpdateEachUser(w) ==
    /\ Running(w, "updateEachUser")
    /\ LET t == Top(w) IN
       \E u \in t.todo :
          \/ /\ userIssue[t.acc][u] = None
             /\ Do(w, <<>>)
          \/ /\ userIssue[t.acc][u] # None
             /\ Do(w, refreshUser(t.acc, u, userIssue[t.acc][u])
                      \o updateEachUser(t.acc, t.todo \ {u}))
    /\ UNCHANGED <<issues, tokens, seeds, world>>

-----------------------------------------------------------------------------
(* issueAccountJWT, updateAccountStatus.                                   *)

Signer(par) == IF par.use = None THEN OpPath ELSE OpSigning(par.use)

\* mutant: signing keys the JWT already names are carried over to the next one
AccountTokenCarried(a, par) ==
    LET old == IF accJWT[a] = None THEN {} ELSE accJWT[a].signing
        new == {p \in AccSignings(a, par.signing) : \A k \in old : k[1] # p}
    IN  [sub     |-> Pub(AccPath(a)),
         iss     |-> Pub(Signer(par)),
         signing |-> old \cup Pubs(new),
         revs    |-> par.revs,
         claims  |-> par.claims]

AccountToken(a, par) ==
    [sub     |-> Pub(AccPath(a)),
     iss     |-> Pub(Signer(par)),
     signing |-> Pubs(AccSignings(a, par.signing)),
     revs    |-> par.revs,
     claims  |-> par.claims]

CanSign(a, par) == /\ Stored(Signer(par))
                   /\ Stored(AccPath(a))
                   /\ par.claims \in Convertible

\* mutant: the token is made from the stored issue, not from the caller's
IssueAccountJWTReread(w) ==
    /\ Running(w, "issueAccountJWT")
    /\ LET t   == Top(w)
           par == IF accIssue[t.acc] = None THEN t.iss.par
                  ELSE accIssue[t.acc].par
       IN
       \/ /\ ~CanSign(t.acc, par)
          /\ Fail(w)
       \/ /\ CanSign(t.acc, par)
          /\ Do(w, <<[op |-> "addAccountJWT", acc |-> t.acc,
                      tok |-> AccountToken(t.acc, par)]>>)
    /\ UNCHANGED <<issues, tokens, seeds, world>>

\* the keys are read and the token is made; addAccountJWT stores it
IssueAccountJWT(w) ==
    /\ Running(w, "issueAccountJWT")
    /\ LET t == Top(w) IN
       \/ /\ ~CanSign(t.acc, t.iss.par)
          /\ Fail(w)
       \/ /\ CanSign(t.acc, t.iss.par)
          /\ Do(w, <<[op |-> "addAccountJWT", acc |-> t.acc,
                      tok |-> AccountToken(t.acc, t.iss.par)]>>)
    /\ UNCHANGED <<issues, tokens, seeds, world>>

\* the flags are read into the caller's copy of the issue, which is stored
UpdateAccountStatus(w) ==
    /\ Running(w, "updateAccountStatus")
    /\ LET t == Top(w) IN
       Do(w, <<[op |-> "putAccountIssue", acc |-> t.acc,
                iss |-> [t.iss EXCEPT !.nkey = Stored(AccPath(t.acc)),
                                      !.jwt = accJWT[t.acc] # None]]>>)
    /\ UNCHANGED <<issues, tokens, seeds, world>>

-----------------------------------------------------------------------------
(* Deletion and revocation.                                                *)

DeleteAccountIssue(w) ==
    /\ Running(w, "deleteAccountIssue")
    /\ LET a == Top(w).acc IN
       \/ /\ accIssue[a] = None
          /\ Do(w, <<>>)
       \/ /\ accIssue[a] # None
          /\ Do(w, accountResolver(a, accIssue[a], "delete"))
    /\ UNCHANGED <<issues, tokens, seeds, world>>

DeleteAccountEntry(w) ==
    /\ Running(w, "deleteAccountEntry")
    /\ accIssue' = [accIssue EXCEPT ![Top(w).acc] = None]
    /\ Do(w, <<>>)
    /\ UNCHANGED <<opIssue, userIssue, tokens, seeds, world>>

\* mutant: the new revocation replaces the earlier ones
revokeOnly(i, key) == [i EXCEPT !.par.revs = {key}]

revoke(i, key) == [i EXCEPT !.par.revs = @ \cup {key}]

\* deleteUserIssue's middle part: where the account and the user's nkey
\* exist, the key is revoked in the account issue and the account refreshed
\* before anything of the user is deleted
AddUserToRevocationList(w) ==
    /\ Running(w, "addUserToRevocationList")
    /\ LET t == Top(w)
           p == UserPath(t.acc, t.user)
       IN
       \/ /\ accIssue[t.acc] = None \/ ~Stored(p)
          /\ Do(w, eraseUser(t.acc, t.user, None))
       \/ /\ accIssue[t.acc] # None /\ Stored(p)
          /\ LET i == revoke(accIssue[t.acc], Pub(p))
             IN  Do(w, <<[op |-> "putAccountIssue", acc |-> t.acc, iss |-> i]>>
                       \o refreshAccount(t.acc, i)
                       \o eraseUser(t.acc, t.user, Pub(p)))
    /\ UNCHANGED <<issues, tokens, seeds, world>>

AccountStep(w) ==
    \/ AddAccountIssue(w) \/ PutAccountIssue(w)
    \/ IssueAccountNKey(w) \/ IssueAccountNKeysDone(w)
    \/ UpdateUserIssues(w) \/ UpdateEachUser(w)
    \/ IssueAccountJWT(w) \/ UpdateAccountStatus(w)
    \/ DeleteAccountIssue(w) \/ DeleteAccountEntry(w)
    \/ AddUserToRevocationList(w)
=============================================================================
