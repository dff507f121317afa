----------------------------- MODULE UserIssues -----------------------------
(***************************************************************************)
(* User templates, their nkeys and the credentials generated from them:    *)
(* paths_issue_user.go and paths_creds_user.go.                            *)
(***************************************************************************)
EXTENDS NatsStorage

\* mutant: only the template is passed on to storeUserIssueUpdate
refreshUserTemplate(a, u, i) ==
    <<[op |-> "issueUserNKeys", acc |-> a, user |-> u],
      [op |-> "storeUserIssueUpdate", acc |-> a, user |-> u, iss |-> i.par]>>

refreshUser(a, u, i) ==
    <<[op |-> "issueUserNKeys", acc |-> a, user |-> u],
      [op |-> "storeUserIssueUpdate", acc |-> a, user |-> u, iss |-> i]>>

\* addUserIssue: storeUserIssue keeps the status of an existing template
AddUserIssue(w) ==
    /\ Running(w, "addUserIssue")
    /\ LET t == Top(w)
           i == [par  |-> t.par,
                 nkey |-> userIssue[t.acc][t.user] # None
                          /\ userIssue[t.acc][t.user].nkey]
       IN  /\ userIssue' = [userIssue EXCEPT ![t.acc][t.user] = i]
           /\ Do(w, refreshUser(t.acc, t.user, i))
    /\ UNCHANGED <<opIssue, accIssue, tokens, seeds, world>>

IssueUserNKeys(w) ==
    /\ Running(w, "issueUserNKeys")
    /\ LET p == UserPath(Top(w).acc, Top(w).user) IN
       \/ /\ Stored(p)
          /\ Do(w, <<>>)
       \/ /\ ~Stored(p)
          /\ Do(w, <<[op |-> "addNkey", path |-> p, seed |-> FALSE]>>)
    /\ UNCHANGED <<issues, tokens, seeds, world>>

\* updateUserStatus, which found the nkey or did not, and storeUserIssueUpdate;
\* a default-push user of any account then triggers a push of all accounts
storeUserStatus(w, found) ==
    /\ Running(w, "storeUserIssueUpdate")
    /\ LET t == Top(w) IN
       /\ userIssue' = [userIssue EXCEPT ![t.acc][t.user] =
                            [t.iss EXCEPT !.nkey = found]]
       /\ \/ /\ t.user = PushUser
             /\ Do(w, <<[op |-> "refreshPushUser"]>>)
          \/ /\ t.user # PushUser
             /\ Do(w, <<>>)
    /\ UNCHANGED <<opIssue, accIssue, tokens, seeds>>

StoreUserIssueUpdate(w) ==
    /\ storeUserStatus(w, Stored(UserPath(Top(w).acc, Top(w).user)))
    /\ UNCHANGED world

RefreshPushUser(w) ==
    /\ Running(w, "refreshPushUser")
    /\ \/ /\ opIssue = None
          /\ Do(w, <<>>)
       \/ /\ opIssue # None
          /\ Do(w, <<[op |-> "refreshAccountResolvers", iss |-> opIssue]>>)
    /\ UNCHANGED <<issues, tokens, seeds, world>>

-----------------------------------------------------------------------------
(* Deletion.                                                               *)

DeleteUserIssue(w) ==
    /\ Running(w, "deleteUserIssue")
    /\ LET t == Top(w) IN
       \/ /\ userIssue[t.acc][t.user] = None
          /\ Do(w, <<>>)
       \/ /\ userIssue[t.acc][t.user] # None
          /\ Do(w, <<[op |-> "addUserToRevocationList", acc |-> t.acc,
                      user |-> t.user]>>)
    /\ UNCHANGED <<issues, tokens, seeds, world>>

\* mutant: the template is deleted before the nkey
eraseUserTemplateFirst(a, u, key) ==
    <<[op |-> "deleteUserTemplate", acc |-> a, user |-> u],
      [op |-> "deleteUserNkey", acc |-> a, user |-> u, key |-> key]>>

\* what deleteUserIssue does after the revocation; key is the public key the
\* revocation was made for, None where account or nkey was missing
eraseUser(a, u, key) ==
    <<[op |-> "deleteUserNkey", acc |-> a, user |-> u, key |-> key],
      [op |-> "deleteUserTemplate", acc |-> a, user |-> u]>>

DeleteUserNkey(w) ==
    /\ Running(w, "deleteUserNkey")
    /\ nkey' = [nkey EXCEPT ![UserPath(Top(w).acc, Top(w).user)] = 0]
    /\ Do(w, <<>>)
    /\ UNCHANGED <<issues, tokens, minted, world>>

DeleteUserTemplate(w) ==
    /\ Running(w, "deleteUserTemplate")
    /\ userIssue' = [userIssue EXCEPT ![Top(w).acc][Top(w).user] = None]
    /\ Do(w, <<>>)
    /\ UNCHANGED <<opIssue, accIssue, tokens, seeds, world>>

-----------------------------------------------------------------------------
(* generateUserCreds: the template is read first, then the keys the JWT is *)
(* made from, then the user's seed once more.                              *)

GenerateUserCreds(w) ==
    /\ Running(w, "generateUserCreds")
    /\ LET t == Top(w)
           i == userIssue[t.acc][t.user]
       IN
       \/ /\ i = None \/ (i # None /\ i.par.vars /\ ~t.given)
          /\ Fail(w)
       \/ /\ i # None /\ (i.par.vars => t.given)
          /\ Do(w, <<[op |-> "generateUserJWT", acc |-> t.acc,
                      user |-> t.user, use |-> i.par.use]>>)
    /\ UNCHANGED <<issues, tokens, seeds, world>>

\* the paths generateUserJWT reads: account, signing key if any, user
CredsPaths(a, u, use) ==
    {AccPath(a), UserPath(a, u)}
    \cup (IF use = None THEN {} ELSE {AccSigning(a, use)})

UserJWT(a, u, use) ==
    [sub    |-> Pub(UserPath(a, u)),
     iss    |-> IF use = None THEN Pub(AccPath(a)) ELSE Pub(AccSigning(a, use)),
     issAcc |-> IF use = None THEN None ELSE Pub(AccPath(a))]

GenerateUserJWT(w) ==
    /\ Running(w, "generateUserJWT")
    /\ LET t == Top(w) IN
       \/ /\ \E p \in CredsPaths(t.acc, t.user, t.use) : ~Stored(p)
          /\ Fail(w)
       \/ /\ \A p \in CredsPaths(t.acc, t.user, t.use) : Stored(p)
          /\ Do(w, <<[op |-> "formatUserConfig", acc |-> t.acc,
                      user |-> t.user,
                      tok |-> UserJWT(t.acc, t.user, t.use)]>>)
    /\ UNCHANGED <<issues, tokens, seeds, world>>

FormatUserConfig(w) ==
    /\ Running(w, "formatUserConfig")
    /\ LET t == Top(w)
           p == UserPath(t.acc, t.user)
       IN
       \/ /\ ~Stored(p)
          /\ Fail(w)
       \/ /\ Stored(p)
          /\ Do(w, <<[op |-> "creds", acc |-> t.acc, tok |-> t.tok,
                      seed |-> Pub(p)]>>)
    /\ UNCHANGED <<issues, tokens, seeds, world>>

\* the credentials are handed to the client
ReturnCreds(w) ==
    /\ Running(w, "creds")
    /\ Do(w, <<>>)
    /\ UNCHANGED <<issues, tokens, seeds, world>>

\* would generateUserCreds succeed now, without parameters?
CredsAvailable(a, u) ==
    /\ userIssue[a][u] # None
    /\ ~userIssue[a][u].par.vars
    /\ \A p \in CredsPaths(a, u, userIssue[a][u].par.use) : Stored(p)

UserStep(w) ==
    \/ AddUserIssue(w) \/ IssueUserNKeys(w) \/ StoreUserIssueUpdate(w)
    \/ RefreshPushUser(w)
    \/ DeleteUserIssue(w) \/ DeleteUserNkey(w) \/ DeleteUserTemplate(w)
    \/ GenerateUserCreds(w) \/ GenerateUserJWT(w) \/ FormatUserConfig(w)
    \/ ReturnCreds(w)
=============================================================================
