--------------------------- MODULE CredentialLife ---------------------------
(***************************************************************************)
(* The life of a user's credentials, with the clock: paths_creds_user.go   *)
(* signs a JWT whenever a client asks, deleteUserIssue revokes the user's  *)
(* key as of the second it runs, and JWTs issued later are not revoked.    *)
(*                                                                         *)
(* One account, one user name.  NatsBackend has the same handlers without  *)
(* the times, for which a revocation is for ever; here is what the times   *)
(* do.                                                                     *)
(***************************************************************************)
EXTENDS Integers, FiniteSets

CONSTANTS Workers,      \* goroutines that serve requests
          Ops,          \* what clients ask for
          Expirations,  \* values of expirationS, 0 for none
          MaxTime,      \* bound: seconds on the clock
          MaxKeys,      \* bound: nkeys the user name ever has
          MaxFaults,    \* bound: failing requests
          None

ASSUME LifeAssumption ==
    /\ MaxTime \in Nat /\ MaxKeys \in Nat /\ MaxFaults \in Nat
    /\ Expirations \subseteq Nat
    /\ None \notin Expirations
    /\ Ops \subseteq {"creds", "delete", "add", "update"}

VARIABLES now,          \* time.Now().Unix()
          template,     \* the user issue: its ExpirationS, or None
          nkey,         \* the user's nkey: its number, 0 for none
          minted,       \* how many nkeys the user name has had
          issueRevs,    \* Claims.Revocations of the account issue
          jwtRevs,      \* the revocations of the account's JWT
          job,          \* job[w]: the request worker w serves, or None
          handed,       \* the credentials handed out to clients
          faults,       \* failures so far
          rewritten     \* history: has a client written the account's claims?

store == <<template, nkey, minted, issueRevs, jwtRevs, rewritten>>
vars  == <<now, store, job, handed, faults>>

Times    == 0..MaxTime
Keys     == 1..MaxKeys
Never    == -1
\* when each key was revoked
Revocations == [Keys -> Times \cup {Never}]
\* a JWT handed out with its seed; until is 0 where it does not expire
Creds    == [sub : Keys, iat : Times, until : Nat]
Job      == [op : {"creds"}, at : {"keys"}, exp : Expirations]
            \cup [op : {"creds"}, at : {"sign"}, exp : Expirations, sub : Keys]
            \cup [op : {"creds"}, at : {"seed"}, jwt : Creds]
            \cup [op : {"delete"}, at : {"account", "nkey", "template"}]
            \cup [op : {"delete"}, at : {"revoke"}, revs : Revocations]
            \cup [op : {"delete", "update"}, revs : Revocations,
                  at : {"put", "jwt", "status"}]
            \cup [op : {"add"}, at : {"nkey"}]

\* a worker that serves no request can be told from one that does
ASSUME NoneAssumption == None \notin Job

TypeOK == /\ now \in Times
          /\ template \in Expirations \cup {None}
          /\ nkey \in Keys \cup {0} /\ minted \in Keys \cup {0}
          /\ issueRevs \in Revocations /\ jwtRevs \in Revocations
          /\ job \in [Workers -> Job \cup {None}]
          /\ handed \in SUBSET Creds
          /\ faults \in Nat
          /\ rewritten \in BOOLEAN

At(w, op, at) == job[w] # None /\ job[w].op = op /\ job[w].at = at
Starts(w, op) == job[w] = None /\ op \in Ops
Goes(w, j)    == job' = [job EXCEPT ![w] = j]

-----------------------------------------------------------------------------
(* generateUserCreds.                                                      *)

GenerateUserCreds(w) ==
    /\ Starts(w, "creds") /\ template # None
    /\ Goes(w, [op |-> "creds", at |-> "keys", exp |-> template])
    /\ UNCHANGED <<now, store, handed, faults>>

\* generateUserJWT finds the user's nkey, or fails
ReadKeys(w) ==
    /\ At(w, "creds", "keys")
    /\ \/ nkey = 0 /\ Goes(w, None)
       \/ /\ nkey # 0
          /\ Goes(w, [op |-> "creds", at |-> "sign", exp |-> job[w].exp,
                      sub |-> nkey])
    /\ UNCHANGED <<now, store, handed, faults>>

\* Encode: issued now
SignJWT(w) ==
    /\ At(w, "creds", "sign")
    /\ Goes(w, [op |-> "creds", at |-> "seed",
                jwt |-> [sub |-> job[w].sub, iat |-> now,
                         until |-> IF job[w].exp = 0 THEN 0
                                   ELSE now + job[w].exp]])
    /\ UNCHANGED <<now, store, handed, faults>>

\* the nkey is read once more, for the creds file; credentials with another
\* seed than their JWT's are good for nothing
ReadSeed(w) ==
    /\ At(w, "creds", "seed")
    /\ handed' = IF nkey = job[w].jwt.sub THEN handed \cup {job[w].jwt}
                 ELSE handed
    /\ Goes(w, None)
    /\ UNCHANGED <<now, store, faults>>

-----------------------------------------------------------------------------
(* deleteUserIssue, addUserToRevocationList; a client's update of the      *)
(* account issue.                                                          *)

DeleteUserIssue(w) ==
    /\ Starts(w, "delete") /\ template # None
    /\ Goes(w, [op |-> "delete", at |-> "account"])
    /\ UNCHANGED <<now, store, handed, faults>>

ReadAccount(w) ==
    /\ At(w, "delete", "account")
    /\ Goes(w, [op |-> "delete", at |-> "revoke", revs |-> issueRevs])
    /\ UNCHANGED <<now, store, handed, faults>>

\* mutant: a key that was revoked before keeps its time, as a hasty reading
\* of RevocationList.Revoke has it
revokedKept(revs) ==
    IF revs[nkey] = Never THEN [revs EXCEPT ![nkey] = now] ELSE revs
\* mutant: the other revocations are forgotten
revokedAlone(revs) == [[k \in Keys |-> Never] EXCEPT ![nkey] = now]
\* mutant: the user's number is taken for its key
revokedNone(revs) == [revs EXCEPT ![nkey] = MaxTime + 1]

revokedNow(revs) == [revs EXCEPT ![nkey] = now]

AddUserToRevocationList(w) ==
    /\ At(w, "delete", "revoke")
    /\ \/ nkey = 0 /\ Goes(w, [op |-> "delete", at |-> "nkey"])
       \/ /\ nkey # 0
          /\ Goes(w, [op |-> "delete", at |-> "put",
                      revs |-> revokedNow(job[w].revs)])
    /\ UNCHANGED <<now, store, handed, faults>>

\* storeAccountIssue: the client's claims replace all of the stored ones
UpdateAccountIssue(w) ==
    /\ Starts(w, "update")
    /\ Goes(w, [op |-> "update", at |-> "put",
                revs |-> [k \in Keys |-> Never]])
    /\ rewritten' = TRUE
    /\ UNCHANGED <<now, template, nkey, minted, issueRevs, jwtRevs, handed,
                   faults>>

PutAccountIssue(w) ==
    /\ \E op \in {"delete", "update"} : At(w, op, "put")
    /\ issueRevs' = job[w].revs
    /\ Goes(w, [job[w] EXCEPT !.at = "jwt"])
    /\ UNCHANGED <<now, template, nkey, minted, jwtRevs, handed, faults,
                   rewritten>>

\* refreshAccount: a JWT with the revocations of the caller's copy ...
IssueAccountJWT(w) ==
    /\ \E op \in {"delete", "update"} : At(w, op, "jwt")
    /\ jwtRevs' = job[w].revs
    /\ Goes(w, [job[w] EXCEPT !.at = "status"])
    /\ UNCHANGED <<now, template, nkey, minted, issueRevs, handed, faults,
                   rewritten>>

\* ... and the copy is stored with its new status
StoreAccountStatus(w) ==
    /\ \E op \in {"delete", "update"} : At(w, op, "status")
    /\ issueRevs' = job[w].revs
    /\ Goes(w, IF job[w].op = "update" THEN None
               ELSE [op |-> "delete", at |-> "nkey"])
    /\ UNCHANGED <<now, template, nkey, minted, jwtRevs, handed, faults,
                   rewritten>>

DeleteUserNkey(w) ==
    /\ At(w, "delete", "nkey")
    /\ nkey' = 0
    /\ Goes(w, [op |-> "delete", at |-> "template"])
    /\ UNCHANGED <<now, template, minted, issueRevs, jwtRevs, handed, faults,
                   rewritten>>

DeleteUserTemplate(w) ==
    /\ At(w, "delete", "template")
    /\ template' = None
    /\ Goes(w, None)
    /\ UNCHANGED <<now, nkey, minted, issueRevs, jwtRevs, handed, faults,
                   rewritten>>

-----------------------------------------------------------------------------
(* addUserIssue.                                                           *)

AddUserIssue(w) ==
    /\ Starts(w, "add")
    /\ nkey # 0 \/ minted < MaxKeys
    /\ \E exp \in Expirations : template' = exp
    /\ Goes(w, [op |-> "add", at |-> "nkey"])
    /\ UNCHANGED <<now, nkey, minted, issueRevs, jwtRevs, handed, faults,
                   rewritten>>

\* issueUserNKeys: a missing nkey is made
IssueUserNKey(w) ==
    /\ At(w, "add", "nkey")
    /\ \/ nkey # 0 /\ UNCHANGED <<nkey, minted>>
       \/ /\ nkey = 0 /\ minted < MaxKeys
          /\ minted' = minted + 1 /\ nkey' = minted + 1
    /\ Goes(w, None)
    /\ UNCHANGED <<now, template, issueRevs, jwtRevs, handed, faults,
                   rewritten>>

-----------------------------------------------------------------------------

\* a storage error, or the process is killed: the request ends where it is
Abort(w) ==
    /\ job[w] # None
    /\ faults < MaxFaults
    /\ faults' = faults + 1
    /\ Goes(w, None)
    /\ UNCHANGED <<now, store, handed>>

Tick == /\ now < MaxTime
        /\ now' = now + 1
        /\ UNCHANGED <<store, job, handed, faults>>

\* no request need come
Rest == (\A w \in Workers : job[w] = None) /\ UNCHANGED vars

Init == /\ now = 0 /\ template = None /\ nkey = 0 /\ minted = 0
        /\ issueRevs = [k \in Keys |-> Never]
        /\ jwtRevs = [k \in Keys |-> Never]
        /\ job = [w \in Workers |-> None] /\ handed = {} /\ faults = 0
        /\ rewritten = FALSE

Step(w) == \/ GenerateUserCreds(w) \/ ReadKeys(w) \/ SignJWT(w) \/ ReadSeed(w)
           \/ DeleteUserIssue(w) \/ ReadAccount(w)
           \/ AddUserToRevocationList(w) \/ UpdateAccountIssue(w)
           \/ PutAccountIssue(w) \/ IssueAccountJWT(w) \/ StoreAccountStatus(w)
           \/ DeleteUserNkey(w) \/ DeleteUserTemplate(w)
           \/ AddUserIssue(w) \/ IssueUserNKey(w) \/ Abort(w)
Next == (\E w \in Workers : Step(w)) \/ Tick \/ Rest
Spec == Init /\ [][Next]_vars

-----------------------------------------------------------------------------

\* the account server turns the credentials away, by jwt.IsRevoked or expiry
Rejected(c) == \/ jwtRevs[c.sub] >= c.iat
               \/ c.until # 0 /\ now >= c.until

\* Deleting a user locks it out: as long as no client writes the account's
\* claims, credentials whose key is no longer in storage are rejected by the
\* account's JWT, all of them, also those handed out after an earlier attempt
\* to delete the user had failed half-way.  ("add deleted user to revocation
\* list and update the account JWT")
LockedOut == ~rewritten => \A c \in handed : c.sub # nkey => Rejected(c)

\* What the account's JWT has revoked stays revoked, and for as long, until a
\* client writes the account's claims: no deletion of a user, of the same name
\* or another key of it, takes an earlier revocation back or back in time.
\* (Requests one at a time that are not cut short: an update that is leaves
\* its claims in the issue, for the next deletion to sign.)
RevocationsStay ==
    [][faults = 0 =>
          \A k \in Keys :
             \/ jwtRevs'[k] >= jwtRevs[k]
             \/ \E w \in Workers : job[w] # None /\ job[w].op = "update"]_vars
=============================================================================
