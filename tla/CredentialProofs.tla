-------------------------- MODULE CredentialProofs --------------------------
(***************************************************************************)
(* CredentialLife is type-correct, and where requests are served one at a  *)
(* time a deleted user is locked out as long as no client rewrites the     *)
(* account's claims, and what the account's JWT has revoked stays revoked: *)
(* for every clock, every number of keys and failures.                     *)
(***************************************************************************)
EXTENDS CredentialLife, TLAPS

\* The parameters of CredentialLife have the types its state has.
LEMMA Names ==
    /\ 0 \in Times
    /\ None \notin Expirations
    /\ [k \in Keys |-> Never] \in Revocations
<1>1. 0 \in Times
  BY LifeAssumption DEF Times
<1>2. Never \in Times \cup {Never}
  OBVIOUS
<1> QED
  BY <1>1, <1>2, LifeAssumption DEF Revocations

\* A worker that goes on does so with a request of the right shape.
LEMMA GoesTyped ==
    ASSUME TypeOK, NEW w \in Workers, NEW j \in Job \cup {None}, Goes(w, j)
    PROVE  /\ job' \in [Workers -> Job \cup {None}]
           /\ job'[w] = j
           /\ \A v \in Workers : v # w => job'[v] = job[v]
BY DEF TypeOK, Goes

\* The steps that only read.
LEMMA ReadersTyped ==
    ASSUME TypeOK, NEW w \in Workers,
           \/ GenerateUserCreds(w) \/ ReadKeys(w) \/ SignJWT(w)
           \/ DeleteUserIssue(w) \/ ReadAccount(w)
           \/ AddUserToRevocationList(w) \/ UpdateAccountIssue(w)
    PROVE  TypeOK'
<1> USE LifeAssumption
<1>0. job[w] \in Job \cup {None}
  BY DEF TypeOK
<1>1. CASE GenerateUserCreds(w)
  <2>1. [op |-> "creds", at |-> "keys", exp |-> template] \in Job
    BY <1>1 DEF GenerateUserCreds, TypeOK, Job
  <2> QED
    BY <1>1, <2>1, GoesTyped DEF GenerateUserCreds, TypeOK, store
<1>2. CASE ReadKeys(w)
  <2>1. job[w].exp \in Expirations
    BY <1>2, <1>0 DEF ReadKeys, At, Job
  <2>2. nkey # 0 => [op |-> "creds", at |-> "sign", exp |-> job[w].exp,
                     sub |-> nkey] \in Job
    BY <2>1 DEF TypeOK, Job
  <2> QED
    BY <1>2, <2>2, GoesTyped DEF ReadKeys, TypeOK, store
<1>3. CASE SignJWT(w)
  <2>1. job[w].exp \in Expirations /\ job[w].sub \in Keys
    BY <1>3, <1>0 DEF SignJWT, At, Job
  <2>2. now \in Times /\ job[w].exp \in Nat
    BY <2>1 DEF TypeOK
  <2>6. now \in Nat
    BY <2>2 DEF Times
  <2>3. (IF job[w].exp = 0 THEN 0 ELSE now + job[w].exp) \in Nat
    BY <2>2, <2>6
  <2> DEFINE c == [sub |-> job[w].sub, iat |-> now,
                   until |-> IF job[w].exp = 0 THEN 0 ELSE now + job[w].exp]
  <2>4. c \in Creds
    BY <2>1, <2>2, <2>3 DEF Creds
  <2>5. [op |-> "creds", at |-> "seed", jwt |-> c] \in Job
    BY <2>4 DEF Job
  <2> QED
    BY <1>3, <2>5, GoesTyped DEF SignJWT, TypeOK, store
<1>4. CASE DeleteUserIssue(w)
  <2>1. [op |-> "delete", at |-> "account"] \in Job
    BY DEF Job
  <2> QED
    BY <1>4, <2>1, GoesTyped DEF DeleteUserIssue, TypeOK, store
<1>5. CASE ReadAccount(w)
  <2>1. [op |-> "delete", at |-> "revoke", revs |-> issueRevs] \in Job
    BY DEF TypeOK, Job
  <2> QED
    BY <1>5, <2>1, GoesTyped DEF ReadAccount, TypeOK, store
<1>6. CASE AddUserToRevocationList(w)
  <2>1. job[w].revs \in Revocations
    BY <1>6, <1>0 DEF AddUserToRevocationList, At, Job
  <2>2. nkey # 0 => revokedNow(job[w].revs) \in Revocations
    BY <2>1 DEF revokedNow, Revocations, TypeOK
  <2>3. /\ [op |-> "delete", at |-> "nkey"] \in Job
        /\ nkey # 0 => [op |-> "delete", at |-> "put",
                        revs |-> revokedNow(job[w].revs)] \in Job
    BY <2>2 DEF Job
  <2> QED
    BY <1>6, <2>3, GoesTyped DEF AddUserToRevocationList, TypeOK, store
<1>7. CASE UpdateAccountIssue(w)
  <2>1. [op |-> "update", at |-> "put", revs |-> [k \in Keys |-> Never]] \in Job
    BY Names DEF Job
  <2> QED
    BY <1>7, <2>1, GoesTyped DEF UpdateAccountIssue, TypeOK, store
<1> QED
  BY <1>1, <1>2, <1>3, <1>4, <1>5, <1>6, <1>7

\* The steps that write, and those that end a request.
LEMMA WritersTyped ==
    ASSUME TypeOK, NEW w \in Workers,
           \/ ReadSeed(w) \/ PutAccountIssue(w) \/ IssueAccountJWT(w)
           \/ StoreAccountStatus(w) \/ DeleteUserNkey(w)
           \/ DeleteUserTemplate(w) \/ AddUserIssue(w) \/ IssueUserNKey(w)
           \/ Abort(w)
    PROVE  TypeOK'
<1> USE LifeAssumption
<1>0. job[w] \in Job \cup {None}
  BY DEF TypeOK
<1>1. CASE ReadSeed(w)
  <2>1. job[w].jwt \in Creds
    BY <1>1, <1>0 DEF ReadSeed, At, Job
  <2> QED
    BY <1>1, <2>1, GoesTyped DEF ReadSeed, TypeOK, store
<1>2. ASSUME NEW at, NEW op \in {"delete", "update"}, At(w, op, at),
             at \in {"put", "jwt", "status"}
      PROVE  /\ job[w].revs \in Revocations /\ job[w].op \in {"delete", "update"}
             /\ [job[w] EXCEPT !.at = "jwt"] \in Job
             /\ [job[w] EXCEPT !.at = "status"] \in Job
  <2>1. job[w] \in [op : {"delete", "update"}, revs : Revocations,
                    at : {"put", "jwt", "status"}]
    BY <1>0, <1>2 DEF At, Job
  <2> QED
    BY <2>1 DEF Job
<1>3. CASE PutAccountIssue(w)
  <2>1. job[w].revs \in Revocations /\ [job[w] EXCEPT !.at = "jwt"] \in Job
    BY <1>3, <1>2 DEF PutAccountIssue
  <2> QED
    BY <1>3, <2>1, GoesTyped DEF PutAccountIssue, TypeOK
<1>4. CASE IssueAccountJWT(w)
  <2>1. job[w].revs \in Revocations /\ [job[w] EXCEPT !.at = "status"] \in Job
    BY <1>4, <1>2 DEF IssueAccountJWT
  <2> QED
    BY <1>4, <2>1, GoesTyped DEF IssueAccountJWT, TypeOK
<1>5. CASE StoreAccountStatus(w)
  <2>1. job[w].revs \in Revocations
    BY <1>5, <1>2 DEF StoreAccountStatus
  <2>2. [op |-> "delete", at |-> "nkey"] \in Job
    BY DEF Job
  <2> QED
    BY <1>5, <2>1, <2>2, GoesTyped DEF StoreAccountStatus, TypeOK
<1>6. CASE DeleteUserNkey(w)
  <2>1. [op |-> "delete", at |-> "template"] \in Job
    BY DEF Job
  <2> QED
    BY <1>6, <2>1, GoesTyped DEF DeleteUserNkey, TypeOK
<1>7. CASE DeleteUserTemplate(w)
  BY <1>7, GoesTyped DEF DeleteUserTemplate, TypeOK
<1>8. CASE AddUserIssue(w)
  <2>1. [op |-> "add", at |-> "nkey"] \in Job
    BY DEF Job
  <2> QED
    BY <1>8, <2>1, GoesTyped DEF AddUserIssue, TypeOK
<1>9. CASE IssueUserNKey(w)
  <2>1. minted < MaxKeys => minted + 1 \in Keys
    BY DEF TypeOK, Keys
  <2> QED
    BY <1>9, <2>1, GoesTyped DEF IssueUserNKey, TypeOK
<1>10. CASE Abort(w)
  BY <1>10, GoesTyped DEF Abort, TypeOK, store
<1> QED
  BY <1>1, <1>3, <1>4, <1>5, <1>6, <1>7, <1>8, <1>9, <1>10

LEMMA NextTyped == TypeOK /\ [Next]_vars => TypeOK'
<1> SUFFICES ASSUME TypeOK, [Next]_vars PROVE TypeOK'
  OBVIOUS
<1>1. CASE \E w \in Workers : Step(w)
  BY <1>1, ReadersTyped, WritersTyped DEF Step
<1>2. CASE Tick
  BY <1>2, LifeAssumption DEF Tick, TypeOK, Times, store
<1>3. CASE UNCHANGED vars
  BY <1>3 DEF vars, store, TypeOK
<1> QED
  BY <1>1, <1>2, <1>3 DEF Next, Rest

LEMMA InitTyped == Init => TypeOK
<1> SUFFICES ASSUME Init PROVE TypeOK
  OBVIOUS
<1>1. rewritten \in BOOLEAN /\ handed \in SUBSET Creds
  BY DEF Init
<1>2. /\ now \in Times /\ template \in Expirations \cup {None}
      /\ nkey \in Keys \cup {0} /\ minted \in Keys \cup {0}
      /\ issueRevs \in Revocations /\ jwtRevs \in Revocations
      /\ faults \in Nat
  BY Names DEF Init
<1>3. job \in [Workers -> Job \cup {None}]
  BY DEF Init
<1> QED
  BY <1>1, <1>2, <1>3 DEF TypeOK

\* TypeOK, for any number of workers, keys and failures.
THEOREM LifeTypeCorrect == Spec => []TypeOK
BY InitTyped, NextTyped, PTL DEF Spec

-----------------------------------------------------------------------------
(* A deleted user is locked out.                                           *)

\* revs rejects the credentials c
Covers(revs, c) == revs[c.sub] >= c.iat

\* a new nkey is newer than any credentials, which are not from the future
KeysInOrder ==
    /\ nkey \in {0, minted}
    /\ \A c \in handed : c.sub <= minted /\ c.iat <= now
    /\ \A w \in Workers :
          /\ At(w, "creds", "sign") => job[w].sub <= minted
          /\ At(w, "creds", "seed") =>
                 job[w].jwt.sub <= minted /\ job[w].jwt.iat <= now

\* credentials of erased keys are rejected, by the issue as by the JWT
ErasedCovered ==
    ~rewritten => \A c \in handed :
        c.sub # nkey => Covers(issueRevs, c) /\ Covers(jwtRevs, c)

\* A deletion's copy of the issue rejects those, too; once it has revoked the
\* present key it rejects all credentials there are, then the JWT does, and
\* at last the stored issue.
DeletionCovers ==
    ~rewritten => \A w \in Workers :
        /\ job[w] # None => job[w].op # "update"
        /\ At(w, "delete", "revoke") =>
               \A c \in handed : c.sub # nkey => Covers(job[w].revs, c)
        /\ \A at \in {"put", "jwt", "status"} : At(w, "delete", at) =>
               \A c \in handed : Covers(job[w].revs, c)
        /\ At(w, "delete", "status") => \A c \in handed : Covers(jwtRevs, c)
        /\ At(w, "delete", "nkey") =>
               \A c \in handed : Covers(issueRevs, c) /\ Covers(jwtRevs, c)

LInv == TypeOK /\ KeysInOrder /\ ErasedCovered /\ DeletionCovers

LEMMA LInvLocksOut == LInv => LockedOut
BY DEF LInv, ErasedCovered, Covers, LockedOut, Rejected

LEMMA InitLInv == Init => LInv
<1> SUFFICES ASSUME Init PROVE LInv
  OBVIOUS
<1>1. \A w \in Workers : job[w] = None
  BY DEF Init
<1> QED
  BY <1>1, InitTyped
  DEF Init, LInv, KeysInOrder, ErasedCovered, DeletionCovers, At

\* The steps of one worker, when it is the only one.
LEMMA StepLInv ==
    ASSUME NEW w, Workers = {w}, LInv, Step(w)
    PROVE  LInv'
<1> USE DEF Covers
<1>0. /\ w \in Workers /\ TypeOK' /\ TypeOK
      /\ job[w] \in Job \cup {None}
      /\ handed \subseteq Creds
      /\ \A c \in handed : c.sub \in Keys /\ c.iat \in Times
      /\ now \in Times /\ minted \in Nat /\ nkey \in Nat
  <2>1. TypeOK' /\ TypeOK
    BY ReadersTyped, WritersTyped DEF Step, LInv
  <2> QED
    BY <2>1 DEF LInv, TypeOK, Creds, Keys
<1>1. \A j : Goes(w, j) => job'[w] = j
  BY <1>0 DEF Goes, TypeOK
<1>2. ~rewritten /\ job[w] # None => job[w].op # "update"
  BY <1>0 DEF LInv, DeletionCovers
<1>3. CASE GenerateUserCreds(w) \/ DeleteUserIssue(w) \/ Abort(w)
           \/ ReadKeys(w) \/ AddUserIssue(w) \/ DeleteUserTemplate(w)
  <2>1. UNCHANGED <<now, nkey, minted, issueRevs, jwtRevs, handed, rewritten>>
    BY <1>3 DEF GenerateUserCreds, DeleteUserIssue, Abort, ReadKeys,
                AddUserIssue, DeleteUserTemplate, store
  <2>2. \/ job'[w] = None
        \/ job'[w].op = "creds" /\ job'[w].at = "keys"
        \/ job'[w].op = "creds" /\ job'[w].at = "sign" /\ job'[w].sub = nkey
        \/ job'[w].op = "delete" /\ job'[w].at = "account"
        \/ job'[w].op = "add"
    BY <1>3, <1>1 DEF GenerateUserCreds, DeleteUserIssue, Abort, ReadKeys,
                      AddUserIssue, DeleteUserTemplate
  <2>3. nkey <= minted
    BY <1>0 DEF LInv, KeysInOrder
  <2>4. KeysInOrder'
    BY <2>1, <2>2, <2>3 DEF LInv, KeysInOrder, At
  <2>5. ErasedCovered' /\ DeletionCovers'
    BY <2>1, <2>2 DEF LInv, ErasedCovered, DeletionCovers, At
  <2> QED
    BY <1>0, <2>4, <2>5 DEF LInv
<1>4. CASE SignJWT(w)
  <2>1. UNCHANGED <<now, nkey, minted, issueRevs, jwtRevs, handed, rewritten>>
        /\ At(w, "creds", "sign")
    BY <1>4 DEF SignJWT, store
  <2>2. /\ job'[w].op = "creds" /\ job'[w].at = "seed"
        /\ job'[w].jwt.sub = job[w].sub /\ job'[w].jwt.iat = now
    BY <1>4, <1>1 DEF SignJWT
  <2>3. KeysInOrder'
    BY <2>1, <2>2, <1>0 DEF LInv, KeysInOrder, At, Times
  <2> QED
    BY <1>0, <2>1, <2>2, <2>3 DEF LInv, ErasedCovered, DeletionCovers, At
<1>5. CASE ReadSeed(w)
  <2>1. /\ UNCHANGED <<now, nkey, minted, issueRevs, jwtRevs, rewritten>>
        /\ At(w, "creds", "seed") /\ job'[w] = None
        /\ \A c \in handed' : c \in handed \/ (c = job[w].jwt /\ c.sub = nkey)
    BY <1>5, <1>1 DEF ReadSeed, store
  <2>2. KeysInOrder'
    BY <2>1, <1>0 DEF LInv, KeysInOrder, At
  <2> QED
    BY <1>0, <2>1, <2>2 DEF LInv, ErasedCovered, DeletionCovers, At
<1>6. CASE ReadAccount(w)
  <2>1. /\ UNCHANGED <<now, nkey, minted, issueRevs, jwtRevs, handed, rewritten>>
        /\ job'[w].op = "delete" /\ job'[w].at = "revoke"
        /\ job'[w].revs = issueRevs
    BY <1>6, <1>1 DEF ReadAccount, store
  <2> QED
    BY <1>0, <2>1 DEF LInv, KeysInOrder, ErasedCovered, DeletionCovers, At
<1>7. CASE AddUserToRevocationList(w) /\ nkey = 0
  <2>1. /\ UNCHANGED <<now, nkey, minted, issueRevs, jwtRevs, handed, rewritten>>
        /\ job'[w].op = "delete" /\ job'[w].at = "nkey"
    BY <1>7, <1>1 DEF AddUserToRevocationList, store
  <2>2. \A c \in handed : c.sub # nkey
    BY <1>0, <1>7 DEF Keys
  <2> QED
    BY <1>0, <2>1, <2>2 DEF LInv, KeysInOrder, ErasedCovered, DeletionCovers, At
<1>8. CASE AddUserToRevocationList(w) /\ nkey # 0
  <2>1. /\ UNCHANGED <<now, nkey, minted, issueRevs, jwtRevs, handed, rewritten>>
        /\ At(w, "delete", "revoke")
        /\ job'[w].op = "delete" /\ job'[w].at = "put"
        /\ job'[w].revs = [job[w].revs EXCEPT ![nkey] = now]
    BY <1>8, <1>1 DEF AddUserToRevocationList, store, revokedNow
  <2>2. job[w].revs \in Revocations
    BY <2>1, <1>0 DEF At, Job
  <2>3. ~rewritten => \A c \in handed : Covers(job'[w].revs, c)
    <3> SUFFICES ASSUME ~rewritten, NEW c \in handed
                 PROVE  job'[w].revs[c.sub] >= c.iat
      OBVIOUS
    <3>1. CASE c.sub = nkey
      <4>1. job'[w].revs[c.sub] = now
        BY <3>1, <2>1, <2>2, <1>0 DEF Revocations
      <4> QED
        BY <4>1, <1>0 DEF LInv, KeysInOrder, Times
    <3>2. CASE c.sub # nkey
      <4>1. job'[w].revs[c.sub] = job[w].revs[c.sub]
        BY <3>2, <2>1, <2>2, <1>0 DEF Revocations
      <4> QED
        BY <4>1, <3>2, <2>1, <1>0 DEF LInv, DeletionCovers
    <3> QED
      BY <3>1, <3>2
  <2> QED
    BY <1>0, <2>1, <2>3 DEF LInv, KeysInOrder, ErasedCovered, DeletionCovers, At
<1>9. CASE PutAccountIssue(w)
  <2>1. /\ UNCHANGED <<now, nkey, minted, jwtRevs, handed, rewritten>>
        /\ \E op \in {"delete", "update"} : At(w, op, "put")
        /\ issueRevs' = job[w].revs
        /\ job' = [job EXCEPT ![w] = [job[w] EXCEPT !.at = "jwt"]]
    BY <1>9 DEF PutAccountIssue, Goes
  <2>2. job'[w].op = job[w].op /\ job'[w].at = "jwt"
        /\ job'[w].revs = job[w].revs
    BY <2>1, <1>0 DEF At, Job, TypeOK
  <2> QED
    BY <1>0, <1>2, <2>1, <2>2
    DEF LInv, KeysInOrder, ErasedCovered, DeletionCovers, At
<1>10. CASE IssueAccountJWT(w)
  <2>1. /\ UNCHANGED <<now, nkey, minted, issueRevs, handed, rewritten>>
        /\ \E op \in {"delete", "update"} : At(w, op, "jwt")
        /\ jwtRevs' = job[w].revs
        /\ job' = [job EXCEPT ![w] = [job[w] EXCEPT !.at = "status"]]
    BY <1>10 DEF IssueAccountJWT, Goes
  <2>2. job'[w].op = job[w].op /\ job'[w].at = "status"
        /\ job'[w].revs = job[w].revs
    BY <2>1, <1>0 DEF At, Job, TypeOK
  <2> QED
    BY <1>0, <1>2, <2>1, <2>2
    DEF LInv, KeysInOrder, ErasedCovered, DeletionCovers, At
<1>11. CASE StoreAccountStatus(w)
  <2>1. /\ UNCHANGED <<now, nkey, minted, jwtRevs, handed, rewritten>>
        /\ ~rewritten => At(w, "delete", "status")
        /\ issueRevs' = job[w].revs
        /\ \/ job'[w] = None /\ rewritten
           \/ job'[w].op = "delete" /\ job'[w].at = "nkey"
    BY <1>11, <1>1, <1>2 DEF StoreAccountStatus, At
  <2> QED
    BY <1>0, <2>1 DEF LInv, KeysInOrder, ErasedCovered, DeletionCovers, At
<1>12. CASE DeleteUserNkey(w)
  <2>1. /\ UNCHANGED <<now, minted, issueRevs, jwtRevs, handed, rewritten>>
        /\ At(w, "delete", "nkey") /\ nkey' = 0
        /\ job'[w].op = "delete" /\ job'[w].at = "template"
    BY <1>12, <1>1 DEF DeleteUserNkey
  <2> QED
    BY <1>0, <2>1 DEF LInv, KeysInOrder, ErasedCovered, DeletionCovers, At
<1>13. CASE IssueUserNKey(w)
  <2>1. /\ UNCHANGED <<now, issueRevs, jwtRevs, handed, rewritten>>
        /\ job'[w] = None
        /\ \/ UNCHANGED <<nkey, minted>>
           \/ nkey = 0 /\ minted' = minted + 1 /\ nkey' = minted + 1
    BY <1>13, <1>1 DEF IssueUserNKey
  <2>2. minted <= minted' /\ nkey' \in {0, minted'}
    BY <2>1, <1>0 DEF LInv, KeysInOrder
  <2>3. \A c \in handed : c.sub <= minted'
    BY <2>2, <1>0, <2>1 DEF LInv, KeysInOrder, Keys
  <2>4. KeysInOrder'
    BY <2>1, <2>2, <2>3, <1>0 DEF LInv, KeysInOrder, At
  <2>5. \A c \in handed : c.sub # nkey' => c.sub # nkey
    BY <2>1, <1>0 DEF Keys
  <2> QED
    BY <1>0, <2>1, <2>4, <2>5 DEF LInv, ErasedCovered, DeletionCovers, At
<1>14. CASE UpdateAccountIssue(w)
  <2>1. /\ UNCHANGED <<now, nkey, minted, handed>>
        /\ rewritten' /\ job'[w].op = "update"
    BY <1>14, <1>1 DEF UpdateAccountIssue
  <2> QED
    BY <1>0, <2>1 DEF LInv, KeysInOrder, ErasedCovered, DeletionCovers, At
<1> QED
  BY <1>3, <1>4, <1>5, <1>6, <1>7, <1>8, <1>9, <1>10, <1>11, <1>12, <1>13,
     <1>14 DEF Step

LEMMA NextLInv ==
    ASSUME NEW w, Workers = {w}, LInv, [Next]_vars
    PROVE  LInv'
<1>1. CASE Step(w)
  BY <1>1, StepLInv
<1>2. CASE Tick
  <2>1. TypeOK'
    BY <1>2, NextTyped DEF Next, LInv
  <2>2. /\ UNCHANGED <<nkey, minted, issueRevs, jwtRevs, job, handed, rewritten>>
        /\ now' = now + 1
    BY <1>2 DEF Tick, store
  <2>3. /\ now \in Nat
        /\ \A c \in handed : c.iat \in Nat
        /\ At(w, "creds", "seed") => job[w].jwt.iat \in Nat
    BY DEF LInv, TypeOK, Creds, Times, At, Job
  <2>4. KeysInOrder'
    BY <2>2, <2>3 DEF LInv, KeysInOrder, At
  <2> QED
    BY <2>1, <2>2, <2>4
    DEF LInv, ErasedCovered, DeletionCovers, At, Covers
<1>3. CASE UNCHANGED vars
  BY <1>3 DEF vars, store, LInv, TypeOK, KeysInOrder, ErasedCovered,
              DeletionCovers, At, Covers
<1> QED
  BY <1>1, <1>2, <1>3 DEF Next, Rest

\* LockedOut, where requests come one at a time: for every clock and any
\* number of keys, credentials and failures.
THEOREM DeletedIsLockedOut ==
    ASSUME NEW w, Workers = {w}
    PROVE  Spec => []LockedOut
<1>1. LInv /\ [Next]_vars => LInv'
  BY NextLInv
<1> QED
  BY <1>1, InitLInv, LInvLocksOut, PTL DEF Spec


-----------------------------------------------------------------------------
(* What is revoked stays revoked.                                          *)

\* revs holds what the JWT does, and holds nothing for a time to come
Holds(revs) == \A k \in Keys : revs[k] >= jwtRevs[k]
Past(revs)  == \A k \in Keys : revs[k] <= now

HasRevs(w) == job[w] # None /\ \/ job[w].op = "update"
                               \/ At(w, "delete", "revoke")
                               \/ \E at \in {"put", "jwt", "status"} :
                                     At(w, "delete", at)

\* A deletion's copy of the issue holds what the JWT does, as long as it may
\* still be signed.  Between its storing the claims and signing them an update
\* breaks that of the issue, and mends it if it is not cut short.
RevocationsCarried ==
    faults = 0 => \A w \in Workers :
        /\ Past(issueRevs)
        /\ HasRevs(w) => Past(job[w].revs)
        /\ HasRevs(w) /\ job[w].op = "delete" => Holds(job[w].revs)
        /\ At(w, "delete", "jwt") => job[w].revs = issueRevs
        /\ At(w, "update", "status") => job[w].revs = jwtRevs
        /\ (job[w] = None \/ job[w].op # "update") => Holds(issueRevs)

CInv == TypeOK /\ RevocationsCarried

LEMMA InitCInv == Init => CInv
<1> SUFFICES ASSUME Init PROVE CInv
  OBVIOUS
<1>1. \A w \in Workers : job[w] = None
  BY DEF Init
<1>2. \A k \in Keys : issueRevs[k] = -1 /\ jwtRevs[k] = -1 /\ now = 0
  BY DEF Init, Never
<1>3. Past(issueRevs) /\ Holds(issueRevs)
  BY <1>2 DEF Past, Holds
<1> QED
  BY <1>1, <1>3, InitTyped
  DEF CInv, RevocationsCarried, HasRevs, At


\* The steps of one worker, when it is the only one.
LEMMA StepCInv ==
    ASSUME NEW one, Workers = {one}, CInv, Step(one), faults' = 0
    PROVE  RevocationsCarried'
<1>0. /\ one \in Workers /\ TypeOK' /\ TypeOK
      /\ job[one] \in Job \cup {None}
      /\ issueRevs \in Revocations /\ jwtRevs \in Revocations
      /\ now \in Nat /\ nkey \in Keys \cup {0} /\ faults \in Nat
  <2>1. TypeOK' /\ TypeOK
    BY ReadersTyped, WritersTyped DEF Step, CInv
  <2> QED
    BY <2>1 DEF TypeOK, Times
<1>a. \A j : Goes(one, j) => job'[one] = j
  BY <1>0 DEF Goes, TypeOK
<1>b. faults = 0 /\ ~Abort(one)
  <2>1. Abort(one) => faults' = faults + 1
    BY DEF Abort
  <2>2. ~Abort(one)
    BY <2>1, <1>0
  <2> QED
    BY <2>2 DEF Step, GenerateUserCreds, ReadKeys, SignJWT, ReadSeed,
       DeleteUserIssue, ReadAccount, AddUserToRevocationList,
       UpdateAccountIssue, PutAccountIssue, IssueAccountJWT,
       StoreAccountStatus, DeleteUserNkey, DeleteUserTemplate, AddUserIssue,
       IssueUserNKey
<1>c. /\ Past(issueRevs)
      /\ HasRevs(one) => Past(job[one].revs)
      /\ HasRevs(one) /\ job[one].op = "delete" => Holds(job[one].revs)
      /\ At(one, "delete", "jwt") => job[one].revs = issueRevs
      /\ At(one, "update", "status") => job[one].revs = jwtRevs
      /\ job[one] = None \/ job[one].op # "update" => Holds(issueRevs)
  BY <1>0, <1>b DEF CInv, RevocationsCarried
<1>1. ASSUME UNCHANGED <<now, issueRevs, jwtRevs>>,
             job[one] = None \/ job[one].op # "update",
             \/ job'[one] = None \/ job'[one].op \in {"creds", "add"}
             \/ job'[one].op = "delete"
                /\ job'[one].at \in {"account", "nkey", "template"}
      PROVE  RevocationsCarried'
  <2>1. /\ ~HasRevs(one)' /\ ~At(one, "update", "status")'
        /\ ~At(one, "delete", "jwt")'
    BY <1>1 DEF HasRevs, At
  <2> QED
    BY <2>1, <1>1, <1>c DEF RevocationsCarried, Past, Holds
<1>2. CASE \/ GenerateUserCreds(one) \/ ReadKeys(one) \/ SignJWT(one)
           \/ ReadSeed(one) \/ DeleteUserIssue(one) \/ AddUserIssue(one)
           \/ DeleteUserNkey(one) \/ DeleteUserTemplate(one)
           \/ IssueUserNKey(one)
           \/ AddUserToRevocationList(one) /\ nkey = 0
  <2>1. UNCHANGED <<now, issueRevs, jwtRevs>>
    BY <1>2 DEF GenerateUserCreds, ReadKeys, SignJWT, ReadSeed,
       DeleteUserIssue, AddUserIssue, DeleteUserNkey, DeleteUserTemplate,
       IssueUserNKey, AddUserToRevocationList, store
  <2>2. job[one] = None \/ job[one].op # "update"
    BY <1>2 DEF GenerateUserCreds, ReadKeys, SignJWT, ReadSeed,
       DeleteUserIssue, AddUserIssue, DeleteUserNkey, DeleteUserTemplate,
       IssueUserNKey, AddUserToRevocationList, Starts, At
  <2>3. \/ job'[one] = None \/ job'[one].op \in {"creds", "add"}
        \/ job'[one].op = "delete"
           /\ job'[one].at \in {"account", "nkey", "template"}
    BY <1>2, <1>a DEF GenerateUserCreds, ReadKeys, SignJWT, ReadSeed,
       DeleteUserIssue, AddUserIssue, DeleteUserNkey, DeleteUserTemplate,
       IssueUserNKey, AddUserToRevocationList
  <2> QED
    BY <1>1, <2>1, <2>2, <2>3
<1>3. CASE ReadAccount(one)
  <2>1. /\ UNCHANGED <<now, issueRevs, jwtRevs>> /\ job[one].op # "update"
        /\ job'[one].op = "delete" /\ job'[one].at = "revoke"
        /\ job'[one].revs = issueRevs
    BY <1>3, <1>a DEF ReadAccount, At, store
  <2> QED
    BY <2>1, <1>c DEF RevocationsCarried, HasRevs, At, Past, Holds
<1>4. CASE AddUserToRevocationList(one) /\ nkey # 0
  <2>1. /\ UNCHANGED <<now, issueRevs, jwtRevs>> /\ At(one, "delete", "revoke")
        /\ job'[one].op = "delete" /\ job'[one].at = "put"
        /\ job'[one].revs = [job[one].revs EXCEPT ![nkey] = now]
    BY <1>4, <1>a DEF AddUserToRevocationList, revokedNow, store
  <2>2. /\ job[one].revs \in Revocations /\ HasRevs(one)
        /\ job[one].op = "delete"
    BY <2>1, <1>0 DEF At, Job, HasRevs
  <2>3. \A k \in Keys : /\ job'[one].revs[k] <= now
                        /\ job'[one].revs[k] >= job[one].revs[k]
    <3> SUFFICES ASSUME NEW k \in Keys
                 PROVE  /\ job'[one].revs[k] <= now
                        /\ job'[one].revs[k] >= job[one].revs[k]
      OBVIOUS
    <3>1. /\ job[one].revs[k] <= now /\ job[one].revs[k] \in Int
      BY <2>2, <1>c DEF Past, Revocations, Times, Never
    <3>2. job'[one].revs[k] = IF k = nkey THEN now ELSE job[one].revs[k]
      BY <2>1, <2>2 DEF Revocations
    <3> QED
      BY <3>1, <3>2, <1>0
  <2>4. \A k \in Keys : job'[one].revs[k] >= jwtRevs[k]
    <3> SUFFICES ASSUME NEW k \in Keys PROVE job'[one].revs[k] >= jwtRevs[k]
      OBVIOUS
    <3>1. /\ job[one].revs[k] >= jwtRevs[k]
          /\ job[one].revs[k] \in Int /\ jwtRevs[k] \in Int
      BY <2>2, <1>0, <1>c DEF Holds, Revocations, Times, Never
    <3>2. job'[one].revs[k] \in Int
      BY <2>1, <2>2, <3>1, <1>0 DEF Revocations
    <3> QED
      BY <3>1, <3>2, <2>3
  <2> QED
    BY <2>1, <2>3, <2>4, <1>c DEF RevocationsCarried, HasRevs, At, Past, Holds
<1>5. CASE UpdateAccountIssue(one)
  <2>0. [op |-> "update", at |-> "put", revs |-> [k \in Keys |-> Never]] # None
    <3>1. [op |-> "update", at |-> "put", revs |-> [k \in Keys |-> Never]] \in Job
      BY Names DEF Job
    <3> QED
      BY <3>1, NoneAssumption
  <2>1. /\ UNCHANGED <<now, issueRevs, jwtRevs>> /\ job'[one] # None
        /\ job'[one].op = "update" /\ job'[one].at = "put"
        /\ job'[one].revs = [k \in Keys |-> Never]
    BY <1>5, <1>a, <2>0 DEF UpdateAccountIssue
  <2>2. \A k \in Keys : job'[one].revs[k] <= now
    BY <2>1, <1>0 DEF Never
  <2> QED
    BY <2>1, <2>2, <1>c DEF RevocationsCarried, HasRevs, At, Past, Holds

<1>6. ASSUME NEW at \in {"put", "jwt", "status"},
             \E op \in {"delete", "update"} : At(one, op, at)
      PROVE  /\ job[one] # None /\ HasRevs(one)
             /\ job[one].op \in {"delete", "update"}
             /\ \A a : [job[one] EXCEPT !.at = a].op = job[one].op
             /\ \A a : [job[one] EXCEPT !.at = a].revs = job[one].revs
             /\ \A a : [job[one] EXCEPT !.at = a].at = a
             /\ \A a \in {"jwt", "status"} : [job[one] EXCEPT !.at = a] # None
             /\ job[one].revs \in Revocations
  <2>1. job[one] \in [op : {"delete", "update"}, revs : Revocations,
                      at : {"put", "jwt", "status"}]
    BY <1>6, <1>0 DEF At, Job
  <2>2. \A a \in {"jwt", "status"} : [job[one] EXCEPT !.at = a] \in Job
    BY <2>1 DEF Job
  <2> QED
    BY <2>1, <2>2, <1>6, NoneAssumption DEF HasRevs, At
<1>7. CASE PutAccountIssue(one)
  <2>1. \E op \in {"delete", "update"} : At(one, op, "put")
    BY <1>7 DEF PutAccountIssue
  <2>2. /\ UNCHANGED <<now, jwtRevs>> /\ issueRevs' = job[one].revs
        /\ job'[one].op = job[one].op /\ job'[one].revs = job[one].revs
        /\ job'[one].at = "jwt" /\ HasRevs(one)
        /\ job[one].op \in {"delete", "update"}
    BY <1>7, <2>1, <1>6, <1>a DEF PutAccountIssue
  <2>3. job'[one] # None
    BY <1>7, <1>a, <1>6, <2>1 DEF PutAccountIssue
  <2> QED
    BY <2>2, <2>3, <1>c DEF RevocationsCarried, HasRevs, At, Past, Holds
<1>8. CASE IssueAccountJWT(one)
  <2>1. \E op \in {"delete", "update"} : At(one, op, "jwt")
    BY <1>8 DEF IssueAccountJWT
  <2>2. /\ UNCHANGED <<now, issueRevs>> /\ jwtRevs' = job[one].revs
        /\ job'[one].op = job[one].op /\ job'[one].revs = job[one].revs
        /\ job'[one].at = "status" /\ job'[one] # None /\ HasRevs(one)
        /\ job[one].op \in {"delete", "update"}
    BY <1>8, <2>1, <1>6, <1>a DEF IssueAccountJWT
  <2>3. \A k \in Keys : job[one].revs[k] >= job[one].revs[k]
    BY <2>1, <1>6 DEF Revocations, Times, Never
  <2>4. job[one].op = "delete" => issueRevs = job[one].revs
    BY <2>1, <1>c DEF At
  <2> QED
    BY <2>2, <2>3, <2>4, <1>c DEF RevocationsCarried, HasRevs, At, Past, Holds
<1>9. CASE StoreAccountStatus(one)
  <2>1. \E op \in {"delete", "update"} : At(one, op, "status")
    BY <1>9 DEF StoreAccountStatus
  <2>2. /\ UNCHANGED <<now, jwtRevs>> /\ issueRevs' = job[one].revs
        /\ HasRevs(one) /\ job[one].op \in {"delete", "update"}
        /\ \/ job'[one] = None
           \/ job'[one].op = "delete" /\ job'[one].at = "nkey"
    BY <1>9, <2>1, <1>6, <1>a DEF StoreAccountStatus
  <2>3. Holds(job[one].revs)
    BY <1>9, <2>1, <2>2, <1>0, <1>c DEF At, Holds, Revocations, Times, Never
  <2> QED
    BY <2>2, <2>3, <1>c DEF RevocationsCarried, HasRevs, At, Past, Holds
<1> QED
  BY <1>b, <1>2, <1>3, <1>4, <1>5, <1>7, <1>8, <1>9
  DEF Step, AddUserToRevocationList


LEMMA NextCInv ==
    ASSUME NEW one, Workers = {one}, CInv, [Next]_vars
    PROVE  CInv'
<1>1. TypeOK'
  BY NextTyped DEF CInv
<1>2. CASE Step(one)
  <2>1. faults' = 0 => RevocationsCarried'
    BY <1>2, StepCInv
  <2> QED
    BY <1>1, <2>1 DEF CInv, RevocationsCarried
<1>3. CASE Tick
  <2>1. UNCHANGED <<issueRevs, jwtRevs, job, faults>> /\ now' = now + 1
    BY <1>3 DEF Tick, store
  <2>2. \A revs \in Revocations : Past(revs) => \A k \in Keys : revs[k] <= now'
    BY <2>1 DEF Past, Revocations, CInv, TypeOK, Times, Never
  <2>3. ASSUME HasRevs(one) PROVE job[one].revs \in Revocations
    BY <2>3 DEF HasRevs, At, CInv, TypeOK, Job
  <2>4. issueRevs \in Revocations
    BY DEF CInv, TypeOK
  <2> QED
    BY <1>1, <2>1, <2>2, <2>3, <2>4
    DEF CInv, RevocationsCarried, HasRevs, At, Past, Holds
<1>4. CASE UNCHANGED vars
  BY <1>1, <1>4 DEF vars, store, CInv, RevocationsCarried, HasRevs, At, Past, Holds
<1> QED
  BY <1>2, <1>3, <1>4 DEF Next, Rest

\* The step of a request that signs the JWT, and any other.
LEMMA NextHolds ==
    ASSUME NEW one, Workers = {one}, CInv, [Next]_vars, faults = 0
    PROVE  \A k \in Keys :
              \/ jwtRevs'[k] >= jwtRevs[k]
              \/ \E w \in Workers : job[w] # None /\ job[w].op = "update"
<1>0. \A k \in Keys : jwtRevs[k] \in Int /\ jwtRevs[k] >= jwtRevs[k]
  BY DEF CInv, TypeOK, Revocations, Times, Never
<1>1. CASE IssueAccountJWT(one) /\ At(one, "delete", "jwt")
  BY <1>1 DEF IssueAccountJWT, CInv, RevocationsCarried, HasRevs, At, Holds
<1>2. CASE IssueAccountJWT(one) /\ At(one, "update", "jwt")
  BY <1>2 DEF At
<1>3. CASE UNCHANGED jwtRevs
  BY <1>3, <1>0
<1>4. IssueAccountJWT(one) \/ UNCHANGED jwtRevs
  BY DEF Next, Step, Rest, Tick, vars, store, GenerateUserCreds, ReadKeys,
     SignJWT, ReadSeed, DeleteUserIssue, ReadAccount, AddUserToRevocationList,
     UpdateAccountIssue, PutAccountIssue, StoreAccountStatus, DeleteUserNkey,
     DeleteUserTemplate, AddUserIssue, IssueUserNKey, Abort
<1> QED
  BY <1>1, <1>2, <1>3, <1>4 DEF IssueAccountJWT

\* RevocationsStay, where requests come one at a time: for every clock and
\* any number of keys, no deletion of a user takes a revocation back that the
\* account's JWT has had.
THEOREM RevocationsAreHeld ==
    ASSUME NEW one, Workers = {one}
    PROVE  Spec => RevocationsStay
<1>1. CInv /\ [Next]_vars => CInv'
  BY NextCInv
<1>2. CInv /\ [Next]_vars =>
          [faults = 0 =>
              \A k \in Keys :
                 \/ jwtRevs'[k] >= jwtRevs[k]
                 \/ \E w \in Workers : job[w] # None /\ job[w].op = "update"]_vars
  BY NextHolds
<1> QED
  BY <1>1, <1>2, InitCInv, PTL DEF Spec, RevocationsStay
=============================================================================
