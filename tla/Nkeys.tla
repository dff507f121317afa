------------------------------- MODULE Nkeys -------------------------------
(***************************************************************************)
(* Nkeys and imported JWTs: paths_nkey*.go and paths_jwt*.go.              *)
(***************************************************************************)
EXTENDS NatsStorage

\* add{Operator,Account,User}[Signing]Nkey; seed: did the caller give one?
addNkey(p, seed) == <<[op |-> "addNkey", path |-> p, seed |-> seed]>>

\* delete*Nkey for each of the paths
deleteNkeys(ps) == IF ps = {} THEN <<>>
                   ELSE <<[op |-> "deleteNkeys", paths |-> ps]>>

HasIssue(p) == CASE p[1] = "operator" -> opIssue # None
                 [] p[1] = "account"  -> accIssue[p[2]] # None
                 [] p[1] = "user"     -> userIssue[p[2]][p[3]] # None

DefaultOp   == [sys |-> FALSE, sync |-> "off", signing |-> {}]
DefaultAcc  == [signing |-> {}, use |-> None, claims |-> DefaultClaims,
                revs |-> {}]
DefaultUser == [use |-> None, vars |-> FALSE]

\* add*Issue with no parameters but the names
addDefaultIssue(p) ==
    CASE p[1] = "operator" -> <<[op |-> "addOperatorIssue", par |-> DefaultOp]>>
      [] p[1] = "account"  -> <<[op |-> "addAccountIssue", acc |-> p[2],
                                 par |-> DefaultAcc]>>
      [] p[1] = "user"     -> <<[op |-> "addUserIssue", acc |-> p[2],
                                 user |-> p[3], par |-> DefaultUser]>>

\* mutant: a stored seed is not kept
TakesAnySeed(p, seed) == TRUE

\* an imported seed replaces the stored one, a stored one is kept, and where
\* there is none a new one is created
TakesNewSeed(p, seed) == seed \/ ~Stored(p)

\* addNkey up to its Put
AddNkey(w) ==
    /\ Running(w, "addNkey")
    /\ LET p == Top(w).path IN
       \/ /\ TakesNewSeed(p, Top(w).seed)
          /\ minted' = [minted EXCEPT ![p] = @ + 1]
          /\ Do(w, <<[op |-> "putNkey", path |-> p, gen |-> minted[p] + 1]>>)
       \/ /\ ~TakesNewSeed(p, Top(w).seed)
          /\ Do(w, <<[op |-> "putNkey", path |-> p, gen |-> nkey[p]]>>)
          /\ UNCHANGED minted
    /\ UNCHANGED <<issues, tokens, nkey, world>>

PutNkey(w) ==
    /\ Running(w, "putNkey")
    /\ nkey' = [nkey EXCEPT ![Top(w).path] = Top(w).gen]
    /\ Do(w, <<[op |-> "ensureIssue", path |-> Top(w).path]>>)
    /\ UNCHANGED <<issues, tokens, minted, world>>

\* The tail of add*Nkey and add*JWT: a missing issue is created with default
\* parameters, and whether that works is ignored.
EnsureIssue(w) ==
    /\ Running(w, "ensureIssue")
    /\ LET p == Top(w).path IN
       \/ /\ HasIssue(p)
          /\ Do(w, <<>>)
       \/ /\ ~HasIssue(p)
          /\ Do(w, addDefaultIssue(p) \o Catch)
    /\ UNCHANGED <<issues, tokens, seeds, world>>

DeleteNkeys(w) ==
    /\ Running(w, "deleteNkeys")
    /\ \E p \in Top(w).paths :
          /\ nkey' = [nkey EXCEPT ![p] = 0]
          /\ Do(w, deleteNkeys(Top(w).paths \ {p}))
    /\ UNCHANGED <<issues, tokens, minted, world>>

-----------------------------------------------------------------------------
(* JWTs.                                                                   *)

AddOperatorJWT(w) ==
    /\ Running(w, "addOperatorJWT")
    /\ opJWT' = Top(w).tok
    /\ Do(w, <<[op |-> "ensureIssue", path |-> OpPath]>>)
    /\ UNCHANGED <<issues, accJWT, revoked, seeds, world>>

AddAccountJWT(w) ==
    /\ Running(w, "addAccountJWT")
    /\ LET t == Top(w) IN
       /\ accJWT' = [accJWT EXCEPT ![t.acc] = t.tok]
       /\ revoked' = revoked \cup t.tok.revs
       /\ Do(w, <<[op |-> "ensureIssue", path |-> AccPath(t.acc)]>>)
    /\ UNCHANGED <<issues, opJWT, seeds, world>>

DeleteOperatorJWT(w) ==
    /\ Running(w, "deleteOperatorJWT")
    /\ opJWT' = None
    /\ Do(w, <<>>)
    /\ UNCHANGED <<issues, accJWT, revoked, seeds, world>>

DeleteAccountJWT(w) ==
    /\ Running(w, "deleteAccountJWT")
    /\ accJWT' = [accJWT EXCEPT ![Top(w).acc] = None]
    /\ Do(w, <<>>)
    /\ UNCHANGED <<issues, opJWT, revoked, seeds, world>>

NkeyStep(w) ==
    \/ AddNkey(w) \/ PutNkey(w) \/ EnsureIssue(w) \/ DeleteNkeys(w)
    \/ AddOperatorJWT(w) \/ AddAccountJWT(w)
    \/ DeleteOperatorJWT(w) \/ DeleteAccountJWT(w)
=============================================================================
