-------------------------- MODULE MCCredentialLife --------------------------
(* Instances of CredentialLife for TLC: one or two workers.                *)
EXTENDS CredentialLife

CONSTANTS w1, w2

\* a user was created and nothing else has happened
Created == /\ now = 0 /\ template = 0 /\ nkey = 1 /\ minted = 1
           /\ issueRevs = [k \in Keys |-> Never]
           /\ jwtRevs = [k \in Keys |-> Never]
           /\ job = [w \in Workers |-> None] /\ handed = {} /\ faults = 0
           /\ rewritten = FALSE
CreatedSpec == Created /\ [][Next]_vars
=============================================================================
