--------------------------- MODULE PeriodicRounds ---------------------------
(***************************************************************************)
(* periodicFunc (backend.go) going round several operators.                *)
(*                                                                         *)
(* Periodic has its steps for one operator in full detail.  Here are the   *)
(* loops: Vault lists names in order, so it is always the same operators   *)
(* and accounts that come first, and what ends a loop early for one of     *)
(* them keeps the function from those behind it, every time it is called.  *)
(* An account is reduced to whether its claims can be signed, its JWT and  *)
(* nkey exist, its issue says so and the account server has the JWT.       *)
(***************************************************************************)
EXTENDS Integers, FiniteSetsExt

CONSTANTS Operators,    \* names of operators, as numbers in their order
          Accounts,     \* names of accounts, likewise
          MaxChanges,   \* bound: changes that clients make
          MaxFaults,    \* bound: storage errors
          None

ASSUME RoundsAssumption ==
    /\ Operators \subseteq Nat /\ Accounts \subseteq Nat
    /\ MaxChanges \in Nat /\ MaxFaults \in Nat
    /\ None \notin Operators

VARIABLES operators,    \* those with an issue
          sync,         \* those with SyncAccountServer and a URL
          creds,        \* creds[o]: of its push user: "none", "bad", "good"
          accounts,     \* accounts[o]: those with an issue
          signable,     \* those whose claims convert and whose signer exists
          jwt,          \* those with nkey and JWT in storage
          flagged,      \* those whose issue says they have them
          held,         \* those whose JWT the account server holds
          run,          \* the running call of periodicFunc, or None
          changes, faults

config == <<operators, sync, creds, accounts, signable>>
vars   == <<config, jwt, flagged, held, run, changes, faults>>

Credentials == {"none", "bad", "good"}
ByOperator  == [Operators -> SUBSET Accounts]
\* todo: operators to come; sync: as the issue was read; turn: accounts to
\* come; fix: accounts to come in the repair; clean: history, has nothing
\* been changed and nothing failed since the call began?
Run == [at : {"operator", "account", "repair", "sync"},
        todo : SUBSET Operators, op : Operators \cup {None}, sync : BOOLEAN,
        turn : SUBSET Accounts, fix : SUBSET Accounts, clean : BOOLEAN]

TypeOK == /\ operators \in SUBSET Operators /\ sync \in SUBSET Operators
          /\ creds \in [Operators -> Credentials]
          /\ accounts \in ByOperator /\ signable \in ByOperator
          /\ jwt \in ByOperator /\ flagged \in ByOperator
          /\ held \in ByOperator
          /\ run \in Run \cup {None}
          /\ changes \in Nat /\ faults \in Nat

At(place) == run # None /\ run.at = place
\* mutant: the names are swapped
withOther(f, o, a) == [f EXCEPT ![o] = @ \cup {o}]
with(f, o, a) == [f EXCEPT ![o] = @ \cup {a}]
without(f, o, a) == [f EXCEPT ![o] = @ \ {a}]

-----------------------------------------------------------------------------
(* The loop over the operators.                                            *)

PeriodicFunc ==
    /\ run = None
    /\ run' = [at |-> "operator", todo |-> operators, op |-> None,
               sync |-> FALSE, turn |-> {}, fix |-> {}, clean |-> TRUE]
    /\ UNCHANGED <<config, jwt, flagged, held, changes, faults>>

NextOperator ==
    /\ At("operator") /\ run.todo # {}
    /\ LET o == Min(run.todo) IN
       run' = IF o \notin operators THEN [run EXCEPT !.todo = @ \ {o}]
              ELSE [run EXCEPT !.at = "account", !.todo = @ \ {o}, !.op = o,
                               !.sync = o \in sync, !.turn = accounts[o]]
    /\ UNCHANGED <<config, jwt, flagged, held, changes, faults>>

Return ==
    /\ At("operator") /\ run.todo = {}
    /\ run' = None
    /\ UNCHANGED <<config, jwt, flagged, held, changes, faults>>

\* every turn repairs all accounts of the operator
NextAccount ==
    /\ At("account")
    /\ run' = IF run.turn = {} THEN [run EXCEPT !.at = "operator"]
              ELSE [run EXCEPT !.at = "repair", !.fix = accounts[run.op]]
    /\ UNCHANGED <<config, jwt, flagged, held, changes, faults>>

-----------------------------------------------------------------------------
(* refreshAccountResolver: nothing to do, an error, or a push that the     *)
(* server takes or not, which nobody is told.                              *)

Idling(o, a)    == \/ o \notin operators \cap sync \/ a \notin jwt'[o]
                   \/ creds[o] = "none"
Failing(o, a)   == ~Idling(o, a) /\ creds[o] = "bad"
Pushing(o, a)   == ~Idling(o, a) /\ creds[o] = "good"

-----------------------------------------------------------------------------
(* periodicRefreshAccountIssues.                                           *)

\* mutant: only the status is looked at
looksWhole(o, a) == a \in flagged[o]
whole(o, a) == a \in jwt[o] \cap flagged[o]

\* mutant: an error of the repair is returned
erring == None
\* an error of the repair is logged, but ends it for the accounts behind
logged == [run EXCEPT !.at = "sync", !.fix = {}]

RepairDone ==
    /\ At("repair") /\ run.fix = {}
    /\ run' = [run EXCEPT !.at = "sync"]
    /\ UNCHANGED <<config, jwt, flagged, held, changes, faults>>

\* refreshAccount: a new JWT, which the server cannot have yet, a push, and
\* the status, if there was no error
RepairAccount ==
    /\ At("repair") /\ run.fix # {}
    /\ LET o    == run.op
           a    == Min(run.fix)
           rest == [run EXCEPT !.fix = @ \ {a}]
       IN
       /\ a \in accounts[o]
       /\ \/ /\ whole(o, a)
             /\ run' = rest
             /\ UNCHANGED <<jwt, flagged, held>>
          \/ /\ ~whole(o, a) /\ a \notin signable[o]
             /\ run' = logged
             /\ UNCHANGED <<jwt, flagged, held>>
          \/ /\ ~whole(o, a) /\ a \in signable[o]
             /\ jwt' = with(jwt, o, a)
             /\ \/ /\ Failing(o, a)
                   /\ run' = logged
                   /\ held' = without(held, o, a)
                   /\ UNCHANGED flagged
                \/ /\ ~Failing(o, a)
                   /\ run' = rest
                   /\ flagged' = with(flagged, o, a)
                   /\ \/ held' = without(held, o, a)
                      \/ Pushing(o, a) /\ held' = with(held, o, a)
    /\ UNCHANGED <<config, changes, faults>>

\* an account that was deleted after the listing is dereferenced: the process
\* ends, and is started again
RepairVanished ==
    /\ At("repair") /\ run.fix # {}
    /\ Min(run.fix) \notin accounts[run.op]
    /\ run' = None
    /\ UNCHANGED <<config, jwt, flagged, held, changes, faults>>

-----------------------------------------------------------------------------
(* The push of one account, if the operator's issue asked for it.          *)

SyncAccount ==
    /\ At("sync")
    /\ LET o    == run.op
           a    == Min(run.turn)
           rest == [run EXCEPT !.at = "account", !.turn = @ \ {a}]
       IN
       /\ UNCHANGED jwt
       /\ \/ /\ ~run.sync \/ a \notin accounts[o] \/ Idling(o, a)
             /\ run' = rest
             /\ UNCHANGED held
          \/ /\ run.sync /\ a \in accounts[o] /\ Failing(o, a)
             /\ run' = None
             /\ UNCHANGED held
          \/ /\ run.sync /\ a \in accounts[o] /\ Pushing(o, a)
             /\ run' = rest
             /\ held' \in {held, with(held, o, a)}
    /\ UNCHANGED <<config, flagged, changes, faults>>

-----------------------------------------------------------------------------
(* Clients and storage.  What requests leave behind, whole or half-way, is *)
(* the business of NatsBackend.                                            *)

Disturbed == run' = IF run = None THEN None ELSE [run EXCEPT !.clean = FALSE]
Changing  == changes < MaxChanges /\ changes' = changes + 1 /\ Disturbed

ChangeOperator ==
    /\ Changing
    /\ \E o \in Operators :
          /\ operators' \in {operators \cup {o}, operators \ {o}}
          /\ sync' \in {sync \cup {o}, sync \ {o}}
          /\ creds' \in {[creds EXCEPT ![o] = c] : c \in Credentials}
    /\ UNCHANGED <<accounts, signable, jwt, flagged, held, faults>>

\* the account is made, or its claims changed, by a request that did not get
\* further than the issue
StoreAccount ==
    /\ Changing
    /\ \E o \in Operators, a \in Accounts :
          /\ accounts' = with(accounts, o, a)
          /\ signable' \in {with(signable, o, a), without(signable, o, a)}
          /\ flagged' = IF a \in accounts[o] THEN flagged
                        ELSE without(flagged, o, a)
    /\ UNCHANGED <<operators, sync, creds, jwt, held, faults>>

DeleteAccount ==
    /\ Changing
    /\ \E o \in Operators, a \in Accounts :
          /\ accounts' = without(accounts, o, a)
          /\ jwt' = without(jwt, o, a)
          /\ flagged' = without(flagged, o, a)
          /\ held' \in {held, without(held, o, a)}
    /\ UNCHANGED <<operators, sync, creds, signable, faults>>

\* the JWT or the nkey is deleted by its own path
DeleteJWT ==
    /\ Changing
    /\ \E o \in Operators, a \in Accounts :
          /\ jwt' = without(jwt, o, a)
          /\ held' = without(held, o, a)
    /\ UNCHANGED <<config, flagged, faults>>

\* a storage error: logged in the repair, returned elsewhere
StorageError ==
    /\ run # None /\ faults < MaxFaults
    /\ faults' = faults + 1
    /\ run' = IF run.at = "repair"
              THEN [run EXCEPT !.at = "sync", !.fix = {}, !.clean = FALSE]
              ELSE None
    /\ UNCHANGED <<config, jwt, flagged, held, changes>>

-----------------------------------------------------------------------------

\* operators and accounts as requests of which none was completed left them
Init == /\ operators = Operators /\ sync = Operators
        /\ creds \in [Operators -> Credentials]
        /\ accounts = [o \in Operators |-> Accounts]
        /\ signable \in ByOperator
        /\ jwt = [o \in Operators |-> {}]
        /\ flagged = [o \in Operators |-> {}]
        /\ held = [o \in Operators |-> {}]
        /\ run = None /\ changes = 0 /\ faults = 0

Running == \/ NextOperator \/ Return \/ NextAccount
           \/ RepairDone \/ RepairAccount \/ RepairVanished
           \/ SyncAccount
Next == \/ PeriodicFunc \/ Running
        \/ ChangeOperator \/ StoreAccount \/ DeleteAccount \/ DeleteJWT
        \/ StorageError
Spec == Init /\ [][Next]_vars

\* The rollback manager calls the function again and again, a call that runs
\* goes on, and the server takes a push now and then.
Taken(o, a) == (RepairAccount \/ SyncAccount) /\ a \in held'[o] \ held[o]
Fairness == /\ WF_vars(PeriodicFunc) /\ WF_vars(Running)
            /\ \A o \in Operators, a \in Accounts : SF_vars(Taken(o, a))
FairSpec == Spec /\ Fairness

-----------------------------------------------------------------------------

Healthy(o, a) == /\ o \in operators \cap sync /\ creds[o] = "good"
                 /\ a \in accounts[o] \cap signable[o]
\* nothing ends a loop before it comes to account a of operator o
Clear(o, a) == /\ \A p \in operators \cap sync : p < o => creds[p] # "bad"
               /\ \A b \in accounts[o] : b < a => b \in signable[o]

\* The function brings every healthy account into the account server's hands
\* whose way is clear, whatever happens to operators and accounts behind it,
\* and although accounts of other operators cannot be signed.
HealthyConverge ==
    \A o \in Operators, a \in Accounts :
        <>[](Healthy(o, a) /\ Clear(o, a))
            => <>[](a \in jwt[o] \cap flagged[o] \cap held[o])

\* One call that is not disturbed is enough for nkeys, JWTs and status.
OneRoundRepairs ==
    (At("operator") /\ run.todo = {} /\ run.clean) =>
        \A o \in operators : \A a \in accounts[o] :
            (\A b \in accounts[o] : b <= a => b \in signable[o])
                => a \in jwt[o] \cap flagged[o]

\* "If set to true, the plugin will push the generated credentials to the
\* configured account server.": an account that can be pushed is, whatever
\* the configuration of other operators.
EveryOperatorPushed ==
    \A o \in Operators, a \in Accounts :
        (/\ <>[]Healthy(o, a)
         /\ <>[](\A b \in accounts[o] : b \in signable[o]))
            => <>[](a \in held[o])
=============================================================================
