---------------------------- MODULE RoundsProofs ----------------------------
(***************************************************************************)
(* PeriodicRounds is type-correct, and one call of periodicFunc that       *)
(* nothing disturbs repairs what can be repaired, for any number of        *)
(* operators and accounts and whatever state the call finds.               *)
(***************************************************************************)
EXTENDS PeriodicRounds, WellFoundedInduction, TLAPS

\* The name that comes first in a list.
LEMMA MinIsFirst ==
    ASSUME NEW S, S \subseteq Nat, S # {}
    PROVE  Min(S) \in S /\ \A x \in S : Min(S) <= x
<1>1. PICK x \in S : \A y \in S : ~(<<y, x>> \in OpToRel(<, Nat))
  BY NatLessThanWellFounded, WFMin
<1>2. \A y \in S : x <= y
  <2> SUFFICES ASSUME NEW y \in S PROVE x <= y
    OBVIOUS
  <2>1. x \in Nat /\ y \in Nat /\ <<y, x>> \in Nat \X Nat
    OBVIOUS
  <2>2. ~(y < x)
    BY <1>1, <2>1 DEF OpToRel
  <2> QED
    BY <2>1, <2>2, SMT
<1> QED
  BY <1>2 DEF Min

\* An account that is put on or taken from one operator's list.
LEMMA WithTyped ==
    ASSUME NEW f \in ByOperator, NEW o \in Operators, NEW a \in Accounts
    PROVE  /\ with(f, o, a) \in ByOperator /\ without(f, o, a) \in ByOperator
           /\ with(f, o, a)[o] = f[o] \cup {a}
           /\ without(f, o, a)[o] = f[o] \ {a}
           /\ \A p \in Operators : p # o => /\ with(f, o, a)[p] = f[p]
                                            /\ without(f, o, a)[p] = f[p]
BY DEF with, without, ByOperator

-----------------------------------------------------------------------------
(* Type correctness.                                                       *)

\* inside the loops over accounts there is an operator, and inside the turn
\* of an account there is one
Busy == run # None /\ run.at # "operator"
Placed == Busy => /\ run.op \in Operators
                  /\ run.at # "account" => run.turn # {}
Typed == TypeOK /\ Placed

LEMMA InitTyped == Init => Typed
<1> SUFFICES ASSUME Init PROVE Typed
  OBVIOUS
<1>1. 0 \in Nat
  OBVIOUS
<1>2. accounts \in ByOperator /\ jwt \in ByOperator /\ flagged \in ByOperator
      /\ held \in ByOperator
  BY DEF Init, ByOperator
<1> QED
  BY <1>1, <1>2 DEF Init, Typed, TypeOK, Placed, Busy

\* The loop over the operators.
LEMMA LoopTyped ==
    ASSUME Typed, PeriodicFunc \/ NextOperator \/ Return \/ NextAccount
    PROVE  Typed'
<1> USE RoundsAssumption DEF Typed, Placed, Busy, config
<1>1. CASE PeriodicFunc
  BY <1>1 DEF PeriodicFunc, TypeOK, Run
<1>2. CASE NextOperator
  <2>1. run \in Run /\ run # None /\ run.todo \subseteq Operators /\ run.todo # {}
    BY <1>2 DEF NextOperator, At, TypeOK, Run
  <2>2. Min(run.todo) \in Operators
    BY <2>1, MinIsFirst
  <2>3. accounts[Min(run.todo)] \subseteq Accounts
    BY <2>2 DEF TypeOK, ByOperator
  <2>4. /\ run' \in Run
        /\ run'.at # "operator" => run'.at = "account" /\ run'.op \in Operators
    <3>1. CASE Min(run.todo) \notin operators
      <4>1. run' = [run EXCEPT !.todo = @ \ {Min(run.todo)}]
        BY <1>2, <3>1 DEF NextOperator
      <4>2. run.at = "operator"
        BY <1>2 DEF NextOperator, At
      <4> QED
        BY <4>1, <4>2, <2>1 DEF Run
    <3>2. CASE Min(run.todo) \in operators
      <4>1. run' = [run EXCEPT !.at = "account",
                               !.todo = @ \ {Min(run.todo)},
                               !.op = Min(run.todo),
                               !.sync = Min(run.todo) \in sync,
                               !.turn = accounts[Min(run.todo)]]
        BY <1>2, <3>2 DEF NextOperator
      <4>2. (Min(run.todo) \in sync) \in BOOLEAN
        OBVIOUS
      <4> QED
        BY <4>1, <4>2, <2>1, <2>2, <2>3 DEF Run
    <3> QED
      BY <3>1, <3>2
  <2> QED
    BY <1>2, <2>4 DEF NextOperator, TypeOK
<1>3. CASE Return
  BY <1>3 DEF Return, TypeOK
<1>4. CASE NextAccount
  <2>1. run \in Run /\ run # None /\ run.at = "account" /\ run.op \in Operators
    BY <1>4 DEF NextAccount, At, TypeOK
  <2>2. accounts[run.op] \subseteq Accounts
    BY <2>1 DEF TypeOK, ByOperator
  <2>3. /\ run' \in Run /\ run'.op \in Operators
        /\ run'.at # "operator" => run'.turn # {}
    BY <1>4, <2>1, <2>2 DEF NextAccount, Run
  <2> QED
    BY <1>4, <2>3 DEF NextAccount, TypeOK
<1> QED
  BY <1>1, <1>2, <1>3, <1>4

\* The turn of an account.
LEMMA TurnTyped ==
    ASSUME Typed, RepairDone \/ RepairAccount \/ RepairVanished \/ SyncAccount
    PROVE  Typed'
<1> USE RoundsAssumption DEF Typed, Placed, Busy, config
<1>0. CASE RepairVanished
  BY <1>0 DEF RepairVanished, TypeOK
<1>1. /\ run.at \in {"repair", "sync"} /\ run # None
      /\ run \in Run \/ RepairVanished
  BY DEF RepairDone, RepairAccount, RepairVanished, SyncAccount, At, TypeOK
<1>2. run.op \in Operators /\ run.turn # {}
  BY <1>1
<1>3. CASE RepairDone
  <2>1. run' \in Run /\ run'.op = run.op /\ run'.turn = run.turn
    BY <1>1, <1>2, <1>3 DEF RepairDone, Run, At, TypeOK
  <2> QED
    BY <1>2, <1>3, <2>1 DEF RepairDone, TypeOK
<1>4. CASE RepairAccount
  <2> DEFINE o == run.op
             a == Min(run.fix)
  <2>1. run \in Run /\ a \in accounts[o] /\ o \in Operators
    BY <1>1, <1>2, <1>4 DEF RepairAccount, At, TypeOK
  <2>2. a \in Accounts
    BY <2>1 DEF TypeOK, ByOperator
  <2>3. /\ run' \in {[run EXCEPT !.fix = @ \ {a}], logged}
        /\ jwt' \in {jwt, with(jwt, o, a)}
        /\ flagged' \in {flagged, with(flagged, o, a)}
        /\ held' \in {held, with(held, o, a), without(held, o, a)}
        /\ UNCHANGED <<config, changes, faults>>
    BY <1>4 DEF RepairAccount
  <2>4. /\ run' \in Run /\ run'.op = run.op /\ run'.turn = run.turn
    BY <2>1, <2>3 DEF logged, Run
  <2>5. jwt' \in ByOperator /\ flagged' \in ByOperator /\ held' \in ByOperator
    BY <2>1, <2>2, <2>3, WithTyped DEF TypeOK
  <2> QED
    BY <1>2, <2>3, <2>4, <2>5 DEF TypeOK
<1>5. CASE SyncAccount
  <2> DEFINE o == run.op
             a == Min(run.turn)
  <2>1. run \in Run /\ run.turn \subseteq Accounts /\ run.turn # {}
    BY <1>1, <1>2, <1>5 DEF SyncAccount, At, TypeOK, Run
  <2>2. a \in Accounts
    BY <2>1, MinIsFirst
  <2>3. /\ run' \in {None, [run EXCEPT !.at = "account", !.turn = @ \ {a}]}
        /\ held' \in {held, with(held, o, a)}
        /\ UNCHANGED <<config, jwt, flagged, changes, faults>>
    BY <1>5 DEF SyncAccount
  <2>4. /\ run' \in Run \cup {None}
        /\ run' # None => run'.at = "account" /\ run'.op = run.op
    <3>1. run.turn \ {a} \subseteq Accounts
      BY <2>1
    <3>2. [run EXCEPT !.at = "account", !.turn = @ \ {a}] \in Run
      BY <2>1, <3>1 DEF Run
    <3> HIDE DEF a
    <3> QED
      BY <2>1, <2>3, <3>2 DEF Run
  <2>5. held' \in ByOperator
    BY <1>2, <2>2, <2>3, WithTyped DEF TypeOK
  <2> QED
    BY <1>2, <2>3, <2>4, <2>5 DEF TypeOK
<1> QED
  BY <1>0, <1>3, <1>4, <1>5

\* A change finds the call running, and marks it.
LEMMA DisturbedTyped ==
    ASSUME Typed, Changing
    PROVE  /\ run' \in Run \cup {None}
           /\ Placed'
           /\ changes' \in Nat
           /\ run' # None => ~run'.clean
<1>1. changes \in Nat /\ run \in Run \cup {None}
  BY DEF Typed, TypeOK
<1>2. changes' \in Nat
  BY <1>1 DEF Changing
<1>3. CASE run = None
  BY <1>2, <1>3 DEF Changing, Disturbed, Placed, Busy
<1>4. CASE run # None
  <2>1. run' = [run EXCEPT !.clean = FALSE]
    BY <1>4 DEF Changing, Disturbed
  <2>2. /\ run' \in Run /\ run'.at = run.at /\ run'.op = run.op
        /\ run'.turn = run.turn /\ ~run'.clean
    BY <1>1, <1>4, <2>1 DEF Run
  <2> QED
    BY <1>2, <1>4, <2>2 DEF Typed, Placed, Busy
<1> QED
  BY <1>3, <1>4

\* What clients and storage do.
LEMMA ChangeTyped ==
    ASSUME Typed,
           ChangeOperator \/ StoreAccount \/ DeleteAccount \/ DeleteJWT
           \/ StorageError
    PROVE  Typed'
<1>1. CASE ChangeOperator
  <2>1. Changing
    BY <1>1 DEF ChangeOperator
  <2>2. operators' \in SUBSET Operators /\ sync' \in SUBSET Operators
        /\ creds' \in [Operators -> Credentials]
    BY <1>1 DEF ChangeOperator, Typed, TypeOK
  <2> QED
    BY <1>1, <2>1, <2>2, DisturbedTyped DEF ChangeOperator, Typed, TypeOK
<1>2. CASE StoreAccount
  <2>1. Changing
    BY <1>2 DEF StoreAccount
  <2>2. /\ accounts' \in ByOperator /\ signable' \in ByOperator
        /\ flagged' \in ByOperator
    BY <1>2, WithTyped DEF StoreAccount, Typed, TypeOK
  <2> QED
    BY <1>2, <2>1, <2>2, DisturbedTyped DEF StoreAccount, Typed, TypeOK
<1>3. CASE DeleteAccount
  <2>1. Changing
    BY <1>3 DEF DeleteAccount
  <2>2. /\ accounts' \in ByOperator /\ jwt' \in ByOperator
        /\ flagged' \in ByOperator /\ held' \in ByOperator
    BY <1>3, WithTyped DEF DeleteAccount, Typed, TypeOK
  <2> QED
    BY <1>3, <2>1, <2>2, DisturbedTyped DEF DeleteAccount, Typed, TypeOK
<1>4. CASE DeleteJWT
  <2>1. Changing
    BY <1>4 DEF DeleteJWT
  <2>2. jwt' \in ByOperator /\ held' \in ByOperator
    BY <1>4, WithTyped DEF DeleteJWT, Typed, TypeOK
  <2> QED
    BY <1>4, <2>1, <2>2, DisturbedTyped DEF DeleteJWT, Typed, TypeOK, config
<1>5. CASE StorageError
  <2>1. run \in Run /\ run # None /\ faults' \in Nat
    BY <1>5 DEF StorageError, Typed, TypeOK
  <2>2. run' \in Run \cup {None} /\ Placed'
    BY <1>5, <2>1 DEF StorageError, Typed, Placed, Busy, Run
  <2> QED
    BY <1>5, <2>1, <2>2 DEF StorageError, Typed, TypeOK, config
<1> QED
  BY <1>1, <1>2, <1>3, <1>4, <1>5

LEMMA NextTyped == Typed /\ [Next]_vars => Typed'
<1> SUFFICES ASSUME Typed, [Next]_vars PROVE Typed'
  OBVIOUS
<1>1. CASE UNCHANGED vars
  BY <1>1 DEF vars, config, Typed, TypeOK, Placed, Busy
<1> QED
  BY <1>1, LoopTyped, TurnTyped, ChangeTyped DEF Next, Running

THEOREM RoundsTyped == Spec => []Typed
BY InitTyped, NextTyped, PTL DEF Spec

\* TypeOK, for every set of operators and accounts.
THEOREM RoundsTypeCorrect == Spec => []TypeOK
<1>1. Typed => TypeOK
  BY DEF Typed
<1> QED
  BY <1>1, RoundsTyped, PTL

-----------------------------------------------------------------------------
(* One undisturbed call.                                                   *)

\* the accounts of an operator that can be repaired before one that cannot
\* ends the repair are whole
Repaired(o) ==
    \A a \in accounts[o] :
        (\A b \in accounts[o] : b <= a => b \in signable[o])
            => a \in jwt[o] \cap flagged[o]

\* the push of this account will end the call
Doomed(o) == /\ run.sync /\ o \in operators \cap sync /\ creds[o] = "bad"
             /\ run.turn = accounts[o] /\ Min(run.turn) \in jwt[o]

\* Inside the loop over the accounts of an operator: its first turn has yet
\* to come or to end, or the operator is done.
InTurn(o) ==
    /\ o \in operators
    /\ run.sync = (o \in sync)
    /\ run.turn \subseteq accounts[o]
    /\ run.turn = accounts[o] \/ Repaired(o)
    /\ run.at = "repair" => \A a \in accounts[o] :
                                a \in run.fix \cup (jwt[o] \cap flagged[o])
    /\ run.at = "sync" => Repaired(o) \/ Doomed(o)

\* The operators that the call has passed are done.
Progress ==
    (run # None /\ run.clean) =>
        /\ \A o \in operators \ run.todo :
               Repaired(o) \/ (Busy /\ o = run.op)
        /\ Busy => InTurn(run.op)

LEMMA InitProgress == Init => Progress
BY DEF Init, Progress

\* The loop over the operators.
LEMMA LoopProgress ==
    ASSUME Typed, Progress,
           PeriodicFunc \/ NextOperator \/ Return \/ NextAccount
    PROVE  Progress'
<1>1. UNCHANGED <<config, jwt, flagged>>
  BY DEF PeriodicFunc, NextOperator, Return, NextAccount
<1>2. \A o : Repaired(o)' = Repaired(o)
  BY <1>1 DEF Repaired, config
<1>3. run \in Run \cup {None}
  BY DEF Typed, TypeOK
<1>4. CASE PeriodicFunc
  BY <1>1, <1>4 DEF PeriodicFunc, Progress, Busy, config
<1>5. CASE NextOperator
  <2> DEFINE o == Min(run.todo)
  <2>1. run \in Run /\ run # None /\ run.at = "operator"
    BY <1>3, <1>5 DEF NextOperator, At
  <2> SUFFICES ASSUME run'.clean, run' # None PROVE Progress'
    BY DEF Progress
  <2>2. CASE o \notin operators
    <3>1. run' = [run EXCEPT !.todo = @ \ {o}]
      BY <1>5, <2>2 DEF NextOperator
    <3>2. run'.at = "operator" /\ run'.todo = run.todo \ {o} /\ run.clean
      BY <2>1, <3>1 DEF Run
    <3> QED
      BY <1>1, <1>2, <2>1, <2>2, <3>2 DEF Progress, Busy, config
  <2>3. CASE o \in operators
    <3>1. run' = [run EXCEPT !.at = "account", !.todo = @ \ {o}, !.op = o,
                             !.sync = o \in sync, !.turn = accounts[o]]
      BY <1>5, <2>3 DEF NextOperator
    <3>2. /\ run'.at = "account" /\ run'.todo = run.todo \ {o}
          /\ run'.op = o /\ run'.sync = (o \in sync)
          /\ run'.turn = accounts[o] /\ run.clean
      BY <2>1, <3>1 DEF Run
    <3>3. InTurn(run.op)'
      BY <1>1, <2>3, <3>2 DEF InTurn, config
    <3>4. \A p \in operators \ run.todo : Repaired(p)
      BY <2>1, <3>2 DEF Progress, Busy
    <3> QED
      BY <1>1, <1>2, <3>2, <3>3, <3>4 DEF Progress, Busy, config
  <2> QED
    BY <2>2, <2>3
<1>6. CASE Return
  BY <1>6 DEF Return, Progress
<1>7. CASE NextAccount
  <2> DEFINE o == run.op
  <2>1. run \in Run /\ run # None /\ run.at = "account"
    BY <1>3, <1>7 DEF NextAccount, At
  <2> SUFFICES ASSUME run'.clean, run' # None PROVE Progress'
    BY DEF Progress
  <2>2. CASE run.turn = {}
    <3>1. /\ run'.at = "operator" /\ run'.todo = run.todo /\ run'.op = o
          /\ run.clean
      BY <1>7, <2>1, <2>2 DEF NextAccount, Run
    <3>2. InTurn(o)
      BY <2>1, <3>1 DEF Progress, Busy
    <3>3. Repaired(o)
      BY <2>2, <3>2 DEF InTurn, Repaired
    <3> QED
      BY <1>1, <1>2, <2>1, <3>1, <3>3 DEF Progress, Busy, config
  <2>3. CASE run.turn # {}
    <3>1. /\ run'.at = "repair" /\ run'.todo = run.todo /\ run'.op = o
          /\ run'.fix = accounts[o] /\ run'.turn = run.turn
          /\ run'.sync = run.sync /\ run.clean
      BY <1>7, <2>1, <2>3 DEF NextAccount, Run
    <3>2. InTurn(o)
      BY <2>1, <3>1 DEF Progress, Busy
    <3>3. InTurn(o)'
      BY <1>1, <1>2, <3>1, <3>2 DEF InTurn, config
    <3> QED
      BY <1>1, <1>2, <2>1, <3>1, <3>3 DEF Progress, Busy, config
  <2> QED
    BY <2>2, <2>3
<1> QED
  BY <1>4, <1>5, <1>6, <1>7

\* A repair that comes to its end has seen to all accounts.
LEMMA RepairDoneProgress ==
    ASSUME Typed, Progress, RepairDone
    PROVE  Progress'
<1> DEFINE o == run.op
<1>1. UNCHANGED <<config, jwt, flagged>>
  BY DEF RepairDone
<1>2. \A p : Repaired(p)' = Repaired(p)
  BY <1>1 DEF Repaired, config
<1>3. run \in Run /\ run # None /\ run.at = "repair" /\ run.fix = {}
  BY DEF RepairDone, At, Typed, TypeOK
<1> SUFFICES ASSUME run'.clean, run' # None PROVE Progress'
  BY DEF Progress
<1>4. /\ run'.at = "sync" /\ run'.todo = run.todo /\ run'.op = o
      /\ run'.turn = run.turn /\ run'.sync = run.sync /\ run.clean
  BY <1>3 DEF RepairDone, Run
<1>5. InTurn(o)
  BY <1>3, <1>4 DEF Progress, Busy
<1>6. Repaired(o)
  BY <1>3, <1>5 DEF InTurn, Repaired
<1>7. InTurn(o)'
  BY <1>1, <1>2, <1>4, <1>5, <1>6 DEF InTurn, config
<1> QED
  BY <1>1, <1>2, <1>3, <1>4, <1>7 DEF Progress, Busy, config

\* Repairing one account makes it whole, or finds that it and those behind it
\* cannot be, or that the push of the first account will fail as its own did.
LEMMA RepairAccountProgress ==
    ASSUME Typed, Progress, RepairAccount
    PROVE  Progress'
<1> DEFINE o == run.op
           a == Min(run.fix)
           rest == [run EXCEPT !.fix = @ \ {a}]
<1>1. run \in Run /\ run # None /\ run.at = "repair" /\ run.fix # {}
      /\ run.fix \subseteq Accounts
  BY DEF RepairAccount, At, Typed, TypeOK, Run
<1>2. o \in Operators /\ run.turn # {} /\ Accounts \subseteq Nat
  BY <1>1, RoundsAssumption DEF Typed, Placed, Busy
<1>3. a \in run.fix /\ \A b \in run.fix : a <= b
  BY <1>1, <1>2, MinIsFirst
<1>4. a \in accounts[o] /\ accounts[o] \subseteq Accounts
  BY <1>2 DEF RepairAccount, Typed, TypeOK, ByOperator
<1>5. UNCHANGED config
  BY DEF RepairAccount
<1> SUFFICES ASSUME run'.clean, run' # None PROVE Progress'
  BY DEF Progress
<1>6. run' \in {rest, logged}
  BY DEF RepairAccount
<1>7. /\ run'.todo = run.todo /\ run'.op = o /\ run'.sync = run.sync
      /\ run'.turn = run.turn /\ run.clean
      /\ run' = rest => run'.at = "repair" /\ run'.fix = run.fix \ {a}
      /\ run' = logged => run'.at = "sync"
  BY <1>1, <1>6 DEF logged, Run
<1>8. InTurn(o)
  BY <1>1, <1>7 DEF Progress, Busy
<1>9. \A p \in Operators : jwt[p] \subseteq jwt'[p] /\ flagged[p] \subseteq flagged'[p]
  <2>1. jwt' \in {jwt, with(jwt, o, a)} /\ flagged' \in {flagged, with(flagged, o, a)}
    BY DEF RepairAccount
  <2>2. jwt \in ByOperator /\ flagged \in ByOperator /\ a \in Accounts
    BY <1>4 DEF Typed, TypeOK
  <2>3. \A p \in Operators : with(jwt, o, a)[p] \in {jwt[p], jwt[p] \cup {a}}
    BY <1>2, <2>2, WithTyped
  <2>4. \A p \in Operators : with(flagged, o, a)[p] \in {flagged[p], flagged[p] \cup {a}}
    BY <1>2, <2>2, WithTyped
  <2> QED
    BY <2>1, <2>3, <2>4
<1>10. \A p \in Operators : Repaired(p) => Repaired(p)'
  BY <1>5, <1>9 DEF Repaired, config
<1>11. operators \subseteq Operators
  BY DEF Typed, TypeOK
<1>12. SUFFICES InTurn(o)'
  BY <1>1, <1>5, <1>6, <1>7, <1>10, <1>11 DEF Progress, Busy, config, logged
<1>13. /\ (o \in operators)' /\ run'.sync = (o \in sync')
       /\ run'.turn \subseteq accounts'[o]
       /\ run'.turn = accounts'[o] \/ Repaired(o)'
  BY <1>2, <1>5, <1>7, <1>8, <1>10 DEF InTurn, config
<1>14. \A b \in accounts[o] : b \in run.fix \cup (jwt[o] \cap flagged[o])
  BY <1>1, <1>8 DEF InTurn
<1>15. CASE whole(o, a) /\ run' = rest
  <2>1. UNCHANGED <<jwt, flagged>>
    BY <1>15 DEF RepairAccount
  <2>2. \A b \in accounts[o] : b \in run'.fix \cup (jwt'[o] \cap flagged'[o])
    BY <1>7, <1>14, <1>15, <2>1 DEF whole
  <2> QED
    BY <1>5, <1>7, <1>13, <1>15, <2>2 DEF InTurn, config
<1>16. CASE ~whole(o, a) /\ a \notin signable[o] /\ run' = logged
  <2>1. Repaired(o)
    <3> SUFFICES ASSUME NEW b \in accounts[o],
                        \A c \in accounts[o] : c <= b => c \in signable[o]
                 PROVE  b \in jwt[o] \cap flagged[o]
      BY DEF Repaired
    <3>1. ~(a <= b)
      BY <1>4, <1>16
    <3> QED
      BY <1>3, <1>14, <3>1
  <2>2. Repaired(o)'
    BY <1>2, <1>7, <1>10, <2>1
  <2> QED
    BY <1>7, <1>13, <1>16, <2>2 DEF InTurn
<1>17. CASE jwt' = with(jwt, o, a) /\ Failing(o, a) /\ run' = logged
  <2>1. o \in operators \cap sync /\ creds[o] = "bad" /\ a \in jwt'[o]
    BY <1>17 DEF Failing, Idling
  <2>2. CASE Repaired(o)
    BY <1>2, <1>7, <1>10, <1>13, <1>17, <2>2 DEF InTurn
  <2>3. CASE run.turn = accounts[o]
    <3>1. /\ Min(run.turn) \in run.turn
          /\ \A b \in run.turn : Min(run.turn) <= b
      BY <1>2, <1>4, <2>3, MinIsFirst
    <3>2. Min(run.turn) \in jwt'[o]
      <4>1. CASE Min(run.turn) \in run.fix
        <5>1. a <= Min(run.turn) /\ Min(run.turn) <= a
          BY <1>3, <1>4, <2>3, <3>1, <4>1
        <5>2. a \in Nat /\ Min(run.turn) \in Nat
          BY <1>1, <1>2, <1>3, <4>1
        <5>3. a = Min(run.turn)
          BY <5>1, <5>2, SMT
        <5> QED
          BY <2>1, <5>3
      <4>2. CASE Min(run.turn) \notin run.fix
        BY <1>2, <1>9, <1>14, <2>3, <3>1, <4>2
      <4> QED
        BY <4>1, <4>2
    <3>3. run.sync
      BY <1>8, <2>1 DEF InTurn
    <3>4. Doomed(o)'
      BY <1>5, <1>7, <2>1, <2>3, <3>2, <3>3 DEF Doomed, config
    <3> QED
      BY <1>7, <1>13, <1>17, <3>4 DEF InTurn
  <2> QED
    BY <1>8, <2>2, <2>3 DEF InTurn
<1>18. CASE jwt' = with(jwt, o, a) /\ run' = rest /\ flagged' = with(flagged, o, a)
  <2>1. a \in jwt'[o] \cap flagged'[o]
    BY <1>2, <1>4, <1>18, WithTyped DEF Typed, TypeOK
  <2>2. \A b \in accounts[o] : b \in run'.fix \cup (jwt'[o] \cap flagged'[o])
    BY <1>2, <1>7, <1>9, <1>14, <1>18, <2>1
  <2> QED
    BY <1>5, <1>7, <1>13, <1>18, <2>2 DEF InTurn, config
<1> QED
  BY <1>15, <1>16, <1>17, <1>18 DEF RepairAccount

\* The push of an account changes nothing of this, or ends the call.
LEMMA SyncAccountProgress ==
    ASSUME Typed, Progress, SyncAccount
    PROVE  Progress'
<1> DEFINE o == run.op
           a == Min(run.turn)
           rest == [run EXCEPT !.at = "account", !.turn = @ \ {a}]
<1>1. UNCHANGED <<config, jwt, flagged>>
  BY DEF SyncAccount
<1>2. \A p : Repaired(p)' = Repaired(p)
  BY <1>1 DEF Repaired, config
<1>3. run \in Run /\ run # None /\ run.at = "sync"
  BY DEF SyncAccount, At, Typed, TypeOK
<1>4. CASE run' = rest /\ ~(run.sync /\ a \in accounts[o] /\ Failing(o, a))
  <2> SUFFICES ASSUME run'.clean, run' # None PROVE Progress'
    BY DEF Progress
  <2>1. /\ run'.at = "account" /\ run'.todo = run.todo /\ run'.op = o
        /\ run'.turn = run.turn \ {a} /\ run'.sync = run.sync /\ run.clean
    BY <1>3, <1>4 DEF Run
  <2>2. InTurn(o)
    BY <1>3, <2>1 DEF Progress, Busy
  <2>3. o \in Operators /\ run.turn # {} /\ run.turn \subseteq Nat
    BY <1>3, RoundsAssumption DEF Typed, Placed, Busy, Run
  <2>4. ~Doomed(o)
    <3> SUFFICES ASSUME Doomed(o) PROVE FALSE
      OBVIOUS
    <3>1. a \in accounts[o]
      BY <2>3, MinIsFirst DEF Doomed
    <3>2. Failing(o, a)
      BY <1>1 DEF Doomed, Failing, Idling
    <3> QED
      BY <1>4, <3>1, <3>2 DEF Doomed
  <2>5. Repaired(o)
    BY <1>3, <2>2, <2>4 DEF InTurn
  <2>6. InTurn(o)'
    BY <1>1, <1>2, <2>1, <2>2, <2>5 DEF InTurn, config
  <2> QED
    BY <1>1, <1>2, <1>3, <2>1, <2>6 DEF Progress, Busy, config
<1>5. CASE run' = None
  BY <1>5 DEF Progress
<1> QED
  BY <1>4, <1>5 DEF SyncAccount, Failing, Pushing

\* A change or a failure disturbs the call, or ends it.
LEMMA ChangeProgress ==
    ASSUME Typed,
           RepairVanished \/ ChangeOperator \/ StoreAccount \/ DeleteAccount
           \/ DeleteJWT \/ StorageError
    PROVE  Progress'
<1>1. CASE RepairVanished
  BY <1>1 DEF RepairVanished, Progress
<1>2. CASE ChangeOperator \/ StoreAccount \/ DeleteAccount \/ DeleteJWT
  <2>1. Changing
    BY <1>2 DEF ChangeOperator, StoreAccount, DeleteAccount, DeleteJWT
  <2> QED
    BY <2>1, DisturbedTyped DEF Progress
<1>3. CASE StorageError
  <2>1. run \in Run /\ run # None
    BY <1>3 DEF StorageError, Typed, TypeOK
  <2> QED
    BY <1>3, <2>1 DEF StorageError, Progress, Run
<1> QED
  BY <1>1, <1>2, <1>3

LEMMA NextProgress == Typed /\ Progress /\ [Next]_vars => Progress'
<1> SUFFICES ASSUME Typed, Progress, [Next]_vars PROVE Progress'
  OBVIOUS
<1>1. CASE UNCHANGED vars
  <2>1. \A o : Repaired(o)' = Repaired(o)
    BY <1>1 DEF vars, config, Repaired
  <2>2. \A o : InTurn(o)' = InTurn(o)
    BY <1>1, <2>1 DEF vars, config, InTurn, Doomed
  <2> QED
    BY <1>1, <2>1, <2>2 DEF vars, config, Progress, Busy
<1> QED
  BY <1>1, LoopProgress, RepairDoneProgress, RepairAccountProgress,
     SyncAccountProgress, ChangeProgress
  DEF Next, Running

\* OneRoundRepairs, for every set of operators and accounts and every mixture
\* of credentials: a call of periodicFunc that ends with nothing changed and
\* nothing failed meanwhile leaves every account whole that no account before
\* it, of the same operator, keeps from being repaired.
THEOREM RoundRepairs == Spec => []OneRoundRepairs
<1>1. Progress => OneRoundRepairs
  BY DEF Progress, OneRoundRepairs, At, Busy, Repaired
<1> QED
  BY <1>1, InitProgress, NextProgress, RoundsTyped, PTL DEF Spec

=============================================================================
