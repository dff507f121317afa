-------------------------- MODULE MCPeriodicRounds --------------------------
(* Instances of PeriodicRounds for TLC: two operators of two accounts.     *)
EXTENDS PeriodicRounds

Two      == {1, 2}
Accs     == {3, 4}

\* all accounts can be signed at first, or all but one of the first operator;
\* one operator at least can push
Signable == /\ Init
            /\ \E o \in Operators : creds[o] = "good"
            /\ \E a \in Accounts :
                  signable \in {accounts, without(accounts, Min(Operators), a)}
SignableSpec == Signable /\ [][Next]_vars /\ Fairness
=============================================================================
