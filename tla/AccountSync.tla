---------------------------- MODULE AccountSync ----------------------------
(***************************************************************************)
(* What synchronising one account with the NATS account servers promises   *)
(* the backend: the abstract specification that Resolver implements.       *)
(*                                                                         *)
(* Handlers overlap.  Each works with its own copy of the account issue    *)
(* and with the JWT it has read, and offers this JWT, or the account's     *)
(* deletion, to the servers.  A server may take an offer late, after the   *)
(* call has ended, or never, so older offers can win over newer ones.      *)
(* What is certain: only what was in storage when a call began is offered; *)
(* Synced is set only by a push whose JWT some server took while it        *)
(* lasted; the issue goes only with a deletion, whatever servers answer.   *)
(***************************************************************************)
EXTENDS Naturals

CONSTANTS Callers,      \* goroutines
          Servers,      \* the account servers
          Versions,     \* the JWTs of the account by number, and 0 for none
          None

VARIABLES version,      \* the JWT in storage
          synced,       \* Status.AccountServer.Synced of the account issue,
                        \* None where there is no issue
          held,         \* held[s]: the JWT server s holds, 0 for none
          offers,       \* what servers may still take; 0 for a deletion
          calling       \* calling[c]: the call c is in, or None

syncVars == <<version, synced, held, offers, calling>>

Init == /\ version = 1 /\ synced = FALSE
        /\ held = [s \in Servers |-> 0]
        /\ offers = {} /\ calling = [c \in Callers |-> None]

\* handlers store and delete the account's JWT at any time
Write == /\ version' \in Versions
         /\ UNCHANGED <<synced, held, offers, calling>>

\* A handler reads the issue and the JWT, if there is one.
\* copy: Synced as a push has read it; what: the JWT to push, or 0 to delete;
\* confirmed: has a server said that it took that?
Begin(c, kind) ==
    /\ calling[c] = None /\ synced # None
    /\ calling' = [calling EXCEPT ![c] =
          [kind |-> kind, copy |-> kind = "push" /\ synced,
           what |-> IF version = 0 THEN None
                    ELSE IF kind = "push" THEN version ELSE 0,
           confirmed |-> FALSE]]
    /\ UNCHANGED <<version, synced, held, offers>>

Offer(c) ==
    /\ calling[c] # None /\ calling[c].what # None
    /\ offers' = offers \cup {calling[c].what}
    /\ UNCHANGED <<version, synced, held, calling>>

\* a server takes an offer, of a call that lasts or of one that is over, and
\* may confirm that to a call that made it
Take(s) ==
    \E v \in offers :
        /\ held' = [held EXCEPT ![s] = v]
        /\ offers' \in {offers, offers \ {v}}
        /\ \/ calling' = calling
           \/ \E c \in Callers :
                 /\ calling[c] # None /\ calling[c].what = v
                 /\ calling' = [calling EXCEPT ![c].confirmed = TRUE]
        /\ UNCHANGED <<version, synced>>

\* servers take an offer no more
Lose == \E v \in offers : /\ offers' = offers \ {v}
                          /\ UNCHANGED <<version, synced, held, calling>>

\* a confirmation is not read in time
Miss(c) == /\ calling[c] # None
           /\ calling' = [calling EXCEPT ![c].confirmed = FALSE]
           /\ UNCHANGED <<version, synced, held, offers>>

Ends(c) == calling' = [calling EXCEPT ![c] = None]

\* the copy of the issue is stored
EndPush(c) ==
    /\ calling[c] # None /\ calling[c].kind = "push"
    /\ synced' = (calling[c].copy \/ calling[c].confirmed)
    /\ Ends(c)
    /\ UNCHANGED <<version, held, offers>>

EndDelete(c) ==
    /\ calling[c] # None /\ calling[c].kind = "delete"
    /\ synced' = None
    /\ Ends(c)
    /\ UNCHANGED <<version, held, offers>>

\* an error, or the plugin process ends
Abandon == /\ \/ \E c \in Callers : Ends(c)
              \/ calling' = [c \in Callers |-> None]
           /\ UNCHANGED <<version, synced, held, offers>>

Next == \/ Write \/ Lose \/ Abandon
        \/ \E c \in Callers :
              \/ Begin(c, "push") \/ Begin(c, "delete")
              \/ Offer(c) \/ Miss(c) \/ EndPush(c) \/ EndDelete(c)
        \/ \E s \in Servers : Take(s)

Spec == Init /\ [][Next]_syncVars
=============================================================================
