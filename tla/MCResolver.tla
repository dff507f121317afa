----------------------------- MODULE MCResolver -----------------------------
(* Instances of Resolver for TLC: the rollback manager and a client's      *)
(* requests, one server or two.                                            *)
EXTENDS Resolver

CONSTANTS east, west, manager, client

\* what the manager does, what the client does, at which servers
at(m, c, ss, js) ==
    [url |-> "nats", servers |-> ss, jwts |-> js, replies |-> {"ok", "error"},
     duties |-> [d \in Callers |-> IF d = manager THEN m ELSE c]]

\* what the one pushes the other deletes
DeletedWhilePushed == at({"push"}, {"delete"}, {east, west}, 1)
\* the same with a JWT that changes
ChangedAndDeleted  == at({"push"}, {"delete"}, {east}, 2)
\* both push a JWT that changes
PushedByBoth       == at({"push"}, {"push"}, {east}, 2)
\* two servers, one call at a time, and replies that end the process
OneAtATime ==
    [at({}, Kinds, {east, west}, 2) EXCEPT !.replies = {"ok", "noserver"}]
\* nobody can be reached
Nowhere == [ChangedAndDeleted EXCEPT !.url = "tls"]

AllSites == {DeletedWhilePushed, ChangedAndDeleted, PushedByBoth, OneAtATime,
             Nowhere}
Deletion == {DeletedWhilePushed}
TwoServers == {[OneAtATime EXCEPT !.replies = {"ok", "error"}]}
=============================================================================
