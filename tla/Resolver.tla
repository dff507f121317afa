------------------------------ MODULE Resolver ------------------------------
(***************************************************************************)
(* pkg/resolver: one account is pushed to, and in the end deleted from,    *)
(* the NATS account servers by requests whose replies multiRequest counts  *)
(* until a deadline.                                                       *)
(*                                                                         *)
(* AccountServer takes such a request for one step with a handful of       *)
(* outcomes; here it is the exchange of messages it is, with any number of *)
(* servers that answer, refuse, answer nonsense, keep silent, or act on a  *)
(* request after the plugin has long moved on.  Handlers and the periodic  *)
(* function take no lock: while one of them waits for replies, others push *)
(* the account, delete it, or replace its JWT.                             *)
(***************************************************************************)
EXTENDS Naturals, Sequences, FiniteSets

CONSTANTS Callers,      \* goroutines that look after the account
          Servers,      \* the account servers
          Sites,        \* where it may take place, see site
          Inboxes,      \* bound: the reply subjects nats.NewInbox makes up
          MaxVersion,   \* bound: how many JWTs the account ever has
          None

\* data; an error; not JSON; no name of the server; no data; no server object
AllReplies == {"ok", "error", "garbage", "nameless", "empty", "noserver"}

ASSUME ResolverAssumption ==
    /\ IsFiniteSet(Servers)
    /\ MaxVersion \in Nat \ {0}
    /\ \A s \in Sites : /\ s.servers \subseteq Servers
                         /\ s.replies \subseteq AllReplies
                         /\ s.jwts \in 0..MaxVersion

VARIABLES site,         \* where it takes place; stays the same.  url: scheme of
                        \* the operator's AccountServerURL; servers: those
                        \* there; replies: what they may reply; duties[c]:
                        \* what c does; jwts: bound, how many the account has
          version,      \* the account's JWT in storage, 0 for none
          latest,       \* how many JWTs the account has had
          synced,       \* Status.AccountServer.Synced of the account issue,
                        \* None where there is no issue
          call,         \* call[c]: what c is doing for the account, or None
          requests,     \* requests no server has dealt with
          held          \* held[s]: the JWT server s holds, 0 for none

storage == <<site, version, latest, synced>>
vars    == <<storage, call, requests, held>>

\* a JWT that is pushed, or 0 for a deletion
Versions == 0..MaxVersion
Kinds    == {"push", "delete"}
\* what a call does next; a deletion erases JWT and issue when it is "done"
Places   == {"connect", "wait", "done", "issue"}

Request == [to : Servers, what : Versions, inbox : Inboxes]
\* copy: Synced in the issue a push has read and will store; got: responses;
\* left: what the inbox holds; clean: history, is this a deletion that was
\* published with nothing else under way, and has nobody published since?
Calling == [kind : Kinds, at : Places, copy : BOOLEAN,
            what : Versions \cup {None}, inbox : Inboxes \cup {None},
            got : Nat, left : Seq(AllReplies), clean : BOOLEAN]

\* a call as AccountSync knows it
Ongoing == [kind : Kinds, what : Versions \cup {None}, copy : BOOLEAN,
            confirmed : BOOLEAN]

ASSUME NoneAssumption ==
    None \notin Calling \cup Ongoing \cup Inboxes \cup Versions \cup BOOLEAN

TypeOK ==
    /\ site \in Sites
    /\ version \in Versions /\ latest \in Versions
    /\ synced \in BOOLEAN \cup {None}
    /\ call \in [Callers -> Calling \cup {None}]
    /\ requests \in SUBSET Request
    /\ held \in [Servers -> Versions]

At(c, place) == call[c] # None /\ call[c].at = place
Goes(c, k)   == call' = [call EXCEPT ![c] = k]

-----------------------------------------------------------------------------
(* Handlers around the resolver.                                           *)

\* mutant: an account that was synchronised once is not pushed again
PushUnsynced(kind) == synced # None /\ (kind = "push" => ~synced)
\* refreshAccount and every call of the periodic function push the account
\* as long as its issue exists, whatever Synced says
Wanted(kind) == synced # None

\* The account issue is read, and the account's JWT (in one step); without a
\* JWT there is nothing to synchronise.
Begin(c, kind) ==
    /\ call[c] = None /\ kind \in site.duties[c] /\ Wanted(kind)
    /\ Goes(c, [kind |-> kind,
                at    |-> IF version = 0 THEN "done" ELSE "connect",
                copy  |-> kind = "push" /\ synced,
                what  |-> IF version = 0 THEN None
                          ELSE IF kind = "push" THEN version ELSE 0,
                inbox |-> None, got |-> 0, left |-> <<>>, clean |-> FALSE])
    /\ UNCHANGED <<storage, requests, held>>

\* issueAccountJWT of any handler stores a new JWT: before a push of its own,
\* during another's, or after a deletion, if the keys were read before it;
\* nothing resets Synced.  (An account created again has a new key: to the
\* servers it is another account.)
Change ==
    /\ latest < site.jwts
    /\ latest' = latest + 1
    /\ version' = latest + 1
    /\ UNCHANGED <<site, synced, call, requests, held>>

\* PushAccount has returned (no response is an error, which is logged), or
\* there was nothing to push.  The caller stores its copy of the issue.
PushReturns(c) ==
    /\ At(c, "done") /\ call[c].kind = "push"
    /\ synced' = (call[c].copy \/ call[c].got > 0)
    /\ Goes(c, None)
    /\ UNCHANGED <<site, version, latest, requests, held>>

\* DeleteAccounts has returned, and its count is dropped: the JWT is deleted
DeleteReturns(c) ==
    /\ At(c, "done") /\ call[c].kind = "delete"
    /\ version' = 0
    /\ Goes(c, [call[c] EXCEPT !.at = "issue"])
    /\ UNCHANGED <<site, latest, synced, requests, held>>

DeleteIssue(c) ==
    /\ At(c, "issue")
    /\ synced' = None
    /\ Goes(c, None)
    /\ UNCHANGED <<site, version, latest, requests, held>>

\* an error of storage, or of making credentials, ends a handler
StorageError(c) ==
    /\ call[c] # None /\ call[c].at # "wait"
    /\ Goes(c, None)
    /\ UNCHANGED <<storage, requests, held>>

\* the process is killed and started again
Crash ==
    /\ \E c \in Callers : call[c] # None
    /\ call' = [c \in Callers |-> None]
    /\ UNCHANGED <<storage, requests, held>>

-----------------------------------------------------------------------------
(* Opening a connection and sending the request.                           *)

\* a scheme as it is left after trimming and folding the case
isValidURL(u) == u \in {"http", "https", "nats"}
isNatsUrl(u)  == u \in {"nats", ",nats"}
Connectable(u) == isValidURL(u) /\ isNatsUrl(u)

\* mutant: every request uses the same inbox
SomeInbox(i) == TRUE
\* nats.NewInbox: nobody else replies or waits there
NewInbox(i) == /\ \A r \in requests : r.inbox # i
               /\ \A c \in Callers : call[c] # None => call[c].inbox # i

Waiting(c) == At(c, "wait")

\* connection, subscription and publication succeed
Publish(c) ==
    /\ At(c, "connect")
    /\ Connectable(site.url)
    /\ \E i \in Inboxes :
          /\ NewInbox(i)
          /\ call' = [d \in Callers |->
                IF d = c THEN [call[c] EXCEPT !.at = "wait", !.inbox = i,
                                  !.clean = /\ call[c].kind = "delete"
                                            /\ requests = {}]
                ELSE IF call[d] = None THEN None
                ELSE [call[d] EXCEPT !.clean = FALSE]]
          /\ requests' = requests \cup [to : site.servers,
                                        what : {call[c].what}, inbox : {i}]
    /\ UNCHANGED <<storage, held>>

\* no credentials, or the URL is rejected, or nats.Connect, SubscribeSync or
\* PublishRequest fail
Unreachable(c) ==
    /\ At(c, "connect")
    /\ Goes(c, [call[c] EXCEPT !.at = "done"])
    /\ UNCHANGED <<storage, requests, held>>

-----------------------------------------------------------------------------
(* The loop of multiRequest.                                               *)

\* mutant: processResponse does not look at the error
CountsAnyServer(reply) == reply \in {"ok", "error"}
\* processResponse: is the reply one that counts?
Counts(reply) == reply = "ok"

\* the loop ends and the connection is closed
Closed(k) == [k EXCEPT !.at = "done", !.inbox = None, !.left = <<>>]

\* NextMsg returns a reply: one that counts keeps the loop going, any other
\* ends it
NextReply(c) ==
    /\ Waiting(c)
    /\ call[c].left # <<>>
    /\ Head(call[c].left) # "noserver"
    /\ Goes(c, IF Counts(Head(call[c].left))
               THEN [call[c] EXCEPT !.left = Tail(@), !.got = @ + 1]
               ELSE Closed(call[c]))
    /\ UNCHANGED <<storage, requests, held>>

\* mutant: the first reply is waited for without a deadline
DeadlineAfterReply(c) ==
    /\ Waiting(c) /\ call[c].got > 0
    /\ Goes(c, Closed(call[c]))
    /\ UNCHANGED <<storage, requests, held>>

\* a second is over, with or without replies unread, or NextMsg fails
Deadline(c) ==
    /\ Waiting(c)
    /\ Goes(c, Closed(call[c]))
    /\ UNCHANGED <<storage, requests, held>>

\* a reply without a server object is dereferenced and ends the process
NilServer(c) ==
    /\ Waiting(c)
    /\ call[c].left # <<>>
    /\ Head(call[c].left) = "noserver"
    /\ call' = [d \in Callers |-> None]
    /\ UNCHANGED <<storage, requests, held>>

-----------------------------------------------------------------------------
(* The account servers.                                                    *)

\* mutant: what is kept is the request, not the reply to it
inboxRequest(k, r, reply) ==
    IF k # None /\ k.at = "wait" /\ k.inbox = r.inbox
    THEN [k EXCEPT !.left = Append(@, "request")] ELSE k

\* the reply reaches the call that waits at the inbox, if there is one
inbox(k, r, reply) ==
    IF k # None /\ k.at = "wait" /\ k.inbox = r.inbox
    THEN [k EXCEPT !.left = Append(@, reply)] ELSE k

\* a server does what it is asked to do; its reply may be lost
Take(r) ==
    /\ r \in requests
    /\ requests' = requests \ {r}
    /\ held' = [held EXCEPT ![r.to] = r.what]
    /\ \/ call' = call
       \/ call' = [c \in Callers |-> inbox(call[c], r, "ok")]
    /\ UNCHANGED storage

\* it does not: the request is lost, refused, or understood by nobody
Refuse(r) ==
    /\ r \in requests
    /\ requests' = requests \ {r}
    /\ \/ call' = call
       \/ \E reply \in site.replies \ {"ok"} :
             call' = [c \in Callers |-> inbox(call[c], r, reply)]
    /\ UNCHANGED <<storage, held>>

-----------------------------------------------------------------------------
Init == /\ site \in Sites
        /\ version = 1 /\ latest = 1 /\ synced = FALSE
        /\ call = [c \in Callers |-> None]
        /\ requests = {} /\ held = [s \in Servers |-> 0]

\* nobody need ask for anything
Rest == /\ \A c \in Callers : call[c] = None
        /\ requests = {}
        /\ UNCHANGED vars

\* what a handler does once it has begun
Step(c) == \/ Publish(c) \/ Unreachable(c)
           \/ NextReply(c) \/ Deadline(c) \/ NilServer(c)
           \/ PushReturns(c) \/ DeleteReturns(c) \/ DeleteIssue(c)

Next == \/ \E c \in Callers : \/ \E kind \in Kinds : Begin(c, kind)
                              \/ Step(c) \/ StorageError(c)
        \/ Change \/ Crash
        \/ \E r \in requests : Take(r) \/ Refuse(r)
        \/ Rest

Spec == Init /\ [][Next]_vars

\* Handlers go on: the loop runs and its deadline comes.  The rollback
\* manager has the account pushed again and again, and again and again the
\* servers can be reached and do what the newest request asks for; no
\* outdated request stays on its way for ever.
PublishPush(c) == call[c] # None /\ call[c].kind = "push" /\ Publish(c)
TakeNewest(s) ==
    \E r \in requests : r.to = s /\ r.what = version /\ Take(r)
LoseOutdated == \E r \in requests : r.what # version /\ Refuse(r)
FairSpec ==
    /\ Spec
    /\ \A c \in Callers : WF_vars(Step(c))
    /\ WF_vars(\E c \in Callers : Begin(c, "push"))
    /\ SF_vars(\E c \in Callers : PublishPush(c))
    /\ WF_vars(LoseOutdated)
    /\ \A s \in Servers : SF_vars(TakeNewest(s))

-----------------------------------------------------------------------------
(* What is promised.                                                       *)

\* Synchronisation as the backend may rely on it (AccountSync): Synced is
\* set only after a server took the very JWT that was pushed, however
\* replies, refusals, deadlines, crashes and the requests of other calls
\* interleave.
confirmed(k) == k.got > 0 \/ \E i \in 1..Len(k.left) : k.left[i] = "ok"
ongoing(k) == IF k = None THEN None
              ELSE [kind |-> k.kind, what |-> k.what, copy |-> k.copy,
                    confirmed |-> confirmed(k)]
Sync == INSTANCE AccountSync
            WITH calling <- [c \in Callers |-> ongoing(call[c])],
                 offers <- {r.what : r \in requests}
SyncSpec == Sync!Spec

\* A deletion that every server confirmed: if nothing was under way when it
\* was sent, and nobody has published a request since, no server holds the
\* account and no request is under way.  This is as certain as a deletion
\* gets, and it need not last: a call that has read the JWT before it is
\* deleted may push it after the servers confirmed (DeletionLasts).
ConfirmedDeletion ==
    \A c \in Callers :
        (/\ call[c] # None /\ call[c].kind = "delete" /\ call[c].clean
         /\ call[c].got = Cardinality(site.servers))
        => /\ requests = {}
           /\ \A s \in site.servers : held[s] = 0

\* Every push and every deletion comes to an end, whatever servers do.
CallEnds == \A c \in Callers : []<>(call[c] = None)

\* Once nobody tries to delete the account any more, and as its JWTs come to
\* an end, repeated pushes bring every server to the latest: late requests
\* with older ones lose, and so do calls of other handlers that had read an
\* older one; Synced, set once and for all, keeps nobody from it.
Kept == /\ version # 0 /\ synced # None
        /\ \A c \in Callers : call[c] # None => call[c].kind = "push"
Converges ==
    (Connectable(site.url) /\ <>[]Kept)
    => <>[](\A s \in site.servers : held[s] = version)

\* "try with decreasing timeout until we dont get responses": replies are
\* read as long as there are any; a reply does not end that while one that
\* counts is waiting behind it.
UntilNoResponses ==
    [][\A c \in Callers :
          (NextReply(c) /\ ~Waiting(c)') =>
              \A i \in 2..Len(call[c].left) : call[c].left[i] # "ok"]_vars

\* "update resolver", "delete account issue": an account that all servers
\* confirmed to have deleted is on none of them when its issue goes.
DeletionLasts ==
    [][\A c \in Callers :
          (DeleteIssue(c) /\ call[c].got = Cardinality(site.servers))
          => \A s \in site.servers : held[s] = 0]_vars
=============================================================================
