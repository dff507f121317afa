--------------------------- MODULE ResolverProofs ---------------------------
(***************************************************************************)
(* Resolver is type-correct and implements AccountSync, for any number of  *)
(* callers, servers, inboxes, JWTs and kinds of replies.                   *)
(***************************************************************************)
EXTENDS Resolver, SequenceTheorems, FiniteSetTheorems, TLAPS

\* what a call carries is right for where it has come to
Sound(k) ==
    k # None =>
        /\ k.at \in {"connect", "wait"} => k.what \in Versions
        /\ k.at = "wait" => k.inbox \in Inboxes
        /\ k.at # "wait" => k.left = <<>>
        /\ k.at = "connect" => k.got = 0 /\ ~k.clean
        /\ k.at = "issue" => k.kind = "delete"
        /\ k.kind = "delete" => k.what \in {0, None}
        /\ k.clean => k.kind = "delete" /\ k.what \in Versions

\* requests go to the servers there are
Addressed == \A r \in requests : r.to \in site.servers

\* only the requests of the call itself are answered to its inbox
InboxOwn ==
    \A c \in Callers : Waiting(c) =>
        \A r \in requests : r.inbox = call[c].inbox => r.what = call[c].what

\* no two calls wait at one inbox
InboxAlone ==
    \A c, d \in Callers :
        (Waiting(c) /\ Waiting(d) /\ call[c].inbox = call[d].inbox) => c = d

IInv == /\ TypeOK
        /\ \A c \in Callers : Sound(call[c])
        /\ Addressed /\ InboxOwn /\ InboxAlone

-----------------------------------------------------------------------------

\* What is left of an inbox when its first reply is taken out was in it.
LEMMA TailOfInbox ==
    ASSUME NEW s \in Seq(AllReplies), s # <<>>
    PROVE  /\ Head(s) \in AllReplies /\ Head(s) = s[1] /\ Len(s) >= 1
           /\ Tail(s) \in Seq(AllReplies)
           /\ \A i \in 1..Len(Tail(s)) : /\ i + 1 \in 1..Len(s)
                                         /\ Tail(s)[i] = s[i + 1]
<1>1. Len(s) \in Nat /\ Len(s) >= 1
  BY SMT
<1>2. Head(s) = s[1] /\ Head(s) \in AllReplies
  BY <1>1, SMT
<1>3. Tail(s) \in Seq(AllReplies) /\ Len(Tail(s)) = Len(s) - 1
  BY <1>1, SMT
<1>4. \A i \in 1..Len(Tail(s)) : i + 1 \in 1..Len(s) /\ Tail(s)[i] = s[i + 1]
  BY <1>1, <1>3, SMT
<1> QED
  BY <1>1, <1>2, <1>3, <1>4

\* A reply that arrives joins the others.
LEMMA ArrivalInInbox ==
    ASSUME NEW s \in Seq(AllReplies), NEW e \in AllReplies
    PROVE  /\ Append(s, e) \in Seq(AllReplies)
           /\ \A i \in 1..Len(Append(s, e)) :
                  \/ i \in 1..Len(s) /\ Append(s, e)[i] = s[i]
                  \/ Append(s, e)[i] = e
<1>1. Append(s, e) \in Seq(AllReplies) /\ Len(Append(s, e)) = Len(s) + 1
  BY SMT
<1>2. \A i \in 1..Len(s) : Append(s, e)[i] = s[i]
  BY SMT
<1>3. Append(s, e)[Len(s) + 1] = e
  BY SMT
<1> QED
  BY <1>1, <1>2, <1>3, SMT

\* The invariant holds before the first call.
LEMMA InitIInv == Init => IInv
<1> SUFFICES ASSUME Init PROVE IInv
  OBVIOUS
<1>1. 0 \in Versions /\ 1 \in Versions
  BY ResolverAssumption DEF Versions
<1>2. held \in [Servers -> Versions]
  BY <1>1 DEF Init
<1>3. call \in [Callers -> Calling \cup {None}]
  BY DEF Init
<1>4. TypeOK
  BY <1>1, <1>2, <1>3 DEF Init, TypeOK
<1>5. \A c \in Callers : call[c] = None
  BY DEF Init
<1> QED
  BY <1>4, <1>5
  DEF Init, IInv, Sound, Addressed, InboxOwn, InboxAlone, Waiting, At

\* A call that goes on to k, sends nothing and waits, if at all, where it
\* did, keeps the invariant.
LEMMA GoesIInv ==
    ASSUME IInv, NEW c \in Callers, NEW k \in Calling \cup {None},
           Sound(k), Goes(c, k),
           (k # None /\ k.at = "wait") =>
               /\ Waiting(c)
               /\ k.inbox = call[c].inbox /\ k.what = call[c].what,
           version' \in Versions, synced' \in BOOLEAN \cup {None},
           UNCHANGED <<site, latest, requests, held>>
    PROVE  IInv'
<1>1. /\ call'[c] = k
      /\ \A d \in Callers : d # c => call'[d] = call[d]
  BY DEF Goes, IInv, TypeOK
<1>2. TypeOK'
  BY DEF Goes, IInv, TypeOK
<1>3. \A d \in Callers : Sound(call'[d])
  BY <1>1 DEF IInv
<1>4. \A d \in Callers :
         Waiting(d)' => /\ Waiting(d)
                        /\ call'[d].inbox = call[d].inbox
                        /\ call'[d].what = call[d].what
  BY <1>1 DEF Waiting, At
<1>5. InboxOwn'
  BY <1>4 DEF IInv, InboxOwn
<1>6. InboxAlone'
  BY <1>4 DEF IInv, InboxAlone
<1>7. Addressed'
  BY DEF IInv, Addressed
<1>8. (\A d \in Callers : Sound(call[d]))'
  BY <1>3 DEF Sound
<1> QED
  BY <1>2, <1>5, <1>6, <1>7, <1>8 DEF IInv

\* The account that Begin reads makes a call.
LEMMA BeginCalls ==
    ASSUME IInv, NEW c \in Callers, NEW kind \in Kinds, Begin(c, kind)
    PROVE  \E k \in Calling :
              /\ Goes(c, k) /\ Sound(k) /\ k.at # "wait"
              /\ k.kind = kind /\ k.copy = (kind = "push" /\ synced)
              /\ k.what = IF version = 0 THEN None
                          ELSE IF kind = "push" THEN version ELSE 0
              /\ k.got = 0 /\ k.left = <<>> /\ ~k.clean
<1> DEFINE k == [kind |-> kind,
                 at    |-> IF version = 0 THEN "done" ELSE "connect",
                 copy  |-> kind = "push" /\ synced,
                 what  |-> IF version = 0 THEN None
                           ELSE IF kind = "push" THEN version ELSE 0,
                 inbox |-> None, got |-> 0, left |-> <<>>, clean |-> FALSE]
<1>1. version \in Versions /\ 0 \in Versions /\ None \notin Versions
  BY ResolverAssumption, NoneAssumption DEF IInv, TypeOK, Versions
<1>2. <<>> \in Seq(AllReplies)
  BY SMT
<1>3. (kind = "push" /\ synced) \in BOOLEAN
  BY DEF IInv, TypeOK
<1>4. k \in Calling
  BY <1>1, <1>2, <1>3 DEF Calling, Places
<1>5. Goes(c, k)
  BY DEF Begin
<1>6. Sound(k)
  BY <1>1 DEF Sound
<1>7. /\ k.at # "wait"
      /\ k.kind = kind /\ k.copy = (kind = "push" /\ synced)
      /\ k.what = IF version = 0 THEN None
                  ELSE IF kind = "push" THEN version ELSE 0
      /\ k.got = 0 /\ k.left = <<>> /\ ~k.clean
  OBVIOUS
<1> HIDE DEF k
<1> QED
  BY <1>4, <1>5, <1>6, <1>7

\* A call that is over keeps what it was about and what it has counted.
LEMMA ClosedCall ==
    ASSUME NEW k \in Calling, Sound(k)
    PROVE  /\ Closed(k) \in Calling /\ Sound(Closed(k))
           /\ Closed(k).at = "done" /\ Closed(k).left = <<>>
           /\ Closed(k).kind = k.kind /\ Closed(k).what = k.what
           /\ Closed(k).copy = k.copy /\ Closed(k).got = k.got
           /\ Closed(k).clean = k.clean
<1>1. <<>> \in Seq(AllReplies)
  BY SMT
<1>2. /\ Closed(k).at = "done" /\ Closed(k).left = <<>>
      /\ Closed(k).inbox = None
      /\ Closed(k).kind = k.kind /\ Closed(k).what = k.what
      /\ Closed(k).copy = k.copy /\ Closed(k).got = k.got
      /\ Closed(k).clean = k.clean
  BY DEF Closed, Calling
<1>3. Closed(k) \in Calling
  BY <1>1 DEF Closed, Calling, Places
<1>4. k # None
  BY NoneAssumption
<1>5. Sound(Closed(k))
  BY <1>2, <1>4 DEF Sound
<1> QED
  BY <1>2, <1>3, <1>5

\* Reading a reply that counts takes it out of the inbox and counts it.
LEMMA CountedCall ==
    ASSUME NEW k \in Calling, Sound(k), k.at = "wait", k.left # <<>>,
           NEW n, n = [k EXCEPT !.left = Tail(@), !.got = @ + 1]
    PROVE  /\ n \in Calling /\ Sound(n) /\ n # None /\ n.at = "wait"
           /\ n.left = Tail(k.left) /\ n.got = k.got + 1
           /\ n.kind = k.kind /\ n.what = k.what /\ n.copy = k.copy
           /\ n.inbox = k.inbox /\ n.clean = k.clean
<1>1. k.left \in Seq(AllReplies) /\ k.got \in Nat
  BY DEF Calling
<1>2. Tail(k.left) \in Seq(AllReplies)
  BY <1>1, TailOfInbox
<1>3. k.got + 1 \in Nat
  BY <1>1
<1>4. /\ n.left = Tail(k.left) /\ n.got = k.got + 1 /\ n.at = "wait"
      /\ n.kind = k.kind /\ n.what = k.what /\ n.copy = k.copy
      /\ n.inbox = k.inbox /\ n.clean = k.clean
  BY DEF Calling
<1>5. n \in Calling
  BY <1>2, <1>3 DEF Calling
<1>6. k # None /\ n # None
  BY <1>5, NoneAssumption
<1>7. Sound(n)
  BY <1>4, <1>6 DEF Sound
<1> QED
  BY <1>4, <1>5, <1>6, <1>7

\* A caller that has a call has a sound one.
LEMMA CallsAreSound ==
    ASSUME IInv, NEW c \in Callers, call[c] # None
    PROVE  call[c] \in Calling /\ Sound(call[c])
BY DEF IInv, TypeOK

\* Reading a reply or running out of time.
LEMMA LoopIInv ==
    ASSUME IInv, NEW c \in Callers, NextReply(c) \/ Deadline(c)
    PROVE  IInv'
<1>1. Waiting(c) /\ call[c] # None /\ call[c].at = "wait"
      /\ UNCHANGED <<storage, requests, held>>
  BY DEF NextReply, Deadline, Waiting, At
<1>2. call[c] \in Calling /\ Sound(call[c])
  BY <1>1, CallsAreSound
<1>3. version \in Versions /\ synced \in BOOLEAN \cup {None}
  BY DEF IInv, TypeOK
<1>4. CASE Goes(c, Closed(call[c]))
  BY <1>1, <1>2, <1>3, <1>4, ClosedCall, GoesIInv DEF storage
<1>5. CASE /\ NextReply(c) /\ call[c].left # <<>>
           /\ Goes(c, [call[c] EXCEPT !.left = Tail(@), !.got = @ + 1])
  <2> DEFINE n == [call[c] EXCEPT !.left = Tail(@), !.got = @ + 1]
  <2>1. /\ n \in Calling /\ Sound(n) /\ n.at = "wait"
        /\ n.inbox = call[c].inbox /\ n.what = call[c].what
    BY <1>1, <1>2, <1>5, CountedCall
  <2>2. Goes(c, n)
    BY <1>5
  <2> HIDE DEF n
  <2> QED
    BY <1>1, <1>3, <2>1, <2>2, GoesIInv DEF storage
<1> QED
  BY <1>4, <1>5 DEF NextReply, Deadline

\* What else a handler does with its call.
LEMMA HandlerIInv ==
    ASSUME IInv, NEW c \in Callers,
           \/ Unreachable(c) \/ PushReturns(c) \/ DeleteReturns(c)
           \/ DeleteIssue(c) \/ StorageError(c)
    PROVE  IInv'
<1>1. version \in Versions /\ synced \in BOOLEAN \cup {None} /\ 0 \in Versions
  BY ResolverAssumption DEF IInv, TypeOK, Versions
<1>2. call[c] # None
  BY DEF Unreachable, PushReturns, DeleteReturns, DeleteIssue, StorageError, At
<1>3. call[c] \in Calling /\ Sound(call[c])
  BY <1>2, CallsAreSound
<1>4. Sound(None)
  BY DEF Sound
<1>5. CASE Unreachable(c)
  <2> DEFINE n == [call[c] EXCEPT !.at = "done"]
  <2>1. n \in Calling
    BY <1>3 DEF Calling, Places
  <2>2. Sound(n) /\ n.at = "done"
    BY <1>2, <1>3, <1>5 DEF Sound, Calling, Unreachable, At
  <2>3. Goes(c, n) /\ UNCHANGED <<storage, requests, held>>
    BY <1>5 DEF Unreachable
  <2> HIDE DEF n
  <2> QED
    BY <1>1, <2>1, <2>2, <2>3, GoesIInv DEF storage
<1>6. CASE PushReturns(c)
  <2>1. (call[c].copy \/ call[c].got > 0) \in BOOLEAN
    BY <1>3 DEF Calling
  <2> QED
    BY <1>1, <1>4, <1>6, <2>1, GoesIInv DEF PushReturns
<1>7. CASE DeleteReturns(c)
  <2> DEFINE n == [call[c] EXCEPT !.at = "issue"]
  <2>1. n \in Calling
    BY <1>3 DEF Calling, Places
  <2>2. Sound(n) /\ n.at = "issue"
    BY <1>2, <1>3, <1>7 DEF Sound, Calling, DeleteReturns, At
  <2>3. Goes(c, n) /\ version' = 0 /\ UNCHANGED <<site, latest, synced, requests, held>>
    BY <1>7 DEF DeleteReturns
  <2> HIDE DEF n
  <2> QED
    BY <1>1, <2>1, <2>2, <2>3, GoesIInv
<1>8. CASE DeleteIssue(c)
  BY <1>1, <1>4, <1>8, GoesIInv DEF DeleteIssue
<1>9. CASE StorageError(c)
  BY <1>1, <1>4, <1>9, GoesIInv DEF StorageError, storage
<1> QED
  BY <1>5, <1>6, <1>7, <1>8, <1>9

\* The end of the process, and a new JWT.
LEMMA ProcessIInv ==
    ASSUME IInv, (\E c \in Callers : NilServer(c)) \/ Crash \/ Change
    PROVE  IInv'
<1>1. CASE (\E c \in Callers : NilServer(c)) \/ Crash
  <2>1. /\ call' = [c \in Callers |-> None]
        /\ UNCHANGED <<storage, requests, held>>
    BY <1>1 DEF NilServer, Crash
  <2>2. \A c \in Callers : call'[c] = None
    BY <2>1
  <2>3. TypeOK'
    BY <2>1 DEF IInv, TypeOK, storage
  <2> QED
    BY <2>1, <2>2, <2>3
    DEF IInv, Sound, Addressed, InboxOwn, InboxAlone, Waiting, At, storage
<1>2. CASE Change
  <2>1. latest + 1 \in Versions
    BY <1>2, ResolverAssumption DEF Change, Versions, IInv, TypeOK
  <2>2. TypeOK'
    BY <1>2, <2>1 DEF Change, IInv, TypeOK
  <2> QED
    BY <1>2, <2>2
    DEF Change, IInv, Sound, Addressed, InboxOwn, InboxAlone, Waiting, At
<1> QED
  BY <1>1, <1>2

\* Publishing sends requests with a new inbox, all of them for the call; no
\* other call changes but for what history says of it.
LEMMA PublishCalls ==
    ASSUME IInv, NEW c \in Callers, Publish(c)
    PROVE  /\ call[c] \in Calling /\ call[c].at = "connect"
           /\ call[c].what \in Versions
           /\ call' \in [Callers -> Calling \cup {None}]
           /\ \E i \in Inboxes :
                 /\ NewInbox(i)
                 /\ requests' = requests \cup [to : site.servers,
                                    what : {call[c].what}, inbox : {i}]
                 /\ call'[c].inbox = i
           /\ call'[c] # None /\ call'[c].at = "wait"
           /\ call'[c].clean = (call[c].kind = "delete" /\ requests = {})
           /\ \A d \in Callers :
                 /\ call'[d] = None <=> call[d] = None
                 /\ call[d] # None =>
                       /\ call'[d].kind = call[d].kind
                       /\ call'[d].what = call[d].what
                       /\ call'[d].copy = call[d].copy
                       /\ call'[d].got = call[d].got
                       /\ call'[d].left = call[d].left
                       /\ d # c => /\ call'[d].at = call[d].at
                                  /\ call'[d].inbox = call[d].inbox
                                  /\ ~call'[d].clean
<1>1. PICK i \in Inboxes :
         /\ NewInbox(i)
         /\ call' = [d \in Callers |->
               IF d = c THEN [call[c] EXCEPT !.at = "wait", !.inbox = i,
                                 !.clean = /\ call[c].kind = "delete"
                                           /\ requests = {}]
               ELSE IF call[d] = None THEN None
               ELSE [call[d] EXCEPT !.clean = FALSE]]
         /\ requests' = requests \cup [to : site.servers,
                                       what : {call[c].what}, inbox : {i}]
  BY DEF Publish
<1>2. call[c] # None /\ call[c].at = "connect"
  BY DEF Publish, At
<1>3. call[c] \in Calling /\ call[c].what \in Versions
  BY <1>2, CallsAreSound DEF Sound
<1> DEFINE n == [call[c] EXCEPT !.at = "wait", !.inbox = i,
                     !.clean = call[c].kind = "delete" /\ requests = {}]
           o(d) == [call[d] EXCEPT !.clean = FALSE]
<1>4. /\ n \in Calling /\ n # None /\ n.at = "wait" /\ n.inbox = i
      /\ n.clean = (call[c].kind = "delete" /\ requests = {})
      /\ n.kind = call[c].kind /\ n.what = call[c].what
      /\ n.copy = call[c].copy
      /\ n.got = call[c].got /\ n.left = call[c].left
  <2>1. (call[c].kind = "delete" /\ requests = {}) \in BOOLEAN
    OBVIOUS
  <2>2. n \in Calling
    BY <1>3, <2>1 DEF Calling, Places
  <2> QED
    BY <1>3, <2>2, NoneAssumption DEF Calling
<1>5. ASSUME NEW d \in Callers, call[d] # None
      PROVE  /\ o(d) \in Calling /\ o(d) # None /\ ~o(d).clean
             /\ o(d).at = call[d].at /\ o(d).inbox = call[d].inbox
             /\ o(d).kind = call[d].kind /\ o(d).what = call[d].what
             /\ o(d).copy = call[d].copy
             /\ o(d).got = call[d].got /\ o(d).left = call[d].left
  <2>1. call[d] \in Calling
    BY <1>5, CallsAreSound
  <2>2. o(d) \in Calling
    BY <2>1 DEF Calling
  <2> QED
    BY <2>1, <2>2, NoneAssumption DEF Calling
<1>6. /\ call' = [d \in Callers |-> IF d = c THEN n
                                    ELSE IF call[d] = None THEN None
                                    ELSE o(d)]
  BY <1>1
<1> HIDE DEF n, o
<1>7. call' \in [Callers -> Calling \cup {None}]
  BY <1>4, <1>5, <1>6
<1>8. /\ call'[c] = n
      /\ \A d \in Callers : d # c =>
            call'[d] = IF call[d] = None THEN None ELSE o(d)
  BY <1>6
<1>9. \A d \in Callers :
         /\ call'[d] = None <=> call[d] = None
         /\ call[d] # None =>
               /\ call'[d].kind = call[d].kind
               /\ call'[d].what = call[d].what
               /\ call'[d].copy = call[d].copy
               /\ call'[d].got = call[d].got
               /\ call'[d].left = call[d].left
               /\ d # c => /\ call'[d].at = call[d].at
                          /\ call'[d].inbox = call[d].inbox
                          /\ ~call'[d].clean
  <2> TAKE d \in Callers
  <2>1. CASE d = c
    BY <2>1, <1>2, <1>4, <1>8
  <2>2. CASE d # c /\ call[d] = None
    BY <2>2, <1>8
  <2>3. CASE d # c /\ call[d] # None
    BY <2>3, <1>5, <1>8
  <2> QED
    BY <2>1, <2>2, <2>3
<1> QED
  BY <1>1, <1>2, <1>3, <1>4, <1>7, <1>8, <1>9

LEMMA PublishIInv ==
    ASSUME IInv, NEW c \in Callers, Publish(c)
    PROVE  IInv'
<1>1. PICK i \in Inboxes :
         /\ NewInbox(i)
         /\ requests' = requests \cup [to : site.servers,
                            what : {call[c].what}, inbox : {i}]
         /\ call'[c].inbox = i
  BY PublishCalls
<1>2. site.servers \subseteq Servers
  BY ResolverAssumption DEF IInv, TypeOK
<1>3. [to : site.servers, what : {call[c].what}, inbox : {i}] \subseteq Request
  BY <1>2, PublishCalls DEF Request
<1>4. UNCHANGED <<storage, held>>
  BY DEF Publish
<1>5. TypeOK'
  BY <1>1, <1>3, <1>4, PublishCalls DEF IInv, TypeOK, storage
<1>6. Addressed'
  BY <1>1, <1>4 DEF IInv, Addressed, storage
<1>7. (\A d \in Callers : Sound(call[d]))'
  <2> SUFFICES ASSUME NEW d \in Callers PROVE Sound(call'[d])
    BY DEF Sound
  <2>1. Sound(call[d])
    BY DEF IInv
  <2>2. CASE d = c
    BY <1>1, <2>1, <2>2, PublishCalls DEF Sound, Versions
  <2>3. CASE d # c
    BY <2>1, <2>3, PublishCalls DEF Sound
  <2> QED
    BY <2>2, <2>3
<1>8. \A d \in Callers :
         d # c => /\ Waiting(d)' => Waiting(d)
                  /\ Waiting(d) => /\ call'[d].inbox = call[d].inbox
                                   /\ call'[d].what = call[d].what
                                   /\ call[d].inbox # i
  BY <1>1, PublishCalls DEF Waiting, At, NewInbox
<1>9. call'[c].what = call[c].what
  BY PublishCalls, NoneAssumption
<1>10. InboxOwn'
  <2> SUFFICES ASSUME NEW d \in Callers, Waiting(d)', NEW r \in requests',
                      r.inbox = call'[d].inbox
               PROVE  r.what = call'[d].what
    BY DEF InboxOwn
  <2>1. CASE d = c
    BY <1>1, <1>9, <2>1 DEF NewInbox
  <2>2. CASE d # c
    BY <1>1, <1>8, <2>2 DEF IInv, InboxOwn
  <2> QED
    BY <2>1, <2>2
<1>11. InboxAlone'
  BY <1>1, <1>8 DEF IInv, InboxAlone
<1> QED
  BY <1>5, <1>6, <1>7, <1>10, <1>11 DEF IInv

\* What a reply does to a call: it joins the inbox, if it is the one meant.
LEMMA InboxCall ==
    ASSUME IInv, NEW d \in Callers, NEW r \in requests,
           NEW reply \in AllReplies, NEW n, n = inbox(call[d], r, reply)
    PROVE  /\ n \in Calling \cup {None} /\ Sound(n)
           /\ n = None <=> call[d] = None
           /\ call[d] # None =>
                 /\ n.kind = call[d].kind /\ n.what = call[d].what
                 /\ n.copy = call[d].copy /\ n.at = call[d].at
                 /\ n.inbox = call[d].inbox /\ n.got = call[d].got
                 /\ n.clean = call[d].clean
                 /\ \/ n.left = call[d].left
                    \/ /\ Waiting(d) /\ call[d].inbox = r.inbox
                       /\ n.left = Append(call[d].left, reply)
<1>1. CASE ~(call[d] # None /\ call[d].at = "wait" /\ call[d].inbox = r.inbox)
  BY <1>1 DEF inbox, IInv, TypeOK
<1>2. CASE call[d] # None /\ call[d].at = "wait" /\ call[d].inbox = r.inbox
  <2>1. call[d] \in Calling /\ Sound(call[d]) /\ n = [call[d] EXCEPT !.left = Append(@, reply)]
    BY <1>2, CallsAreSound DEF inbox
  <2>2. call[d].left \in Seq(AllReplies)
    BY <2>1 DEF Calling
  <2>3. Append(call[d].left, reply) \in Seq(AllReplies)
    BY <2>2, ArrivalInInbox
  <2>4. n \in Calling
    BY <2>1, <2>3 DEF Calling
  <2>5. /\ n.kind = call[d].kind /\ n.what = call[d].what
        /\ n.copy = call[d].copy /\ n.at = call[d].at
        /\ n.inbox = call[d].inbox /\ n.got = call[d].got
        /\ n.clean = call[d].clean /\ n.left = Append(call[d].left, reply)
    BY <2>1 DEF Calling
  <2>6. Sound(n)
    BY <1>2, <2>1, <2>5 DEF Sound
  <2> QED
    BY <1>2, <2>4, <2>5, <2>6, NoneAssumption DEF Waiting, At
<1> QED
  BY <1>1, <1>2

\* A request that is dealt with, whether a call hears of it or not.
LEMMA AnswerIInv ==
    ASSUME IInv, NEW r \in requests, NEW reply \in AllReplies,
           \/ call' = call
           \/ call' = [c \in Callers |-> inbox(call[c], r, reply)],
           requests' = requests \ {r}, held' \in [Servers -> Versions],
           UNCHANGED storage
    PROVE  IInv'
<1>1. \A d \in Callers :
         /\ call'[d] \in Calling \cup {None} /\ Sound(call'[d])
         /\ call'[d] = None <=> call[d] = None
         /\ call[d] # None => /\ call'[d].what = call[d].what
                             /\ call'[d].at = call[d].at
                             /\ call'[d].inbox = call[d].inbox
  <2>1. CASE call' = call
    BY <2>1 DEF IInv, TypeOK
  <2>2. CASE call' = [c \in Callers |-> inbox(call[c], r, reply)]
    <3> TAKE d \in Callers
    <3>1. call'[d] = inbox(call[d], r, reply)
      BY <2>2
    <3> QED
      BY <3>1, InboxCall
  <2> QED
    BY <2>1, <2>2
<1>2. call' \in [Callers -> Calling \cup {None}]
  <2>1. CASE call' = call
    BY <2>1 DEF IInv, TypeOK
  <2>2. CASE call' = [c \in Callers |-> inbox(call[c], r, reply)]
    BY <1>1, <2>2
  <2> QED
    BY <2>1, <2>2
<1>3. TypeOK'
  BY <1>2 DEF IInv, TypeOK, storage
<1>4. (\A d \in Callers : Sound(call[d]))'
  BY <1>1 DEF Sound
<1>5. Addressed' /\ InboxOwn' /\ InboxAlone'
  BY <1>1 DEF IInv, Addressed, InboxOwn, InboxAlone, Waiting, At, storage
<1> QED
  BY <1>3, <1>4, <1>5 DEF IInv

LEMMA ServerIInv ==
    ASSUME IInv, NEW r \in requests, Take(r) \/ Refuse(r)
    PROVE  IInv'
<1>1. r \in Request /\ held \in [Servers -> Versions] /\ "ok" \in AllReplies
      /\ site.replies \subseteq AllReplies
  BY ResolverAssumption DEF IInv, TypeOK, AllReplies
<1>2. CASE Take(r)
  <2>1. held' \in [Servers -> Versions]
    BY <1>1, <1>2 DEF Take, Request
  <2> QED
    BY <1>1, <1>2, <2>1, AnswerIInv DEF Take
<1>3. CASE Refuse(r)
  <2>1. PICK reply \in AllReplies :
            \/ call' = call
            \/ call' = [c \in Callers |-> inbox(call[c], r, reply)]
    BY <1>1, <1>3 DEF Refuse
  <2>2. requests' = requests \ {r} /\ held' \in [Servers -> Versions]
        /\ UNCHANGED storage
    BY <1>1, <1>3 DEF Refuse
  <2> QED
    BY <2>1, <2>2, AnswerIInv
<1> QED
  BY <1>2, <1>3

LEMMA NextIInv == IInv /\ [Next]_vars => IInv'
<1> SUFFICES ASSUME IInv, [Next]_vars PROVE IInv'
  OBVIOUS
<1>1. ASSUME NEW c \in Callers, NEW kind \in Kinds, Begin(c, kind)
      PROVE  IInv'
  <2>1. PICK k \in Calling : Goes(c, k) /\ Sound(k) /\ k.at # "wait"
    BY <1>1, BeginCalls
  <2>2. /\ UNCHANGED <<storage, requests, held>>
        /\ version \in Versions /\ synced \in BOOLEAN \cup {None}
    BY <1>1 DEF Begin, IInv, TypeOK
  <2> QED
    BY <2>1, <2>2, GoesIInv DEF storage
<1>2. ASSUME NEW c \in Callers, Step(c) \/ StorageError(c)
      PROVE  IInv'
  BY <1>2, PublishIInv, LoopIInv, HandlerIInv, ProcessIInv DEF Step
<1>3. CASE Change \/ Crash
  BY <1>3, ProcessIInv
<1>4. CASE \E r \in requests : Take(r) \/ Refuse(r)
  BY <1>4, ServerIInv
<1>5. CASE UNCHANGED vars
  BY <1>5 DEF vars, storage, IInv, TypeOK, Sound, Addressed, InboxOwn,
              InboxAlone, Waiting, At
<1> QED
  BY <1>1, <1>2, <1>3, <1>4, <1>5 DEF Next, Rest

\* Invariance, for every number of callers, servers, inboxes and JWTs.
THEOREM ResolverInvariant == Spec => []IInv
BY InitIInv, NextIInv, PTL DEF Spec

\* TypeOK, for every value of the constants.
THEOREM ResolverTypeCorrect == Spec => []TypeOK
<1>1. IInv => TypeOK
  BY DEF IInv
<1> QED
  BY <1>1, ResolverInvariant, PTL

-----------------------------------------------------------------------------
(* The refinement.                                                         *)

\* what the refinement substitutes for variables of AccountSync
calling == [c \in Callers |-> ongoing(call[c])]
offers  == {r.what : r \in requests}

\* An inbox of which no reply is left confirms nothing.
LEMMA NothingLeft ==
    ASSUME NEW k, k.left = <<>>
    PROVE  confirmed(k) = (k.got > 0)
BY SMT DEF confirmed

\* A call is one to AccountSync, too.
LEMMA OngoingCall ==
    ASSUME NEW k \in Calling
    PROVE  /\ ongoing(k) # None /\ ongoing(k) \in Ongoing
           /\ ongoing(k) = [kind |-> k.kind, what |-> k.what, copy |-> k.copy,
                            confirmed |-> confirmed(k)]
           /\ ongoing(k).kind = k.kind /\ ongoing(k).what = k.what
           /\ ongoing(k).copy = k.copy /\ ongoing(k).confirmed = confirmed(k)
<1>1. k # None
  BY NoneAssumption
<1>2. ongoing(k) = [kind |-> k.kind, what |-> k.what, copy |-> k.copy,
                    confirmed |-> confirmed(k)]
  BY <1>1 DEF ongoing
<1>3. confirmed(k) \in BOOLEAN
  BY DEF confirmed
<1>4. ongoing(k) \in Ongoing
  BY <1>2, <1>3 DEF Ongoing, Calling
<1> QED
  BY <1>2, <1>4, NoneAssumption

\* Calls that agree in what they are about are the same to AccountSync.
LEMMA SameOngoing ==
    ASSUME NEW k \in Calling, NEW n \in Calling,
           n.kind = k.kind, n.what = k.what, n.copy = k.copy,
           confirmed(n) = confirmed(k)
    PROVE  ongoing(n) = ongoing(k)
BY OngoingCall

\* what a reply that counts makes of a call
Confirms(o) == [o EXCEPT !.confirmed = TRUE]

\* A call that is confirmed is the same otherwise.
LEMMA NowConfirmed ==
    ASSUME NEW k \in Calling, NEW n \in Calling,
           n.kind = k.kind, n.what = k.what, n.copy = k.copy,
           confirmed(n) = TRUE
    PROVE  ongoing(n) = Confirms(ongoing(k))
<1>1. ongoing(k) \in Ongoing /\ ongoing(n) \in Ongoing
  BY OngoingCall
<1>2. /\ ongoing(n).kind = ongoing(k).kind /\ ongoing(n).what = ongoing(k).what
      /\ ongoing(n).copy = ongoing(k).copy /\ ongoing(n).confirmed = TRUE
  BY OngoingCall
<1> QED
  BY <1>1, <1>2 DEF Ongoing, Confirms

\* A step of one caller changes one call of AccountSync.
LEMMA OneChanges ==
    ASSUME IInv, NEW c \in Callers, NEW k, Goes(c, k)
    PROVE  calling' = [calling EXCEPT ![c] = ongoing(k)]
<1>1. call \in [Callers -> Calling \cup {None}]
  BY DEF IInv, TypeOK
<1>2. /\ call'[c] = k
      /\ \A d \in Callers : d # c => call'[d] = call[d]
  BY <1>1 DEF Goes
<1>3. \A d \in Callers :
         calling'[d] = IF d = c THEN ongoing(k) ELSE calling[d]
  BY <1>2 DEF calling
<1>4. calling' = [d \in Callers |-> ongoing(call'[d])]
  BY DEF calling
<1>5. [calling EXCEPT ![c] = ongoing(k)]
          = [d \in Callers |-> IF d = c THEN ongoing(k) ELSE calling[d]]
  BY DEF calling
<1> QED
  BY <1>3, <1>4, <1>5

\* A step after which the caller's call means the same changes none.
LEMMA NoneChanges ==
    ASSUME IInv, NEW c \in Callers, NEW k, Goes(c, k),
           ongoing(k) = ongoing(call[c])
    PROVE  calling' = calling
<1>1. calling' = [calling EXCEPT ![c] = ongoing(k)]
  BY OneChanges
<1>2. calling[c] = ongoing(k)
  BY DEF calling
<1>3. calling = [d \in Callers |-> calling[d]]
  BY DEF calling
<1> QED
  BY <1>1, <1>2, <1>3

\* The two variables of AccountSync that are made from those of Resolver.
LEMMA SyncVars ==
    (UNCHANGED <<version, synced, held>> /\ offers' = offers /\ calling' = calling)
    => UNCHANGED Sync!syncVars
BY DEF Sync!syncVars, offers, calling

LEMMA InitRefines == Init => Sync!Init
<1> SUFFICES ASSUME Init PROVE Sync!Init
  OBVIOUS
<1>1. \A c \in Callers : ongoing(call[c]) = None
  BY DEF Init, ongoing
<1>2. {r.what : r \in requests} = {}
  BY DEF Init
<1> QED
  BY <1>1, <1>2 DEF Init, Sync!Init

\* Reading issue and JWT.
LEMMA BeginRefines ==
    ASSUME IInv, NEW c \in Callers, NEW kind \in Kinds, Begin(c, kind)
    PROVE  Sync!Begin(c, kind)
<1>1. PICK k \in Calling :
              /\ Goes(c, k)
              /\ k.kind = kind /\ k.copy = (kind = "push" /\ synced)
              /\ k.what = IF version = 0 THEN None
                          ELSE IF kind = "push" THEN version ELSE 0
              /\ k.got = 0 /\ k.left = <<>>
  BY BeginCalls
<1>2. ~confirmed(k) /\ confirmed(k) \in BOOLEAN
  BY <1>1, NothingLeft DEF confirmed
<1>3. ongoing(k) = [kind |-> kind, copy |-> kind = "push" /\ synced,
                    what |-> IF version = 0 THEN None
                             ELSE IF kind = "push" THEN version ELSE 0,
                    confirmed |-> FALSE]
  BY <1>1, <1>2, OngoingCall
<1>4. calling' = [calling EXCEPT ![c] = ongoing(k)]
  BY <1>1, OneChanges
<1>5. calling[c] = None /\ synced # None
  BY DEF Begin, Wanted, calling, ongoing
<1>6. UNCHANGED <<version, synced, held>> /\ offers' = offers
  BY DEF Begin, storage, offers
<1> QED
  BY <1>3, <1>4, <1>5, <1>6 DEF Sync!Begin, calling, offers

\* Sending an offer.
LEMMA PublishRefines ==
    ASSUME IInv, NEW c \in Callers, Publish(c)
    PROVE  Sync!Offer(c) \/ UNCHANGED Sync!syncVars
<1>1. UNCHANGED <<version, synced, held>>
  BY DEF Publish, storage
<1>2. calling' = calling
  <2>1. ASSUME NEW d \in Callers
        PROVE  ongoing(call'[d]) = ongoing(call[d])
    <3>1. CASE call[d] = None
      BY <3>1, PublishCalls
    <3>2. CASE call[d] # None
      <4>1. call[d] \in Calling /\ call'[d] \in Calling
        BY <3>2, PublishCalls, CallsAreSound
      <4>2. /\ call'[d].kind = call[d].kind /\ call'[d].what = call[d].what
            /\ call'[d].copy = call[d].copy /\ call'[d].got = call[d].got
            /\ call'[d].left = call[d].left
        BY <3>2, PublishCalls
      <4>3. confirmed(call'[d]) = confirmed(call[d])
        BY <4>2 DEF confirmed
      <4> QED
        BY <4>1, <4>2, <4>3, SameOngoing
    <3> QED
      BY <3>1, <3>2
  <2> QED
    BY <2>1 DEF calling
<1>3. PICK i \in Inboxes :
         requests' = requests \cup [to : site.servers,
                        what : {call[c].what}, inbox : {i}]
  BY PublishCalls
<1>4. calling[c] # None /\ calling[c].what # None
      /\ calling[c].what = call[c].what
  <2>1. call[c] \in Calling /\ call[c].what \in Versions
    BY PublishCalls
  <2>2. calling[c] = ongoing(call[c])
    BY DEF calling
  <2> QED
    BY <2>1, <2>2, OngoingCall, NoneAssumption
<1>5. CASE site.servers = {}
  <2>1. requests' = requests
    BY <1>3, <1>5
  <2> QED
    BY <1>1, <1>2, <2>1, SyncVars DEF offers
<1>6. CASE site.servers # {}
  <2>1. PICK s \in site.servers : TRUE
    BY <1>6
  <2>2. [to |-> s, what |-> call[c].what, inbox |-> i] \in requests'
    BY <1>3, <2>1
  <2>3. offers' = offers \cup {call[c].what}
    BY <1>3, <2>2 DEF offers
  <2> QED
    BY <1>1, <1>2, <1>4, <2>3 DEF Sync!Offer, calling, offers
<1> QED
  BY <1>5, <1>6

\* A call that closes is the same to AccountSync, or a confirmation is missed.
LEMMA CloseRefines ==
    ASSUME IInv, NEW c \in Callers, call[c] # None, Goes(c, Closed(call[c])),
           UNCHANGED <<storage, requests, held>>
    PROVE  Sync!Miss(c) \/ UNCHANGED Sync!syncVars
<1> DEFINE k == call[c]
           n == Closed(call[c])
<1>1. k \in Calling /\ Sound(k)
  BY CallsAreSound
<1>2. /\ n \in Calling /\ n.left = <<>> /\ n.kind = k.kind /\ n.what = k.what
      /\ n.copy = k.copy /\ n.got = k.got
  BY <1>1, ClosedCall
<1>3. Goes(c, n)
  OBVIOUS
<1>4. calling[c] = ongoing(k)
  BY DEF calling
<1>5. UNCHANGED <<version, synced, held>> /\ offers' = offers
  BY DEF storage, offers
<1> HIDE DEF n
<1>6. confirmed(n) = (k.got > 0)
  BY <1>2, NothingLeft
<1>7. CASE confirmed(n) = confirmed(k)
  <2>1. ongoing(n) = ongoing(k)
    BY <1>1, <1>2, <1>7, SameOngoing
  <2> QED
    BY <1>3, <1>5, <2>1, NoneChanges, SyncVars
<1>8. CASE confirmed(n) # confirmed(k)
  <2>1. confirmed(n) = FALSE
    BY <1>6, <1>8 DEF confirmed
  <2>2. ongoing(n) = [ongoing(k) EXCEPT !.confirmed = FALSE]
    BY <1>1, <1>2, <2>1, OngoingCall
  <2>3. calling' = [calling EXCEPT ![c] = ongoing(n)]
    BY <1>3, OneChanges
  <2>4. calling' = [calling EXCEPT ![c].confirmed = FALSE]
    BY <1>4, <2>2, <2>3
  <2>5. calling[c] # None
    BY <1>1, <1>4, OngoingCall
  <2> QED
    BY <1>5, <2>4, <2>5 DEF Sync!Miss, calling, offers
<1> QED
  BY <1>7, <1>8

\* Reading a reply, or none.
LEMMA LoopRefines ==
    ASSUME IInv, NEW c \in Callers, NextReply(c) \/ Deadline(c)
    PROVE  Sync!Miss(c) \/ UNCHANGED Sync!syncVars
<1>1. /\ call[c] # None /\ call[c].at = "wait"
      /\ UNCHANGED <<storage, requests, held>>
  BY DEF NextReply, Deadline, Waiting, At
<1>2. CASE Goes(c, Closed(call[c]))
  BY <1>1, <1>2, CloseRefines
<1>3. CASE /\ call[c].left # <<>> /\ Head(call[c].left) = "ok"
           /\ Goes(c, [call[c] EXCEPT !.left = Tail(@), !.got = @ + 1])
  <2> DEFINE k == call[c]
             n == [call[c] EXCEPT !.left = Tail(@), !.got = @ + 1]
  <2>1. k \in Calling /\ Sound(k)
    BY <1>1, CallsAreSound
  <2>2. k.left \in Seq(AllReplies) /\ k.left # <<>> /\ k.got \in Nat
    BY <2>1, <1>3 DEF Calling
  <2>3. /\ n \in Calling /\ n.got = k.got + 1
        /\ n.kind = k.kind /\ n.what = k.what /\ n.copy = k.copy
    BY <1>1, <1>3, <2>1, CountedCall
  <2>4. Goes(c, n)
    BY <1>3
  <2> HIDE DEF n
  <2>5. confirmed(n) = TRUE
    BY <2>2, <2>3 DEF confirmed
  <2>6. confirmed(k) = TRUE
    <3>1. /\ Head(k.left) = k.left[1] /\ Len(k.left) >= 1
      BY <2>2, TailOfInbox
    <3>2. 1 \in 1..Len(k.left)
      BY <2>2, <3>1, SMT
    <3> QED
      BY <1>3, <3>1, <3>2 DEF confirmed
  <2>7. ongoing(n) = ongoing(k)
    BY <2>1, <2>3, <2>5, <2>6, SameOngoing
  <2>8. calling' = calling
    BY <2>4, <2>7, NoneChanges
  <2> QED
    BY <1>1, <2>8, SyncVars DEF storage, offers
<1> QED
  BY <1>2, <1>3 DEF NextReply, Deadline, Counts

\* What a caller does after the loop, or without one.
LEMMA HandlerRefines ==
    ASSUME IInv, NEW c \in Callers,
           \/ Unreachable(c) \/ PushReturns(c) \/ DeleteReturns(c)
           \/ DeleteIssue(c) \/ StorageError(c)
    PROVE  Sync!Next \/ UNCHANGED Sync!syncVars
<1> DEFINE k == call[c]
<1>1. k # None
  BY DEF Unreachable, PushReturns, DeleteReturns, DeleteIssue, StorageError, At
<1>2. k \in Calling /\ Sound(k)
  BY <1>1, CallsAreSound
<1>3. /\ calling[c] = ongoing(k) /\ calling[c] # None
      /\ calling[c].kind = k.kind /\ calling[c].copy = k.copy
      /\ calling[c].confirmed = confirmed(k)
  BY <1>2, OngoingCall DEF calling
<1>4. ongoing(None) = None
  BY DEF ongoing
<1>5. offers' = offers
  BY DEF Unreachable, PushReturns, DeleteReturns, DeleteIssue, StorageError,
         offers
<1>6. ASSUME NEW p \in {"done", "issue"}, Goes(c, [k EXCEPT !.at = p])
      PROVE  calling' = calling
  <2> DEFINE n == [k EXCEPT !.at = p]
  <2>1. n \in Calling
    BY <1>2 DEF Calling, Places
  <2>2. /\ n.kind = k.kind /\ n.what = k.what /\ n.copy = k.copy
        /\ n.got = k.got /\ n.left = k.left
    BY <1>2 DEF Calling
  <2>3. Goes(c, n)
    BY <1>6
  <2> HIDE DEF n
  <2>4. confirmed(n) = confirmed(k)
    BY <2>2 DEF confirmed
  <2> QED
    BY <1>2, <2>1, <2>2, <2>3, <2>4, SameOngoing, NoneChanges
<1>7. Goes(c, None) => calling' = [calling EXCEPT ![c] = None]
  BY <1>4, OneChanges
<1>8. CASE Unreachable(c)
  <2>1. Goes(c, [k EXCEPT !.at = "done"]) /\ UNCHANGED <<version, synced, held>>
    BY <1>8 DEF Unreachable, storage
  <2> QED
    BY <1>5, <1>6, <2>1, SyncVars
<1>9. CASE PushReturns(c)
  <2>1. k.left = <<>> /\ k.kind = "push"
    BY <1>1, <1>2, <1>9 DEF PushReturns, At, Sound
  <2>2. synced' = (k.copy \/ confirmed(k))
    BY <1>9, <2>1, NothingLeft DEF PushReturns
  <2>3. Sync!EndPush(c)
    BY <1>3, <1>5, <1>7, <1>9, <2>1, <2>2
    DEF PushReturns, Sync!EndPush, Sync!Ends, calling, offers
  <2> QED
    BY <2>3 DEF Sync!Next
<1>10. CASE DeleteReturns(c)
  <2>1. calling' = calling
    BY <1>6, <1>10 DEF DeleteReturns
  <2>2. 0 \in Versions
    BY ResolverAssumption DEF Versions
  <2>3. Sync!Write
    BY <1>5, <1>10, <2>1, <2>2
    DEF DeleteReturns, Sync!Write, calling, offers
  <2> QED
    BY <2>3 DEF Sync!Next
<1>11. CASE DeleteIssue(c)
  <2>1. k.kind = "delete"
    BY <1>1, <1>2, <1>11 DEF DeleteIssue, At, Sound
  <2>2. Sync!EndDelete(c)
    BY <1>3, <1>5, <1>7, <1>11, <2>1
    DEF DeleteIssue, Sync!EndDelete, Sync!Ends, calling, offers
  <2> QED
    BY <2>2 DEF Sync!Next
<1>12. CASE StorageError(c)
  <2>1. Sync!Abandon
    BY <1>5, <1>7, <1>12
    DEF StorageError, storage, Sync!Abandon, Sync!Ends, calling, offers
  <2> QED
    BY <2>1 DEF Sync!Next
<1> QED
  BY <1>8, <1>9, <1>10, <1>11, <1>12

\* The end of the process, and a new JWT.
LEMMA ProcessRefines ==
    ASSUME IInv, (\E c \in Callers : NilServer(c)) \/ Crash \/ Change
    PROVE  Sync!Next
<1>1. CASE (\E c \in Callers : NilServer(c)) \/ Crash
  <2>1. /\ call' = [c \in Callers |-> None]
        /\ UNCHANGED <<version, synced, requests, held>>
    BY <1>1 DEF NilServer, Crash, storage
  <2>2. calling' = [c \in Callers |-> None]
    BY <2>1 DEF calling, ongoing
  <2>3. Sync!Abandon
    BY <2>1, <2>2 DEF Sync!Abandon, calling
  <2> QED
    BY <2>3 DEF Sync!Next
<1>2. CASE Change
  <2>1. version' \in Versions
    BY <1>2, NextIInv DEF Next, IInv, TypeOK
  <2>2. Sync!Write
    BY <1>2, <2>1 DEF Change, Sync!Write
  <2> QED
    BY <2>2 DEF Sync!Next
<1> QED
  BY <1>1, <1>2

\* A request that is dealt with is offered no more, unless another says the
\* same.
LEMMA OffersLose ==
    ASSUME NEW r \in requests, requests' = requests \ {r}
    PROVE  r.what \in offers /\ offers' \in {offers, offers \ {r.what}}
<1>1. r.what \in offers
  BY DEF offers
<1>2. offers' = {q.what : q \in requests \ {r}}
  BY DEF offers
<1>3. CASE \E q \in requests \ {r} : q.what = r.what
  BY <1>2, <1>3 DEF offers
<1>4. CASE ~\E q \in requests \ {r} : q.what = r.what
  BY <1>2, <1>4 DEF offers
<1> QED
  BY <1>1, <1>3, <1>4

\* A reply confirms, to the call it is for, if it counts, and only then.
LEMMA ReplyConfirms ==
    ASSUME IInv, NEW d \in Callers, NEW r \in requests,
           NEW reply \in AllReplies, NEW n, n = inbox(call[d], r, reply)
    PROVE  \/ ongoing(n) = ongoing(call[d])
           \/ /\ reply = "ok" /\ Waiting(d) /\ call[d].inbox = r.inbox
              /\ call[d] # None /\ call[d].what = r.what
              /\ ongoing(n) = Confirms(ongoing(call[d]))
<1>1. CASE call[d] = None
  BY <1>1 DEF inbox
<1>2. CASE call[d] # None
  <2>1. call[d] \in Calling /\ n \in Calling
    BY <1>2, CallsAreSound, InboxCall
  <2>2. /\ n.kind = call[d].kind /\ n.what = call[d].what
        /\ n.copy = call[d].copy /\ n.got = call[d].got
        /\ \/ n.left = call[d].left
           \/ /\ Waiting(d) /\ call[d].inbox = r.inbox
              /\ n.left = Append(call[d].left, reply)
    BY <1>2, InboxCall
  <2>3. CASE confirmed(n) = confirmed(call[d])
    BY <2>1, <2>2, <2>3, SameOngoing
  <2>4. CASE confirmed(n) # confirmed(call[d])
    <3>1. /\ Waiting(d) /\ call[d].inbox = r.inbox
          /\ n.left = Append(call[d].left, reply)
      BY <2>2, <2>4 DEF confirmed
    <3>2. call[d].what = r.what
      BY <3>1 DEF IInv, InboxOwn
    <3>3. call[d].left \in Seq(AllReplies)
      BY <2>1 DEF Calling
    <3>4. /\ Len(Append(call[d].left, reply)) = Len(call[d].left) + 1
          /\ Len(call[d].left) \in Nat
          /\ \A i \in 1..Len(call[d].left) :
                Append(call[d].left, reply)[i] = call[d].left[i]
      BY <3>3, SMT
    <3>5. \A i \in 1..Len(Append(call[d].left, reply)) :
             \/ /\ i \in 1..Len(call[d].left)
                /\ Append(call[d].left, reply)[i] = call[d].left[i]
             \/ Append(call[d].left, reply)[i] = reply
      BY <3>3, ArrivalInInbox
    <3>6. confirmed(call[d]) => confirmed(n)
      BY <2>2, <3>1, <3>4 DEF confirmed
    <3>7. confirmed(n) = TRUE /\ ~confirmed(call[d])
      BY <2>4, <3>6 DEF confirmed
    <3>8. reply = "ok"
      BY <2>2, <3>1, <3>5, <3>7 DEF confirmed
    <3>9. ongoing(n) = Confirms(ongoing(call[d]))
      BY <2>1, <2>2, <3>7, NowConfirmed
    <3> QED
      BY <1>2, <3>1, <3>2, <3>8, <3>9
  <2> QED
    BY <2>3, <2>4
<1> QED
  BY <1>1, <1>2

\* A reply reaches one call at most.
LEMMA OneConfirmed ==
    ASSUME IInv, NEW r \in requests, NEW reply \in AllReplies,
           call' = [c \in Callers |-> inbox(call[c], r, reply)]
    PROVE  \/ calling' = calling
           \/ reply = "ok" /\ \E c \in Callers :
                 /\ calling[c] # None /\ calling[c].what = r.what
                 /\ calling' = [calling EXCEPT ![c].confirmed = TRUE]
<1>1. \A d \in Callers :
         \/ ongoing(call'[d]) = ongoing(call[d])
         \/ /\ reply = "ok" /\ Waiting(d) /\ call[d].inbox = r.inbox
            /\ call[d] # None /\ call[d].what = r.what
            /\ ongoing(call'[d]) = Confirms(ongoing(call[d]))
  <2> TAKE d \in Callers
  <2> DEFINE n == inbox(call[d], r, reply)
  <2>1. call'[d] = n /\ n = inbox(call[d], r, reply)
    OBVIOUS
  <2> HIDE DEF n
  <2>2. \/ ongoing(n) = ongoing(call[d])
        \/ /\ reply = "ok" /\ Waiting(d) /\ call[d].inbox = r.inbox
           /\ call[d] # None /\ call[d].what = r.what
           /\ ongoing(n) = Confirms(ongoing(call[d]))
    BY <2>1, ReplyConfirms
  <2> QED
    BY <2>1, <2>2
<1>2. CASE \A d \in Callers : ongoing(call'[d]) = ongoing(call[d])
  BY <1>2 DEF calling
<1>3. ASSUME NEW c \in Callers, ongoing(call'[c]) # ongoing(call[c])
      PROVE  reply = "ok" /\ \E b \in Callers :
                 /\ calling[b] # None /\ calling[b].what = r.what
                 /\ calling' = [calling EXCEPT ![b].confirmed = TRUE]
  <2>1. /\ reply = "ok" /\ Waiting(c) /\ call[c].inbox = r.inbox
        /\ call[c] # None /\ call[c].what = r.what
        /\ ongoing(call'[c]) = Confirms(ongoing(call[c]))
    BY <1>1, <1>3
  <2>2. \A d \in Callers : d # c => ongoing(call'[d]) = ongoing(call[d])
    BY <1>1, <2>1 DEF IInv, InboxAlone
  <2>3. calling[c] = ongoing(call[c])
    BY DEF calling
  <2>4. calling[c] # None /\ calling[c].what = r.what
    BY <2>1, <2>3, CallsAreSound, OngoingCall
  <2>5. calling' = [d \in Callers |->
                      IF d = c THEN [calling[c] EXCEPT !.confirmed = TRUE]
                      ELSE calling[d]]
    BY <2>1, <2>2 DEF calling, Confirms
  <2>6. calling' = [calling EXCEPT ![c].confirmed = TRUE]
    BY <2>5 DEF calling
  <2> QED
    BY <2>1, <2>4, <2>6
<1> QED
  BY <1>2, <1>3

LEMMA TakeRefines ==
    ASSUME IInv, NEW r \in requests, Take(r)
    PROVE  \E s \in Servers : Sync!Take(s)
<1>1. r.to \in Servers
  BY DEF IInv, TypeOK, Request
<1>2. /\ requests' = requests \ {r} /\ held' = [held EXCEPT ![r.to] = r.what]
      /\ UNCHANGED <<version, synced>>
  BY DEF Take, storage
<1>3. r.what \in offers /\ offers' \in {offers, offers \ {r.what}}
  BY <1>2, OffersLose
<1>4. \/ calling' = calling
      \/ \E c \in Callers :
            /\ calling[c] # None /\ calling[c].what = r.what
            /\ calling' = [calling EXCEPT ![c].confirmed = TRUE]
  <2>1. CASE call' = call
    BY <2>1 DEF calling
  <2>2. CASE call' = [c \in Callers |-> inbox(call[c], r, "ok")]
    BY <2>2, OneConfirmed DEF AllReplies
  <2> QED
    BY <2>1, <2>2 DEF Take
<1> QED
  BY <1>1, <1>2, <1>3, <1>4 DEF Sync!Take, calling, offers

LEMMA RefuseRefines ==
    ASSUME IInv, NEW r \in requests, Refuse(r)
    PROVE  Sync!Lose \/ UNCHANGED Sync!syncVars
<1>1. requests' = requests \ {r} /\ UNCHANGED <<version, synced, held>>
  BY DEF Refuse, storage
<1>2. r.what \in offers /\ offers' \in {offers, offers \ {r.what}}
  BY <1>1, OffersLose
<1>3. PICK reply \in AllReplies \ {"ok"} :
            \/ call' = call
            \/ call' = [c \in Callers |-> inbox(call[c], r, reply)]
  BY ResolverAssumption DEF Refuse, IInv, TypeOK, AllReplies
<1>4. calling' = calling
  <2>1. CASE call' = call
    BY <2>1 DEF calling
  <2>2. CASE call' = [c \in Callers |-> inbox(call[c], r, reply)]
    BY <2>2, <1>3, OneConfirmed
  <2> QED
    BY <1>3, <2>1, <2>2
<1>5. CASE offers' = offers
  BY <1>1, <1>4, <1>5, SyncVars
<1>6. CASE offers' = offers \ {r.what}
  BY <1>1, <1>2, <1>4, <1>6 DEF Sync!Lose, calling, offers
<1> QED
  BY <1>2, <1>5, <1>6

\* Every step is one of AccountSync or changes nothing of it.
LEMMA StepRefines == IInv /\ [Next]_vars => [Sync!Next]_(Sync!syncVars)
<1> SUFFICES ASSUME IInv, [Next]_vars
             PROVE  Sync!Next \/ UNCHANGED Sync!syncVars
  OBVIOUS
<1>1. ASSUME NEW c \in Callers, NEW kind \in Kinds, Begin(c, kind)
      PROVE  Sync!Next
  BY <1>1, BeginRefines DEF Sync!Next, Kinds
<1>2. ASSUME NEW c \in Callers, Step(c) \/ StorageError(c)
      PROVE  Sync!Next \/ UNCHANGED Sync!syncVars
  <2>1. CASE Publish(c)
    BY <2>1, PublishRefines DEF Sync!Next
  <2>2. CASE NextReply(c) \/ Deadline(c)
    BY <2>2, LoopRefines DEF Sync!Next
  <2>3. CASE \/ Unreachable(c) \/ PushReturns(c) \/ DeleteReturns(c)
             \/ DeleteIssue(c) \/ StorageError(c)
    BY <2>3, HandlerRefines
  <2>4. CASE NilServer(c)
    BY <2>4, ProcessRefines
  <2> QED
    BY <1>2, <2>1, <2>2, <2>3, <2>4 DEF Step
<1>3. CASE Change \/ Crash
  BY <1>3, ProcessRefines
<1>4. CASE \E r \in requests : Take(r)
  BY <1>4, TakeRefines DEF Sync!Next
<1>5. CASE \E r \in requests : Refuse(r)
  BY <1>5, RefuseRefines DEF Sync!Next
<1>6. CASE UNCHANGED vars
  BY <1>6, SyncVars DEF vars, storage, calling, offers
<1> QED
  BY <1>1, <1>2, <1>3, <1>4, <1>5, <1>6 DEF Next, Rest

\* The exchange of messages implements what AccountSync promises.
THEOREM ResolverImplementsSync == Spec => SyncSpec
BY InitRefines, StepRefines, ResolverInvariant, PTL DEF Spec, SyncSpec, Sync!Spec

-----------------------------------------------------------------------------
(* What a deletion that every server confirmed is worth.                   *)

\* replies of an inbox that will be counted
Oks(replies) == {i \in 1..Len(replies) : replies[i] = "ok"}
\* the replies a call has counted, and those it may
Budget(k) == k.got + Cardinality(Oks(k.left))
\* the servers that have dealt with a call about w, the way it asked for
Done(w) == {s \in site.servers : /\ held[s] = w
                                 /\ \A r \in requests : r.to # s}

\* As long as nothing but the requests of the call is under way, one for a
\* server, no server is counted twice, and none that has not done what was
\* asked.
Counted(k) ==
    (k # None /\ k.clean) =>
        /\ \A r \in requests : r.what = k.what
        /\ \A q, r \in requests : q.to = r.to => q = r
        /\ Budget(k) <= Cardinality(Done(k.what))
CountsServers == \A c \in Callers : Counted(call[c])

\* How many replies count is a number.
LEMMA OksAreFinite ==
    ASSUME NEW s \in Seq(AllReplies)
    PROVE  IsFiniteSet(Oks(s)) /\ Cardinality(Oks(s)) \in Nat
<1>1. Len(s) \in Nat
  BY SMT
<1>2. IsFiniteSet(1..Len(s)) /\ Oks(s) \in SUBSET (1..Len(s))
  BY <1>1, FS_Interval DEF Oks
<1>3. IsFiniteSet(Oks(s))
  BY <1>2, FS_Subset
<1> QED
  BY <1>3, FS_CardinalityType

\* So is how many servers are done, before and after a step.
LEMMA DoneIsFinite ==
    ASSUME IInv, NEW w
    PROVE  /\ IsFiniteSet(site.servers) /\ Cardinality(site.servers) \in Nat
           /\ IsFiniteSet(Done(w)) /\ Cardinality(Done(w)) \in Nat
<1>1. site.servers \in SUBSET Servers /\ IsFiniteSet(Servers)
  BY ResolverAssumption DEF IInv, TypeOK
<1>2. IsFiniteSet(site.servers)
  BY <1>1, FS_Subset
<1>3. Done(w) \in SUBSET site.servers
  BY DEF Done
<1>4. IsFiniteSet(Done(w))
  BY <1>2, <1>3, FS_Subset
<1> QED
  BY <1>2, <1>4, FS_CardinalityType

\* Nothing waits in an empty inbox.
LEMMA NoOks == Cardinality(Oks(<<>>)) = 0
<1>1. Oks(<<>>) = {}
  BY SMT DEF Oks
<1> QED
  BY <1>1, FS_EmptySet

\* A reply that counts adds one, any other none.
LEMMA OksOfAppend ==
    ASSUME NEW s \in Seq(AllReplies), NEW e \in AllReplies
    PROVE  Cardinality(Oks(Append(s, e))) =
               IF e = "ok" THEN Cardinality(Oks(s)) + 1
               ELSE Cardinality(Oks(s))
<1>1. /\ Len(s) \in Nat /\ Len(Append(s, e)) = Len(s) + 1
      /\ \A i \in 1..Len(s) : Append(s, e)[i] = s[i]
      /\ Append(s, e)[Len(s) + 1] = e
  BY SMT
<1>2. 1..(Len(s) + 1) = (1..Len(s)) \cup {Len(s) + 1}
  BY <1>1, SMT
<1>3. Len(s) + 1 \notin Oks(s)
  BY <1>1, SMT DEF Oks
<1>4. Oks(Append(s, e)) = IF e = "ok" THEN Oks(s) \cup {Len(s) + 1} ELSE Oks(s)
  BY <1>1, <1>2, <1>3 DEF Oks
<1>5. IsFiniteSet(Oks(s))
  BY OksAreFinite
<1> QED
  BY <1>3, <1>4, <1>5, FS_AddElement

\* Taking the first reply out takes one away if it counts, none otherwise.
LEMMA OksOfTail ==
    ASSUME NEW s \in Seq(AllReplies), s # <<>>
    PROVE  Cardinality(Oks(s)) =
               IF Head(s) = "ok" THEN Cardinality(Oks(Tail(s))) + 1
               ELSE Cardinality(Oks(Tail(s)))
<1> DEFINE T == Oks(Tail(s))
           U == Oks(s) \ {1}
           f == [i \in T |-> i + 1]
<1>1. /\ Len(s) \in Nat /\ Len(s) >= 1 /\ Head(s) = s[1]
      /\ Tail(s) \in Seq(AllReplies) /\ Len(Tail(s)) = Len(s) - 1
      /\ \A i \in 1..(Len(s) - 1) : Tail(s)[i] = s[i + 1]
  BY SMT
<1>2. IsFiniteSet(T) /\ IsFiniteSet(Oks(s))
  BY <1>1, OksAreFinite
<1>3. T \subseteq 1..(Len(s) - 1) /\ \A i \in T : s[i + 1] = "ok"
  BY <1>1 DEF Oks
<1>4. \A i \in T : i + 1 \in U
  BY <1>1, <1>3 DEF Oks
<1>5. \A j \in U : j - 1 \in T /\ f[j - 1] = j
  <2> SUFFICES ASSUME NEW j \in U PROVE j - 1 \in T /\ f[j - 1] = j
    OBVIOUS
  <2>1. j \in 1..Len(s) /\ j # 1 /\ s[j] = "ok"
    BY DEF Oks
  <2>2. j - 1 \in 1..(Len(s) - 1) /\ (j - 1) + 1 = j
    BY <2>1, <1>1
  <2>3. j - 1 \in T
    BY <2>1, <2>2, <1>1 DEF Oks
  <2> QED
    BY <2>2, <2>3
<1>6. f \in Bijection(T, U)
  <2>1. f \in [T -> U]
    BY <1>4
  <2>2. \A i, j \in T : f[i] = f[j] => i = j
    BY <1>3
  <2>3. \A j \in U : \E i \in T : f[i] = j
    BY <1>5
  <2> QED
    BY <2>1, <2>2, <2>3, Zenon DEF Bijection, Injection, Surjection, IsInjective
<1>7. Cardinality(U) = Cardinality(T)
  BY <1>2, <1>6, FS_Bijection DEF ExistsBijection
<1>8. 1 \in Oks(s) <=> Head(s) = "ok"
  BY <1>1 DEF Oks
<1>9. Cardinality(U) = IF Head(s) = "ok" THEN Cardinality(Oks(s)) - 1
                       ELSE Cardinality(Oks(s))
  BY <1>2, <1>8, FS_RemoveElement
<1>10. Cardinality(Oks(s)) \in Nat
  BY OksAreFinite
<1> QED
  BY <1>7, <1>9, <1>10


\* the servers that have after a step
DoneNext(w) == {s \in site'.servers : /\ held'[s] = w
                                      /\ \A r \in requests' : r.to # s}

\* What a call that is clean after a step has to count with.
LEMMA CountedNext ==
    ASSUME NEW d \in Callers,
           (call'[d] # None /\ call'[d].clean) =>
               /\ \A q \in requests' : q.what = call'[d].what
               /\ \A q, p \in requests' : q.to = p.to => q = p
               /\ Budget(call'[d]) <= Cardinality(DoneNext(call'[d].what))
    PROVE  Counted(call[d])'
BY DEF Counted, Budget, Done, DoneNext

\* It holds before the first call.
LEMMA InitCounts == Init => CountsServers
<1> SUFFICES ASSUME Init PROVE CountsServers
  OBVIOUS
<1>1. \A c \in Callers : call[c] = None
  BY DEF Init
<1> QED
  BY <1>1 DEF CountsServers, Counted

\* What a call counted stays counted when it goes on.
LEMMA GoesCounts ==
    ASSUME IInv, CountsServers, NEW c \in Callers, NEW k, Goes(c, k),
           (k # None /\ k.clean) =>
               /\ call[c] # None /\ call[c].clean
               /\ k.what = call[c].what
               /\ Budget(k) \in Nat /\ Budget(call[c]) \in Nat
               /\ Budget(k) <= Budget(call[c]),
           UNCHANGED <<site, requests, held>>
    PROVE  CountsServers'
<1>1. /\ call'[c] = k
      /\ \A d \in Callers : d # c => call'[d] = call[d]
  BY DEF Goes, IInv, TypeOK
<1>2. \A w : Done(w)' = Done(w)
  BY DEF Done
<1>3. Counted(k)
  <2>1. Counted(call[c])
    BY DEF CountsServers
  <2>2. Cardinality(Done(k.what)) \in Nat
    BY DoneIsFinite
  <2> QED
    BY <2>1, <2>2 DEF Counted
<1>4. \A d \in Callers : Counted(call'[d])
  BY <1>1, <1>3 DEF CountsServers
<1>5. ASSUME NEW d \in Callers PROVE Counted(call[d])'
  BY <1>2, <1>4 DEF Counted, Budget
<1> QED
  BY <1>5 DEF CountsServers

\* The budget of a call is a number.
LEMMA BudgetIsNat ==
    ASSUME NEW k \in Calling
    PROVE  /\ k.got \in Nat /\ k.left \in Seq(AllReplies)
           /\ Cardinality(Oks(k.left)) \in Nat /\ Budget(k) \in Nat
<1>1. k.got \in Nat /\ k.left \in Seq(AllReplies)
  BY DEF Calling
<1> QED
  BY <1>1, OksAreFinite DEF Budget

\* Reading moves a reply from the inbox to the count, or drops it.
LEMMA LoopCounts ==
    ASSUME IInv, CountsServers, NEW c \in Callers, NextReply(c) \/ Deadline(c)
    PROVE  CountsServers'
<1>1. Waiting(c) /\ call[c] # None /\ call[c].at = "wait"
      /\ UNCHANGED <<site, requests, held>>
  BY DEF NextReply, Deadline, Waiting, At, storage
<1>2. call[c] \in Calling /\ Sound(call[c])
  BY <1>1, CallsAreSound
<1>3. CASE Goes(c, Closed(call[c]))
  <2> DEFINE n == Closed(call[c])
  <2>1. /\ n \in Calling /\ n.left = <<>> /\ n.got = call[c].got
        /\ n.what = call[c].what /\ n.clean = call[c].clean
    BY <1>2, ClosedCall
  <2>2. Goes(c, n)
    BY <1>3
  <2> HIDE DEF n
  <2>3. Budget(n) \in Nat /\ Budget(call[c]) \in Nat
        /\ Budget(n) <= Budget(call[c])
    BY <1>2, <2>1, BudgetIsNat, NoOks DEF Budget
  <2> QED
    BY <1>1, <2>1, <2>2, <2>3, GoesCounts
<1>4. CASE /\ Head(call[c].left) = "ok" /\ call[c].left # <<>>
           /\ Goes(c, [call[c] EXCEPT !.left = Tail(@), !.got = @ + 1])
  <2> DEFINE n == [call[c] EXCEPT !.left = Tail(@), !.got = @ + 1]
  <2>1. /\ n \in Calling /\ n.left = Tail(call[c].left)
        /\ n.got = call[c].got + 1
        /\ n.what = call[c].what /\ n.clean = call[c].clean
    BY <1>1, <1>2, <1>4, CountedCall
  <2>2. Goes(c, n)
    BY <1>4
  <2> HIDE DEF n
  <2>3. Cardinality(Oks(call[c].left)) = Cardinality(Oks(n.left)) + 1
    BY <1>2, <1>4, <2>1, BudgetIsNat, OksOfTail
  <2>4. Budget(n) \in Nat /\ Budget(call[c]) \in Nat
        /\ Budget(n) <= Budget(call[c])
    BY <1>2, <2>1, <2>3, BudgetIsNat DEF Budget
  <2> QED
    BY <1>1, <2>1, <2>2, <2>4, GoesCounts
<1> QED
  BY <1>3, <1>4 DEF NextReply, Deadline, Counts

\* What else a handler does with its call counts nothing.
LEMMA HandlerCounts ==
    ASSUME IInv, CountsServers, NEW c \in Callers,
           \/ \E kind \in Kinds : Begin(c, kind)
           \/ Unreachable(c) \/ PushReturns(c) \/ DeleteReturns(c)
           \/ DeleteIssue(c) \/ StorageError(c)
    PROVE  CountsServers'
<1>1. UNCHANGED <<site, requests, held>>
  BY DEF Begin, Unreachable, PushReturns, DeleteReturns, DeleteIssue,
         StorageError, storage
<1>2. CASE \E kind \in Kinds : Begin(c, kind)
  <2>1. PICK k \in Calling : Goes(c, k) /\ ~k.clean
    BY <1>2, BeginCalls
  <2> QED
    BY <1>1, <2>1, GoesCounts
<1>3. CASE Goes(c, None)
  BY <1>1, <1>3, GoesCounts
<1>4. ASSUME NEW place \in Places, call[c] # None,
             Goes(c, [call[c] EXCEPT !.at = place])
      PROVE  CountsServers'
  <2> DEFINE n == [call[c] EXCEPT !.at = place]
  <2>1. call[c] \in Calling
    BY <1>4, CallsAreSound
  <2>2. /\ n \in Calling /\ n.left = call[c].left /\ n.got = call[c].got
        /\ n.what = call[c].what /\ n.clean = call[c].clean
    BY <2>1 DEF Calling
  <2>3. Goes(c, n)
    BY <1>4
  <2> HIDE DEF n
  <2>4. Budget(n) = Budget(call[c]) /\ Budget(call[c]) \in Nat
    BY <2>1, <2>2, BudgetIsNat DEF Budget
  <2> QED
    BY <1>1, <1>4, <2>2, <2>3, <2>4, GoesCounts
<1>5. CASE Unreachable(c) \/ DeleteReturns(c)
  BY <1>4, <1>5 DEF Unreachable, DeleteReturns, At, Places
<1> QED
  BY <1>2, <1>3, <1>5 DEF PushReturns, DeleteIssue, StorageError

\* A deletion that is published when nothing is under way begins with no
\* reply and one request for a server; no other call is clean any more.
LEMMA PublishCounts ==
    ASSUME IInv, CountsServers, NEW c \in Callers, Publish(c)
    PROVE  CountsServers'
<1>1. PICK i \in Inboxes :
         requests' = requests \cup [to : site.servers,
                                    what : {call[c].what}, inbox : {i}]
  BY PublishCalls
<1>2. call[c] \in Calling /\ call[c].at = "connect" /\ call[c] # None
  BY PublishCalls, NoneAssumption
<1>3. call[c].got = 0 /\ call[c].left = <<>>
  BY <1>2, CallsAreSound DEF Sound
<1>4. ASSUME NEW d \in Callers PROVE Counted(call[d])'
  <2> SUFFICES ASSUME call'[d] # None, call'[d].clean
               PROVE  /\ \A r \in requests' : r.what = call'[d].what
                      /\ \A q, r \in requests' : q.to = r.to => q = r
                      /\ Budget(call'[d]) <= Cardinality(DoneNext(call'[d].what))
    BY CountedNext
  <2>1. d = c
    BY PublishCalls
  <2>2. requests = {}
    BY <2>1, PublishCalls
  <2>3. /\ call'[d].what = call[c].what
        /\ call'[d].got = 0 /\ call'[d].left = <<>>
    BY <1>2, <1>3, <2>1, PublishCalls
  <2>4. /\ \A r \in requests' : r.what = call'[d].what
        /\ \A q, r \in requests' : q.to = r.to => q = r
    BY <1>1, <2>2, <2>3
  <2>5. Budget(call'[d]) = 0
    BY <2>3, NoOks DEF Budget
  <2>6. IInv'
    BY PublishIInv
  <2>7. Cardinality(DoneNext(call'[d].what)) \in Nat
    <3>1. site'.servers \in SUBSET Servers /\ IsFiniteSet(Servers)
      BY <2>6, ResolverAssumption DEF IInv, TypeOK
    <3>2. DoneNext(call'[d].what) \in SUBSET Servers
      BY <3>1 DEF DoneNext
    <3> QED
      BY <3>1, <3>2, FS_Subset, FS_CardinalityType
  <2> QED
    BY <2>4, <2>5, <2>7
<1> QED
  BY <1>4 DEF CountsServers

\* What a reply does to a clean call: it joins the inbox, or is lost.
LEMMA AnswerCounts ==
    ASSUME IInv, NEW r \in requests, NEW reply \in AllReplies,
           \/ call' = call
           \/ call' = [c \in Callers |-> inbox(call[c], r, reply)],
           NEW d \in Callers, call'[d] # None, call'[d].clean
    PROVE  /\ call[d] # None /\ call[d].clean
           /\ call'[d].what = call[d].what
           /\ Budget(call[d]) \in Nat
           /\ Budget(call'[d]) \in
                 {Budget(call[d]),
                  IF reply = "ok" THEN Budget(call[d]) + 1
                  ELSE Budget(call[d])}
<1>1. CASE call' = call
  BY <1>1, CallsAreSound, BudgetIsNat
<1>2. CASE call' = [c \in Callers |-> inbox(call[c], r, reply)]
  <2> DEFINE n == inbox(call[d], r, reply)
  <2>1. call'[d] = n /\ n = inbox(call[d], r, reply)
    BY <1>2
  <2> HIDE DEF n
  <2>2. /\ call[d] # None /\ n.what = call[d].what /\ n.got = call[d].got
        /\ n.clean = call[d].clean
        /\ n.left = call[d].left \/ n.left = Append(call[d].left, reply)
    BY <2>1, InboxCall
  <2>3. call[d] \in Calling
    BY <2>2, CallsAreSound
  <2>4. /\ call[d].got \in Nat /\ call[d].left \in Seq(AllReplies)
        /\ Cardinality(Oks(call[d].left)) \in Nat /\ Budget(call[d]) \in Nat
    BY <2>3, BudgetIsNat
  <2>5. Cardinality(Oks(Append(call[d].left, reply))) =
            IF reply = "ok" THEN Cardinality(Oks(call[d].left)) + 1
            ELSE Cardinality(Oks(call[d].left))
    BY <2>4, OksOfAppend
  <2>6. Budget(n) \in {Budget(call[d]),
                       IF reply = "ok" THEN Budget(call[d]) + 1
                       ELSE Budget(call[d])}
    <3>1. CASE n.left = call[d].left
      BY <2>2, <3>1 DEF Budget
    <3>2. CASE n.left = Append(call[d].left, reply)
      <4>1. Budget(n) = call[d].got + Cardinality(Oks(Append(call[d].left, reply)))
        BY <2>2, <3>2 DEF Budget
      <4>2. Budget(call[d]) = call[d].got + Cardinality(Oks(call[d].left))
        BY DEF Budget
      <4> QED
        BY <4>1, <4>2, <2>4, <2>5
    <3> QED
      BY <2>2, <3>1, <3>2
  <2> QED
    BY <2>1, <2>2, <2>4, <2>6
<1> QED
  BY <1>1, <1>2

\* A server that did what a call asked for is one more that has, whether its
\* reply arrives or not.
LEMMA TakeCounts ==
    ASSUME IInv, CountsServers, NEW r \in requests, Take(r)
    PROVE  CountsServers'
<1>1. /\ requests' = requests \ {r} /\ held' = [held EXCEPT ![r.to] = r.what]
      /\ site' = site
  BY DEF Take, storage
<1>2. /\ r.to \in site.servers /\ held \in [Servers -> Versions]
      /\ site.servers \subseteq Servers
  BY ResolverAssumption DEF IInv, TypeOK, Addressed
<1>3. ASSUME NEW d \in Callers PROVE Counted(call[d])'
  <2> DEFINE w == call[d].what
             W == DoneNext(w)
  <2> SUFFICES ASSUME call'[d] # None, call'[d].clean
               PROVE  /\ \A q \in requests' : q.what = call'[d].what
                      /\ \A q, p \in requests' : q.to = p.to => q = p
                      /\ Budget(call'[d]) <= Cardinality(DoneNext(call'[d].what))
    BY CountedNext
  <2>1. /\ call[d] # None /\ call[d].clean /\ call'[d].what = w
        /\ Budget(call[d]) \in Nat
        /\ Budget(call'[d]) \in {Budget(call[d]), Budget(call[d]) + 1}
    BY AnswerCounts DEF Take, AllReplies
  <2>2. /\ \A q \in requests : q.what = w
        /\ \A q, p \in requests : q.to = p.to => q = p
        /\ Budget(call[d]) <= Cardinality(Done(w))
    BY <2>1 DEF CountsServers, Counted
  <2>3. W = {s \in site.servers : held'[s] = w
                                  /\ \A q \in requests' : q.to # s}
    BY <1>1 DEF DoneNext
  <2> HIDE DEF w, W
  <2>4. r.to \notin Done(w)
    BY DEF Done
  <2>5. r.to \in W
    BY <1>1, <1>2, <2>2, <2>3
  <2>6. Done(w) \subseteq W
    BY <1>1, <1>2, <2>3, <2>4 DEF Done
  <2>7. IsFiniteSet(Done(w)) /\ Cardinality(Done(w)) \in Nat
        /\ IsFiniteSet(site.servers)
    BY DoneIsFinite
  <2>8. IsFiniteSet(W) /\ Cardinality(W) \in Nat
    <3>1. W \in SUBSET site.servers
      BY <2>3
    <3> QED
      BY <2>7, <3>1, FS_Subset, FS_CardinalityType
  <2>9. Cardinality(Done(w)) + 1 <= Cardinality(W)
    <3>1. Cardinality(Done(w) \cup {r.to}) = Cardinality(Done(w)) + 1
      BY <2>4, <2>7, FS_AddElement
    <3>2. Cardinality(Done(w) \cup {r.to}) <= Cardinality(W)
      BY <2>5, <2>6, <2>8, FS_Subset
    <3> QED
      BY <3>1, <3>2
  <2>10. /\ \A q \in requests' : q.what = w
         /\ \A q, p \in requests' : q.to = p.to => q = p
    BY <1>1, <2>2
  <2>11. Budget(call'[d]) <= Cardinality(W)
    BY <2>1, <2>2, <2>7, <2>8, <2>9
  <2> QED
    BY <2>1, <2>10, <2>11 DEF W
<1> QED
  BY <1>3 DEF CountsServers

\* A server that did not has not been counted, and is not now.
LEMMA RefuseCounts ==
    ASSUME IInv, CountsServers, NEW r \in requests, Refuse(r)
    PROVE  CountsServers'
<1>1. requests' = requests \ {r} /\ held' = held /\ site' = site
  BY DEF Refuse, storage
<1>2. PICK reply \in AllReplies \ {"ok"} :
            \/ call' = call
            \/ call' = [c \in Callers |-> inbox(call[c], r, reply)]
  BY ResolverAssumption DEF Refuse, IInv, TypeOK, AllReplies
<1>3. ASSUME NEW d \in Callers PROVE Counted(call[d])'
  <2> DEFINE w == call[d].what
             W == DoneNext(w)
  <2> SUFFICES ASSUME call'[d] # None, call'[d].clean
               PROVE  /\ \A q \in requests' : q.what = call'[d].what
                      /\ \A q, p \in requests' : q.to = p.to => q = p
                      /\ Budget(call'[d]) <= Cardinality(DoneNext(call'[d].what))
    BY CountedNext
  <2>1. /\ call[d] # None /\ call[d].clean /\ call'[d].what = w
        /\ Budget(call[d]) \in Nat /\ Budget(call'[d]) = Budget(call[d])
    BY <1>2, AnswerCounts
  <2>2. /\ \A q \in requests : q.what = w
        /\ \A q, p \in requests : q.to = p.to => q = p
        /\ Budget(call[d]) <= Cardinality(Done(w))
    BY <2>1 DEF CountsServers, Counted
  <2>3. W = {s \in site.servers : held[s] = w
                                  /\ \A q \in requests' : q.to # s}
    BY <1>1 DEF DoneNext
  <2> HIDE DEF w, W
  <2>4. Done(w) \subseteq W
    BY <1>1, <2>3 DEF Done
  <2>5. IsFiniteSet(site.servers) /\ Cardinality(Done(w)) \in Nat
    BY DoneIsFinite
  <2>6. IsFiniteSet(W) /\ Cardinality(W) \in Nat
    <3>1. W \in SUBSET site.servers
      BY <2>3
    <3> QED
      BY <2>5, <3>1, FS_Subset, FS_CardinalityType
  <2>7. Cardinality(Done(w)) <= Cardinality(W)
    BY <2>4, <2>6, FS_Subset
  <2>8. Budget(call'[d]) <= Cardinality(W)
    BY <2>1, <2>2, <2>5, <2>6, <2>7
  <2> QED
    BY <1>1, <2>1, <2>2, <2>8 DEF W
<1> QED
  BY <1>3 DEF CountsServers

LEMMA NextCounts == IInv /\ CountsServers /\ [Next]_vars => CountsServers'
<1> SUFFICES ASSUME IInv, CountsServers, [Next]_vars PROVE CountsServers'
  OBVIOUS
<1>1. ASSUME NEW c \in Callers,
             (\E kind \in Kinds : Begin(c, kind)) \/ Step(c) \/ StorageError(c)
      PROVE  CountsServers'
  <2>1. CASE Publish(c)
    BY <2>1, PublishCounts
  <2>2. CASE NextReply(c) \/ Deadline(c)
    BY <2>2, LoopCounts
  <2>3. CASE \/ \E kind \in Kinds : Begin(c, kind)
             \/ Unreachable(c) \/ PushReturns(c) \/ DeleteReturns(c)
             \/ DeleteIssue(c) \/ StorageError(c)
    BY <2>3, HandlerCounts
  <2>4. CASE NilServer(c)
    <3>1. \A d \in Callers : call'[d] = None
      BY <2>4 DEF NilServer
    <3> QED
      BY <3>1 DEF CountsServers, Counted
  <2> QED
    BY <1>1, <2>1, <2>2, <2>3, <2>4 DEF Step
<1>2. CASE Crash
  <2>1. \A d \in Callers : call'[d] = None
    BY <1>2 DEF Crash
  <2> QED
    BY <2>1 DEF CountsServers, Counted
<1>3. CASE Change \/ UNCHANGED vars
  <2>1. UNCHANGED <<site, call, requests, held>>
    BY <1>3 DEF Change, vars, storage
  <2> QED
    BY <2>1 DEF CountsServers, Counted, Budget, Done
<1>4. CASE \E r \in requests : Take(r) \/ Refuse(r)
  BY <1>4, TakeCounts, RefuseCounts
<1> QED
  BY <1>1, <1>2, <1>3, <1>4 DEF Next, Rest

\* As many confirmations as there are servers come from all of them.
LEMMA AllConfirmed == IInv /\ CountsServers => ConfirmedDeletion
<1> SUFFICES ASSUME IInv, CountsServers, NEW c \in Callers,
                    call[c] # None, call[c].kind = "delete", call[c].clean,
                    call[c].got = Cardinality(site.servers)
             PROVE  requests = {} /\ \A s \in site.servers : held[s] = 0
  BY DEF ConfirmedDeletion
<1>1. call[c] \in Calling /\ call[c].what = 0
  BY CallsAreSound, NoneAssumption DEF Sound
<1>2. /\ IsFiniteSet(site.servers) /\ Cardinality(site.servers) \in Nat
      /\ Cardinality(Done(0)) \in Nat
  BY DoneIsFinite
<1>3. Done(0) \in SUBSET site.servers
  BY DEF Done
<1>4. /\ call[c].got \in Nat /\ Cardinality(Oks(call[c].left)) \in Nat
      /\ Budget(call[c]) = call[c].got + Cardinality(Oks(call[c].left))
  BY <1>1, BudgetIsNat DEF Budget
<1>5. Budget(call[c]) <= Cardinality(Done(0))
  BY <1>1 DEF CountsServers, Counted
<1>6. Cardinality(site.servers) <= Cardinality(Done(0))
  BY <1>2, <1>4, <1>5
<1>7. Cardinality(Done(0)) <= Cardinality(site.servers)
  BY <1>2, <1>3, FS_Subset
<1>8. Cardinality(Done(0)) = Cardinality(site.servers)
  BY <1>2, <1>6, <1>7
<1>9. Done(0) = site.servers
  BY <1>2, <1>3, <1>8, FS_Subset
<1>10. \A s \in site.servers : held[s] = 0 /\ \A r \in requests : r.to # s
  BY <1>9 DEF Done
<1> QED
  BY <1>10 DEF IInv, Addressed

\* ConfirmedDeletion, for every number of callers and servers: a deletion
\* sent while nothing else was under way, confirmed as often as there are
\* servers, leaves no server with the account and nothing on its way to one
\* as long as nobody publishes a request.
THEOREM DeletionConfirmed == Spec => []ConfirmedDeletion
<1>1. IInv /\ CountsServers /\ [Next]_vars => CountsServers'
  BY NextCounts
<1> QED
  BY <1>1, InitCounts, AllConfirmed, ResolverInvariant, PTL DEF Spec

=============================================================================
