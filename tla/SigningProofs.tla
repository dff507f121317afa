--------------------------- MODULE SigningProofs ---------------------------
(***************************************************************************)
(* A signing nkey is created for an issue that declares it, and is deleted *)
(* before that issue stops declaring it or goes.  As long as requests run  *)
(* one at a time this leaves none behind, whatever storage errors and      *)
(* crashes there are:                                                      *)
(*                                                                         *)
(*   Spec => []NoOrphanKeys.                                               *)
(*                                                                         *)
(* Between two steps of a handler it is the calls left on the agenda that  *)
(* have to bring nkeys and issues together again, and an error or a crash  *)
(* may take them away, so the invariant says of every agenda (Kept): a     *)
(* call that ends the declaration of an nkey has the deletion of the nkey  *)
(* ahead of it, with nothing in between that an error leads past           *)
(* (Settled); and a call that creates an nkey finds it declared, or has    *)
(* the storing of the issue that declares it ahead of it, with nothing in  *)
(* between that ends the declaration (Rooted).  A handler keeps to this if *)
(* what it puts on the agenda does by itself and fits what follows (Fits). *)
(*                                                                         *)
(* From that and from what the deletion of an issue does it follows that   *)
(* nothing is left of what the plugin answers to have deleted, unless      *)
(* nkeys or JWTs were imported:                                            *)
(*                                                                         *)
(*   Spec => []DeletedIsGone.                                              *)
(*                                                                         *)
(* Here the invariant says (Grounded) that an nkey or a JWT exists only    *)
(* with the issue it belongs to and is created only for one that exists or *)
(* is stored by the next call (Based); and that of the calls on an agenda  *)
(* only the last but one deletes an issue, the one that the request asked  *)
(* to delete, with calls before it that delete all that is stored of it    *)
(* (Ends).                                                                 *)
(***************************************************************************)
EXTENDS OneAtATimeProofs

-----------------------------------------------------------------------------
(* Signing nkeys and the issues that declare them.                         *)

Signing(p) == p[1] # "user" /\ p[3] # None

\* the signing nkeys that the stored issues ask for
Declared(p) ==
    \/ p[1] = "operator" /\ opIssue # None /\ p[3] \in opIssue.signing
    \/ /\ p[1] = "account" /\ accIssue[p[2]] # None
       /\ p[3] \in accIssue[p[2]].par.signing

\* the calls that store or delete an issue of an operator or an account
Writing  == {"putOperatorIssue", "putAccountIssue"}
Rewrites == Writing \cup {"deleteOperatorEntry", "deleteAccountEntry"}

\* the calls that delete what goes with an issue
Clears == {"deleteNkeys", "deleteOperatorJWT", "deleteAccountJWT"}

\* calls that hold a copy of an account's issue, to store it or delete it
Holding(c) == \/ c.op \in {"putAccountIssue", "updateAccountStatus"}
              \/ c.op \in Syncs /\ c.mode # "discard"

\* after the call c, or those it makes, an issue may declare p
Names(c, p) ==
    \/ /\ p[1] = "operator"
       /\ \/ c.op = "putOperatorIssue" /\ p[3] \in c.iss.signing
          \/ c.op = "addOperatorIssue" /\ p[3] \in c.par.signing
    \/ /\ p[1] = "account"
       /\ \/ Holding(c) /\ p[2] = c.acc /\ p[3] \in c.iss.par.signing
          \/ /\ c.op = "addAccountIssue" /\ p[2] = c.acc
             /\ p[3] \in c.par.signing

\* after the call c, or those it makes, no issue may declare p
Loses(c, p) ==
    \/ /\ p[1] = "operator" /\ ~Names(c, p)
       /\ c.op \in {"putOperatorIssue", "deleteOperatorEntry"}
    \/ /\ p[1] = "account" /\ ~Names(c, p)
       /\ Holding(c) \/ c.op = "deleteAccountEntry"
       /\ p[2] = c.acc

\* c creates the nkey at p, now or by the calls it makes
Adds(c, p) ==
    \/ c.op \in {"addNkey", "putNkey"} /\ p = c.path
    \/ c.op \in {"issueOperatorNkeys", "issueAccountNKeys"} /\ p \in c.todo
    \/ c.op = "refreshOperator" /\ p \in OpSignings(c.iss.signing)

\* The call at i is the first to change an issue, and ends the declaration of
\* p; before, the nkey at p is deleted, if it is stored.
Dropping(s, i, p, stored) ==
    /\ s[i].op \in Rewrites /\ Loses(s[i], p)
    /\ \A l \in 1..(i - 1) : s[l].op \in Clears
    /\ stored => \E l \in 1..(i - 1) :
                    s[l].op = "deleteNkeys" /\ p \in s[l].paths

\* A declaration ends by a call that drops it, which no error comes between,
\* and stays ended.
Settled(s, p, declared, stored) ==
    \A j \in 1..Len(s) : Loses(s[j], p) =>
        /\ \A i \in 1..(j - 1) : ~Names(s[i], p)
        /\ declared => \E i \in 1..j : /\ Dropping(s, i, p, stored)
                                       /\ \A l \in i..j : s[l].op # "catch"

\* calls that may come before the nkey at p is created
Leading(c, p) ==
    \/ c.op \in Clears
    \/ c.op \in Writing /\ ~Loses(c, p)
    \/ /\ c.op \in {"addNkey", "putNkey", "ensureIssue"}
       /\ c.path[1] = p[1] /\ c.path[2] = p[2]

\* before the call at j, an issue that declares p is stored
Founded(s, j, p) ==
    \E i \in 1..(j - 1) : /\ s[i].op \in Writing /\ Names(s[i], p)
                          /\ \A l \in 1..(i - 1) : s[l].op \in Clears

\* An nkey is created for an issue that declares it and keeps doing so.
Rooted(s, p, declared) ==
    \A j \in 1..Len(s) : Adds(s[j], p) =>
        /\ \A i \in 1..(j - 1) : Leading(s[i], p)
        /\ declared \/ Founded(s, j, p)

Kept(s, p, declared, stored) ==
    Settled(s, p, declared, stored) /\ Rooted(s, p, declared)

-----------------------------------------------------------------------------

\* where the calls of two sequences are, one after the other
LEMMA Joined ==
    ASSUME NEW n \in Seq(Call), NEW r \in Seq(Call)
    PROVE  LET m == n \o r IN
           /\ m \in Seq(Call) /\ Len(n) \in Nat /\ Len(r) \in Nat
           /\ Len(m) = Len(n) + Len(r)
           /\ \A k \in 1..Len(n) : m[k] = n[k]
           /\ \A k \in 1..Len(r) : m[Len(n) + k] = r[k]
           /\ \A j \in 1..Len(m) : \/ j \in 1..Len(n)
                                   \/ \E k \in 1..Len(r) : j = Len(n) + k
<1> DEFINE m == n \o r
<1>1. /\ m \in Seq(Call) /\ Len(n) \in Nat /\ Len(r) \in Nat
      /\ Len(m) = Len(n) + Len(r)
      /\ \A i \in 1..Len(m) : m[i] = IF i <= Len(n) THEN n[i]
                                   ELSE r[i - Len(n)]
  BY ConcatProperties, LenProperties
<1> HIDE DEF m
<1>2. ASSUME NEW k \in 1..Len(r)
      PROVE  m[Len(n) + k] = r[k]
  <2>1. /\ Len(n) + k \in 1..Len(m) /\ ~(Len(n) + k <= Len(n))
        /\ (Len(n) + k) - Len(n) = k
    BY <1>1
  <2> QED
    BY <1>1, <2>1
<1>3. ASSUME NEW j \in 1..Len(m), j \notin 1..Len(n)
      PROVE  \E k \in 1..Len(r) : j = Len(n) + k
  <2>1. j - Len(n) \in 1..Len(r) /\ j = Len(n) + (j - Len(n))
    BY <1>1, <1>3
  <2> QED
    BY <2>1
<1>4. \A k \in 1..Len(n) : m[k] = n[k]
  <2>1. \A k \in 1..Len(n) : k \in 1..Len(m) /\ k <= Len(n)
    BY <1>1
  <2> QED
    BY <1>1, <2>1
<1> QED
  BY <1>1, <1>2, <1>3, <1>4 DEF m

\* Deletions that change no issue may come first; p is the deletions' to delete
\* if none of the calls after them does.
LEMMA ClearsFirst ==
    ASSUME NEW p, NEW d \in BOOLEAN, NEW st \in BOOLEAN, NEW st2 \in BOOLEAN,
           NEW r \in Seq(Call), Kept(r, p, d, st), NEW n \in Seq(Call),
           \A j \in 1..Len(n) : n[j].op \in Clears,
           st2 => \/ st
                  \/ \E j \in 1..Len(n) :
                        n[j].op = "deleteNkeys" /\ p \in n[j].paths
    PROVE  Kept(n \o r, p, d, st2)
<1> DEFINE m == n \o r
<1>1. /\ m \in Seq(Call) /\ Len(n) \in Nat /\ Len(r) \in Nat
      /\ Len(m) = Len(n) + Len(r)
      /\ \A k \in 1..Len(n) : m[k] = n[k]
      /\ \A k \in 1..Len(r) : m[Len(n) + k] = r[k]
      /\ \A j \in 1..Len(m) : \/ j \in 1..Len(n)
                              \/ \E k \in 1..Len(r) : j = Len(n) + k
  BY Joined
<1> HIDE DEF m
<1>2. ASSUME NEW j \in 1..Len(n)
      PROVE  /\ m[j].op \in Clears /\ Leading(m[j], p)
             /\ ~Names(m[j], p) /\ ~Loses(m[j], p) /\ ~Adds(m[j], p)
  BY <1>1 DEF Clears, Names, Loses, Adds, Leading, Holding, Syncs
\* where the calls before the one that k is in r come from
<1>3. ASSUME NEW k \in 1..Len(r), NEW i \in 1..(Len(n) + k - 1)
      PROVE  i \in 1..Len(n) \/ \E l \in 1..(k - 1) : m[i] = r[l]
  <2>1. CASE i \notin 1..Len(n)
    <3>1. i - Len(n) \in 1..(k - 1) /\ i = Len(n) + (i - Len(n))
      BY <1>1, <1>3, <2>1
    <3>2. i - Len(n) \in 1..Len(r)
      BY <1>1, <3>1
    <3>3. m[i] = r[i - Len(n)]
      BY <1>1, <3>1, <3>2
    <3> QED
      BY <3>1, <3>3
  <2> QED
    BY <2>1
<1>4. ASSUME NEW i \in 1..Len(r), Dropping(r, i, p, st)
      PROVE  Dropping(m, Len(n) + i, p, st2)
  <2>1. \A l \in 1..(i - 1) : r[l].op \in Clears
    BY <1>4 DEF Dropping
  <2>2. \A l \in 1..(Len(n) + i - 1) : m[l].op \in Clears
    BY <1>2, <1>3, <2>1
  <2>3. ASSUME st2
        PROVE  \E l \in 1..(Len(n) + i - 1) :
                  m[l].op = "deleteNkeys" /\ p \in m[l].paths
    <3>1. CASE st
      <4>1. PICK l \in 1..(i - 1) : r[l].op = "deleteNkeys" /\ p \in r[l].paths
        BY <1>4, <3>1 DEF Dropping
      <4>2. l \in 1..Len(r) /\ Len(n) + l \in 1..(Len(n) + i - 1)
        BY <1>1
      <4> QED
        BY <1>1, <4>1, <4>2
    <3>2. ASSUME NEW j \in 1..Len(n), n[j].op = "deleteNkeys", p \in n[j].paths
          PROVE  \E l \in 1..(Len(n) + i - 1) :
                    m[l].op = "deleteNkeys" /\ p \in m[l].paths
      <4>1. j \in 1..(Len(n) + i - 1)
        BY <1>1
      <4> QED
        BY <1>1, <3>2, <4>1
    <3> QED
      BY <2>3, <3>1, <3>2
  <2>4. m[Len(n) + i] = r[i]
    BY <1>1
  <2> QED
    BY <1>4, <2>2, <2>3, <2>4 DEF Dropping
<1>5. Settled(m, p, d, st2)
  <2> SUFFICES ASSUME NEW j \in 1..Len(m), Loses(m[j], p)
               PROVE  /\ \A i \in 1..(j - 1) : ~Names(m[i], p)
                      /\ d => \E i \in 1..j :
                                 /\ Dropping(m, i, p, st2)
                                 /\ \A l \in i..j : m[l].op # "catch"
    BY DEF Settled
  <2>1. PICK k \in 1..Len(r) : j = Len(n) + k
    BY <1>1, <1>2
  <2>2. m[j] = r[k]
    BY <1>1, <2>1
  <2>3. \A i \in 1..(k - 1) : ~Names(r[i], p)
    BY <2>2 DEF Kept, Settled
  <2>4. ASSUME d
        PROVE  \E i \in 1..j : /\ Dropping(m, i, p, st2)
                               /\ \A l \in i..j : m[l].op # "catch"
    <3>1. PICK i \in 1..k : /\ Dropping(r, i, p, st)
                            /\ \A l \in i..k : r[l].op # "catch"
      BY <2>2, <2>4 DEF Kept, Settled
    <3>2. i \in 1..Len(r) /\ Len(n) + i \in 1..j
      BY <1>1, <2>1
    <3>3. ASSUME NEW l \in (Len(n) + i)..j
          PROVE  m[l].op # "catch"
      <4>1. /\ l - Len(n) \in i..k /\ l - Len(n) \in 1..Len(r)
            /\ l = Len(n) + (l - Len(n))
        BY <1>1, <2>1
      <4>2. m[l] = r[l - Len(n)]
        BY <1>1, <4>1
      <4> QED
        BY <3>1, <4>1, <4>2
    <3> QED
      BY <1>4, <3>1, <3>2, <3>3
  <2>5. \A i \in 1..(j - 1) : ~Names(m[i], p)
    BY <1>2, <1>3, <2>1, <2>3
  <2> QED
    BY <2>4, <2>5
<1>6. Rooted(m, p, d)
  <2> SUFFICES ASSUME NEW j \in 1..Len(m), Adds(m[j], p)
               PROVE  /\ \A i \in 1..(j - 1) : Leading(m[i], p)
                      /\ d \/ Founded(m, j, p)
    BY DEF Rooted
  <2>1. PICK k \in 1..Len(r) : j = Len(n) + k
    BY <1>1, <1>2
  <2>2. m[j] = r[k]
    BY <1>1, <2>1
  <2>3. (\A i \in 1..(k - 1) : Leading(r[i], p)) /\ (d \/ Founded(r, k, p))
    BY <2>2 DEF Kept, Rooted
  <2>4. \A i \in 1..(j - 1) : Leading(m[i], p)
    BY <1>2, <1>3, <2>1, <2>3
  <2>5. ASSUME Founded(r, k, p)
        PROVE  Founded(m, j, p)
    <3>1. PICK i \in 1..(k - 1) :
             /\ r[i].op \in Writing /\ Names(r[i], p)
             /\ \A l \in 1..(i - 1) : r[l].op \in Clears
      BY <2>5 DEF Founded
    <3>2. i \in 1..Len(r) /\ Len(n) + i \in 1..(j - 1)
      BY <1>1, <2>1
    <3>3. \A l \in 1..(Len(n) + i - 1) : m[l].op \in Clears
      BY <1>2, <1>3, <3>1, <3>2
    <3>4. m[Len(n) + i] = r[i]
      BY <1>1, <3>2
    <3> QED
      BY <3>1, <3>2, <3>3, <3>4 DEF Founded
  <2> QED
    BY <2>3, <2>4, <2>5
<1> QED
  BY <1>5, <1>6 DEF Kept, m

\* A call that deletes and changes no issue has been made.
LEMMA ClearsDone ==
    ASSUME NEW p, NEW d \in BOOLEAN, NEW st \in BOOLEAN, NEW st2 \in BOOLEAN,
           NEW s \in Seq(Call), s # <<>>, Kept(s, p, d, st),
           s[1].op \in Clears,
           st2 => st /\ ~(s[1].op = "deleteNkeys" /\ p \in s[1].paths)
    PROVE  Kept(Tail(s), p, d, st2)
<1> DEFINE m == Tail(s)
<1>1. /\ m \in Seq(Call) /\ Len(s) \in Nat /\ Len(s) > 0
      /\ Len(m) = Len(s) - 1
      /\ \A k \in 1..Len(m) : m[k] = s[k + 1] /\ k + 1 \in 1..Len(s)
  <2>1. m \in Seq(Call) /\ Len(m) = Len(s) - 1
        /\ \A k \in 1..Len(m) : m[k] = s[k + 1]
    BY HeadTailProperties
  <2>2. Len(s) \in Nat /\ Len(s) > 0
    BY LenProperties, EmptySeq
  <2> QED
    BY <2>1, <2>2
<1> HIDE DEF m
<1>2. \A k \in 1..Len(m) : \A i \in 1..(k - 1) :
         /\ m[i] = s[i + 1] /\ i + 1 \in 1..k
  BY <1>1
<1>3. s[1].op \notin Rewrites \cup Writing
  BY DEF Clears, Rewrites, Writing
<1>4. ASSUME NEW i \in 1..Len(m), Dropping(s, i + 1, p, st)
      PROVE  Dropping(m, i, p, st2)
  <2>1. \A l \in 1..i : s[l].op \in Clears
    BY <1>1, <1>4 DEF Dropping
  <2>2. \A l \in 1..(i - 1) : m[l].op \in Clears
    BY <1>1, <1>2, <2>1
  <2>3. ASSUME st2
        PROVE  \E l \in 1..(i - 1) : m[l].op = "deleteNkeys" /\ p \in m[l].paths
    <3>1. PICK l \in 1..i : s[l].op = "deleteNkeys" /\ p \in s[l].paths
      BY <1>1, <1>4, <2>3 DEF Dropping
    <3>2. l # 1
      BY <2>3, <3>1
    <3>3. l - 1 \in 1..(i - 1) /\ l = (l - 1) + 1
      BY <3>2
    <3> QED
      BY <1>2, <3>1, <3>3
  <2> QED
    BY <1>1, <1>4, <2>2, <2>3 DEF Dropping
<1>5. Settled(m, p, d, st2)
  <2> SUFFICES ASSUME NEW k \in 1..Len(m), Loses(m[k], p)
               PROVE  /\ \A i \in 1..(k - 1) : ~Names(m[i], p)
                      /\ d => \E i \in 1..k :
                                 /\ Dropping(m, i, p, st2)
                                 /\ \A l \in i..k : m[l].op # "catch"
    BY DEF Settled
  <2>1. Loses(s[k + 1], p) /\ k + 1 \in 1..Len(s) /\ (k + 1) - 1 = k
    BY <1>1
  <2>2. \A i \in 1..k : ~Names(s[i], p)
    BY <2>1 DEF Kept, Settled
  <2>3. ASSUME d
        PROVE  \E i \in 1..k : /\ Dropping(m, i, p, st2)
                               /\ \A l \in i..k : m[l].op # "catch"
    <3>1. PICK f \in 1..(k + 1) : /\ Dropping(s, f, p, st)
                                  /\ \A l \in f..(k + 1) : s[l].op # "catch"
      BY <2>1, <2>3 DEF Kept, Settled
    <3>2. f # 1
      BY <1>3, <3>1 DEF Dropping
    <3>3. /\ f - 1 \in 1..k /\ f = (f - 1) + 1 /\ f - 1 \in 1..Len(m)
      BY <1>1, <3>2
    <3>4. ASSUME NEW l \in (f - 1)..k
          PROVE  m[l].op # "catch"
      <4>1. l \in 1..Len(m) /\ l + 1 \in f..(k + 1)
        BY <1>1, <3>3
      <4> QED
        BY <1>1, <3>1, <4>1
    <3> QED
      BY <1>4, <3>1, <3>3, <3>4
  <2> QED
    BY <1>2, <2>2, <2>3
<1>6. Rooted(m, p, d)
  <2> SUFFICES ASSUME NEW k \in 1..Len(m), Adds(m[k], p)
               PROVE  /\ \A i \in 1..(k - 1) : Leading(m[i], p)
                      /\ d \/ Founded(m, k, p)
    BY DEF Rooted
  <2>1. Adds(s[k + 1], p) /\ k + 1 \in 1..Len(s) /\ (k + 1) - 1 = k
    BY <1>1
  <2>2. (\A i \in 1..k : Leading(s[i], p)) /\ (d \/ Founded(s, k + 1, p))
    BY <2>1 DEF Kept, Rooted
  <2>3. ASSUME Founded(s, k + 1, p)
        PROVE  Founded(m, k, p)
    <3>1. PICK f \in 1..k : /\ s[f].op \in Writing /\ Names(s[f], p)
                            /\ \A l \in 1..(f - 1) : s[l].op \in Clears
      BY <2>1, <2>3 DEF Founded
    <3>2. f # 1
      BY <1>3, <3>1
    <3>3. f - 1 \in 1..(k - 1) /\ f = (f - 1) + 1 /\ f - 1 \in 1..Len(m)
      BY <1>1, <3>2
    <3>4. m[f - 1] = s[f]
      BY <1>2, <3>3
    <3>5. ASSUME NEW l \in 1..((f - 1) - 1)
          PROVE  m[l].op \in Clears
      <4>1. l \in 1..Len(m) /\ l + 1 \in 1..(f - 1)
        BY <1>1, <3>3
      <4> QED
        BY <1>1, <3>1, <4>1
    <3> QED
      BY <3>1, <3>3, <3>4, <3>5 DEF Founded
  <2> QED
    BY <1>2, <2>2, <2>3
<1> QED
  BY <1>5, <1>6 DEF Kept, m

\* There is the less to delete, the fewer nkeys are stored.
LEMMA KeptLess ==
    ASSUME NEW s, NEW p, NEW d, NEW st, NEW st2, Kept(s, p, d, st), st2 => st
    PROVE  Kept(s, p, d, st2)
<1>1. ASSUME NEW i, Dropping(s, i, p, st)
      PROVE  Dropping(s, i, p, st2)
  BY <1>1 DEF Dropping
<1>2. ASSUME NEW j \in 1..Len(s), Loses(s[j], p)
      PROVE  /\ \A i \in 1..(j - 1) : ~Names(s[i], p)
             /\ d => \E i \in 1..j : /\ Dropping(s, i, p, st2)
                                     /\ \A l \in i..j : s[l].op # "catch"
  BY <1>1, <1>2 DEF Kept, Settled
<1> QED
  BY <1>2 DEF Kept, Settled, Rooted

\* The call t may leave the calls n in its place, as far as p is concerned.
Fits(t, n, p, d) ==
    /\ Kept(n, p, d, TRUE)
    /\ \A i \in 1..Len(n) : Names(n[i], p) => d \/ Names(t, p)
    /\ d /\ Leading(t, p) => \A i \in 1..Len(n) : Leading(n[i], p)

\* A call that changes no issue and deletes nothing has been made.
LEMMA QuietMade ==
    ASSUME NEW p, NEW d \in BOOLEAN, NEW st \in BOOLEAN, NEW st2 \in BOOLEAN,
           NEW s \in Seq(Call), s # <<>>, Kept(s, p, d, st),
           s[1].op \notin Rewrites \cup Clears,
           NEW n \in Seq(Call), Fits(s[1], n, p, d)
    PROVE  Kept(n \o Tail(s), p, d, st2)
<1> DEFINE m == n \o Tail(s)
<1>1. /\ m \in Seq(Call) /\ Len(n) \in Nat /\ Len(s) \in Nat /\ Len(s) > 0
      /\ Len(m) = Len(n) + Len(s) - 1
      /\ \A k \in 1..Len(n) : m[k] = n[k]
      /\ \A k \in 2..Len(s) : m[Len(n) + k - 1] = s[k]
      /\ \A j \in 1..Len(m) : \/ j \in 1..Len(n)
                              \/ \E k \in 2..Len(s) : j = Len(n) + k - 1
  BY Replaced
<1> HIDE DEF m
<1>2. Kept(n, p, d, st2)
  BY KeptLess DEF Fits
\* what comes after t ends no declaration and creates nothing undeclared
<1>3. ASSUME NEW k \in 2..Len(s)
      PROVE  /\ Loses(s[k], p) => ~d /\ \A i \in 1..(k - 1) : ~Names(s[i], p)
             /\ Adds(s[k], p) => d /\ \A i \in 1..(k - 1) : Leading(s[i], p)
  <2>1. k \in 1..Len(s) /\ \A i \in 1..k : i = 1 \/ 1 \in 1..(i - 1)
    BY <1>1
  <2>2. \A i \in 1..k : ~Dropping(s, i, p, st)
    BY <2>1 DEF Dropping
  <2>3. ~Founded(s, k, p)
    <3>1. ASSUME NEW i \in 1..(k - 1), s[i].op \in Writing,
                 \A l \in 1..(i - 1) : s[l].op \in Clears
          PROVE  FALSE
      <4>1. i = 1 \/ 1 \in 1..(i - 1)
        BY <1>1
      <4> QED
        BY <3>1, <4>1 DEF Rewrites
    <3> QED
      BY <3>1 DEF Founded
  <2> QED
    BY <2>1, <2>2, <2>3 DEF Kept, Settled, Rooted
<1>4. ASSUME NEW k \in 2..Len(s), NEW i \in 1..(Len(n) + k - 2)
      PROVE  i \in 1..Len(n) \/ \E l \in 1..(k - 1) : m[i] = s[l]
  <2>1. CASE i \notin 1..Len(n)
    <3>0. /\ i \in Int /\ k \in Int /\ Len(n) \in Int /\ Len(s) \in Int
          /\ i > Len(n) /\ i <= Len(n) + k - 2 /\ k <= Len(s) /\ Len(n) >= 0
      BY <1>1, <1>4, <2>1
    <3>1. /\ i - Len(n) + 1 \in 2..Len(s) /\ i - Len(n) + 1 \in 1..(k - 1)
          /\ i = Len(n) + (i - Len(n) + 1) - 1
      BY <3>0
    <3>2. m[i] = s[i - Len(n) + 1]
      BY <1>1, <3>1
    <3> QED
      BY <3>1, <3>2
  <2> QED
    BY <2>1
<1>5. ASSUME NEW k \in 2..Len(s)
      PROVE  1 \in 1..(k - 1)
  BY <1>1
<1>6. Settled(m, p, d, st2)
  <2> SUFFICES ASSUME NEW j \in 1..Len(m), Loses(m[j], p)
               PROVE  /\ \A i \in 1..(j - 1) : ~Names(m[i], p)
                      /\ d => \E i \in 1..j :
                                 /\ Dropping(m, i, p, st2)
                                 /\ \A l \in i..j : m[l].op # "catch"
    BY DEF Settled
  <2>1. CASE j \in 1..Len(n)
    <3>1. \A i \in 1..j : m[i] = n[i] /\ \A l \in i..j : m[l] = n[l]
      BY <1>1, <2>1
    <3>2. ASSUME NEW i \in 1..j, Dropping(n, i, p, st2)
          PROVE  Dropping(m, i, p, st2)
      <4>1. \A l \in 1..(i - 1) : m[l] = n[l]
        <5>1. i \in Int /\ j \in Int /\ i <= j /\ j <= Len(n) /\ Len(n) \in Int
          BY <1>1, <2>1
        <5>2. \A l \in 1..(i - 1) : l \in 1..Len(n)
          BY <5>1
        <5> QED
          BY <1>1, <5>2
      <4> QED
        BY <3>1, <3>2, <4>1 DEF Dropping
    <3>3. \A i \in 1..(j - 1) : m[i] = n[i]
      BY <1>1, <2>1
    <3>4. m[j] = n[j]
      BY <1>1, <2>1
    <3>5. /\ \A i \in 1..(j - 1) : ~Names(n[i], p)
          /\ d => \E i \in 1..j : /\ Dropping(n, i, p, st2)
                                  /\ \A l \in i..j : n[l].op # "catch"
      BY <1>2, <2>1, <3>4 DEF Kept, Settled
    <3> QED
      BY <3>1, <3>2, <3>3, <3>5
  <2>2. ASSUME NEW k \in 2..Len(s), j = Len(n) + k - 1
        PROVE  /\ \A i \in 1..(j - 1) : ~Names(m[i], p)
               /\ ~d
    <3>1. m[j] = s[k] /\ j - 1 = Len(n) + k - 2
      <4>1. m[Len(n) + k - 1] = s[k]
        BY <1>1
      <4>2. Len(n) \in Int /\ k \in Int
        BY <1>1
      <4>3. (Len(n) + k - 1) - 1 = Len(n) + k - 2
        BY <4>2
      <4> QED
        BY <2>2, <4>1, <4>3
    <3>2. ~d /\ \A i \in 1..(k - 1) : ~Names(s[i], p)
      BY <1>3, <3>1
    <3>3. \A i \in 1..Len(n) : ~Names(m[i], p)
      BY <1>1, <1>5, <3>2 DEF Fits
    <3> QED
      BY <1>4, <3>1, <3>2, <3>3
  <2> QED
    BY <1>1, <2>1, <2>2
<1>7. Rooted(m, p, d)
  <2> SUFFICES ASSUME NEW j \in 1..Len(m), Adds(m[j], p)
               PROVE  /\ \A i \in 1..(j - 1) : Leading(m[i], p)
                      /\ d \/ Founded(m, j, p)
    BY DEF Rooted
  <2>1. CASE j \in 1..Len(n)
    <3>1. \A i \in 1..(j - 1) : m[i] = n[i] /\ \A l \in 1..(i - 1) : m[l] = n[l]
      BY <1>1, <2>1
    <3>2. m[j] = n[j]
      BY <1>1, <2>1
    <3>3. (\A i \in 1..(j - 1) : Leading(n[i], p)) /\ (d \/ Founded(n, j, p))
      BY <1>2, <2>1, <3>2 DEF Kept, Rooted
    <3>4. Founded(n, j, p) => Founded(m, j, p)
      BY <3>1 DEF Founded
    <3> QED
      BY <3>1, <3>3, <3>4
  <2>2. ASSUME NEW k \in 2..Len(s), j = Len(n) + k - 1
        PROVE  (\A i \in 1..(j - 1) : Leading(m[i], p)) /\ d
    <3>1. m[j] = s[k] /\ j - 1 = Len(n) + k - 2
      <4>1. m[Len(n) + k - 1] = s[k]
        BY <1>1
      <4>2. Len(n) \in Int /\ k \in Int
        BY <1>1
      <4>3. (Len(n) + k - 1) - 1 = Len(n) + k - 2
        BY <4>2
      <4> QED
        BY <2>2, <4>1, <4>3
    <3>2. d /\ \A i \in 1..(k - 1) : Leading(s[i], p)
      BY <1>3, <3>1
    <3>3. \A i \in 1..Len(n) : Leading(m[i], p)
      BY <1>1, <1>5, <3>2 DEF Fits
    <3> QED
      BY <1>4, <3>1, <3>2, <3>3
  <2> QED
    BY <1>1, <2>1, <2>2
<1> QED
  BY <1>6, <1>7 DEF Kept, m

\* An issue has been stored or deleted.
LEMMA RewriteMade ==
    ASSUME NEW p, NEW d \in BOOLEAN, NEW st \in BOOLEAN,
           NEW s \in Seq(Call), s # <<>>, Kept(s, p, d, st),
           s[1].op \in Rewrites, st => d
    PROVE  LET now == Names(s[1], p) \/ (d /\ ~Loses(s[1], p)) IN
           /\ Kept(Tail(s), p, now, st)
           /\ st => now
<1> DEFINE m   == Tail(s)
           now == Names(s[1], p) \/ (d /\ ~Loses(s[1], p))
<1>1. /\ m \in Seq(Call) /\ Len(s) \in Nat /\ Len(s) > 0
      /\ Len(m) = Len(s) - 1
      /\ \A k \in 1..Len(m) : m[k] = s[k + 1] /\ k + 1 \in 1..Len(s)
  <2>1. m \in Seq(Call) /\ Len(m) = Len(s) - 1
        /\ \A k \in 1..Len(m) : m[k] = s[k + 1]
    BY HeadTailProperties
  <2>2. Len(s) \in Nat /\ Len(s) > 0
    BY LenProperties, EmptySeq
  <2> QED
    BY <2>1, <2>2
<1> HIDE DEF m
<1>2. \A k \in 1..Len(m) : \A i \in 1..(k - 1) :
         /\ m[i] = s[i + 1] /\ i + 1 \in 1..k
  BY <1>1
<1>3. s[1].op \notin Clears
  BY DEF Clears, Rewrites, Writing
<1>4. ASSUME NEW k \in Nat, NEW i \in 1..k, Dropping(s, i, p, st)
      PROVE  i = 1 /\ Loses(s[1], p) /\ ~st
  <2>1. i = 1 \/ 1 \in 1..(i - 1)
    OBVIOUS
  <2> QED
    BY <1>3, <1>4, <2>1 DEF Dropping
<1>5. ASSUME NEW k \in 1..Len(m), Loses(m[k], p)
      PROVE  (\A i \in 1..(k - 1) : ~Names(m[i], p)) /\ ~now
  <2>1. Loses(s[k + 1], p) /\ k + 1 \in 1..Len(s) /\ (k + 1) - 1 = k
        /\ k + 1 \in Nat
    BY <1>1, <1>5
  <2>2. \A i \in 1..k : ~Names(s[i], p)
    BY <2>1 DEF Kept, Settled
  <2>3. d => \E i \in 1..(k + 1) : Dropping(s, i, p, st)
    BY <2>1 DEF Kept, Settled
  <2>4. 1 \in 1..k
    OBVIOUS
  <2> QED
    BY <1>2, <1>4, <2>1, <2>2, <2>3, <2>4
<1>6. ASSUME NEW k \in 1..Len(m), Adds(m[k], p)
      PROVE  (\A i \in 1..(k - 1) : Leading(m[i], p)) /\ now
  <2>1. Adds(s[k + 1], p) /\ k + 1 \in 1..Len(s) /\ (k + 1) - 1 = k
    BY <1>1, <1>6
  <2>2. (\A i \in 1..k : Leading(s[i], p)) /\ (d \/ Founded(s, k + 1, p))
    BY <2>1 DEF Kept, Rooted
  <2>3. 1 \in 1..k
    OBVIOUS
  <2>4. ~Loses(s[1], p)
    BY <2>2, <2>3 DEF Leading, Rewrites, Writing, Clears
  <2>5. ASSUME Founded(s, k + 1, p)
        PROVE  Names(s[1], p)
    <3>1. PICK i \in 1..k : /\ Names(s[i], p)
                            /\ \A l \in 1..(i - 1) : s[l].op \in Clears
      BY <2>1, <2>5 DEF Founded
    <3>2. i = 1 \/ 1 \in 1..(i - 1)
      OBVIOUS
    <3> QED
      BY <1>3, <3>1, <3>2
  <2> QED
    BY <1>2, <2>2, <2>4, <2>5
<1>7. st => now
  <2>1. ASSUME st, Loses(s[1], p)
        PROVE  FALSE
    <3>1. 1 \in 1..Len(s) /\ 1 \in Nat
      BY <1>1
    <3>2. \E i \in 1..1 : Dropping(s, i, p, st)
      BY <2>1, <3>1 DEF Kept, Settled
    <3> QED
      BY <1>4, <2>1, <3>1, <3>2
  <2> QED
    BY <2>1
<1>8. Kept(m, p, now, st)
  BY <1>5, <1>6 DEF Kept, Settled, Rooted
<1> QED
  BY <1>7, <1>8 DEF m

\* What comes after an ignored error neither ends a declaration nor creates.
LEMMA CaughtKept ==
    ASSUME NEW p, NEW d \in BOOLEAN, NEW st \in BOOLEAN, NEW st2 \in BOOLEAN,
           NEW s \in Seq(Call), Kept(s, p, d, st)
    PROVE  Kept(Unwind(s), p, d, st2)
<1> DEFINE m == Unwind(s)
<1>1. CASE m = <<>>
  BY <1>1 DEF Kept, Settled, Rooted
<1>2. CASE m # <<>>
  <2>1. PICK f \in 1..Len(s) : /\ s[f].op = "catch" /\ Len(m) = Len(s) - f
                               /\ \A k \in 1..(Len(s) - f) : m[k] = s[f + k]
    BY <1>2, Unwound
  <2>2. Len(s) \in Nat
    BY LenProperties
  <2> HIDE DEF m
  <2>3. ASSUME NEW k \in 1..Len(m)
        PROVE  /\ f + k \in 1..Len(s) /\ m[k] = s[f + k]
               /\ f \in 1..((f + k) - 1)
               /\ \A i \in 1..(k - 1) :
                     m[i] = s[f + i] /\ f + i \in 1..((f + k) - 1)
    BY <2>1, <2>2
  <2>4. ~Leading(s[f], p) /\ s[f].op \notin Clears
    BY <2>1 DEF Leading, Clears, Writing
  <2>5. ASSUME NEW k \in 1..Len(m)
        PROVE  ~Adds(m[k], p)
    BY <2>3, <2>4 DEF Kept, Rooted
  <2>6. ASSUME NEW k \in 1..Len(m), Loses(m[k], p)
        PROVE  (\A i \in 1..(k - 1) : ~Names(m[i], p)) /\ ~d
    <3>1. \A i \in 1..((f + k) - 1) : ~Names(s[i], p)
      BY <2>3, <2>6 DEF Kept, Settled
    <3>2. ASSUME NEW i \in 1..(f + k), Dropping(s, i, p, st),
                 \A l \in i..(f + k) : s[l].op # "catch"
          PROVE  FALSE
      <4>1. f \in i..(f + k) \/ f \in 1..(i - 1)
        BY <2>2
      <4> QED
        BY <2>1, <2>4, <3>2, <4>1 DEF Dropping
    <3> QED
      BY <2>3, <2>6, <3>1, <3>2 DEF Kept, Settled
  <2> QED
    BY <2>5, <2>6 DEF Kept, Settled, Rooted, m
<1> QED
  BY <1>1, <1>2

-----------------------------------------------------------------------------
(* Calls that leave the declaration of p as it is.                         *)

Apt(c, p, d) == /\ Adds(c, p) => d
                /\ Names(c, p) => d
                /\ Loses(c, p) => ~d
Inert(p, d) == {c \in Call : Apt(c, p, d) /\ ~Adds(c, p)}
Plain(n, p, d) ==
    /\ n \in Seq(Call)
    /\ \A j \in 1..Len(n) :
          /\ Apt(n[j], p, d)
          /\ Adds(n[j], p) => \A i \in 1..(j - 1) : Leading(n[i], p)

\* Calls that keep to the declaration of p fit anywhere, unless an nkey may be
\* created after them.
LEMMA PlainFits ==
    ASSUME NEW t, NEW p, NEW d \in BOOLEAN, ~(d /\ Leading(t, p)),
           NEW n, Plain(n, p, d)
    PROVE  n \in Seq(Call) /\ Fits(t, n, p, d)
<1>1. \A j \in 1..Len(n) : \A i \in 1..(j - 1) : i \in 1..Len(n)
  BY LenProperties DEF Plain
<1> QED
  BY <1>1 DEF Plain, Apt, Fits, Kept, Settled, Rooted

\* Two calls, of which the second creates p only if the first may lead.
LEMMA PairPlain ==
    ASSUME NEW p, NEW d, NEW c \in Call, NEW e \in Call,
           Apt(c, p, d), Apt(e, p, d), Adds(e, p) => Leading(c, p)
    PROVE  Plain(<<c>> \o <<e>>, p, d) /\ Plain(<<c, e>>, p, d)
<1>1. ASSUME NEW n \in Seq(Call), Len(n) = 2, n[1] = c, n[2] = e
      PROVE  Plain(n, p, d)
  <2>1. /\ \A j \in 1..Len(n) : j = 1 \/ j = 2
        /\ \A i \in 1..(1 - 1) : FALSE
        /\ \A i \in 1..(2 - 1) : i = 1
    BY <1>1
  <2> QED
    BY <1>1, <2>1 DEF Plain
<1>2. LET n == <<c>> \o <<e>> IN
      n \in Seq(Call) /\ Len(n) = 2 /\ n[1] = c /\ n[2] = e
  OBVIOUS
<1>3. LET n == <<c, e>> IN
      n \in Seq(Call) /\ Len(n) = 2 /\ n[1] = c /\ n[2] = e
  OBVIOUS
<1> QED
  BY <1>1, <1>2, <1>3

\* A single call.
LEMMA OnePlain ==
    ASSUME NEW p, NEW d, NEW c \in Call, Apt(c, p, d)
    PROVE  Plain(<<c>>, p, d)
<1>1. <<c>> \in Seq(Call) /\ Len(<<c>>) = 1 /\ <<c>>[1] = c
  OBVIOUS
<1>2. (\A j \in 1..1 : j = 1) /\ \A i \in 1..(1 - 1) : FALSE
  OBVIOUS
<1> QED
  BY <1>1, <1>2 DEF Plain

\* Calls that leave p alone keep to its declaration.
LEMMA InertPlain ==
    ASSUME NEW p, NEW d \in BOOLEAN, NEW n \in Seq(Inert(p, d))
    PROVE  Plain(n, p, d)
<1>1. n \in Seq(Call) /\ \A j \in 1..Len(n) : n[j] \in Inert(p, d)
  BY ElementOfSeq DEF Inert
<1> QED
  BY <1>1 DEF Plain, Inert

\* So do calls with one more in front that keeps to it.
LEMMA PlainAfter ==
    ASSUME NEW p, NEW d \in BOOLEAN, NEW c \in Call, Apt(c, p, d),
           Leading(c, p) \/ ~d, NEW r, Plain(r, p, d)
    PROVE  Plain(<<c>> \o r, p, d)
<1> DEFINE n == <<c>>
           m == n \o r
<1>1. n \in Seq(Call) /\ Len(n) = 1 /\ n[1] = c /\ r \in Seq(Call)
  BY DEF Plain
<1> HIDE DEF n
<1>2. /\ m \in Seq(Call) /\ Len(n) \in Nat /\ Len(r) \in Nat
      /\ Len(m) = Len(n) + Len(r)
      /\ \A k \in 1..Len(n) : m[k] = n[k]
      /\ \A k \in 1..Len(r) : m[Len(n) + k] = r[k]
      /\ \A j \in 1..Len(m) : \/ j \in 1..Len(n)
                              \/ \E k \in 1..Len(r) : j = Len(n) + k
  BY <1>1, Joined
<1> HIDE DEF m
<1>3. ASSUME NEW j \in 1..Len(m)
      PROVE  /\ Apt(m[j], p, d)
             /\ Adds(m[j], p) => \A i \in 1..(j - 1) : Leading(m[i], p)
  <2>1. CASE j = 1
    <3>1. m[j] = c /\ \A i \in 1..(j - 1) : FALSE
      BY <1>1, <1>2, <2>1
    <3> QED
      BY <3>1
  <2>2. ASSUME NEW k \in 1..Len(r), j = 1 + k
        PROVE  /\ Apt(m[j], p, d)
               /\ Adds(m[j], p) => \A i \in 1..(j - 1) : Leading(m[i], p)
    <3>1. m[j] = r[k]
      BY <1>1, <1>2, <2>2
    <3>2. ASSUME NEW i \in 1..(j - 1), Adds(r[k], p)
          PROVE  Leading(m[i], p)
      <4>1. CASE i = 1
        <5>1. m[i] = c /\ d
          BY <1>1, <1>2, <3>2, <4>1 DEF Plain, Apt
        <5> QED
          BY <5>1
      <4>2. CASE i # 1
        <5>1. i - 1 \in 1..(k - 1) /\ i - 1 \in 1..Len(r) /\ i = 1 + (i - 1)
          BY <1>2, <2>2, <4>2
        <5>2. m[i] = r[i - 1]
          BY <1>1, <1>2, <5>1
        <5> QED
          BY <3>2, <5>1, <5>2 DEF Plain
      <4> QED
        BY <4>1, <4>2
    <3> QED
      BY <3>1, <3>2 DEF Plain
  <2> QED
    BY <1>1, <1>2, <2>1, <2>2
<1> QED
  BY <1>2, <1>3 DEF Plain, m, n

\* So do calls with some behind them that leave p alone.
LEMMA PlainBefore ==
    ASSUME NEW p, NEW d \in BOOLEAN, NEW n, Plain(n, p, d),
           NEW r \in Seq(Inert(p, d))
    PROVE  Plain(n \o r, p, d)
<1> DEFINE m == n \o r
<1>1. /\ n \in Seq(Call) /\ r \in Seq(Call)
      /\ \A j \in 1..Len(r) : r[j] \in Inert(p, d)
  BY ElementOfSeq DEF Plain, Inert
<1>2. /\ m \in Seq(Call) /\ Len(n) \in Nat /\ Len(r) \in Nat
      /\ Len(m) = Len(n) + Len(r)
      /\ \A k \in 1..Len(n) : m[k] = n[k]
      /\ \A k \in 1..Len(r) : m[Len(n) + k] = r[k]
      /\ \A j \in 1..Len(m) : \/ j \in 1..Len(n)
                              \/ \E k \in 1..Len(r) : j = Len(n) + k
  BY <1>1, Joined
<1> HIDE DEF m
<1>3. \A j \in 1..Len(n) : \A i \in 1..(j - 1) : m[i] = n[i]
  BY <1>2
<1> QED
  BY <1>1, <1>2, <1>3 DEF Plain, Inert, m

\* the operations that have nothing to do with signing nkeys
InertOps == (HarmlessCalls \ {"putOperatorIssue", "deleteOperatorEntry"})
            \cup {"deleteUserNkey", "deleteUserTemplate", "deleteUserIssue",
                  "issueOperatorJWT", "issueAccountJWT", "addAccountJWT",
                  "deleteAccountIssue", "ensureIssue", "periodicEachAccount"}

\* Which calls leave p alone.
LEMMA InertCalls ==
    ASSUME NEW p, p[1] # "user", NEW d, NEW c \in Call
    PROVE  /\ Rootless(c) => c \in Inert(p, d)
           /\ c.op \in InertOps => c \in Inert(p, d)
<1>1. ASSUME c.op \in InertOps
      PROVE  ~Adds(c, p) /\ ~Names(c, p) /\ ~Loses(c, p)
  BY <1>1 DEF InertOps, HarmlessCalls, Adds, Names, Loses, Holding, Syncs
<1>2. ASSUME Rootless(c)
      PROVE  ~Adds(c, p) /\ ~Names(c, p) /\ ~Loses(c, p)
  BY <1>2 DEF Rootless, Adds, Names, Loses, Holding, Syncs
<1> QED
  BY <1>1, <1>2 DEF Inert, Apt

\* An account is refreshed with what it has stored.
LEMMA RefreshPlain ==
    ASSUME TypeOK, NEW p \in Path, Signing(p), NEW a \in Accounts,
           NEW i \in AccIssue, accIssue[a] # None,
           i.par.signing = accIssue[a].par.signing
    PROVE  /\ Plain(refreshAccount(a, i), p, Declared(p))
           /\ LET put == [op |-> "putAccountIssue", acc |-> a, iss |-> i] IN
              /\ put \in Call /\ Apt(put, p, Declared(p))
              /\ Leading(put, p) \/ ~Declared(p)
<1> DEFINE keys == accountNkeys(a, i)
           jwt  == [op |-> "issueAccountJWT", acc |-> a, iss |-> i]
           put  == [op |-> "putAccountIssue", acc |-> a, iss |-> i]
           res  == [op |-> "refreshAccountResolver", acc |-> a, iss |-> i,
                    mode |-> "refresh"]
           d    == Declared(p)
<1>1. i.par.signing \in SUBSET AccKeys /\ d \in BOOLEAN
  BY DEF AccIssue, AccPar, Declared
<1>2. keys \in Call /\ jwt \in Call /\ put \in Call /\ res \in Call
  <2>1. AccountPaths(a, i) \in SUBSET Path
    BY <1>1, PathTyped, PathsTyped DEF AccountPaths
  <2> QED
    BY <2>1, AccountCallsMade, ServerCallsMade
       DEF accountNkeys, AccIssueCalls, Resolvable, ResolverModes
<1>3. p \in AccountPaths(a, i) => d
  <2>1. ASSUME p \in AccountPaths(a, i)
        PROVE  p[1] = "account" /\ p[2] = a /\ p[3] \in i.par.signing
    <3>1. p # AccPath(a)
      BY SigningPaths DEF Signing
    <3> QED
      BY <2>1, <3>1 DEF AccountPaths, AccSignings, AccSigning
  <2> QED
    BY <2>1 DEF Declared
<1>4. \A c \in {put, res} : /\ Holding(c) /\ ~Adds(c, p)
                            /\ Names(c, p) => d
                            /\ Loses(c, p) => ~d
  BY DEF Holding, Syncs, Names, Loses, Adds, Declared
<1>5. Apt(keys, p, d)
  BY <1>3 DEF accountNkeys, Apt, Names, Loses, Adds, Holding, Syncs
<1>6. jwt \in Inert(p, d) /\ res \in Inert(p, d)
  BY <1>2, <1>4, InertCalls DEF InertOps, Inert, Apt, Signing
<1>7. Apt(put, p, d) /\ (Leading(put, p) \/ ~d)
  BY <1>4 DEF Apt, Leading, Writing
<1> HIDE DEF keys, jwt, res, put, d
<1>8. Plain(<<keys, jwt>>, p, d)
  BY <1>2, <1>5, <1>6, PairPlain DEF Inert
<1>9. Plain(<<keys, jwt>> \o <<res>>, p, d)
  <2>1. <<res>> \in Seq(Inert(p, d))
    BY <1>6, ShortSeq
  <2> QED
    BY <1>1, <1>8, <2>1, PlainBefore DEF d
<1>10. refreshAccount(a, i) = <<keys, jwt>> \o <<res>>
  BY DEF refreshAccount, accountResolver, keys, jwt, res
<1> QED
  BY <1>2, <1>7, <1>9, <1>10 DEF d, put

-----------------------------------------------------------------------------
(* Every handler leaves the declaration of p as it is, or sees to its nkey. *)

\* A single call in place of another.
LEMMA OneFits ==
    ASSUME NEW t, NEW p, NEW d \in BOOLEAN, NEW c \in Call,
           Adds(c, p) => d, Loses(c, p) => ~d,
           Names(c, p) => d \/ Names(t, p),
           d /\ Leading(t, p) => Leading(c, p)
    PROVE  <<c>> \in Seq(Call) /\ Fits(t, <<c>>, p, d)
<1> DEFINE n == <<c>>
<1>1. n \in Seq(Call) /\ Len(n) = 1 /\ n[1] = c
  OBVIOUS
<1> HIDE DEF n
<1>2. (\A j \in 1..Len(n) : j = 1) /\ \A i \in 1..(1 - 1) : FALSE
  BY <1>1
<1>3. Kept(n, p, d, TRUE)
  BY <1>1, <1>2 DEF Kept, Settled, Rooted
<1>4. Fits(t, n, p, d)
  BY <1>1, <1>2, <1>3 DEF Fits
<1> QED
  BY <1>1, <1>4 DEF n

\* No call at all.
LEMMA EmptyFits == \A t, p, d : <<>> \in Seq(Call) /\ Fits(t, <<>>, p, d)
BY DEF Fits, Kept, Settled, Rooted

\* what the next call t promises of p
Ready(t, p) == /\ Loses(t, p) => ~Declared(p)
               /\ Adds(t, p) => Declared(p)

\* w fails, or leaves calls that fit in place of its first
Leaves(w, p) ==
    \/ Fail(w) \/ Panic
    \/ \E n \in Seq(Call) : Do(w, n) /\ Fits(Top(w), n, p, Declared(p))

\* The creation of an nkey, and of the issue it belongs to if there is none.
LEMMA NkeyLeaves ==
    ASSUME TypeOK, NEW w \in Workers, NEW p \in Path, Signing(p),
           Ready(Top(w), p), AddNkey(w) \/ PutNkey(w) \/ EnsureIssue(w)
    PROVE  Leaves(w, p)
<1> DEFINE t == Top(w)
           d == Declared(p)
<1>1. d \in BOOLEAN
  BY DEF Declared
<1>2. CASE AddNkey(w)
  <2>1. /\ t.op = "addNkey" /\ t.path \in Path
        /\ minted[t.path] \in Nat /\ nkey[t.path] \in Nat
    BY <1>2, RunningTyped, NkeyCallFields DEF AddNkey, TypeOK, StorageOK
  <2>2. PICK g \in Nat :
           Do(w, <<[op |-> "putNkey", path |-> t.path, gen |-> g]>>)
    <3>1. minted[t.path] + 1 \in Nat
      BY <2>1
    <3> QED
      BY <1>2, <2>1, <3>1 DEF AddNkey
  <2> DEFINE c == [op |-> "putNkey", path |-> t.path, gen |-> g]
  <2>3. c \in Call /\ c.op = "putNkey" /\ c.path = t.path
    BY <2>1, NkeyCallsMade
  <2> HIDE DEF c
  <2>4. <<c>> \in Seq(Call) /\ Fits(t, <<c>>, p, d)
    <3>1. Adds(c, p) => Adds(t, p)
      BY <2>1, <2>3 DEF Adds
    <3>2. ~Names(c, p) /\ ~Loses(c, p)
      BY <2>3 DEF Names, Loses, Holding, Syncs
    <3>3. Leading(t, p) => Leading(c, p)
      BY <2>1, <2>3 DEF Leading, Clears, Writing
    <3> QED
      BY <1>1, <2>3, <3>1, <3>2, <3>3, OneFits DEF Ready
  <2> QED
    BY <2>2, <2>4 DEF Leaves, c
<1>3. CASE PutNkey(w)
  <2>1. t.op = "putNkey" /\ t.path \in Path
    BY <1>3, RunningTyped, NkeyCallFields DEF PutNkey
  <2> DEFINE c == [op |-> "ensureIssue", path |-> t.path]
  <2>2. c \in Call /\ c.op = "ensureIssue" /\ c.path = t.path
    BY <2>1, NkeyCallsMade
  <2> HIDE DEF c
  <2>3. <<c>> \in Seq(Call) /\ Fits(t, <<c>>, p, d)
    <3>1. ~Adds(c, p) /\ ~Names(c, p) /\ ~Loses(c, p)
      BY <2>2 DEF Adds, Names, Loses, Holding, Syncs
    <3>2. Leading(t, p) => Leading(c, p)
      BY <2>1, <2>2 DEF Leading, Clears, Writing
    <3> QED
      BY <1>1, <2>2, <3>1, <3>2, OneFits
  <2> QED
    BY <1>3, <2>3 DEF Leaves, PutNkey, c
<1>4. CASE EnsureIssue(w)
  <2>1. t.op = "ensureIssue" /\ t.path \in Path
    BY <1>4, RunningTyped, NkeyCallFields DEF EnsureIssue
  <2>2. CASE HasIssue(t.path)
    <3>1. Do(w, <<>>)
      BY <1>4, <2>2 DEF EnsureIssue
    <3> QED
      BY <3>1, EmptyFits DEF Leaves
  <2>3. CASE ~HasIssue(t.path)
    <3>1. Do(w, addDefaultIssue(t.path) \o Catch)
      BY <1>4, <2>3 DEF EnsureIssue
    <3>2. ~(d /\ Leading(t, p))
      <4>1. ASSUME d, Leading(t, p)
            PROVE  FALSE
        <5>1. t.path[1] = p[1] /\ t.path[2] = p[2]
          BY <2>1, <4>1 DEF Leading, Clears, Writing
        <5>2. p[1] \in {"operator", "account"}
          BY DEF Signing, Path
        <5> QED
          BY <2>3, <4>1, <5>1, <5>2 DEF Declared, HasIssue
      <4> QED
        BY <4>1
    <3>3. addDefaultIssue(t.path) \o Catch \in Seq(Inert(p, d))
      <4>1. [op |-> "catch"] \in Inert(p, d)
        BY OperatorCallsMade, InertCalls
           DEF PlainCalls, Signing, InertOps, HarmlessCalls
      <4>2. CASE t.path[1] = "operator"
        <5> DEFINE c == [op |-> "addOperatorIssue", par |-> DefaultOp]
        <5>1. c \in Call /\ Rootless(c)
          BY DefaultsTyped, OperatorCallsMade DEF Rootless, Syncs, DefaultOp
        <5>2. <<c>> \in Seq(Inert(p, d))
          BY <5>1, InertCalls, ShortSeq DEF Signing
        <5> QED
          BY <4>1, <4>2, <5>2, ShortSeq DEF addDefaultIssue, Catch
      <4>3. CASE t.path[1] = "account"
        <5> DEFINE c == [op |-> "addAccountIssue", acc |-> t.path[2],
                         par |-> DefaultAcc]
        <5>1. t.path[2] \in Accounts
          BY <2>1, <4>3 DEF Path
        <5>2. c \in Call /\ Rootless(c)
          BY <5>1, DefaultsTyped, AccountCallsMade
             DEF Rootless, Syncs, DefaultAcc
        <5>3. <<c>> \in Seq(Inert(p, d))
          BY <5>2, InertCalls, ShortSeq DEF Signing
        <5> QED
          BY <4>1, <4>3, <5>3, ShortSeq DEF addDefaultIssue, Catch
      <4>4. CASE t.path[1] = "user"
        <5> DEFINE c == [op |-> "addUserIssue", acc |-> t.path[2],
                         user |-> t.path[3], par |-> DefaultUser]
        <5>1. t.path[2] \in Accounts /\ t.path[3] \in Users
          BY <2>1, <4>4 DEF Path
        <5>2. c \in Call /\ Rootless(c)
          BY <5>1, DefaultsTyped, UserCallsMade DEF Rootless, Syncs
        <5>3. <<c>> \in Seq(Inert(p, d))
          BY <5>2, InertCalls, ShortSeq DEF Signing
        <5> QED
          BY <4>1, <4>4, <5>3, ShortSeq DEF addDefaultIssue, Catch
      <4>5. t.path[1] \in {"operator", "account", "user"}
        BY <2>1 DEF Path
      <4> QED
        BY <4>2, <4>3, <4>4, <4>5
    <3>4. Plain(addDefaultIssue(t.path) \o Catch, p, d)
      BY <1>1, <3>3, InertPlain
    <3> QED
      BY <1>1, <3>1, <3>2, <3>4, PlainFits DEF Leaves
  <2> QED
    BY <2>2, <2>3
<1> QED
  BY <1>2, <1>3, <1>4

\* Deletions are well-formed.
LEMMA DeleteNkeysTyped == \A ps \in SUBSET Path : deleteNkeys(ps) \in Seq(Call)
BY NkeyCallsMade, ShortSeq DEF deleteNkeys

\* The nkeys of signing keys are deleted, then what is said of them changes.
LEMMA DeletesFit ==
    ASSUME NEW t, NEW p \in Path, NEW d \in BOOLEAN, ~Leading(t, p),
           NEW ps \in SUBSET Path, NEW r \in Seq(Call),
           \/ Kept(r, p, d, TRUE)
           \/ Kept(r, p, d, FALSE) /\ p \in ps,
           \A i \in 1..Len(r) : Names(r[i], p) => d \/ Names(t, p)
    PROVE  /\ deleteNkeys(ps) \o r \in Seq(Call)
           /\ Fits(t, deleteNkeys(ps) \o r, p, d)
<1> DEFINE c == [op |-> "deleteNkeys", paths |-> ps]
           n == deleteNkeys(ps)
<1>1. c \in Call /\ c.op = "deleteNkeys" /\ c.paths = ps
  BY NkeyCallsMade
<1> HIDE DEF c
<1>2. /\ n \in Seq(Call)
      /\ \A j \in 1..Len(n) : n[j].op = "deleteNkeys"
      /\ p \in ps => \E j \in 1..Len(n) : p \in n[j].paths
  <2>1. CASE ps = {}
    BY <2>1 DEF deleteNkeys
  <2>2. CASE ps # {}
    <3>1. n = <<c>>
      BY <2>2 DEF deleteNkeys, c
    <3>2. /\ <<c>> \in Seq(Call) /\ Len(<<c>>) = 1 /\ <<c>>[1] = c
          /\ 1 \in 1..1
      BY <1>1
    <3> QED
      BY <1>1, <3>1, <3>2
  <2> QED
    BY <2>1, <2>2
<1> HIDE DEF n
<1>3. Kept(n \o r, p, d, TRUE)
  BY <1>2, ClearsFirst DEF Clears
<1> DEFINE m == n \o r
<1>4. /\ m \in Seq(Call)
      /\ \A k \in 1..Len(n) : m[k] = n[k]
      /\ \A k \in 1..Len(r) : m[Len(n) + k] = r[k]
      /\ \A j \in 1..Len(m) : \/ j \in 1..Len(n)
                              \/ \E k \in 1..Len(r) : j = Len(n) + k
  BY <1>2, Joined
<1> HIDE DEF m
<1>5. \A j \in 1..Len(n) : ~Names(n[j], p)
  BY <1>2 DEF Names, Holding, Syncs
<1>6. \A j \in 1..Len(m) : Names(m[j], p) => d \/ Names(t, p)
  BY <1>4, <1>5
<1> QED
  BY <1>3, <1>4, <1>6 DEF Fits, m, n

\* After the JWT the issue itself is deleted.
LEMMA EntryKept ==
    ASSUME NEW p, NEW d \in BOOLEAN, NEW c \in Call, NEW e \in Call,
           c.op \in {"deleteOperatorJWT", "deleteAccountJWT"},
           e.op \in {"deleteOperatorEntry", "deleteAccountEntry"}
    PROVE  /\ Kept(<<c, e>>, p, d, FALSE)
           /\ ~(d /\ Loses(e, p)) => Kept(<<c, e>>, p, d, TRUE)
           /\ \A i \in 1..Len(<<c, e>>) : ~Names(<<c, e>>[i], p)
<1> DEFINE n == <<c, e>>
<1>1. n \in Seq(Call) /\ Len(n) = 2 /\ n[1] = c /\ n[2] = e
  OBVIOUS
<1> HIDE DEF n
<1>2. /\ ~Names(c, p) /\ ~Loses(c, p) /\ ~Adds(c, p) /\ c.op \in Clears
      /\ ~Names(e, p) /\ ~Adds(e, p) /\ e.op \in Rewrites
  BY DEF Names, Loses, Adds, Holding, Syncs, Clears, Rewrites
<1>3. /\ \A j \in 1..Len(n) : j = 1 \/ j = 2
      /\ \A i \in 1..(2 - 1) : i = 1
      /\ \A i \in 2..2 : i = 2
      /\ 2 \in 1..2
  BY <1>1
<1>4. Rooted(n, p, d)
  BY <1>1, <1>2, <1>3 DEF Rooted
<1>5. ASSUME NEW st \in BOOLEAN, st => ~(d /\ Loses(e, p))
      PROVE  Settled(n, p, d, st)
  <2>1. SUFFICES ASSUME Loses(n[2], p)
                 PROVE  /\ \A i \in 1..(2 - 1) : ~Names(n[i], p)
                        /\ d => \E i \in 1..2 :
                                   /\ Dropping(n, i, p, st)
                                   /\ \A l \in i..2 : n[l].op # "catch"
    BY <1>1, <1>2, <1>3 DEF Settled
  <2>2. d => Dropping(n, 2, p, st)
    BY <1>1, <1>2, <1>3, <1>5, <2>1 DEF Dropping
  <2> QED
    BY <1>1, <1>2, <1>3, <2>2 DEF Rewrites, Writing
<1> QED
  BY <1>1, <1>2, <1>3, <1>4, <1>5 DEF Kept, n

\* Deleting an account, all its signing nkeys go before its issue.
LEMMA EraseFits ==
    ASSUME NEW t, NEW p \in Path, Signing(p), NEW d \in BOOLEAN, ~Leading(t, p),
           NEW a \in Accounts, NEW i \in AccIssue,
           d /\ p[1] = "account" /\ p[2] = a => p[3] \in i.par.signing
    PROVE  /\ eraseAccount(a, i) \in Seq(Call)
           /\ Fits(t, eraseAccount(a, i), p, d)
<1> DEFINE main == deleteNkeys({AccPath(a)})
           sign == deleteNkeys(AccSignings(a, i.par.signing))
           c    == [op |-> "deleteAccountJWT", acc |-> a]
           e    == [op |-> "deleteAccountEntry", acc |-> a]
           r    == <<c, e>>
<1>1. /\ c \in Call /\ c.op = "deleteAccountJWT"
      /\ e \in Call /\ e.op = "deleteAccountEntry" /\ e.acc = a
      /\ i.par.signing \in SUBSET AccKeys
  BY AccountCallsMade DEF AccNameCalls, AccIssue, AccPar
<1> HIDE DEF c, e
<1>2. /\ AccSignings(a, i.par.signing) \in SUBSET Path
      /\ {AccPath(a)} \in SUBSET Path
  BY <1>1, PathTyped, PathsTyped
<1>3. r \in Seq(Call)
      /\ (\A j \in 1..Len(r) : ~Names(r[j], p))
      /\ Kept(r, p, d, FALSE)
      /\ (~(d /\ Loses(e, p)) => Kept(r, p, d, TRUE))
  <2>1. r \in Seq(Call)
    BY <1>1
  <2>2. /\ Kept(<<c, e>>, p, d, FALSE)
        /\ ~(d /\ Loses(e, p)) => Kept(<<c, e>>, p, d, TRUE)
        /\ \A j \in 1..Len(<<c, e>>) : ~Names(<<c, e>>[j], p)
    BY <1>1, EntryKept
  <2> QED
    BY <2>1, <2>2
<1>4. d /\ Loses(e, p) => p \in AccSignings(a, i.par.signing)
  <2>1. ASSUME d, Loses(e, p)
        PROVE  p \in AccSignings(a, i.par.signing)
    <3>1. p[1] = "account" /\ p[2] = a
      BY <1>1, <2>1 DEF Loses, Holding, Syncs
    <3>2. p = <<"account", a, p[3]>>
      BY <3>1 DEF Path
    <3> QED
      BY <2>1, <3>1, <3>2 DEF AccSignings, AccSigning
  <2> QED
    BY <2>1
<1> HIDE DEF r
<1>5. sign \o r \in Seq(Call) /\ Fits(t, sign \o r, p, d)
  BY <1>2, <1>3, <1>4, DeletesFit
<1>6. main \o (sign \o r) \in Seq(Call) /\ Fits(t, main \o (sign \o r), p, d)
  BY <1>2, <1>5, DeletesFit DEF Fits
<1>7. main \in Seq(Call) /\ sign \in Seq(Call)
  BY <1>2, DeleteNkeysTyped
<1>8. eraseAccount(a, i) = main \o (sign \o r)
  <2>1. (main \o sign) \o r = main \o (sign \o r)
    BY <1>3, <1>7, ConcatAssociative
  <2>2. eraseAccount(a, i) = (main \o sign) \o r
    BY DEF eraseAccount, r, c, e
  <2> QED
    BY <2>1, <2>2
<1> QED
  BY <1>6, <1>8

\* Keeping the account server in step.
LEMMA SyncLeaves ==
    ASSUME TypeOK, NEW w \in Workers, NEW p \in Path, Signing(p),
           Ready(Top(w), p),
           RefreshAccountResolver(w) \/ PushAccount(w) \/ DeleteAccounts(w)
    PROVE  Leaves(w, p)
<1> DEFINE t == Top(w)
           d == Declared(p)
<1>1. /\ d \in BOOLEAN /\ t \in Call /\ t.op \in Syncs /\ ~Leading(t, p)
      /\ t.acc \in Accounts
      /\ \/ t.iss \in AccIssue /\ t.mode \in ResolverModes
         \/ t.iss = None /\ t.mode = "discard"
  <2>1. t \in Call /\ t.op \in Syncs
    BY RunningTyped
       DEF RefreshAccountResolver, PushAccount, DeleteAccounts, Syncs
  <2>2. ~Leading(t, p)
    BY <2>1 DEF Leading, Clears, Writing, Syncs
  <2> QED
    BY <2>1, <2>2, ServerCallFields DEF Declared, Syncs
<1>2. ASSUME NEW i, Resolvable(i, t.mode),
             t.mode # "discard" => i.par = t.iss.par
      PROVE  LET n == AfterSync(t.acc, i, t.mode) IN
             n \in Seq(Call) /\ Fits(t, n, p, d)
  <2>1. CASE t.mode = "discard"
    BY <2>1, EmptyFits DEF AfterSync
  <2>2. ASSUME NEW op \in {"putAccountIssue", "updateAccountStatus"},
               i \in AccIssue
        PROVE  LET n == <<[op |-> op, acc |-> t.acc, iss |-> i]>> IN
               t.mode # "discard" => n \in Seq(Call) /\ Fits(t, n, p, d)
    <3> DEFINE c == [op |-> op, acc |-> t.acc, iss |-> i]
    <3>1. c \in Call /\ c.op = op /\ c.acc = t.acc /\ c.iss = i
      BY <1>1, <2>2, AccountCallsMade DEF AccIssueCalls
    <3> HIDE DEF c
    <3>2. SUFFICES ASSUME t.mode # "discard"
                   PROVE  <<c>> \in Seq(Call) /\ Fits(t, <<c>>, p, d)
      BY DEF c
    <3>3. Holding(c) /\ Holding(t) /\ c.acc = t.acc /\ c.iss.par = t.iss.par
      BY <1>1, <1>2, <3>1, <3>2 DEF Holding
    <3>4. ~Adds(c, p)
      BY <3>1 DEF Adds
    <3>5. (Names(c, p) => Names(t, p)) /\ (Loses(c, p) => Loses(t, p))
      BY <1>1, <3>1, <3>3 DEF Names, Loses, Syncs
    <3> QED
      BY <1>1, <3>1, <3>4, <3>5, OneFits DEF Ready
  <2>3. CASE t.mode = "refresh" /\ i \in AccIssue
    BY <2>2, <2>3 DEF AfterSync
  <2>4. CASE t.mode = "periodic" /\ i \in AccIssue
    BY <2>2, <2>4 DEF AfterSync
  <2>5. CASE t.mode = "delete" /\ i \in AccIssue
    <3>1. /\ eraseAccount(t.acc, i) \in Seq(Call)
          /\ Fits(t, eraseAccount(t.acc, i), p, d)
      <4>1. ASSUME d, p[1] = "account", p[2] = t.acc
            PROVE  p[3] \in i.par.signing
        <5>1. Holding(t) /\ ~Loses(t, p)
          BY <1>1, <2>5, <4>1 DEF Holding, Ready
        <5> QED
          BY <1>1, <1>2, <2>5, <4>1, <5>1 DEF Loses, Names, Syncs
      <4> QED
        BY <1>1, <2>5, <4>1, EraseFits
    <3> QED
      BY <2>5, <3>1 DEF AfterSync
  <2> QED
    BY <1>1, <1>2, <2>1, <2>3, <2>4, <2>5 DEF Resolvable, ResolverModes
<1>3. ASSUME NEW op \in {"pushAccount", "deleteAccounts"}, NEW tok \in AccToken,
             op = "deleteAccounts" => t.mode # "discard"
      PROVE  LET n == <<[op |-> op, acc |-> t.acc, iss |-> t.iss,
                         mode |-> t.mode, tok |-> tok]>>
             IN  n \in Seq(Call) /\ Fits(t, n, p, d)
  <2> DEFINE c == [op |-> op, acc |-> t.acc, iss |-> t.iss, mode |-> t.mode,
                   tok |-> tok]
  <2>1. /\ c \in Call /\ c.op = op /\ c.acc = t.acc /\ c.iss = t.iss
        /\ c.mode = t.mode
    BY <1>1, <1>3, ServerCallsMade DEF Resolvable
  <2> HIDE DEF c
  <2>2. Holding(c) <=> Holding(t)
    BY <1>1, <2>1 DEF Holding, Syncs
  <2>3. ~Adds(c, p)
    BY <2>1 DEF Adds
  <2>4. (Names(c, p) => Names(t, p)) /\ (Loses(c, p) => Loses(t, p))
    BY <1>1, <2>1, <2>2 DEF Names, Loses, Syncs
  <2>5. <<c>> \in Seq(Call) /\ Fits(t, <<c>>, p, d)
    BY <1>1, <2>1, <2>3, <2>4, OneFits DEF Ready
  <2> QED
    BY <2>5 DEF c
<1>4. /\ Resolvable(t.iss, t.mode)
      /\ Resolvable(Marked(t.iss, t.mode), t.mode)
      /\ t.mode # "discard" => Marked(t.iss, t.mode).par = t.iss.par
  <2>1. Resolvable(t.iss, t.mode)
    BY <1>1 DEF Resolvable
  <2>2. Resolvable(Marked(t.iss, t.mode), t.mode)
    BY <1>1, <2>1, ServerCallsQuiet
  <2>3. t.mode # "discard" => Marked(t.iss, t.mode).par = t.iss.par
    BY <1>1 DEF Marked, AccIssue
  <2> QED
    BY <2>1, <2>2, <2>3
<1> DEFINE plain  == AfterSync(t.acc, t.iss, t.mode)
           marked == AfterSync(t.acc, Marked(t.iss, t.mode), t.mode)
<1>5. /\ plain \in Seq(Call) /\ Fits(t, plain, p, d)
      /\ marked \in Seq(Call) /\ Fits(t, marked, p, d)
  BY <1>2, <1>4
<1> HIDE DEF plain, marked
<1>6. CASE RefreshAccountResolver(w)
  <2> DEFINE op == IF t.mode = "delete" THEN "deleteAccounts" ELSE "pushAccount"
             c  == [op |-> op, acc |-> t.acc, iss |-> t.iss, mode |-> t.mode,
                    tok |-> accJWT[t.acc]]
  <2>1. Do(w, plain) \/ Fail(w) \/ (SyncWanted(t.acc) /\ Do(w, <<c>>))
    BY <1>6 DEF RefreshAccountResolver, plain
  <2>2. SyncWanted(t.acc) => accJWT[t.acc] \in AccToken
    BY <1>1 DEF SyncWanted, TypeOK, StorageOK
  <2>3. SyncWanted(t.acc) => <<c>> \in Seq(Call) /\ Fits(t, <<c>>, p, d)
    <3>1. op \in {"pushAccount", "deleteAccounts"}
          /\ (op = "deleteAccounts" => t.mode # "discard")
      OBVIOUS
    <3> HIDE DEF op
    <3> QED
      BY <1>3, <2>2, <3>1
  <2> QED
    BY <1>5, <2>1, <2>3 DEF Leaves
<1>7. CASE PushAccount(w) \/ DeleteAccounts(w)
  <2>1. Do(w, plain) \/ Do(w, marked)
    BY <1>7 DEF PushAccount, DeleteAccounts, plain, marked
  <2> QED
    BY <1>5, <2>1 DEF Leaves
<1> QED
  BY <1>6, <1>7

\* An issue is stored, and what it declares gets its nkey next.
LEMMA StoredKept ==
    ASSUME NEW p, NEW d \in BOOLEAN, NEW r \in Seq(Call), Len(r) > 0,
           r[1].op \in Writing,
           \A j \in 1..Len(r) : r[j].op # "catch" /\ (Adds(r[j], p) => j = 2)
    PROVE  /\ (/\ Names(r[1], p)
               /\ \A j \in 1..Len(r) : ~Loses(r[j], p)) => Kept(r, p, d, TRUE)
           /\ (/\ Loses(r[1], p)
               /\ \A j \in 1..Len(r) : ~Names(r[j], p) /\ ~Adds(r[j], p))
              => Kept(r, p, d, FALSE)
           /\ (\A j \in 1..Len(r) : ~Loses(r[j], p) /\ ~Adds(r[j], p))
              => Kept(r, p, d, TRUE)
<1>1. Len(r) \in Nat /\ 1 \in 1..Len(r)
  BY LenProperties
<1>2. \A i \in 1..(1 - 1) : FALSE
  OBVIOUS
<1>3. (\A i \in 1..(2 - 1) : i = 1) /\ 1 \in 1..(2 - 1)
  OBVIOUS
<1>4. ASSUME Names(r[1], p), \A j \in 1..Len(r) : ~Loses(r[j], p)
      PROVE  Kept(r, p, d, TRUE)
  <2>1. Leading(r[1], p) /\ Founded(r, 2, p)
    BY <1>1, <1>2, <1>3, <1>4 DEF Leading, Founded
  <2> QED
    BY <1>3, <1>4, <2>1 DEF Kept, Settled, Rooted
<1>5. ASSUME Loses(r[1], p),
             \A j \in 1..Len(r) : ~Names(r[j], p) /\ ~Adds(r[j], p)
      PROVE  Kept(r, p, d, FALSE)
  <2>1. Dropping(r, 1, p, FALSE)
    BY <1>2, <1>5 DEF Dropping, Rewrites
  <2>2. \A j \in 1..Len(r) : /\ \A i \in 1..(j - 1) : i \in 1..Len(r)
                             /\ 1 \in 1..j
                             /\ \A l \in 1..j : l \in 1..Len(r)
    BY <1>1
  <2>3. Settled(r, p, d, FALSE)
    BY <1>5, <2>1, <2>2 DEF Settled
  <2> QED
    BY <1>5, <2>3 DEF Kept, Rooted
<1>6. ASSUME \A j \in 1..Len(r) : ~Loses(r[j], p) /\ ~Adds(r[j], p)
      PROVE  Kept(r, p, d, TRUE)
  BY <1>6 DEF Kept, Settled, Rooted
<1> QED
  BY <1>4, <1>5, <1>6

\* Positions of the calls that store an account issue.
LEMMA StoringCalls ==
    ASSUME NEW b \in Call, NEW c \in Call, NEW d \in Call, NEW e \in Call
    PROVE  LET m == <<b>> \o (<<c, d>> \o <<e>>) IN
           /\ m \in Seq(Call) /\ Len(m) = 4
           /\ m[1] = b /\ m[2] = c /\ m[3] = d /\ m[4] = e
OBVIOUS

\* Storing the claims of an account deletes the signing nkeys they no longer
\* declare, then stores them, then creates the others.
LEMMA AddAccountLeaves ==
    ASSUME TypeOK, NEW w \in Workers, NEW p \in Path, Signing(p),
           AddAccountIssue(w)
    PROVE  Leaves(w, p)
<1> DEFINE t   == Top(w)
           d   == Declared(p)
           a   == t.acc
           old == accIssue[a]
           i   == IF old = None
                  THEN [par |-> t.par, nkey |-> FALSE, jwt |-> FALSE,
                        synced |-> FALSE]
                  ELSE [old EXCEPT !.par = t.par]
           gone == IF old = None THEN {} ELSE old.par.signing \ t.par.signing
           ps   == AccSignings(a, gone)
           put  == [op |-> "putAccountIssue", acc |-> a, iss |-> i]
           keys == accountNkeys(a, i)
           jwt  == [op |-> "issueAccountJWT", acc |-> a, iss |-> i]
           res  == [op |-> "refreshAccountResolver", acc |-> a, iss |-> i,
                    mode |-> "refresh"]
           r    == <<put>> \o (<<keys, jwt>> \o <<res>>)
<1>1. /\ d \in BOOLEAN /\ t.op = "addAccountIssue"
      /\ a \in Accounts /\ t.par \in AccPar
  BY RunningTyped, AccountCallFields DEF AddAccountIssue, Declared
<1>2. old \in AccIssue \cup {None}
  BY <1>1 DEF TypeOK, StorageOK
<1>3. /\ i \in AccIssue /\ i.par = t.par
      /\ i.par.signing \in SUBSET AccKeys /\ gone \in SUBSET AccKeys
  BY <1>1, <1>2 DEF AccIssue, AccPar
<1>4. Do(w, (deleteNkeys(ps) \o <<put>>) \o refreshAccount(a, i))
  BY DEF AddAccountIssue
<1>5. gone = IF old = None THEN {} ELSE old.par.signing \ i.par.signing
  BY <1>3
<1>6. Names(t, p) <=> /\ p[1] = "account" /\ p[2] = a
                      /\ p[3] \in i.par.signing
  BY <1>1, <1>3 DEF Names, Holding, Syncs
<1>7. ~Leading(t, p)
  BY <1>1 DEF Leading, Clears, Writing
<1> HIDE DEF t, i, gone, old
<1>8. ps \in SUBSET Path /\ AccountPaths(a, i) \in SUBSET Path
  BY <1>1, <1>3, PathTyped, PathsTyped DEF AccountPaths
<1>9. put \in Call /\ keys \in Call /\ jwt \in Call /\ res \in Call
  BY <1>1, <1>3, <1>8, AccountCallsMade, ServerCallsMade
     DEF accountNkeys, AccIssueCalls, Resolvable, ResolverModes
<1>10. Adds(keys, p) => p[1] = "account" /\ p[2] = a /\ p[3] \in i.par.signing
  <2>1. p # AccPath(a)
    BY <1>1, SigningPaths DEF Signing
  <2> QED
    BY <2>1 DEF Adds, accountNkeys, AccountPaths, AccSignings, AccSigning
<1>11. /\ keys.op = "issueAccountNKeys" /\ jwt.op = "issueAccountJWT"
       /\ put.op = "putAccountIssue" /\ res.op = "refreshAccountResolver"
       /\ \A c \in {put, res} : Holding(c) /\ c.acc = a /\ c.iss = i
  BY DEF accountNkeys, Holding, Syncs
<1> HIDE DEF put, keys, jwt, res
<1>12. /\ r \in Seq(Call) /\ Len(r) = 4
       /\ r[1] = put /\ r[2] = keys /\ r[3] = jwt /\ r[4] = res
  BY <1>9, StoringCalls
<1>13. refreshAccount(a, i) = <<keys, jwt>> \o <<res>>
  BY DEF refreshAccount, accountResolver, keys, jwt, res
<1> HIDE DEF r
<1>14. \A j \in 1..Len(r) : \/ j = 1 /\ r[j] = put
                            \/ j = 2 /\ r[j] = keys
                            \/ j = 3 /\ r[j] = jwt
                            \/ j = 4 /\ r[j] = res
  BY <1>12
<1>15. /\ ~Adds(put, p) /\ ~Adds(jwt, p) /\ ~Adds(res, p)
       /\ ~Names(keys, p) /\ ~Names(jwt, p)
       /\ ~Loses(keys, p) /\ ~Loses(jwt, p)
  BY <1>11 DEF Adds, Names, Loses, Holding, Syncs
<1>16. \A c \in {put, res} :
          /\ Names(c, p) <=> Names(t, p)
          /\ Loses(c, p) <=> p[1] = "account" /\ p[2] = a /\ ~Names(t, p)
  BY <1>6, <1>11 DEF Names, Loses, Syncs
<1>17. \/ Kept(r, p, d, TRUE)
       \/ Kept(r, p, d, FALSE) /\ p \in ps
  <2>1. /\ \A j \in 1..Len(r) : r[j].op # "catch" /\ (Adds(r[j], p) => j = 2)
        /\ Len(r) > 0 /\ r[1].op \in Writing
    BY <1>11, <1>12, <1>14, <1>15 DEF Writing
  <2>2. CASE Names(t, p)
    <3>1. Names(r[1], p) /\ \A j \in 1..Len(r) : ~Loses(r[j], p)
      BY <1>12, <1>14, <1>15, <1>16, <2>2
    <3> QED
      BY <1>1, <1>12, <2>1, <3>1, StoredKept
  <2>3. CASE ~Names(t, p)
    <3>1. \A j \in 1..Len(r) : ~Names(r[j], p) /\ ~Adds(r[j], p)
      BY <1>6, <1>10, <1>14, <1>15, <1>16, <2>3
    <3>2. CASE p[1] = "account" /\ p[2] = a /\ d
      <4>1. Kept(r, p, d, FALSE)
        BY <1>1, <1>12, <1>16, <2>1, <2>3, <3>1, <3>2, StoredKept
      <4>2. p[3] \in gone
        BY <1>5, <1>6, <2>3, <3>2 DEF Declared, old
      <4>3. p = <<"account", a, p[3]>>
        BY <3>2 DEF Path
      <4>4. p \in ps
        BY <4>2, <4>3 DEF AccSignings, AccSigning
      <4> QED
        BY <4>1, <4>4
    <3>3. CASE ~(p[1] = "account" /\ p[2] = a)
      <4>1. \A j \in 1..Len(r) : ~Loses(r[j], p)
        BY <1>14, <1>15, <1>16, <3>3
      <4> QED
        BY <1>1, <1>12, <2>1, <3>1, <4>1, StoredKept
    <3>4. CASE ~d
      <4>1. \A j \in 1..Len(r) : \A k \in 1..(j - 1) : k \in 1..Len(r)
        BY <1>12
      <4>2. Kept(r, p, d, TRUE)
        BY <3>1, <3>4, <4>1 DEF Kept, Settled, Rooted
      <4> QED
        BY <4>2
    <3> QED
      BY <3>2, <3>3, <3>4
  <2> QED
    BY <2>2, <2>3
<1>18. \A j \in 1..Len(r) : Names(r[j], p) => d \/ Names(t, p)
  BY <1>14, <1>15, <1>16
<1>19. /\ deleteNkeys(ps) \o r \in Seq(Call)
       /\ Fits(t, deleteNkeys(ps) \o r, p, d)
  BY <1>1, <1>7, <1>8, <1>12, <1>17, <1>18, DeletesFit
<1>20. (deleteNkeys(ps) \o <<put>>) \o (<<keys, jwt>> \o <<res>>)
          = deleteNkeys(ps) \o r
  <2>1. /\ deleteNkeys(ps) \in Seq(Call) /\ <<put>> \in Seq(Call)
        /\ <<keys, jwt>> \o <<res>> \in Seq(Call)
    <3>1. <<keys, jwt>> \in Seq(Call) /\ <<res>> \in Seq(Call)
      BY <1>9
    <3> QED
      BY <1>8, <1>9, <3>1, DeleteNkeysTyped, ShortSeq
  <2> QED
    BY <2>1, ConcatAssociative DEF r
<1> QED
  BY <1>4, <1>13, <1>19, <1>20 DEF Leaves, put, t

\* Making the nkeys of an account, and what follows it.
LEMMA AccountNkeysLeave ==
    ASSUME TypeOK, NEW w \in Workers, NEW p \in Path, Signing(p),
           Ready(Top(w), p), Shaped(Top(w)),
           IssueAccountNKey(w) \/ IssueAccountNKeysDone(w)
    PROVE  Leaves(w, p)
<1> DEFINE t == Top(w)
           d == Declared(p)
<1>1. /\ d \in BOOLEAN /\ t.op = "issueAccountNKeys"
      /\ t.acc \in Accounts /\ t.iss \in AccIssue /\ t.todo \in SUBSET Path
      /\ t.users \in BOOLEAN /\ t.operator \in BOOLEAN
      /\ t = [op |-> t.op, acc |-> t.acc, iss |-> t.iss, todo |-> t.todo,
              users |-> t.users, operator |-> t.operator]
      /\ ~Leading(t, p)
      /\ p \in t.todo => d
  <2>1. Running(w, "issueAccountNKeys")
    BY DEF IssueAccountNKey, IssueAccountNKeysDone
  <2>2. t \in Call /\ t.op = "issueAccountNKeys"
    BY <2>1, RunningTyped
  <2>3. ~Leading(t, p) /\ (p \in t.todo => Adds(t, p))
    BY <2>2 DEF Leading, Clears, Writing, Adds
  <2> QED
    BY <2>2, <2>3, AccountCallFields DEF Declared, Ready
<1>2. CASE IssueAccountNKey(w)
  <2>1. PICK q \in t.todo :
           \/ Do(w, <<[t EXCEPT !.todo = @ \ {q}]>>)
           \/ Do(w, addNkey(q, FALSE)
                    \o <<[t EXCEPT !.todo = @ \ {q}, !.users = TRUE,
                          !.operator = @ \/ q = AccPath(SysAccount)]>>)
    BY <1>2 DEF IssueAccountNKey
  <2> DEFINE same == [t EXCEPT !.todo = @ \ {q}]
             more == [t EXCEPT !.todo = @ \ {q}, !.users = TRUE,
                      !.operator = @ \/ q = AccPath(SysAccount)]
             add  == [op |-> "addNkey", path |-> q, seed |-> FALSE]
             Nkeying == [op : {"issueAccountNKeys"}, acc : Accounts,
                         iss : AccIssue, todo : SUBSET Path,
                         users : BOOLEAN, operator : BOOLEAN]
  <2>2. \A c \in {same, more} : /\ c \in Nkeying /\ c.op = "issueAccountNKeys"
                                /\ c.todo = t.todo \ {q}
    <3>1. t \in Nkeying /\ t.todo \ {q} \in SUBSET Path
          /\ (t.operator \/ q = AccPath(SysAccount)) \in BOOLEAN
      BY <1>1
    <3> HIDE DEF t
    <3> QED
      BY <3>1
  <2>3. \A c \in {same, more} : c \in Call
    <3>1. Nkeying \subseteq InnerCall
      BY DEF InnerCall
    <3> HIDE DEF same, more, Nkeying
    <3> QED
      BY <2>2, <3>1 DEF Call
  <2> HIDE DEF same, more
  <2>4. \A c \in {same, more} :
           /\ Apt(c, p, d)
           /\ Adds(c, p) => p \in t.todo
    BY <1>1, <2>2 DEF Apt, Adds, Names, Loses, Holding, Syncs
  <2>5. /\ add \in Call /\ add.op = "addNkey" /\ add.path = q
    BY <1>1, NkeyCallsMade
  <2> HIDE DEF add
  <2>6. /\ Apt(add, p, d)
        /\ p \in t.todo => Leading(add, p)
    <3>1. Apt(add, p, d)
      BY <1>1, <2>5 DEF Apt, Adds, Names, Loses, Holding, Syncs
    <3>2. p \in t.todo => Leading(add, p)
      BY <1>1, <2>5 DEF Shaped, Leading
    <3> QED
      BY <3>1, <3>2
  <2>7. Plain(<<same>>, p, d)
    BY <2>3, <2>4, OnePlain
  <2>8. Plain(<<add>> \o <<more>>, p, d)
    BY <2>3, <2>4, <2>5, <2>6, PairPlain
  <2>9. Do(w, <<same>>) \/ Do(w, <<add>> \o <<more>>)
    BY <2>1 DEF same, more, add, addNkey
  <2> QED
    BY <1>1, <2>7, <2>8, <2>9, PlainFits DEF Leaves
<1>3. CASE IssueAccountNKeysDone(w)
  <2> DEFINE users == IF t.users THEN updateUserIssues(t.acc) ELSE <<>>
             c     == [op |-> "refreshOperator", iss |-> opIssue]
  <2>1. users \in Seq(Inert(p, d))
    <3>1. [op |-> "updateUserIssues", acc |-> t.acc] \in Call
      BY <1>1, AccountCallsMade DEF AccNameCalls
    <3>2. [op |-> "updateUserIssues", acc |-> t.acc] \in Inert(p, d)
      BY <3>1, InertCalls DEF Signing, InertOps, HarmlessCalls
    <3> QED
      BY <3>2, ShortSeq DEF updateUserIssues
  <2>2. ASSUME opIssue # None
        PROVE  Plain(<<c>> \o users, p, d)
    <3>1. opIssue \in OpIssue
      BY <2>2 DEF TypeOK, StorageOK
    <3>2. c \in Call /\ c.op = "refreshOperator" /\ c.iss = opIssue
      BY <3>1, OperatorCallsMade DEF OpCalls
    <3> HIDE DEF c
    <3>3. Adds(c, p) => d
      <4>1. ASSUME p \in OpSignings(opIssue.signing)
            PROVE  d
        BY <2>2, <4>1 DEF OpSignings, OpSigning, Declared
      <4> QED
        BY <3>2, <4>1 DEF Adds
    <3>4. Apt(c, p, d)
      BY <3>2, <3>3 DEF Apt, Names, Loses, Holding, Syncs
    <3>5. Plain(<<c>>, p, d)
      BY <3>2, <3>4, OnePlain
    <3> QED
      BY <1>1, <2>1, <3>5, PlainBefore
  <2>3. Plain(users, p, d) /\ Plain(<<>>, p, d)
    BY <1>1, <2>1, InertPlain, ShortSeq
  <2>4. \/ Do(w, <<>>) \/ Do(w, users)
        \/ opIssue # None /\ Do(w, <<c>> \o users)
    BY <1>3 DEF IssueAccountNKeysDone
  <2> HIDE DEF users, c
  <2> QED
    BY <1>1, <2>2, <2>3, <2>4, PlainFits DEF Leaves
<1> QED
  BY <1>2, <1>3

\* The issue of an account is handed on, as it is stored.
LEMMA HandedOnFits ==
    ASSUME TypeOK, NEW p \in Path, Signing(p), NEW a \in Accounts,
           NEW t, ~Leading(t, p), NEW mode \in ResolverModes,
           accIssue[a] # None
    PROVE  LET n == accountResolver(a, accIssue[a], mode) IN
           n \in Seq(Call) /\ Fits(t, n, p, Declared(p))
<1> DEFINE c == [op |-> "refreshAccountResolver", acc |-> a,
                 iss |-> accIssue[a], mode |-> mode]
           d == Declared(p)
<1>1. d \in BOOLEAN /\ accIssue[a] \in AccIssue
  BY DEF Declared, TypeOK, StorageOK
<1>2. /\ c \in Call /\ c.op = "refreshAccountResolver"
      /\ c.acc = a /\ c.iss = accIssue[a]
  BY <1>1, ServerCallsMade DEF Resolvable, ResolverModes
<1> HIDE DEF c
<1>3. ~Adds(c, p)
  BY <1>2 DEF Adds
<1>4. (Names(c, p) => d) /\ (Loses(c, p) => ~d)
  <2>1. c.mode # "discard"
    BY DEF c, ResolverModes
  <2> QED
    BY <1>2, <2>1 DEF Names, Loses, Holding, Syncs, Declared
<1>5. Plain(<<c>>, p, d)
  BY <1>2, <1>3, <1>4, OnePlain DEF Apt
<1> QED
  BY <1>1, <1>5, PlainFits DEF accountResolver, c

\* A status is stored with what the issue declares; an account is deleted or
\* pushed by what is stored of it.
LEMMA AccountHandsOn ==
    ASSUME TypeOK, NEW w \in Workers, NEW p \in Path, Signing(p),
           Ready(Top(w), p),
           UpdateAccountStatus(w) \/ DeleteAccountIssue(w) \/ PeriodicSync(w)
    PROVE  Leaves(w, p)
<1> DEFINE t == Top(w)
           d == Declared(p)
<1>1. CASE UpdateAccountStatus(w)
  <2> DEFINE i == [t.iss EXCEPT !.nkey = Stored(AccPath(t.acc)),
                                !.jwt = accJWT[t.acc] # None]
             c == [op |-> "putAccountIssue", acc |-> t.acc, iss |-> i]
  <2>1. /\ t.op = "updateAccountStatus" /\ t.acc \in Accounts
        /\ t.iss \in AccIssue
    BY <1>1, RunningTyped, AccountCallFields
       DEF UpdateAccountStatus, AccIssueCalls
  <2>2. i \in AccIssue /\ i.par = t.iss.par
    <3>1. /\ Stored(AccPath(t.acc)) \in BOOLEAN
          /\ (accJWT[t.acc] # None) \in BOOLEAN
      BY DEF Stored
    <3> QED
      BY <2>1, <3>1 DEF AccIssue
  <2>3. Do(w, <<c>>)
    BY <1>1 DEF UpdateAccountStatus
  <2> HIDE DEF i
  <2>4. /\ c \in Call /\ c.op = "putAccountIssue" /\ c.acc = t.acc
        /\ c.iss.par = t.iss.par
    BY <2>1, <2>2, AccountCallsMade DEF AccIssueCalls
  <2> HIDE DEF c
  <2>5. ~Adds(c, p) /\ ~Leading(t, p)
    BY <2>1, <2>4 DEF Adds, Leading, Clears, Writing
  <2>6. (Names(c, p) => Names(t, p)) /\ (Loses(c, p) => Loses(t, p))
    BY <2>1, <2>4 DEF Names, Loses, Holding
  <2>7. <<c>> \in Seq(Call) /\ Fits(t, <<c>>, p, d)
    <3>1. d \in BOOLEAN
      BY DEF Declared
    <3> QED
      BY <2>4, <2>5, <2>6, <3>1, OneFits DEF Ready
  <2> QED
    BY <2>3, <2>7 DEF Leaves
<1>2. CASE DeleteAccountIssue(w)
  <2>1. t.op = "deleteAccountIssue" /\ t.acc \in Accounts
    BY <1>2, RunningTyped, AccountCallFields DEF DeleteAccountIssue, AccNameCalls
  <2>2. ~Leading(t, p)
    BY <2>1 DEF Leading, Clears, Writing
  <2> QED
    BY <1>2, <2>1, <2>2, HandedOnFits, EmptyFits
       DEF DeleteAccountIssue, Leaves, ResolverModes
<1>3. CASE PeriodicSync(w)
  <2>1. t.op = "periodicSync" /\ t.acc \in Accounts
    BY <1>3, RunningTyped, AccountCallFields DEF PeriodicSync, AccNameCalls
  <2>2. ~Leading(t, p)
    BY <2>1 DEF Leading, Clears, Writing
  <2> QED
    BY <1>3, <2>1, <2>2, HandedOnFits, EmptyFits
       DEF PeriodicSync, Leaves, ResolverModes
<1> QED
  BY <1>1, <1>2, <1>3

\* Refreshing the accounts one by one.
LEMMA EachAccountLeaves ==
    ASSUME TypeOK, NEW w \in Workers, NEW p \in Path, Signing(p),
           UpdateEachAccount(w) \/ PeriodicEachAccount(w)
    PROVE  Leaves(w, p)
<1> DEFINE t == Top(w)
           d == Declared(p)
<1>1. /\ d \in BOOLEAN /\ t.todo \in SUBSET Accounts
      /\ t.op \in {"updateEachAccount", "periodicEachAccount"}
      /\ ~Leading(t, p)
  <2>1. t \in Call /\ t.op \in {"updateEachAccount", "periodicEachAccount"}
    BY RunningTyped DEF UpdateEachAccount, PeriodicEachAccount
  <2>2. ~Leading(t, p)
    BY <2>1 DEF Leading, Clears, Writing
  <2> QED
    BY <2>1, <2>2, AccountCallFields DEF Declared, AccLoopCalls
<1>2. PICK a \in t.todo :
         \/ Do(w, <<>>) \/ Panic
         \/ Do(w, Each(t.op, t.todo \ {a}))
         \/ /\ accIssue[a] # None
            /\ Do(w, refreshAccount(a, accIssue[a]) \o Each(t.op, t.todo \ {a}))
  <2>1. CASE UpdateEachAccount(w)
    <3>1. t.op = "updateEachAccount"
      BY <2>1, RunningTyped DEF UpdateEachAccount
    <3> QED
      BY <2>1, <3>1 DEF UpdateEachAccount
  <2>2. CASE PeriodicEachAccount(w)
    <3>1. t.op = "periodicEachAccount"
      BY <2>2, RunningTyped DEF PeriodicEachAccount
    <3> QED
      BY <2>2, <3>1 DEF PeriodicEachAccount
  <2> QED
    BY <2>1, <2>2
<1> DEFINE rest == Each(t.op, t.todo \ {a})
<1>3. rest \in Seq(Inert(p, d))
  <2> DEFINE c == [op |-> t.op, todo |-> t.todo \ {a}]
  <2>1. c \in Call /\ c.op \in {"updateEachAccount", "periodicEachAccount"}
    BY <1>1, AccountCallsMade DEF AccLoopCalls
  <2> HIDE DEF c
  <2>2. c \in Inert(p, d)
    BY <2>1, InertCalls DEF Signing, InertOps, HarmlessCalls
  <2>3. <<>> \in Seq(Inert(p, d)) /\ <<c>> \in Seq(Inert(p, d))
    BY <2>2, ShortSeq
  <2> QED
    BY <2>3 DEF Each, c
<1> HIDE DEF rest
<1>4. Plain(rest, p, d) /\ Plain(<<>>, p, d)
  BY <1>1, <1>3, InertPlain, ShortSeq
<1>5. ASSUME accIssue[a] # None
      PROVE  Plain(refreshAccount(a, accIssue[a]) \o rest, p, d)
  <2>1. a \in Accounts /\ accIssue[a] \in AccIssue
    BY <1>1, <1>5 DEF TypeOK, StorageOK
  <2>2. Plain(refreshAccount(a, accIssue[a]), p, d)
    BY <1>5, <2>1, RefreshPlain
  <2> QED
    BY <1>1, <1>3, <2>2, PlainBefore
<1> QED
  BY <1>1, <1>2, <1>4, <1>5, PlainFits DEF Leaves, rest

\* Revoking a user leaves its account's signing keys.
LEMMA RevocationLeaves ==
    ASSUME TypeOK, NEW w \in Workers, NEW p \in Path, Signing(p),
           AddUserToRevocationList(w)
    PROVE  Leaves(w, p)
<1> DEFINE t == Top(w)
           d == Declared(p)
           a == t.acc
           u == UserPath(a, t.user)
           i == revoke(accIssue[a], Pub(u))
           put == [op |-> "putAccountIssue", acc |-> a, iss |-> i]
<1>1. /\ d \in BOOLEAN /\ t.op = "addUserToRevocationList"
      /\ a \in Accounts /\ t.user \in Users
      /\ ~Leading(t, p)
  <2>1. t \in Call /\ t.op = "addUserToRevocationList"
    BY RunningTyped DEF AddUserToRevocationList
  <2>2. ~Leading(t, p)
    BY <2>1 DEF Leading, Clears, Writing
  <2> QED
    BY <2>1, <2>2, UserCallFields DEF Declared, UserNameCalls
<1>2. Pub(u) \in Key
  BY <1>1, PathTyped, PubTyped DEF TypeOK
<1>3. ASSUME NEW key \in Key \cup {None}
      PROVE  eraseUser(a, t.user, key) \in Seq(Inert(p, d))
  <2> DEFINE b == [op |-> "deleteUserNkey", acc |-> a, user |-> t.user,
                   key |-> key]
             c == [op |-> "deleteUserTemplate", acc |-> a, user |-> t.user]
  <2>1. b \in Call /\ c \in Call
    BY <1>1, UserCallsMade DEF UserNameCalls
  <2>2. b \in Inert(p, d) /\ c \in Inert(p, d)
    BY <2>1, InertCalls DEF Signing, InertOps
  <2> QED
    BY <2>2, ShortSeq DEF eraseUser
<1>4. ASSUME accIssue[a] # None
      PROVE  Plain((<<put>> \o refreshAccount(a, i))
                   \o eraseUser(a, t.user, Pub(u)), p, d)
  <2>1. accIssue[a] \in AccIssue
    BY <1>1, <1>4 DEF TypeOK, StorageOK
  <2>2. i \in AccIssue /\ i.par.signing = accIssue[a].par.signing
    BY <1>2, <2>1 DEF revoke, AccIssue, AccPar
  <2> HIDE DEF i
  <2>3. /\ Plain(refreshAccount(a, i), p, d)
        /\ put \in Call /\ Apt(put, p, d)
        /\ Leading(put, p) \/ ~d
    BY <1>1, <1>4, <2>2, RefreshPlain
  <2>4. Plain(<<put>> \o refreshAccount(a, i), p, d)
    BY <1>1, <2>3, PlainAfter
  <2> QED
    BY <1>1, <1>2, <1>3, <2>4, PlainBefore
<1>5. \/ Do(w, eraseUser(a, t.user, None))
      \/ /\ accIssue[a] # None
         /\ Do(w, (<<put>> \o refreshAccount(a, i))
                  \o eraseUser(a, t.user, Pub(u)))
  BY DEF AddUserToRevocationList
<1>6. Plain(eraseUser(a, t.user, None), p, d)
  BY <1>1, <1>3, InertPlain
<1> QED
  BY <1>1, <1>4, <1>5, <1>6, PlainFits DEF Leaves

\* An operator's issue: the nkeys that it no longer declares go first.
LEMMA AddOperatorLeaves ==
    ASSUME TypeOK, NEW w \in Workers, NEW p \in Path, Signing(p),
           AddOperatorIssue(w)
    PROVE  Leaves(w, p)
<1> DEFINE t    == Top(w)
           d    == Declared(p)
           i    == t.par
           gone == IF opIssue = None THEN {} ELSE opIssue.signing \ i.signing
           ps   == OpSignings(gone)
           put  == [op |-> "putOperatorIssue", iss |-> i]
           ref  == [op |-> "refreshOperator", iss |-> i]
           push == [op |-> "refreshAccountResolvers", iss |-> i]
           r    == <<put, ref, push>>
<1>1. d \in BOOLEAN /\ t.op = "addOperatorIssue" /\ i \in OpIssue
  BY RunningTyped, OperatorCallFields DEF AddOperatorIssue, Declared
<1>2. opIssue \in OpIssue \cup {None}
  BY DEF TypeOK, StorageOK
<1>3. i.signing \in SUBSET OpKeys /\ gone \in SUBSET OpKeys
  BY <1>1, <1>2 DEF OpIssue
<1>4. Do(w, deleteNkeys(ps) \o r)
  BY DEF AddOperatorIssue
<1>5. Names(t, p) <=> p[1] = "operator" /\ p[3] \in i.signing
  BY <1>1 DEF Names, Holding, Syncs
<1>6. ~Leading(t, p)
  BY <1>1 DEF Leading, Clears, Writing
<1>7. d /\ p[1] = "operator" /\ ~Names(t, p) => p[3] \in gone
  BY <1>5 DEF Declared
<1>8. p[1] = "operator" => p = OpSigning(p[3])
  BY DEF Path, OpSigning
<1> HIDE DEF t, i, gone
<1>9. ps \in SUBSET Path
  BY <1>3, PathsTyped
<1>10. put \in Call /\ ref \in Call /\ push \in Call
  BY <1>1, OperatorCallsMade DEF OpCalls
<1>11. /\ put.op = "putOperatorIssue" /\ put.iss = i
       /\ ref.op = "refreshOperator" /\ ref.iss = i
       /\ push.op = "refreshAccountResolvers"
  OBVIOUS
<1> HIDE DEF put, ref, push
<1>12. /\ r \in Seq(Call) /\ Len(r) = 3
       /\ r[1] = put /\ r[2] = ref /\ r[3] = push
  BY <1>10
<1> HIDE DEF r
<1>13. \A j \in 1..Len(r) : \/ j = 1 /\ r[j] = put
                            \/ j = 2 /\ r[j] = ref
                            \/ j = 3 /\ r[j] = push
  BY <1>12
<1>14. /\ ~Adds(put, p) /\ ~Adds(push, p)
       /\ ~Names(ref, p) /\ ~Names(push, p)
       /\ ~Loses(ref, p) /\ ~Loses(push, p)
       /\ Names(put, p) <=> Names(t, p)
       /\ Loses(put, p) <=> p[1] = "operator" /\ ~Names(t, p)
  BY <1>5, <1>11 DEF Adds, Names, Loses, Holding, Syncs
<1>15. Adds(ref, p) => Names(t, p)
  BY <1>5, <1>11 DEF Adds, OpSignings, OpSigning
<1>16. \/ Kept(r, p, d, TRUE)
       \/ Kept(r, p, d, FALSE) /\ p \in ps
  <2>1. /\ \A j \in 1..Len(r) : r[j].op # "catch" /\ (Adds(r[j], p) => j = 2)
        /\ Len(r) > 0 /\ r[1].op \in Writing
    BY <1>11, <1>12, <1>13, <1>14 DEF Writing
  <2>2. CASE Names(t, p)
    <3>1. Names(r[1], p) /\ \A j \in 1..Len(r) : ~Loses(r[j], p)
      BY <1>12, <1>13, <1>14, <2>2
    <3> QED
      BY <1>1, <1>12, <2>1, <3>1, StoredKept
  <2>3. CASE ~Names(t, p)
    <3>1. \A j \in 1..Len(r) : ~Names(r[j], p) /\ ~Adds(r[j], p)
      BY <1>13, <1>14, <1>15, <2>3
    <3>2. CASE p[1] = "operator" /\ d
      <4>1. Kept(r, p, d, FALSE)
        BY <1>1, <1>12, <1>14, <2>1, <2>3, <3>1, <3>2, StoredKept
      <4>2. p \in ps
        BY <1>7, <1>8, <2>3, <3>2 DEF OpSignings
      <4> QED
        BY <4>1, <4>2
    <3>3. CASE p[1] # "operator"
      <4>1. \A j \in 1..Len(r) : ~Loses(r[j], p)
        BY <1>13, <1>14, <3>3
      <4> QED
        BY <1>1, <1>12, <2>1, <3>1, <4>1, StoredKept
    <3>4. CASE ~d
      <4>1. \A j \in 1..Len(r) : \A k \in 1..(j - 1) : k \in 1..Len(r)
        BY <1>12
      <4> QED
        BY <3>1, <3>4, <4>1 DEF Kept, Settled, Rooted
    <3> QED
      BY <3>2, <3>3, <3>4
  <2> QED
    BY <2>2, <2>3
<1>17. \A j \in 1..Len(r) : Names(r[j], p) => d \/ Names(t, p)
  BY <1>13, <1>14
<1>18. /\ deleteNkeys(ps) \o r \in Seq(Call)
       /\ Fits(t, deleteNkeys(ps) \o r, p, d)
  BY <1>1, <1>6, <1>9, <1>12, <1>16, <1>17, DeletesFit
<1> QED
  BY <1>4, <1>18 DEF Leaves, t

\* Refreshing an operator makes the nkeys that its issue declares.
LEMMA RefreshOperatorLeaves ==
    ASSUME TypeOK, NEW w \in Workers, NEW p \in Path, Signing(p),
           Ready(Top(w), p), RefreshOperator(w)
    PROVE  Leaves(w, p)
<1> DEFINE t    == Top(w)
           d    == Declared(p)
           i    == t.iss
           keys == [op |-> "issueOperatorNkeys", iss |-> i,
                    todo |-> OperatorPaths(i), fresh |-> FALSE]
           jwt  == [op |-> "issueOperatorJWT", iss |-> i]
           rest == IF i.sys THEN issueSystemAccount ELSE <<>>
<1>1. d \in BOOLEAN /\ t.op = "refreshOperator" /\ i \in OpIssue
  BY RunningTyped, OperatorCallFields DEF RefreshOperator, Declared, OpCalls
<1>2. i.signing \in SUBSET OpKeys
  BY <1>1 DEF OpIssue
<1>3. ~Leading(t, p) /\ (p \in OperatorPaths(i) => d)
  <2>1. ~Leading(t, p)
    BY <1>1 DEF Leading, Clears, Writing
  <2>2. p # OpPath
    BY SigningPaths DEF Signing
  <2> QED
    BY <1>1, <2>1, <2>2 DEF Adds, OperatorPaths, Ready
<1>4. Do(w, <<keys, jwt>> \o rest)
  BY DEF RefreshOperator
<1>5. /\ keys \in Call /\ keys.op = "issueOperatorNkeys"
      /\ keys.todo = OperatorPaths(i)
      /\ jwt \in Call /\ jwt.op = "issueOperatorJWT"
  <2>1. OperatorPaths(i) \in SUBSET Path
    BY <1>2, PathTyped, PathsTyped DEF OperatorPaths
  <2> QED
    BY <1>1, <2>1, OperatorCallsMade DEF OpCalls
<1>6. rest \in Seq(Inert(p, d))
  <2> DEFINE acc  == [op |-> "addAccountIssue", acc |-> SysAccount,
                      par |-> DefaultAcc]
             user == [op |-> "addUserIssue", acc |-> SysAccount,
                      user |-> PushUser, par |-> DefaultUser]
  <2>1. acc \in Call /\ user \in Call
    BY NamesAssumption, DefaultsTyped, AccountCallsMade, UserCallsMade
  <2>2. Rootless(acc) /\ Rootless(user)
    BY DEF Rootless, Syncs, DefaultAcc
  <2>3. acc \in Inert(p, d) /\ user \in Inert(p, d)
    BY <2>1, <2>2, InertCalls DEF Signing
  <2> QED
    BY <2>3, ShortSeq DEF issueSystemAccount
<1> HIDE DEF t, i, keys, jwt, rest
<1>7. Apt(keys, p, d) /\ Apt(jwt, p, d) /\ ~Adds(jwt, p)
  BY <1>3, <1>5 DEF Apt, Adds, Names, Loses, Holding, Syncs
<1>8. Plain(<<keys, jwt>> \o rest, p, d)
  BY <1>1, <1>5, <1>6, <1>7, PairPlain, PlainBefore
<1> QED
  BY <1>1, <1>3, <1>4, <1>8, PlainFits DEF Leaves, t

\* Making the nkeys of the operator, and what follows it.
LEMMA OperatorNkeysLeave ==
    ASSUME TypeOK, NEW w \in Workers, NEW p \in Path, Signing(p),
           Ready(Top(w), p), Shaped(Top(w)),
           IssueOperatorNkey(w) \/ IssueOperatorNkeysDone(w)
    PROVE  Leaves(w, p)
<1> DEFINE t == Top(w)
           d == Declared(p)
<1>1. /\ d \in BOOLEAN /\ t.op = "issueOperatorNkeys"
      /\ t.iss \in OpIssue /\ t.todo \in SUBSET Path /\ t.fresh \in BOOLEAN
      /\ t = [op |-> t.op, iss |-> t.iss, todo |-> t.todo,
              fresh |-> t.fresh]
      /\ ~Leading(t, p)
      /\ p \in t.todo => d
  <2>1. Running(w, "issueOperatorNkeys")
    BY DEF IssueOperatorNkey, IssueOperatorNkeysDone
  <2>2. t \in Call /\ t.op = "issueOperatorNkeys"
    BY <2>1, RunningTyped
  <2>3. ~Leading(t, p) /\ (p \in t.todo => Adds(t, p))
    BY <2>2 DEF Leading, Clears, Writing, Adds
  <2> QED
    BY <2>2, <2>3, OperatorCallFields DEF Declared, Ready
<1>2. CASE IssueOperatorNkey(w)
  <2>1. PICK q \in t.todo :
           \/ Do(w, <<[t EXCEPT !.todo = @ \ {q}]>>)
           \/ Do(w, addNkey(q, FALSE)
                    \o <<[t EXCEPT !.todo = @ \ {q}, !.fresh = TRUE]>>)
    BY <1>2 DEF IssueOperatorNkey
  <2> DEFINE same == [t EXCEPT !.todo = @ \ {q}]
             more == [t EXCEPT !.todo = @ \ {q}, !.fresh = TRUE]
             add  == [op |-> "addNkey", path |-> q, seed |-> FALSE]
             Nkeying == [op : {"issueOperatorNkeys"}, iss : OpIssue,
                         todo : SUBSET Path, fresh : BOOLEAN]
  <2>2. \A c \in {same, more} : /\ c \in Nkeying /\ c.op = "issueOperatorNkeys"
                                /\ c.todo = t.todo \ {q}
    <3>1. t \in Nkeying /\ t.todo \ {q} \in SUBSET Path
      BY <1>1
    <3> HIDE DEF t
    <3> QED
      BY <3>1
  <2>3. \A c \in {same, more} : c \in Call
    <3>1. Nkeying \subseteq InnerCall
      BY DEF InnerCall
    <3> HIDE DEF same, more, Nkeying
    <3> QED
      BY <2>2, <3>1 DEF Call
  <2> HIDE DEF same, more
  <2>4. \A c \in {same, more} :
           /\ Apt(c, p, d)
           /\ Adds(c, p) => p \in t.todo
    BY <1>1, <2>2 DEF Apt, Adds, Names, Loses, Holding, Syncs
  <2>5. /\ add \in Call /\ add.op = "addNkey" /\ add.path = q
    BY <1>1, NkeyCallsMade
  <2> HIDE DEF add
  <2>6. /\ Apt(add, p, d)
        /\ p \in t.todo => Leading(add, p)
    <3>1. Apt(add, p, d)
      BY <1>1, <2>5 DEF Apt, Adds, Names, Loses, Holding, Syncs
    <3>2. ASSUME p \in t.todo
          PROVE  Leading(add, p)
      <4>1. p[1] = "operator" /\ q[1] = "operator" /\ q \in Path
        BY <1>1, <3>2 DEF Shaped
      <4>2. p[2] = None /\ q[2] = None
        BY <4>1 DEF Path
      <4> QED
        BY <2>5, <4>1, <4>2 DEF Leading
    <3> QED
      BY <3>1, <3>2
  <2>7. Plain(<<same>>, p, d)
    BY <2>3, <2>4, OnePlain
  <2>8. Plain(<<add>> \o <<more>>, p, d)
    BY <2>3, <2>4, <2>5, <2>6, PairPlain
  <2>9. Do(w, <<same>>) \/ Do(w, <<add>> \o <<more>>)
    BY <2>1 DEF same, more, add, addNkey
  <2> QED
    BY <1>1, <2>7, <2>8, <2>9, PlainFits DEF Leaves
<1>3. CASE IssueOperatorNkeysDone(w)
  <2> DEFINE rest == Each("updateEachAccount", AccountList)
             c    == [op |-> "updateEachAccount", todo |-> AccountList]
  <2>1. c \in Call
    BY AccountCallsMade DEF AccLoopCalls, AccountList
  <2>2. c \in Inert(p, d)
    BY <2>1, InertCalls DEF Signing, InertOps, HarmlessCalls
  <2>3. rest \in Seq(Inert(p, d)) /\ <<>> \in Seq(Inert(p, d))
    BY <2>2, ShortSeq DEF Each
  <2>4. Plain(rest, p, d) /\ Plain(<<>>, p, d)
    BY <1>1, <2>3, InertPlain
  <2>5. Do(w, rest) \/ Do(w, <<>>)
    BY <1>3 DEF IssueOperatorNkeysDone
  <2> QED
    BY <1>1, <2>4, <2>5, PlainFits DEF Leaves
<1> QED
  BY <1>2, <1>3

\* Deleting an operator without its system account, its signing nkeys go
\* before its issue.
LEMMA DeleteOperatorLeaves ==
    ASSUME TypeOK, NEW w \in Workers, NEW p \in Path, Signing(p),
           DeleteOperatorIssue(w), opIssue # None => ~opIssue.sys
    PROVE  Leaves(w, p)
<1> DEFINE t    == Top(w)
           d    == Declared(p)
           main == deleteNkeys({OpPath})
           sign == deleteNkeys(OpSignings(opIssue.signing))
           c    == [op |-> "deleteOperatorJWT"]
           e    == [op |-> "deleteOperatorEntry"]
           r    == <<c, e>>
<1>1. d \in BOOLEAN /\ ~Leading(t, p)
  <2>1. t.op = "deleteOperatorIssue"
    BY RunningTyped DEF DeleteOperatorIssue
  <2> QED
    BY <2>1 DEF Leading, Clears, Writing, Declared
<1>2. CASE opIssue = None
  BY <1>2, EmptyFits DEF DeleteOperatorIssue, Leaves
<1>3. CASE opIssue # None
  <2>1. opIssue.signing \in SUBSET OpKeys
    BY <1>3 DEF TypeOK, StorageOK, OpIssue
  <2>2. /\ c \in Call /\ c.op = "deleteOperatorJWT"
        /\ e \in Call /\ e.op = "deleteOperatorEntry"
    BY OperatorCallsMade DEF PlainCalls
  <2> HIDE DEF c, e
  <2>3. /\ OpSignings(opIssue.signing) \in SUBSET Path
        /\ {OpPath} \in SUBSET Path
    BY <2>1, PathTyped, PathsTyped
  <2>4. /\ r \in Seq(Call)
        /\ \A j \in 1..Len(r) : ~Names(r[j], p)
        /\ Kept(r, p, d, FALSE)
        /\ ~(d /\ Loses(e, p)) => Kept(r, p, d, TRUE)
    <3>1. r \in Seq(Call)
      BY <2>2
    <3>2. /\ Kept(<<c, e>>, p, d, FALSE)
          /\ ~(d /\ Loses(e, p)) => Kept(<<c, e>>, p, d, TRUE)
          /\ \A j \in 1..Len(<<c, e>>) : ~Names(<<c, e>>[j], p)
      BY <1>1, <2>2, EntryKept
    <3> QED
      BY <3>1, <3>2
  <2>5. ASSUME d, Loses(e, p)
        PROVE  p \in OpSignings(opIssue.signing)
    <3>1. p[1] = "operator"
      BY <2>2, <2>5 DEF Loses, Holding, Syncs
    <3>2. p = OpSigning(p[3])
      BY <3>1 DEF Path, OpSigning
    <3> QED
      BY <2>5, <3>1, <3>2 DEF OpSignings, Declared
  <2> HIDE DEF r
  <2>6. sign \o r \in Seq(Call) /\ Fits(t, sign \o r, p, d)
    BY <1>1, <2>3, <2>4, <2>5, DeletesFit
  <2>7. main \o (sign \o r) \in Seq(Call) /\ Fits(t, main \o (sign \o r), p, d)
    BY <1>1, <2>3, <2>6, DeletesFit DEF Fits
  <2>8. main \in Seq(Call) /\ sign \in Seq(Call) /\ <<>> \in Seq(Call)
    BY <2>3, DeleteNkeysTyped
  <2>9. Do(w, ((main \o sign) \o <<>>) \o r)
    BY <1>3 DEF DeleteOperatorIssue, r, c, e
  <2>10. ((main \o sign) \o <<>>) \o r = main \o (sign \o r)
    <3>1. (main \o sign) \o <<>> = main \o sign
      BY <2>8, ConcatProperties, ConcatEmptySeq
    <3>2. (main \o sign) \o r = main \o (sign \o r)
      BY <2>4, <2>8, ConcatAssociative
    <3> QED
      BY <3>1, <3>2
  <2> QED
    BY <2>7, <2>9, <2>10 DEF Leaves
<1> QED
  BY <1>2, <1>3

-----------------------------------------------------------------------------
(* The invariant.                                                          *)

\* the handlers that have to do with signing nkeys
RootStep(w) ==
    \/ AddNkey(w) \/ PutNkey(w) \/ EnsureIssue(w)
    \/ RefreshAccountResolver(w) \/ PushAccount(w) \/ DeleteAccounts(w)
    \/ AddAccountIssue(w) \/ IssueAccountNKey(w) \/ IssueAccountNKeysDone(w)
    \/ UpdateAccountStatus(w) \/ DeleteAccountIssue(w)
    \/ AddUserToRevocationList(w)
    \/ AddOperatorIssue(w) \/ RefreshOperator(w) \/ IssueOperatorNkey(w)
    \/ IssueOperatorNkeysDone(w) \/ UpdateEachAccount(w)
    \/ DeleteOperatorIssue(w)
    \/ PeriodicEachAccount(w) \/ PeriodicSync(w)

\* Which actions the calls are made by that have to do with signing nkeys,
\* and what becomes of issues and nkeys.
LEMMA RootActions ==
    ASSUME NEW w, Acts(w)
    PROVE  /\ Top(w).op \in Leads \cup {"putNkey", "ensureIssue"} =>
                 RootStep(w) \/ Fail(w) \/ Do(w, <<>>)
           /\ Top(w).op = "putOperatorIssue" =>
                 PutOperatorIssue(w) \/ StorageError(w)
           /\ Top(w).op = "putAccountIssue" =>
                 PutAccountIssue(w) \/ StorageError(w)
           /\ Top(w).op = "deleteOperatorEntry" =>
                 DeleteOperatorEntry(w) \/ StorageError(w)
           /\ Top(w).op = "deleteAccountEntry" =>
                 DeleteAccountEntry(w) \/ StorageError(w)
           /\ Top(w).op = "deleteNkeys" => DeleteNkeys(w) \/ StorageError(w)
           /\ Top(w).op \in {"deleteOperatorJWT", "deleteAccountJWT"} =>
                 (Do(w, <<>>) /\ nkey' = nkey) \/ StorageError(w)
           /\ \/ opIssue' = opIssue \/ PutOperatorIssue(w)
              \/ DeleteOperatorEntry(w)
           /\ StorageError(w) => UNCHANGED <<opIssue, accIssue, nkey>>
<1> USE DEF Acts, StorageError, StatusUnread, SyncSkipped, StoreUserIssueUpdate,
         RootStep, Leads, Syncs,
         OneFault, issues, tokens, seeds, world, Running, Top, storeUserStatus,
         Step, NkeyStep, UserStep, ServerStep, AccountStep,
         OperatorStep, PeriodicStep, LeaveCatch, Respond,
         AddNkey, PutNkey, EnsureIssue, DeleteNkeys, AddOperatorJWT,
         AddAccountJWT, DeleteOperatorJWT, DeleteAccountJWT, AddUserIssue,
         IssueUserNKeys, RefreshPushUser,
         DeleteUserIssue, DeleteUserNkey, DeleteUserTemplate,
         GenerateUserCreds, GenerateUserJWT, FormatUserConfig, ReturnCreds,
         RefreshAccountResolver, PushAccount, DeleteAccounts,
         RefreshAccountResolvers, PushEach, AddAccountIssue, PutAccountIssue,
         IssueAccountNKey, IssueAccountNKeysDone, UpdateUserIssues,
         UpdateEachUser, IssueAccountJWT, UpdateAccountStatus,
         DeleteAccountIssue, DeleteAccountEntry, AddUserToRevocationList,
         AddOperatorIssue, PutOperatorIssue, RefreshOperator, IssueOperatorNkey,
         IssueOperatorNkeysDone, UpdateEachAccount, IssueOperatorJWT,
         DeleteOperatorIssue, DeleteOperatorEntry, PeriodicFunc,
         PeriodicAccount, PeriodicRefreshAccountIssues, PeriodicEachAccount,
         PeriodicRefreshUserIssues, PeriodicEachUser, PeriodicSync
<1>1. Top(w).op \in Leads \cup {"putNkey", "ensureIssue"} =>
         RootStep(w) \/ Fail(w) \/ Do(w, <<>>)
  OBVIOUS
<1>2. Top(w).op = "putOperatorIssue" =>
         PutOperatorIssue(w) \/ StorageError(w)
  OBVIOUS
<1>3. Top(w).op = "putAccountIssue" =>
         PutAccountIssue(w) \/ StorageError(w)
  OBVIOUS
<1>4. Top(w).op = "deleteOperatorEntry" =>
         DeleteOperatorEntry(w) \/ StorageError(w)
  OBVIOUS
<1>5. Top(w).op = "deleteAccountEntry" =>
         DeleteAccountEntry(w) \/ StorageError(w)
  OBVIOUS
<1>6. Top(w).op = "deleteNkeys" => DeleteNkeys(w) \/ StorageError(w)
  OBVIOUS
<1>7. Top(w).op \in {"deleteOperatorJWT", "deleteAccountJWT"} =>
         (Do(w, <<>>) /\ nkey' = nkey) \/ StorageError(w)
  OBVIOUS
<1>8. \/ opIssue' = opIssue \/ PutOperatorIssue(w)
      \/ DeleteOperatorEntry(w)
  OBVIOUS
<1>9. StorageError(w) => UNCHANGED <<opIssue, accIssue, nkey>>
  OBVIOUS
<1> QED
  BY <1>1, <1>2, <1>3, <1>4, <1>5, <1>6, <1>7, <1>8, <1>9

\* A handler leaves in place of its call, if anything, calls that fit.
LEMMA RootLeaves ==
    ASSUME TypeOK, NEW w \in Workers, Acts(w), Shaped(Top(w)),
           NEW p \in Path, Signing(p), Ready(Top(w), p),
           Top(w).op \notin Rewrites \cup Clears,
           Top(w).op = "deleteOperatorIssue" =>
              (opIssue # None => ~opIssue.sys)
    PROVE  \/ agenda'[w] \in {<<>>, Unwind(agenda[w])}
           \/ \E n \in Seq(Call) : /\ agenda'[w] = n \o Tail(agenda[w])
                                   /\ Fits(Top(w), n, p, Declared(p))
<1> DEFINE s == agenda[w]
           t == Top(w)
           d == Declared(p)
<1>1. d \in BOOLEAN
  BY DEF Declared
<1>2. CASE t.op \in Leads \cup {"putNkey", "ensureIssue"}
  <2>1. Leaves(w, p) \/ Do(w, <<>>)
    <3>1. CASE RootStep(w)
      <4>1. DeleteOperatorIssue(w) => t.op = "deleteOperatorIssue"
        BY RunningTyped DEF DeleteOperatorIssue
      <4> QED
        BY <3>1, <4>1, NkeyLeaves, SyncLeaves, AddAccountLeaves,
           AccountNkeysLeave, AccountHandsOn, EachAccountLeaves,
           RevocationLeaves, AddOperatorLeaves, RefreshOperatorLeaves,
           OperatorNkeysLeave, DeleteOperatorLeaves DEF RootStep
    <3> QED
      BY <1>2, <3>1, RootActions DEF Leaves
  <2>2. Panic => agenda'[w] = <<>>
    BY DEF Panic
  <2>3. <<>> \in Seq(Call) /\ Fits(t, <<>>, p, d)
    BY EmptyFits
  <2> QED
    BY <2>1, <2>2, <2>3, DoLeaves DEF Leaves
<1>3. CASE t.op \notin Leads \cup {"putNkey", "ensureIssue"}
  <2>1. ~Leading(t, p)
    BY <1>3 DEF Leading, Leads, Rewrites
  <2>2. ASSUME NEW n \in Seq(Callable(t))
        PROVE  n \in Seq(Call) /\ Fits(t, n, p, d)
    <3>1. \A c \in Callable(t) : c \in Call /\ Rootless(c)
      BY <1>3 DEF Callable, MayCall
    <3>2. \A c \in Callable(t) : c \in Inert(p, d)
      BY <3>1, InertCalls DEF Signing
    <3>3. n \in Seq(Inert(p, d))
      BY <3>2
    <3> QED
      BY <1>1, <2>1, <3>3, InertPlain, PlainFits
  <2> QED
    BY <2>2, ActsLeaves
<1> QED
  BY <1>2, <1>3

\* The first call of an agenda, if it changes no issue and deletes nothing,
\* ends no declaration and creates nothing undeclared.
LEMMA KeptReady ==
    ASSUME NEW p, NEW d \in BOOLEAN, NEW st, NEW s \in Seq(Call), s # <<>>,
           Kept(s, p, d, st), s[1].op \notin Rewrites \cup Clears
    PROVE  (Loses(s[1], p) => ~d) /\ (Adds(s[1], p) => d)
<1>1. 1 \in 1..Len(s) /\ (\A i \in 1..1 : i = 1) /\ \A i \in 1..(1 - 1) : FALSE
  BY LenProperties, EmptySeq
<1>2. ~Dropping(s, 1, p, st) /\ ~Founded(s, 1, p)
  BY <1>1 DEF Dropping, Founded
<1> QED
  BY <1>1, <1>2 DEF Kept, Settled, Rooted

\* What a step does to a signing nkey and to its declaration.
LEMMA RootEffects ==
    ASSUME TypeOK, NEW w \in Workers, Acts(w), Top(w) \in Sane,
           NEW p \in Path, Signing(p)
    PROVE  LET t == Top(w) IN
           /\ t.op \notin Rewrites => (Declared(p)' <=> Declared(p))
           /\ t.op \in Rewrites => (Stored(p)' <=> Stored(p))
           /\ Stored(p)' => Stored(p) \/ (t.op = "putNkey" /\ t.path = p)
           /\ t.op \in Rewrites =>
                 \/ /\ agenda'[w] = Unwind(agenda[w])
                    /\ Declared(p)' <=> Declared(p)
                 \/ /\ agenda'[w] = Tail(agenda[w])
                    /\ Declared(p)' <=> \/ Names(t, p)
                                        \/ Declared(p) /\ ~Loses(t, p)
           /\ t.op \in Clears =>
                 \/ agenda'[w] = Unwind(agenda[w])
                 \/ \E n \in Seq(Call) :
                       /\ agenda'[w] = n \o Tail(agenda[w])
                       /\ \A j \in 1..Len(n) : n[j].op \in Clears
                       /\ Stored(p)' =>
                             \/ ~(t.op = "deleteNkeys" /\ p \in t.paths)
                             \/ \E j \in 1..Len(n) : /\ n[j].op = "deleteNkeys"
                                                     /\ p \in n[j].paths
<1> DEFINE t == Top(w)
           s == agenda[w]
<1>1. t \in Call /\ s \in Seq(Call) /\ s # <<>>
  BY AgendaTyped, Writes DEF Sane
<1>2. \A q \in Path : <<>> \o Tail(s) = Tail(s)
  BY <1>1, HeadTailProperties, ConcatEmptySeq
<1>3. t.op \notin Rewrites => UNCHANGED <<opIssue, accIssue>>
  BY RootActions, Writes
     DEF PutOperatorIssue, DeleteOperatorEntry, PutAccountIssue,
         DeleteAccountEntry, Running, Top, Rewrites, Writing
<1>4. t.op \in Rewrites => nkey' = nkey
  BY Writes
     DEF PutNkey, DeleteNkeys, DeleteUserNkey, Running, Top, Rewrites, Writing
<1>5. Stored(p)' => Stored(p) \/ (t.op = "putNkey" /\ t.path = p)
  BY Effects DEF Stored
<1>6. ASSUME t.op \in Rewrites
      PROVE  \/ /\ agenda'[w] = Unwind(s)
                /\ Declared(p)' <=> Declared(p)
             \/ /\ agenda'[w] = Tail(s)
                /\ Declared(p)' <=> \/ Names(t, p)
                                    \/ Declared(p) /\ ~Loses(t, p)
  <2>1. CASE StorageError(w)
    BY <2>1, RootActions, DoLeaves DEF Declared
  <2>2. CASE PutOperatorIssue(w)
    <3>1. /\ t.op = "putOperatorIssue" /\ t.iss \in OpIssue
          /\ opIssue' = t.iss /\ accIssue' = accIssue
          /\ agenda'[w] = Tail(s)
      BY <1>1, <1>2, <2>2, OperatorCallFields, DoLeaves
         DEF PutOperatorIssue, Running, Top, OpCalls
    <3>2. opIssue' # None
      BY <3>1, NoneAssumption
    <3>3. p[1] \in {"operator", "account"} /\ "operator" # "account"
      BY DEF Path, Signing
    <3> QED
      BY <3>1, <3>2, <3>3 DEF Declared, Names, Loses, Holding, Syncs
  <2>3. CASE DeleteOperatorEntry(w)
    <3>1. /\ t.op = "deleteOperatorEntry"
          /\ opIssue' = None /\ accIssue' = accIssue
          /\ agenda'[w] = Tail(s)
      BY <1>2, <2>3, DoLeaves DEF DeleteOperatorEntry, Running, Top
    <3>2. p[1] \in {"operator", "account"} /\ "operator" # "account"
      BY DEF Path, Signing
    <3> QED
      BY <3>1, <3>2 DEF Declared, Names, Loses, Holding, Syncs
  <2>4. CASE PutAccountIssue(w) \/ DeleteAccountEntry(w)
    <3>1. PICK i :
             /\ t.acc \in Accounts
             /\ \/ t.op = "putAccountIssue" /\ i = t.iss /\ i \in AccIssue
                \/ t.op = "deleteAccountEntry" /\ i = None
             /\ accIssue' = [accIssue EXCEPT ![t.acc] = i]
             /\ opIssue' = opIssue
             /\ agenda'[w] = Tail(s)
      <4>1. CASE PutAccountIssue(w)
        BY <1>1, <1>2, <4>1, AccountCallFields, DoLeaves
           DEF PutAccountIssue, Running, Top, AccIssueCalls
      <4>2. CASE DeleteAccountEntry(w)
        BY <1>1, <1>2, <4>2, AccountCallFields, DoLeaves
           DEF DeleteAccountEntry, Running, Top, AccNameCalls
      <4> QED
        BY <2>4, <4>1, <4>2
    <3>2. (i = None) <=> (t.op = "deleteAccountEntry")
      BY <3>1, NoneAssumption
    <3>3. p[1] = "operator" \/ (p[1] = "account" /\ p[2] \in Accounts)
      BY DEF Path, Signing
    <3>4. p[1] = "account" =>
             accIssue'[p[2]] = IF p[2] = t.acc THEN i ELSE accIssue[p[2]]
      BY <3>1, <3>3 DEF TypeOK, StorageOK
    <3> QED
      BY <3>1, <3>2, <3>3, <3>4 DEF Declared, Names, Loses, Holding, Syncs
  <2>5. \/ StorageError(w) \/ PutOperatorIssue(w) \/ DeleteOperatorEntry(w)
        \/ PutAccountIssue(w) \/ DeleteAccountEntry(w)
    BY <1>6, RootActions DEF Rewrites, Writing
  <2> QED
    BY <2>1, <2>2, <2>3, <2>4, <2>5
<1>7. ASSUME t.op \in Clears
      PROVE  \/ agenda'[w] = Unwind(s)
             \/ \E n \in Seq(Call) :
                   /\ agenda'[w] = n \o Tail(s)
                   /\ \A j \in 1..Len(n) : n[j].op \in Clears
                   /\ Stored(p)' =>
                         \/ ~(t.op = "deleteNkeys" /\ p \in t.paths)
                         \/ \E j \in 1..Len(n) : /\ n[j].op = "deleteNkeys"
                                                 /\ p \in n[j].paths
  <2>1. CASE StorageError(w)
    BY <2>1, DoLeaves
  <2>2. CASE DeleteNkeys(w)
    <3>1. t.op = "deleteNkeys" /\ t.paths \in SUBSET Path
      BY <1>1, <2>2, NkeyCallFields DEF DeleteNkeys, Running, Top
    <3>2. PICK q \in t.paths : /\ nkey' = [nkey EXCEPT ![q] = 0]
                               /\ Do(w, deleteNkeys(t.paths \ {q}))
      BY <2>2 DEF DeleteNkeys
    <3> DEFINE n == deleteNkeys(t.paths \ {q})
               c == [op |-> "deleteNkeys", paths |-> t.paths \ {q}]
    <3>3. n \in Seq(Call)
      BY <3>1, DeleteNkeysTyped
    <3>4. \/ t.paths \ {q} = {} /\ n = <<>>
          \/ t.paths \ {q} # {} /\ n = <<c>>
      BY DEF deleteNkeys
    <3>5. c.op = "deleteNkeys" /\ c.paths = t.paths \ {q}
      OBVIOUS
    <3> HIDE DEF c
    <3>6. Len(<<c>>) = 1 /\ <<c>>[1] = c /\ 1 \in 1..1 /\ \A j \in 1..1 : j = 1
      OBVIOUS
    <3>7. p \in t.paths /\ Stored(p)' => p \in t.paths \ {q}
      BY <3>1, <3>2 DEF Stored, TypeOK, StorageOK
    <3>8. \A j \in 1..Len(n) : n[j].op \in Clears
      BY <3>4, <3>5, <3>6 DEF Clears
    <3>9. p \in t.paths /\ Stored(p)' =>
             \E j \in 1..Len(n) : n[j].op = "deleteNkeys" /\ p \in n[j].paths
      BY <3>4, <3>5, <3>6, <3>7
    <3>10. agenda'[w] = n \o Tail(s)
      BY <3>2, DoLeaves
    <3> QED
      BY <3>3, <3>8, <3>9, <3>10
  <2>3. CASE /\ t.op \in {"deleteOperatorJWT", "deleteAccountJWT"}
             /\ Do(w, <<>>)
    <3>1. agenda'[w] = <<>> \o Tail(s)
      BY <2>3, DoLeaves
    <3>2. <<>> \in Seq(Call) /\ \A j \in 1..Len(<<>>) : FALSE
      OBVIOUS
    <3> QED
      BY <2>3, <3>1, <3>2
  <2> QED
    BY <1>7, <2>1, <2>2, <2>3, RootActions DEF Clears
<1> QED
  BY <1>3, <1>4, <1>5, <1>6, <1>7 DEF Declared, Stored

\* A handler's step keeps what is to become of the nkey at p in step with what
\* is to become of its declaration.
LEMMA StepRoots ==
    ASSUME TypeOK, NEW w \in Workers, Acts(w), Top(w) \in Sane,
           Top(w).op = "deleteOperatorIssue" =>
              (opIssue # None => ~opIssue.sys),
           NEW p \in Path, Signing(p), Stored(p) => Declared(p),
           Kept(agenda[w], p, Declared(p), Stored(p))
    PROVE  /\ Stored(p)' => Declared(p)'
           /\ Kept(agenda'[w], p, Declared(p)', Stored(p)')
<1> DEFINE s   == agenda[w]
           t   == Top(w)
           m   == agenda'[w]
           d   == Declared(p)
           st  == Stored(p)
           now == Declared(p)'
           st2 == Stored(p)'
<1>1. /\ s \in Seq(Call) /\ s # <<>> /\ s[1] = t /\ Shaped(t)
      /\ d \in BOOLEAN /\ st \in BOOLEAN /\ now \in BOOLEAN /\ st2 \in BOOLEAN
  BY AgendaTyped, Writes DEF Top, Sane, Declared, Stored
<1>2. /\ t.op \notin Rewrites => (now <=> d)
      /\ t.op \in Rewrites => (st2 <=> st)
      /\ st2 => st \/ (t.op = "putNkey" /\ t.path = p)
      /\ t.op \in Rewrites =>
            \/ m = Unwind(s) /\ (now <=> d)
            \/ m = Tail(s) /\ (now <=> Names(t, p) \/ (d /\ ~Loses(t, p)))
      /\ t.op \in Clears =>
            \/ m = Unwind(s)
            \/ \E n \in Seq(Call) :
                  /\ m = n \o Tail(s)
                  /\ \A j \in 1..Len(n) : n[j].op \in Clears
                  /\ st2 => \/ ~(t.op = "deleteNkeys" /\ p \in t.paths)
                            \/ \E j \in 1..Len(n) : /\ n[j].op = "deleteNkeys"
                                                    /\ p \in n[j].paths
  BY RootEffects
<1>3. (st => d) /\ Kept(s, p, d, st)
  OBVIOUS
<1>4. Kept(Unwind(s), p, d, st2)
  BY <1>1, <1>3, CaughtKept
<1>5. CASE t.op \notin Rewrites \cup Clears
  <2>1. (Loses(t, p) => ~d) /\ (Adds(t, p) => d)
    BY <1>1, <1>3, <1>5, KeptReady
  <2>2. st2 => d
    BY <1>2, <1>3, <2>1 DEF Adds
  <2>3. \/ m \in {<<>>, Unwind(s)}
        \/ \E n \in Seq(Call) : m = n \o Tail(s) /\ Fits(t, n, p, d)
    BY <1>1, <1>5, <2>1, RootLeaves DEF Ready
  <2>4. Kept(m, p, d, st2)
    <3>1. CASE m = <<>>
      BY <3>1 DEF Kept, Settled, Rooted
    <3>2. ASSUME NEW n \in Seq(Call), m = n \o Tail(s), Fits(t, n, p, d)
          PROVE  Kept(m, p, d, st2)
      <4> HIDE DEF s, t, m, d, st, st2
      <4> QED
        BY <1>1, <1>3, <1>5, <3>2, QuietMade
    <3> QED
      BY <1>4, <2>3, <3>1, <3>2
  <2>5. now = d
    BY <1>1, <1>2, <1>5
  <2> QED
    BY <2>2, <2>4, <2>5
<1>6. CASE t.op \in Rewrites
  <2>1. st2 = st
    BY <1>1, <1>2, <1>6
  <2>2. CASE m = Unwind(s) /\ (now <=> d)
    <3>1. now = d
      BY <1>1, <2>2
    <3> QED
      BY <1>3, <1>4, <2>1, <2>2, <3>1
  <2>3. CASE /\ m = Tail(s)
             /\ now <=> Names(t, p) \/ (d /\ ~Loses(t, p))
    <3> DEFINE then == Names(s[1], p) \/ (d /\ ~Loses(s[1], p))
    <3>1. now = then
      BY <1>1, <2>3
    <3>2. Kept(Tail(s), p, then, st) /\ (st => then)
      <4> HIDE DEF s, t, d, st
      <4> QED
        BY <1>1, <1>3, <1>6, RewriteMade
    <3> QED
      BY <2>1, <2>3, <3>1, <3>2
  <2> QED
    BY <1>2, <1>6, <2>2, <2>3
<1>7. CASE t.op \in Clears
  <2>1. t.op \notin Rewrites /\ t.op # "putNkey"
    BY <1>7 DEF Clears, Rewrites, Writing
  <2>2. now = d /\ (st2 => st)
    BY <1>1, <1>2, <2>1
  <2>3. CASE m = Unwind(s)
    BY <1>3, <1>4, <2>2, <2>3
  <2>4. ASSUME NEW n \in Seq(Call), m = n \o Tail(s),
               \A j \in 1..Len(n) : n[j].op \in Clears,
               st2 => \/ ~(t.op = "deleteNkeys" /\ p \in t.paths)
                      \/ \E j \in 1..Len(n) : /\ n[j].op = "deleteNkeys"
                                              /\ p \in n[j].paths
        PROVE  Kept(m, p, d, st2)
    <3> DEFINE rest == st2 /\ ~(t.op = "deleteNkeys" /\ p \in t.paths)
    <3>1. rest \in BOOLEAN /\ Tail(s) \in Seq(Call)
      BY <1>1, HeadTailProperties
    <3>2. Kept(Tail(s), p, d, rest)
      <4>1. rest => st /\ ~(s[1].op = "deleteNkeys" /\ p \in s[1].paths)
        BY <1>1, <2>2
      <4> HIDE DEF s, t, d, st, rest
      <4> QED
        BY <1>1, <1>3, <1>7, <3>1, <4>1, ClearsDone
    <3>3. st2 => \/ rest
                 \/ \E j \in 1..Len(n) :
                       n[j].op = "deleteNkeys" /\ p \in n[j].paths
      BY <2>4
    <3> HIDE DEF s, t, m, d, st, st2, rest
    <3> QED
      BY <1>1, <2>4, <3>1, <3>2, <3>3, ClearsFirst
  <2> QED
    BY <1>2, <1>3, <1>7, <2>2, <2>3, <2>4
<1> QED
  BY <1>5, <1>6, <1>7

\* Operators are deleted.
Deleting == \E r \in Requests : r.op = "deleteOperatorIssue"

\* Requests that create no signing nkey but by an issue that declares it, and
\* no operator with a system account, if operators are deleted.
RootsAsked ==
    \A r \in Requests :
        /\ r.op = "addNkey" => ~Signing(r.path)
        /\ Deleting /\ r.op = "addOperatorIssue" => ~r.par.sys

\* calls of such requests
Simple ==
    {c \in Call :
        /\ c.op = "deleteOperatorIssue" => Deleting
        /\ Deleting /\ c.op = "addOperatorIssue" => ~c.par.sys
        /\ Deleting /\ c.op = "putOperatorIssue" => ~c.iss.sys}

\* the inductive invariant
RootsKept(w) ==
    /\ agenda[w] \in Seq(Simple)
    /\ Deleting /\ opIssue # None => ~opIssue.sys
    /\ \A p \in Path : Signing(p) =>
          /\ Stored(p) => Declared(p)
          /\ Kept(agenda[w], p, Declared(p), Stored(p))

\* Handlers keep to what was asked of the operator.
LEMMA StepSimple ==
    ASSUME TypeOK, NEW w \in Workers, Acts(w), Top(w) \in Sane, RootsKept(w)
    PROVE  /\ Top(w) \in Simple /\ agenda'[w] \in Seq(Simple)
           /\ Deleting /\ opIssue' # None => ~opIssue'.sys
<1> DEFINE s == agenda[w]
           t == Top(w)
<1>1. s \in Seq(Call) /\ s # <<>> /\ s[1] = t /\ Shaped(t)
  BY AgendaTyped, Writes DEF Top, Sane
<1>2. t \in Simple /\ \A k \in 2..Len(s) : s[k] \in Simple
  <2>1. \A k \in 1..Len(s) : s[k] \in Simple
    BY ElementOfSeq DEF RootsKept
  <2>2. 1 \in 1..Len(s) /\ \A k \in 2..Len(s) : k \in 1..Len(s)
    BY <1>1, LenProperties, EmptySeq
  <2> QED
    BY <1>1, <2>1, <2>2
<1>3. Callable(t) \subseteq Simple /\ Simple \subseteq Call
  BY <1>2 DEF Callable, MayCall, Simple
<1>4. agenda'[w] \in Seq(Simple)
  BY <1>1, <1>2, <1>3, ActsWithin
<1>5. ASSUME Deleting, opIssue' # None
      PROVE  ~opIssue'.sys
  <2>1. CASE opIssue' = opIssue
    BY <1>5, <2>1 DEF RootsKept
  <2>2. CASE PutOperatorIssue(w)
    <3>1. t.op = "putOperatorIssue" /\ opIssue' = t.iss
      BY <2>2 DEF PutOperatorIssue, Running, Top
    <3> QED
      BY <1>2, <1>5, <3>1 DEF Simple
  <2>3. CASE DeleteOperatorEntry(w)
    BY <1>5, <2>3 DEF DeleteOperatorEntry
  <2> QED
    BY <2>1, <2>2, <2>3, RootActions
<1> QED
  BY <1>2, <1>4, <1>5

\* A handler's step keeps the invariant.
LEMMA StepRootsKept ==
    ASSUME TypeOK, NEW w \in Workers, Acts(w), OneAtATime(w), RootsKept(w)
    PROVE  RootsKept(w)'
<1>1. Top(w) \in Sane
  BY ActsSane
<1>2. /\ Top(w) \in Simple /\ agenda'[w] \in Seq(Simple)
      /\ Deleting /\ opIssue' # None => ~opIssue'.sys
  BY <1>1, StepSimple
<1>3. Top(w).op = "deleteOperatorIssue" => (opIssue # None => ~opIssue.sys)
  BY <1>2 DEF Simple, RootsKept
<1>4. ASSUME NEW p \in Path, Signing(p)
      PROVE  /\ Stored(p)' => Declared(p)'
             /\ Kept(agenda'[w], p, Declared(p)', Stored(p)')
  BY <1>1, <1>3, <1>4, StepRoots DEF RootsKept
<1> QED
  BY <1>2, <1>4 DEF RootsKept, Simple

\* A request that comes changes nothing.
LEMMA ReceiveRoots ==
    ASSUME TypeOK, RootsAsked, NEW w \in Workers, Receive(w), RootsKept(w)
    PROVE  RootsKept(w)'
<1>1. UNCHANGED <<opIssue, accIssue, nkey>>
  BY DEF Receive, issues, seeds
<1>2. PICK r \in Requests :
         agenda'[w] = <<r, [op |-> "reply", req |-> r, faults |-> faults]>>
  BY DEF Receive, TypeOK, WorldOK, AgendaOK
<1> DEFINE e == [op |-> "reply", req |-> r, faults |-> faults]
           s == <<r, e>>
<1>3. r \in Request /\ r \in Call /\ e \in Call /\ e.op = "reply"
  BY RequestsAssumption DEF Call, Reply, TypeOK, WorldOK
<1>4. r.op \in {"addOperatorIssue", "deleteOperatorIssue",
                "addAccountIssue", "deleteAccountIssue", "addUserIssue",
                "deleteUserIssue", "generateUserCreds", "addNkey",
                "deleteNkeys", "addOperatorJWT", "deleteOperatorJWT",
                "addAccountJWT", "deleteAccountJWT", "periodicFunc"}
  BY <1>3 DEF Request, IssueOperatorRequest, IssueAccountRequest,
              IssueUserRequest, UserCredsRequest, NkeyRequest,
              OperatorJWTRequest, AccountJWTRequest
<1> HIDE DEF e
<1>5. r \in Simple /\ e \in Simple
  BY <1>3, <1>4 DEF Simple, Deleting, RootsAsked
<1>6. Len(s) = 2 /\ s[1] = r /\ s[2] = e /\ s \in Seq(Simple)
  BY <1>5
<1> HIDE DEF s
<1>7. ASSUME NEW p \in Path, Signing(p), NEW c \in {r, e}
      PROVE  ~Loses(c, p) /\ ~Adds(c, p)
  BY <1>3, <1>4, <1>7 DEF Loses, Adds, Holding, Syncs, RootsAsked
<1>8. ASSUME NEW p \in Path, Signing(p)
      PROVE  Kept(s, p, Declared(p), Stored(p))
  <2>1. \A j \in 1..Len(s) : s[j] \in {r, e}
    BY <1>6
  <2> QED
    BY <1>7, <1>8, <2>1 DEF Kept, Settled, Rooted
<1>9. agenda'[w] = s
  BY <1>2 DEF s, e
<1>10. \A p : (Declared(p)' <=> Declared(p)) /\ (Stored(p)' <=> Stored(p))
  BY <1>1 DEF Declared, Stored
<1>11. ASSUME NEW p \in Path, Signing(p)
       PROVE  /\ Stored(p)' => Declared(p)'
              /\ Kept(agenda'[w], p, Declared(p)', Stored(p)')
  <2>1. Declared(p)' = Declared(p) /\ Stored(p)' = Stored(p)
    BY <1>1 DEF Declared, Stored
  <2> QED
    BY <1>8, <1>9, <1>11, <2>1 DEF RootsKept
<1> QED
  BY <1>1, <1>6, <1>9, <1>11 DEF RootsKept, Simple

\* Every step of the plugin keeps every stored signing nkey declared.
LEMMA RootsNext ==
    ASSUME NEW w, Workers = {w}, RootsAsked,
           TypeOK, OneAtATime(w), RootsKept(w), [Next]_vars
    PROVE  RootsKept(w)'
<1>1. w \in Workers
  OBVIOUS
<1>2. CASE Receive(w)
  BY <1>1, <1>2, ReceiveRoots
<1>3. CASE Acts(w)
  BY <1>1, <1>3, StepRootsKept
<1>4. ASSUME UNCHANGED <<opIssue, accIssue, nkey>>,
             agenda'[w] \in {agenda[w], <<>>}
      PROVE  RootsKept(w)'
  <2>1. agenda'[w] \in Seq(Simple)
    <3>1. agenda[w] \in Seq(Simple) /\ <<>> \in Seq(Simple)
      BY ShortSeq DEF RootsKept
    <3> QED
      BY <1>4, <3>1
  <2>2. ASSUME NEW p \in Path, Signing(p)
        PROVE  /\ Stored(p)' => Declared(p)'
               /\ Kept(agenda'[w], p, Declared(p)', Stored(p)')
    <3>1. Declared(p)' = Declared(p) /\ Stored(p)' = Stored(p)
      BY <1>4 DEF Declared, Stored
    <3>2. Kept(<<>>, p, Declared(p), Stored(p))
      BY DEF Kept, Settled, Rooted
    <3> QED
      BY <1>4, <2>2, <3>1, <3>2 DEF RootsKept
  <2> QED
    BY <1>4, <2>1, <2>2 DEF RootsKept, Simple
<1>5. CASE Crash
  BY <1>1, <1>4, <1>5 DEF Crash, issues, seeds
<1>6. CASE UNCHANGED vars
  BY <1>4, <1>6 DEF vars, issues, seeds, world
<1> QED
  BY <1>2, <1>3, <1>5, <1>6, OneWorker

\* The invariant about signing nkeys holds.
LEMMA RootsHold ==
    ASSUME NEW one, Workers = {one}, RootsAsked
    PROVE  Spec => []RootsKept(one)
<1>1. Init => RootsKept(one)
  <2> SUFFICES ASSUME Init
               PROVE  RootsKept(one)
    OBVIOUS
  <2>1. agenda[one] = <<>> /\ opIssue = None /\ (\A p \in Path : nkey[p] = 0)
    BY DEF Init, InitWith
  <2>2. \A p, d, st : Kept(<<>>, p, d, st)
    BY DEF Kept, Settled, Rooted
  <2>3. <<>> \in Seq(Simple)
    OBVIOUS
  <2> QED
    BY <2>1, <2>2, <2>3 DEF RootsKept, Stored
<1>2. TypeOK /\ OneAtATime(one) /\ RootsKept(one) /\ [Next]_vars =>
         RootsKept(one)'
  BY RootsNext
<1>3. Spec => []OneAtATime(one)
  BY OneAtATimeHolds, PTL
<1> QED
  BY <1>1, <1>2, <1>3, TypeCorrect, PTL DEF Spec

\* One request at a time, whatever fails and wherever a handler is stopped, no
\* signing nkey is left in storage that no issue declares.  The requests may
\* not themselves create such nkeys; and if they delete the operator, it has
\* no system account.
THEOREM NoSigningKeyOrphaned ==
    ASSUME NEW one, Workers = {one}, RootsAsked
    PROVE  Spec => []NoOrphanKeys
<1>1. RootsKept(one) => NoOrphanKeys
  <2> SUFFICES ASSUME RootsKept(one)
               PROVE  NoOrphanKeys
    OBVIOUS
  <2>1. \A p \in Path : Signing(p) => (Stored(p) => Declared(p))
    BY DEF RootsKept
  <2>2. ASSUME NEW a \in Accounts, NEW k \in AccKeys,
               Stored(AccSigning(a, k))
        PROVE  accIssue[a] # None /\ k \in accIssue[a].par.signing
    <3>1. AccSigning(a, k) \in AccSignings(a, {k}) /\ {k} \in SUBSET AccKeys
      BY DEF AccSignings
    <3>2. /\ AccSigning(a, k) \in Path /\ Signing(AccSigning(a, k))
      BY <3>1, PathsTyped, SigningPaths DEF Signing
    <3>3. Declared(AccSigning(a, k))
      BY <2>1, <2>2, <3>2
    <3> QED
      BY <3>3 DEF Declared, AccSigning
  <2>3. ASSUME NEW k \in OpKeys, Stored(OpSigning(k))
        PROVE  opIssue # None /\ k \in opIssue.signing
    <3>1. OpSigning(k) \in OpSignings({k}) /\ {k} \in SUBSET OpKeys
      BY DEF OpSignings
    <3>2. /\ OpSigning(k) \in Path /\ Signing(OpSigning(k))
      BY <3>1, PathsTyped, SigningPaths DEF Signing
    <3>3. Declared(OpSigning(k))
      BY <2>1, <2>3, <3>2
    <3> QED
      BY <3>3 DEF Declared, OpSigning
  <2> QED
    BY <2>2, <2>3 DEF NoOrphanKeys
<1> QED
  BY <1>1, RootsHold, PTL

-----------------------------------------------------------------------------
(* Deletion.  The calls that delete an issue come right before the reply,  *)
(* and up to them everything that goes with the issue is deleted.          *)

\* the calls that lead to the deletion of an issue, up to the calls that
\* delete what belongs to it
Heading(c) ==
    \/ c.op \in {"deleteOperatorIssue", "deleteAccountIssue",
                 "deleteUserIssue", "addUserToRevocationList"}
    \/ c.op \in Syncs /\ c.mode = "delete"

\* the calls that delete an issue
Drops == {"deleteOperatorEntry", "deleteAccountEntry", "deleteUserTemplate"}

Ending(c) == Heading(c) \/ c.op \in Drops

\* the path of what they delete
Target(c) ==
    IF c.op \in {"deleteOperatorIssue", "deleteOperatorEntry"} THEN OpPath
    ELSE IF c.op \in {"deleteUserIssue", "addUserToRevocationList",
                      "deleteUserNkey", "deleteUserTemplate"}
    THEN UserPath(c.acc, c.user)
    ELSE AccPath(c.acc)

HasJWT(p) == \/ p[1] = "operator" /\ opJWT # None
             \/ p[1] = "account" /\ accJWT[p[2]] # None

\* calls that store the issue p belongs to
Puts(c, p) == \/ p[1] = "operator" /\ c.op = "putOperatorIssue"
              \/ p[1] = "account" /\ c.op = "putAccountIssue" /\ c.acc = p[2]

\* calls that delete the nkey or the JWT at p
TakesNkey(c, p) == c.op = "deleteNkeys" /\ p \in c.paths
TakesJWT(c, p)  == \/ p[1] = "operator" /\ c.op = "deleteOperatorJWT"
                   \/ /\ p[1] = "account" /\ c.op = "deleteAccountJWT"
                      /\ c.acc = p[2]

\* Nkeys and JWTs are created for issues that exist, or that the next call
\* stores, and no longer if that fails.
Based(s, p, has) ==
    \A j \in 1..Len(s) : Fills(s[j], p) =>
        has \/ (Puts(s[1], p) /\ \A l \in 1..j : s[l].op # "catch")

\* Up to the call at e, which deletes the issue, all calls delete, and they
\* delete the nkey and the JWT at p if these are stored.
Cleared(s, e, p, stored, jwt) ==
    /\ e > 0 /\ s[e].op \in Drops
    /\ \A j \in 1..(e - 1) : s[j].op \in Clears
    /\ stored => \E j \in 1..(e - 1) : TakesNkey(s[j], p)
    /\ jwt => \E j \in 1..(e - 1) : TakesJWT(s[j], p)

\* the last calls of deleteUserIssue, after the revocation
Erasing(s, e, p) == /\ e > 1 /\ s[e].op \in Drops
                    /\ s[e - 1].op = "deleteUserNkey" /\ Target(s[e - 1]) = p

\* Only what the request asked for is deleted, and right before the reply; and
\* what was asked for is deleted, or about to be.
Ends(s, has, stored, jwt) ==
    LET r == Asked(s)
        e == Len(s) - 1
    IN
    /\ \A j \in 1..Len(s) : Ending(s[j]) =>
          j = e /\ Heading(r) /\ Target(s[j]) = Target(r)
    /\ Heading(r) => \/ Len(s) = 1 /\ ~has
                     \/ Len(s) = 2 /\ Heading(s[1])
                     \/ Cleared(s, e, Target(r), stored, jwt)
                     \/ Erasing(s, e, Target(r))

\* the inductive invariant
Grounded(w) ==
    LET s == agenda[w] IN
    /\ s # <<>> => \A p \in {Target(Asked(s))} :
                      Ends(s, HasIssue(p), Stored(p), HasJWT(p))
    /\ \A q \in Path : ~Signing(q) =>
          /\ Stored(q) \/ HasJWT(q) => HasIssue(q)
          /\ Based(s, q, HasIssue(q))

\* Which actions those calls are made by.
LEMMA EndActions ==
    ASSUME NEW w, Acts(w)
    PROVE  /\ Top(w).op = "addOperatorIssue" =>
                 AddOperatorIssue(w) \/ StorageError(w)
           /\ Top(w).op = "addAccountIssue" =>
                 AddAccountIssue(w) \/ StorageError(w)
           /\ Top(w).op = "addUserIssue" => AddUserIssue(w) \/ StorageError(w)
           /\ Top(w).op = "deleteUserNkey" =>
                 DeleteUserNkey(w) \/ StorageError(w)
           /\ Top(w).op = "deleteUserTemplate" =>
                 DeleteUserTemplate(w) \/ StorageError(w)
           /\ Top(w).op = "deleteOperatorJWT" =>
                 DeleteOperatorJWT(w) \/ StorageError(w)
           /\ Top(w).op = "deleteAccountJWT" =>
                 DeleteAccountJWT(w) \/ StorageError(w)
           /\ Top(w).op \in Syncs =>
                 \/ RefreshAccountResolver(w) \/ PushAccount(w)
                 \/ DeleteAccounts(w) \/ StorageError(w)
           /\ Top(w).op = "deleteOperatorIssue" =>
                 DeleteOperatorIssue(w) \/ StorageError(w)
           /\ Top(w).op = "deleteAccountIssue" =>
                 DeleteAccountIssue(w) \/ StorageError(w)
           /\ Top(w).op = "deleteUserIssue" =>
                 DeleteUserIssue(w) \/ StorageError(w)
           /\ Top(w).op = "addUserToRevocationList" =>
                 AddUserToRevocationList(w) \/ StorageError(w)
           /\ \/ opJWT' = opJWT \/ AddOperatorJWT(w) \/ DeleteOperatorJWT(w)
           /\ StorageError(w) => UNCHANGED <<issues, tokens, seeds>>
<1> USE DEF Acts, StorageError, StatusUnread, SyncSkipped, StoreUserIssueUpdate,
         Syncs,
         OneFault, issues, tokens, seeds, world, Running, Top, storeUserStatus,
         Step, NkeyStep, UserStep, ServerStep, AccountStep,
         OperatorStep, PeriodicStep, LeaveCatch, Respond,
         AddNkey, PutNkey, EnsureIssue, DeleteNkeys, AddOperatorJWT,
         AddAccountJWT, DeleteOperatorJWT, DeleteAccountJWT, AddUserIssue,
         IssueUserNKeys, RefreshPushUser,
         DeleteUserIssue, DeleteUserNkey, DeleteUserTemplate,
         GenerateUserCreds, GenerateUserJWT, FormatUserConfig, ReturnCreds,
         RefreshAccountResolver, PushAccount, DeleteAccounts,
         RefreshAccountResolvers, PushEach, AddAccountIssue, PutAccountIssue,
         IssueAccountNKey, IssueAccountNKeysDone, UpdateUserIssues,
         UpdateEachUser, IssueAccountJWT, UpdateAccountStatus,
         DeleteAccountIssue, DeleteAccountEntry, AddUserToRevocationList,
         AddOperatorIssue, PutOperatorIssue, RefreshOperator, IssueOperatorNkey,
         IssueOperatorNkeysDone, UpdateEachAccount, IssueOperatorJWT,
         DeleteOperatorIssue, DeleteOperatorEntry, PeriodicFunc,
         PeriodicAccount, PeriodicRefreshAccountIssues, PeriodicEachAccount,
         PeriodicRefreshUserIssues, PeriodicEachUser, PeriodicSync
<1>1. /\ Top(w).op = "addOperatorIssue" =>
            AddOperatorIssue(w) \/ StorageError(w)
      /\ Top(w).op = "addAccountIssue" =>
            AddAccountIssue(w) \/ StorageError(w)
      /\ Top(w).op = "addUserIssue" => AddUserIssue(w) \/ StorageError(w)
  OBVIOUS
<1>2. /\ Top(w).op = "deleteUserNkey" =>
            DeleteUserNkey(w) \/ StorageError(w)
      /\ Top(w).op = "deleteUserTemplate" =>
            DeleteUserTemplate(w) \/ StorageError(w)
  OBVIOUS
<1>3. /\ Top(w).op = "deleteOperatorJWT" =>
            DeleteOperatorJWT(w) \/ StorageError(w)
      /\ Top(w).op = "deleteAccountJWT" =>
            DeleteAccountJWT(w) \/ StorageError(w)
  OBVIOUS
<1>4. Top(w).op \in Syncs =>
         \/ RefreshAccountResolver(w) \/ PushAccount(w)
         \/ DeleteAccounts(w) \/ StorageError(w)
  OBVIOUS
<1>5. /\ Top(w).op = "deleteOperatorIssue" =>
            DeleteOperatorIssue(w) \/ StorageError(w)
      /\ Top(w).op = "deleteAccountIssue" =>
            DeleteAccountIssue(w) \/ StorageError(w)
  OBVIOUS
<1>6. /\ Top(w).op = "deleteUserIssue" =>
            DeleteUserIssue(w) \/ StorageError(w)
      /\ Top(w).op = "addUserToRevocationList" =>
            AddUserToRevocationList(w) \/ StorageError(w)
  OBVIOUS
<1>7. opJWT' = opJWT \/ AddOperatorJWT(w) \/ DeleteOperatorJWT(w)
  OBVIOUS
<1>8. StorageError(w) => UNCHANGED <<issues, tokens, seeds>>
  OBVIOUS
<1> QED
  BY <1>1, <1>2, <1>3, <1>4, <1>5, <1>6, <1>7, <1>8

\* What becomes of the issue at p.
LEMMA IssueKept ==
    ASSUME TypeOK, NEW w \in Workers, Acts(w), Top(w) \in Call,
           NEW p \in Path, ~Signing(p)
    PROVE  /\ HasIssue(p) /\ ~HasIssue(p)' =>
                 /\ Top(w).op \in Drops /\ Target(Top(w)) = p
           /\ Top(w).op \in Drops =>
                 \/ StorageError(w)
                 \/ /\ agenda'[w] = <<>> \o Tail(agenda[w])
                    /\ Target(Top(w)) = p => ~HasIssue(p)'
           /\ Puts(Top(w), p) => HasIssue(p)' \/ StorageError(w)
           /\ p[1] = "user" /\ Founds(Top(w), p) =>
                 HasIssue(p)' \/ StorageError(w)
<1> DEFINE t == Top(w)
<1>1. \/ p = OpPath
      \/ \E a \in Accounts : p = AccPath(a)
      \/ \E a \in Accounts, u \in Users : p = UserPath(a, u)
  BY DEF Path, Signing, OpPath, AccPath, UserPath
<1>2. CASE p = OpPath
  <2>1. p[1] = "operator" /\ (HasIssue(p) <=> opIssue # None)
        /\ (HasIssue(p)' <=> opIssue' # None)
    BY <1>2 DEF OpPath, HasIssue
  <2>2. PutOperatorIssue(w) => opIssue' # None /\ t.op = "putOperatorIssue"
    <3>1. ASSUME PutOperatorIssue(w)
          PROVE  t.op = "putOperatorIssue" /\ opIssue' = t.iss
      BY <3>1 DEF PutOperatorIssue, Running, Top
    <3>2. t.op = "putOperatorIssue" => t.iss \in OpIssue
      BY OperatorCallFields DEF OpCalls
    <3> QED
      BY <3>1, <3>2, NoneAssumption
  <2>3. DeleteOperatorEntry(w) =>
           t.op = "deleteOperatorEntry" /\ opIssue' = None /\ Do(w, <<>>)
    BY DEF DeleteOperatorEntry, Running, Top
  <2>4. ASSUME t.op \in {"deleteAccountEntry", "deleteUserTemplate"}
        PROVE  Target(t) # p
    BY <1>2, <2>4 DEF Target, Syncs, AccPath, UserPath, OpPath
  <2>5. t.op \in {"deleteAccountEntry", "deleteUserTemplate"} =>
           StorageError(w) \/ Do(w, <<>>)
    BY RootActions, EndActions DEF DeleteAccountEntry, DeleteUserTemplate
  <2>6. t.op = "deleteOperatorEntry" => Target(t) = p
    BY <1>2 DEF Target
  <2>7. HasIssue(p) /\ ~HasIssue(p)' => t.op \in Drops /\ Target(t) = p
    BY <2>1, <2>2, <2>3, <2>6, RootActions DEF Drops
  <2>8. t.op \in Drops => \/ StorageError(w)
                          \/ /\ agenda'[w] = <<>> \o Tail(agenda[w])
                             /\ Target(t) = p => ~HasIssue(p)'
    BY <2>1, <2>3, <2>4, <2>5, RootActions, DoLeaves DEF Drops
  <2>9. Puts(t, p) => HasIssue(p)' \/ StorageError(w)
    BY <2>1, <2>2, RootActions DEF Puts
  <2> QED
    BY <2>1, <2>7, <2>8, <2>9
<1>3. ASSUME NEW a \in Accounts, p = AccPath(a)
      PROVE  /\ HasIssue(p) /\ ~HasIssue(p)' =>
                   /\ t.op \in Drops /\ Target(t) = p
             /\ t.op \in Drops =>
                   \/ StorageError(w)
                   \/ /\ agenda'[w] = <<>> \o Tail(agenda[w])
                      /\ Target(t) = p => ~HasIssue(p)'
             /\ Puts(t, p) => HasIssue(p)' \/ StorageError(w)
             /\ p[1] = "user" /\ Founds(t, p) => HasIssue(p)' \/ StorageError(w)
  <2>1. /\ p[1] = "account" /\ p[2] = a
        /\ HasIssue(p) <=> accIssue[a] # None
        /\ HasIssue(p)' <=> accIssue'[a] # None
    BY <1>3 DEF AccPath, HasIssue
  <2>2. PutAccountIssue(w) => /\ t.op = "putAccountIssue"
                              /\ accIssue[a] # None => accIssue'[a] # None
                              /\ t.acc = a => accIssue'[a] # None
    <3>1. ASSUME PutAccountIssue(w)
          PROVE  /\ t.op = "putAccountIssue"
                 /\ accIssue' = [accIssue EXCEPT ![t.acc] = t.iss]
      BY <3>1 DEF PutAccountIssue, Running, Top
    <3>2. t.op = "putAccountIssue" => t.iss \in AccIssue
      BY AccountCallFields DEF AccIssueCalls
    <3> QED
      BY <3>1, <3>2, NoneAssumption DEF TypeOK, StorageOK
  <2>3. DeleteAccountEntry(w) => /\ t.op = "deleteAccountEntry" /\ Do(w, <<>>)
                                 /\ t.acc # a => accIssue'[a] = accIssue[a]
                                 /\ t.acc = a => accIssue'[a] = None
    BY DEF DeleteAccountEntry, Running, Top, TypeOK, StorageOK
  <2>4. t.op = "deleteAccountEntry" => (Target(t) = p <=> t.acc = a)
    BY <1>3 DEF Target, AccPath
  <2>5. ASSUME t.op \in {"deleteOperatorEntry", "deleteUserTemplate"}
        PROVE  Target(t) # p
    BY <1>3, <2>5 DEF Target, Syncs, AccPath, UserPath, OpPath
  <2>6. t.op \in {"deleteOperatorEntry", "deleteUserTemplate"} =>
           StorageError(w) \/ Do(w, <<>>)
    BY RootActions, EndActions DEF DeleteOperatorEntry, DeleteUserTemplate
  <2> QED
    BY <2>1, <2>2, <2>3, <2>4, <2>5, <2>6, RootActions, Writes, DoLeaves
       DEF Drops, Puts
<1>4. ASSUME NEW a \in Accounts, NEW u \in Users, p = UserPath(a, u)
      PROVE  /\ HasIssue(p) /\ ~HasIssue(p)' =>
                   /\ t.op \in Drops /\ Target(t) = p
             /\ t.op \in Drops =>
                   \/ StorageError(w)
                   \/ /\ agenda'[w] = <<>> \o Tail(agenda[w])
                      /\ Target(t) = p => ~HasIssue(p)'
             /\ Puts(t, p) => HasIssue(p)' \/ StorageError(w)
             /\ p[1] = "user" /\ Founds(t, p) => HasIssue(p)' \/ StorageError(w)
  <2>1. /\ p[1] = "user" /\ p[2] = a /\ p[3] = u
        /\ HasIssue(p) <=> userIssue[a][u] # None
        /\ HasIssue(p)' <=> userIssue'[a][u] # None
    BY <1>4 DEF UserPath, HasIssue
  <2>2. /\ userIssue[a] \in [Users -> UserIssue \cup {None}]
        /\ userIssue \in [Accounts -> [Users -> UserIssue \cup {None}]]
    BY DEF TypeOK, StorageOK
  <2>3. ASSUME NEW i \in UserIssue, NEW b \in Accounts, NEW v \in Users,
               userIssue' = [userIssue EXCEPT ![b][v] = i]
        PROVE  /\ userIssue[a][u] # None => userIssue'[a][u] # None
               /\ b = a /\ v = u => userIssue'[a][u] # None
    <3>1. i # None
      BY NoneAssumption
    <3>2. userIssue'[a][u] = IF b = a /\ v = u THEN i ELSE userIssue[a][u]
      BY <2>2, <2>3
    <3> QED
      BY <3>1, <3>2
  <2>4. AddUserIssue(w) => /\ userIssue[a][u] # None => userIssue'[a][u] # None
                           /\ t.acc = a /\ t.user = u => userIssue'[a][u] # None
    <3> SUFFICES ASSUME AddUserIssue(w)
                 PROVE  /\ userIssue[a][u] # None => userIssue'[a][u] # None
                        /\ t.acc = a /\ t.user = u => userIssue'[a][u] # None
      OBVIOUS
    <3>1. t.acc \in Accounts /\ t.user \in Users /\ t.par \in UserPar
      BY UserCallFields DEF AddUserIssue, Running, Top
    <3> DEFINE old == userIssue[t.acc][t.user]
               i   == [par |-> t.par, nkey |-> old # None /\ old.nkey]
    <3>2. i \in UserIssue
      <4>1. old \in UserIssue \cup {None}
        BY <3>1 DEF TypeOK, StorageOK
      <4>2. (old # None /\ old.nkey) \in BOOLEAN
        BY <4>1 DEF UserIssue
      <4> QED
        BY <3>1, <4>2 DEF UserIssue
    <3>3. userIssue' = [userIssue EXCEPT ![t.acc][t.user] = i]
      BY DEF AddUserIssue
    <3> QED
      BY <2>3, <3>1, <3>2, <3>3
  <2>5. StoreUserIssueUpdate(w) \/ StatusUnread(w) =>
           (userIssue[a][u] # None => userIssue'[a][u] # None)
    <3>1. ASSUME NEW found \in BOOLEAN, storeUserStatus(w, found)
          PROVE  userIssue[a][u] # None => userIssue'[a][u] # None
      <4>1. t.acc \in Accounts /\ t.user \in Users /\ t.iss \in UserIssue
        BY <3>1, UserCallFields DEF storeUserStatus, Running, Top
      <4>2. [t.iss EXCEPT !.nkey = found] \in UserIssue
        BY <4>1 DEF UserIssue
      <4>3. userIssue' = [userIssue EXCEPT ![t.acc][t.user] =
                              [t.iss EXCEPT !.nkey = found]]
        BY <3>1 DEF storeUserStatus
      <4> QED
        BY <2>3, <4>1, <4>2, <4>3
    <3>2. Stored(UserPath(t.acc, t.user)) \in BOOLEAN
      BY DEF Stored
    <3> QED
      BY <3>1, <3>2 DEF StoreUserIssueUpdate, StatusUnread
  <2>6. DeleteUserTemplate(w) =>
           /\ t.op = "deleteUserTemplate" /\ Do(w, <<>>)
           /\ ~(t.acc = a /\ t.user = u) => userIssue'[a][u] = userIssue[a][u]
           /\ t.acc = a /\ t.user = u => userIssue'[a][u] = None
    <3> SUFFICES ASSUME DeleteUserTemplate(w)
                 PROVE  /\ t.op = "deleteUserTemplate" /\ Do(w, <<>>)
                        /\ ~(t.acc = a /\ t.user = u) =>
                              userIssue'[a][u] = userIssue[a][u]
                        /\ t.acc = a /\ t.user = u => userIssue'[a][u] = None
      OBVIOUS
    <3>1. /\ t.op = "deleteUserTemplate" /\ Do(w, <<>>)
          /\ userIssue' = [userIssue EXCEPT ![t.acc][t.user] = None]
      BY DEF DeleteUserTemplate, Running, Top
    <3> QED
      BY <2>2, <3>1
  <2>7. t.op = "deleteUserTemplate" =>
           (Target(t) = p <=> t.acc = a /\ t.user = u)
    BY <1>4 DEF Target, UserPath
  <2>8. ASSUME t.op \in {"deleteOperatorEntry", "deleteAccountEntry"}
        PROVE  Target(t) # p
    BY <1>4, <2>8 DEF Target, Syncs, AccPath, UserPath, OpPath
  <2>9. t.op \in {"deleteOperatorEntry", "deleteAccountEntry"} =>
           StorageError(w) \/ Do(w, <<>>)
    BY RootActions DEF DeleteOperatorEntry, DeleteAccountEntry
  <2>10. HasIssue(p) /\ ~HasIssue(p)' => t.op \in Drops /\ Target(t) = p
    BY <2>1, <2>4, <2>5, <2>6, <2>7, Writes DEF Drops
  <2>11. t.op \in Drops => \/ StorageError(w)
                           \/ /\ agenda'[w] = <<>> \o Tail(agenda[w])
                              /\ Target(t) = p => ~HasIssue(p)'
    BY <2>1, <2>6, <2>7, <2>8, <2>9, EndActions, DoLeaves DEF Drops
  <2>12. Founds(t, p) => HasIssue(p)' \/ StorageError(w)
    BY <2>1, <2>4, EndActions DEF Founds
  <2> QED
    BY <2>1, <2>10, <2>11, <2>12 DEF Puts
<1> QED
  BY <1>1, <1>2, <1>3, <1>4

\* What is created is what the call creates.
LEMMA FilledBy ==
    ASSUME TypeOK, NEW w \in Workers, Acts(w), Top(w) \in Sane, NEW p \in Path
    PROVE  /\ Stored(p)' => Stored(p) \/ Fills(Top(w), p)
           /\ HasJWT(p)' => HasJWT(p) \/ Fills(Top(w), p)
<1> DEFINE t == Top(w)
<1>1. Stored(p)' => Stored(p) \/ Fills(t, p)
  BY Effects DEF Stored, Fills
<1>2. opJWT' # None => opJWT # None \/ t.op = "addOperatorJWT"
  BY EndActions DEF AddOperatorJWT, DeleteOperatorJWT, Running, Top
<1>3. ASSUME p[1] = "account", accJWT'[p[2]] # None
      PROVE  accJWT[p[2]] # None \/ (t.op = "addAccountJWT" /\ t.acc = p[2])
  <2>1. p[2] \in Accounts
    BY <1>3 DEF Path
  <2>2. CASE AddAccountJWT(w)
    BY <1>3, <2>1, <2>2 DEF AddAccountJWT, Running, Top, TypeOK, StorageOK
  <2>3. CASE DeleteAccountJWT(w)
    <3>1. accJWT' = [accJWT EXCEPT ![t.acc] = None]
      BY <2>3 DEF DeleteAccountJWT
    <3> QED
      BY <1>3, <2>1, <3>1 DEF TypeOK, StorageOK
  <2> QED
    BY <1>3, <2>2, <2>3, TokenWrites
<1>4. HasJWT(p)' => HasJWT(p) \/ Fills(t, p)
  BY <1>2, <1>3 DEF HasJWT, Fills
<1> QED
  BY <1>1, <1>4

\* calls that delete no issue, and at which no error ends
Ordinary == {c \in Call : c.op # "catch" /\ ~Ending(c)}

\* An issue is stored and the account refreshed.
LEMMA RefreshOrdinary ==
    ASSUME NEW a \in Accounts, NEW i \in AccIssue
    PROVE  LET n == <<[op |-> "putAccountIssue", acc |-> a, iss |-> i]>>
                    \o refreshAccount(a, i)
           IN  /\ n \in Seq(Ordinary) /\ Len(n) > 0
               /\ n[1].op = "putAccountIssue" /\ n[1].acc = a
<1> DEFINE put  == [op |-> "putAccountIssue", acc |-> a, iss |-> i]
           keys == accountNkeys(a, i)
           jwt  == [op |-> "issueAccountJWT", acc |-> a, iss |-> i]
           res  == [op |-> "refreshAccountResolver", acc |-> a, iss |-> i,
                    mode |-> "refresh"]
           r    == <<put>> \o (<<keys, jwt>> \o <<res>>)
<1>1. /\ put \in Call /\ put.op = "putAccountIssue" /\ put.acc = a
      /\ keys \in Call /\ keys.op = "issueAccountNKeys"
      /\ jwt \in Call /\ jwt.op = "issueAccountJWT"
      /\ res \in Call /\ res.op = "refreshAccountResolver"
      /\ res.mode = "refresh"
  <2>1. AccountPaths(a, i) \in SUBSET Path
    BY PathTyped, PathsTyped DEF AccountPaths, AccIssue, AccPar
  <2> QED
    BY <2>1, AccountCallsMade, ServerCallsMade
       DEF accountNkeys, AccIssueCalls, Resolvable, ResolverModes
<1>2. refreshAccount(a, i) = <<keys, jwt>> \o <<res>>
  BY DEF refreshAccount, accountResolver
<1> HIDE DEF put, keys, jwt, res
<1>3. {put, keys, jwt, res} \subseteq Ordinary
  BY <1>1 DEF Ordinary, Ending, Heading, Drops, Syncs
<1>4. /\ r \in Seq(Call) /\ Len(r) = 4
      /\ r[1] = put /\ r[2] = keys /\ r[3] = jwt /\ r[4] = res
  BY <1>1, StoringCalls
<1>5. r \in Seq(Ordinary)
  BY <1>3, ShortSeq
<1> QED
  BY <1>1, <1>2, <1>4, <1>5 DEF put

\* A new issue is stored by the first of the calls that the handler makes.
LEMMA FoundingPuts ==
    ASSUME TypeOK, NEW w \in Workers, NEW p \in Path, ~Signing(p), ~HasIssue(p),
           Founds(Top(w), p), AddOperatorIssue(w) \/ AddAccountIssue(w)
    PROVE  \E n \in Seq(Ordinary) : /\ agenda'[w] = n \o Tail(agenda[w])
                                    /\ Len(n) > 0 /\ Puts(n[1], p)
<1> DEFINE t == Top(w)
<1>1. CASE AddOperatorIssue(w)
  <2>1. t.op = "addOperatorIssue" /\ t.par \in OpIssue
    BY <1>1, RunningTyped, OperatorCallFields DEF AddOperatorIssue
  <2>2. p[1] = "operator" /\ opIssue = None
    BY <2>1 DEF Founds, HasIssue
  <2> DEFINE c(op) == [op |-> op, iss |-> t.par]
             n == <<c("putOperatorIssue"), c("refreshOperator"),
                    c("refreshAccountResolvers")>>
  <2>3. \A op \in OpCalls : c(op) \in Call /\ c(op).op = op
    BY <2>1, OperatorCallsMade
  <2>4. deleteNkeys(OpSignings({})) = <<>>
    BY DEF deleteNkeys, OpSignings
  <2>5. Do(w, <<>> \o n)
    BY <1>1, <2>2, <2>4 DEF AddOperatorIssue
  <2> HIDE DEF c
  <2>6. \A op \in OpCalls : c(op) \in Ordinary
    BY <2>3 DEF OpCalls, Ordinary, Ending, Heading, Drops, Syncs
  <2>7. /\ n \in Seq(Ordinary) /\ Len(n) = 3 /\ n[1] = c("putOperatorIssue")
        /\ n[1].op = "putOperatorIssue"
    BY <2>3, <2>6, ShortSeq DEF OpCalls
  <2> HIDE DEF n
  <2>8. <<>> \o n = n
    BY <2>7, ConcatEmptySeq
  <2> QED
    BY <2>2, <2>5, <2>7, <2>8, DoLeaves DEF Puts
<1>2. CASE AddAccountIssue(w)
  <2>1. t.op = "addAccountIssue" /\ t.par \in AccPar /\ t.acc \in Accounts
    BY <1>2, RunningTyped, AccountCallFields DEF AddAccountIssue
  <2>2. p[1] = "account" /\ p[2] = t.acc /\ accIssue[t.acc] = None
    BY <2>1 DEF Founds, HasIssue
  <2> DEFINE i == [par |-> t.par, nkey |-> FALSE, jwt |-> FALSE,
                   synced |-> FALSE]
             put == <<[op |-> "putAccountIssue", acc |-> t.acc, iss |-> i]>>
             n == put \o refreshAccount(t.acc, i)
  <2>3. i \in AccIssue
    BY <2>1 DEF AccIssue
  <2>4. deleteNkeys(AccSignings(t.acc, {})) = <<>>
    BY DEF deleteNkeys, AccSignings
  <2>5. Do(w, (<<>> \o put) \o refreshAccount(t.acc, i))
    BY <1>2, <2>2, <2>4 DEF AddAccountIssue
  <2>6. <<>> \o put = put
    BY ConcatEmptySeq
  <2> HIDE DEF i
  <2>7. /\ n \in Seq(Ordinary) /\ Len(n) > 0
        /\ n[1].op = "putAccountIssue" /\ n[1].acc = t.acc
    BY <2>1, <2>3, RefreshOrdinary
  <2> HIDE DEF put
  <2>8. agenda'[w] = n \o Tail(agenda[w])
    BY <2>5, <2>6, DoLeaves
  <2> QED
    BY <2>2, <2>7, <2>8 DEF Puts
<1> QED
  BY <1>1, <1>2

\* Nothing is created for an issue that could not be stored.
LEMMA BasedUnwound ==
    ASSUME NEW s \in Seq(Call), NEW p, Based(s, p, FALSE)
    PROVE  \A has : Based(Unwind(s), p, has)
<1> DEFINE m == Unwind(s)
<1>1. CASE m = <<>>
  BY <1>1 DEF Based
<1>2. CASE m # <<>>
  <2>1. PICK f \in 1..Len(s) : /\ s[f].op = "catch" /\ Len(m) = Len(s) - f
                               /\ \A k \in 1..(Len(s) - f) : m[k] = s[f + k]
    BY <1>2, Unwound
  <2>2. Len(s) \in Nat
    BY LenProperties
  <2> HIDE DEF m
  <2>3. ASSUME NEW k \in 1..Len(m), Fills(m[k], p)
        PROVE  FALSE
    <3>1. f + k \in 1..Len(s) /\ f \in 1..(f + k) /\ m[k] = s[f + k]
      BY <2>1, <2>2
    <3> QED
      BY <2>1, <2>3, <3>1 DEF Based
  <2> QED
    BY <2>3 DEF Based, m
<1> QED
  BY <1>1, <1>2

\* Without an issue, the calls that come create only what they store one for.
LEMMA BasedReplaced ==
    ASSUME NEW s \in Seq(Call), s # <<>>, NEW p, Based(s, p, FALSE),
           ~Puts(s[1], p), NEW n \in Seq(Call), Based(n, p, FALSE)
    PROVE  Based(n \o Tail(s), p, FALSE)
<1> DEFINE m == n \o Tail(s)
<1>1. /\ m \in Seq(Call) /\ Len(n) \in Nat /\ Len(s) \in Nat
      /\ Len(m) = Len(n) + Len(s) - 1
      /\ \A k \in 1..Len(n) : m[k] = n[k]
      /\ \A k \in 2..Len(s) : m[Len(n) + k - 1] = s[k]
      /\ \A j \in 1..Len(m) : \/ j \in 1..Len(n)
                              \/ \E k \in 2..Len(s) : j = Len(n) + k - 1
  BY Replaced
<1> HIDE DEF m
<1>2. ASSUME NEW j \in 1..Len(m), Fills(m[j], p)
      PROVE  Puts(m[1], p) /\ \A l \in 1..j : m[l].op # "catch"
  <2>1. ASSUME NEW k \in 2..Len(s), j = Len(n) + k - 1
        PROVE  FALSE
    <3>1. k \in 1..Len(s) /\ m[j] = s[k]
      BY <1>1, <2>1
    <3> QED
      BY <1>2, <3>1 DEF Based
  <2>2. j \in 1..Len(n)
    BY <1>1, <2>1
  <2>3. /\ 1 \in 1..Len(n) /\ \A l \in 1..j : l \in 1..Len(n)
    BY <1>1, <2>2
  <2>4. Puts(n[1], p) /\ \A l \in 1..j : n[l].op # "catch"
    BY <1>1, <1>2, <2>2 DEF Based
  <2> QED
    BY <1>1, <2>3, <2>4
<1> QED
  BY <1>2 DEF Based, m

\* A step creates nothing for what has no issue.
LEMMA StepBased ==
    ASSUME TypeOK, NEW w \in Workers, Acts(w), Top(w) \in Sane,
           NEW p \in Path, ~Signing(p), Based(agenda[w], p, HasIssue(p)),
           HasIssue(p) => HasIssue(p)'
    PROVE  Based(agenda'[w], p, HasIssue(p)')
<1> DEFINE s == agenda[w]
           t == Top(w)
<1>1. CASE HasIssue(p)'
  BY <1>1 DEF Based
<1>2. CASE ~HasIssue(p)'
  <2>1. /\ s \in Seq(Call) /\ s # <<>> /\ s[1] = t /\ t \in Call
        /\ \/ agenda'[w] = <<>>
           \/ agenda'[w] = Unwind(s)
           \/ \E n \in Seq(Callable(t)) : agenda'[w] = n \o Tail(s)
    BY ActsLeaves DEF Sane
  <2>2. Based(s, p, FALSE) /\ ~HasIssue(p)
    BY <1>2 DEF Based
  <2>3. Based(<<>>, p, FALSE) /\ Based(Unwind(s), p, FALSE)
    <3>1. Based(<<>>, p, FALSE)
      BY DEF Based
    <3>2. Based(Unwind(s), p, FALSE)
      BY <2>1, <2>2, BasedUnwound
    <3> QED
      BY <3>1, <3>2
  <2>4. StorageError(w) => agenda'[w] = Unwind(s)
    BY DoLeaves
  <2>5. CASE StorageError(w)
    BY <1>2, <2>3, <2>4, <2>5 DEF Based
  <2>6. CASE ~StorageError(w)
    <3>1. ~Puts(t, p)
      BY <1>2, <2>1, <2>6, IssueKept
    <3>2. CASE Founds(t, p)
      <4>1. AddOperatorIssue(w) \/ AddAccountIssue(w)
        <5>1. p[1] # "user"
          BY <1>2, <2>1, <2>6, <3>2, IssueKept
        <5> QED
          BY <2>6, <3>2, <5>1, EndActions DEF Founds
      <4>2. PICK n \in Seq(Ordinary) : /\ agenda'[w] = n \o Tail(s)
                                       /\ Len(n) > 0 /\ Puts(n[1], p)
        BY <2>2, <3>2, <4>1, FoundingPuts
      <4>3. n \in Seq(Call) /\ \A j \in 1..Len(n) : n[j].op # "catch"
        BY ElementOfSeq DEF Ordinary
      <4>4. Based(n, p, FALSE)
        <5>1. \A j \in 1..Len(n) : \A l \in 1..j : l \in 1..Len(n)
          BY <4>3, LenProperties
        <5> QED
          BY <4>2, <4>3, <5>1 DEF Based
      <4>5. Based(agenda'[w], p, FALSE)
        BY <2>1, <2>2, <3>1, <4>2, <4>3, <4>4, BasedReplaced
      <4> QED
        BY <1>2, <4>5 DEF Based
    <3>3. CASE ~Founds(t, p)
      <4>1. ~Fills(t, p)
        <5>1. 1 \in 1..Len(s)
          BY <2>1, LenProperties, EmptySeq
        <5> QED
          BY <2>1, <2>2, <3>1, <5>1 DEF Based
      <4>2. ASSUME NEW n \in Seq(Callable(t))
            PROVE  n \in Seq(Call) /\ Based(n, p, FALSE)
        <5>1. \A c \in Callable(t) : c \in Call /\ ~Fills(c, p)
          BY <2>2, <3>3, <4>1 DEF Callable, MayCall
        <5> QED
          BY <5>1, ElementOfSeq DEF Based
      <4>3. \A n \in Seq(Callable(t)) : Based(n \o Tail(s), p, FALSE)
        BY <2>1, <2>2, <3>1, <4>2, BasedReplaced
      <4>4. Based(agenda'[w], p, FALSE)
        BY <2>1, <2>3, <4>3
      <4> QED
        BY <1>2, <4>4 DEF Based
    <3> QED
      BY <3>2, <3>3
  <2> QED
    BY <2>5, <2>6
<1> QED
  BY <1>1, <1>2

-----------------------------------------------------------------------------

\* No other call than those that lead to a deletion makes one.
LEMMA EndingCalls ==
    ASSUME TypeOK, NEW w \in Workers, Acts(w), Shaped(Top(w)),
           ~Heading(Top(w)), Top(w).op # "reply"
    PROVE  \/ agenda'[w] \in {<<>>, Unwind(agenda[w])}
           \/ \E n \in Seq(Call) :
                 /\ agenda'[w] = n \o Tail(agenda[w])
                 /\ \A j \in 1..Len(n) : ~Ending(n[j])
<1> DEFINE s == agenda[w]
           t == Top(w)
<1>1. \/ agenda'[w] \in {<<>>, Unwind(s)}
      \/ \E n \in Seq(Callable(t)) : agenda'[w] = n \o Tail(s)
  BY ActsLeaves
<1>2. CASE t.op \in {"deleteUserNkey", "deleteUserTemplate",
                     "deleteAccountJWT", "deleteAccountEntry"}
  <2>1. Do(w, <<>>) \/ StorageError(w)
    BY <1>2, EndActions, RootActions
       DEF DeleteUserNkey, DeleteUserTemplate, DeleteAccountJWT,
           DeleteAccountEntry
  <2>2. <<>> \in Seq(Call) /\ \A j \in 1..Len(<<>>) : FALSE
    BY ShortSeq
  <2> QED
    BY <2>1, <2>2, DoLeaves
<1>3. CASE t.op \notin {"deleteUserNkey", "deleteUserTemplate",
                        "deleteAccountJWT", "deleteAccountEntry"}
  <2>1. ASSUME NEW c \in Callable(t)
        PROVE  c \in Call /\ ~Ending(c)
    <3>1. c \in Call /\ MayCall(t, c)
      BY DEF Callable
    <3>2. ~ErasesUser(t) /\ t.op \notin {"deleteOperatorIssue",
                                         "deleteAccountIssue"}
      BY <1>3 DEF ErasesUser, Heading
    <3>3. ErasesIssue(t) => t.op = "deleteNkeys"
      BY <1>3 DEF ErasesIssue, Heading
    <3>4. /\ c.op \notin {"deleteOperatorIssue", "deleteAccountIssue",
                          "deleteOperatorEntry"}
          /\ c.op \notin {"deleteUserIssue", "addUserToRevocationList",
                          "deleteUserTemplate"}
          /\ ~(c.op \in Syncs /\ c.mode = "delete")
      BY <3>1, <3>2 DEF MayCall, ErasesUser, Heading
    <3>5. c.op # "deleteAccountEntry"
      BY <3>1, <3>3 DEF MayCall, ErasesIssue
    <3> QED
      BY <3>1, <3>4, <3>5 DEF Ending, Heading, Drops
  <2>2. \A n \in Seq(Callable(t)) :
           n \in Seq(Call) /\ \A j \in 1..Len(n) : ~Ending(n[j])
    BY <2>1, ElementOfSeq
  <2> QED
    BY <1>1, <2>2
<1> QED
  BY <1>2, <1>3

\* After an error nothing is deleted, or what deleteUserIssue still has to.
LEMMA EndsUnwound ==
    ASSUME NEW s \in Seq(Call), Ordered(s), NEW has, NEW st, NEW jw,
           Ends(s, has, st, jw), Unwind(s) # <<>>
    PROVE  \A has2, st2, jw2 : Ends(Unwind(s), has2, st2, jw2)
<1> DEFINE m == Unwind(s)
           p == Target(Asked(s))
<1>1. PICK f \in 1..Len(s) : /\ s[f].op = "catch" /\ Len(m) = Len(s) - f
                             /\ \A k \in 1..(Len(s) - f) : m[k] = s[f + k]
  BY Unwound
<1>2. Len(s) \in Nat /\ s # <<>> /\ Asked(m) = Asked(s)
  BY LenProperties, OrderedUnwound
<1>3. s[Len(s)].op = "reply"
  BY <1>2 DEF Ordered
<1> HIDE DEF m, p
<1>4. ASSUME NEW k \in 1..Len(m), Ending(m[k])
      PROVE  /\ k = Len(m) - 1 /\ Heading(Asked(s))
             /\ Target(m[k]) = p
  <2>1. f + k \in 1..Len(s) /\ m[k] = s[f + k]
    BY <1>1, <1>2
  <2>2. f + k = Len(s) - 1 /\ Heading(Asked(s)) /\ Target(s[f + k]) = p
    BY <1>4, <2>1 DEF Ends, p
  <2>3. k = Len(m) - 1
    BY <1>1, <1>2, <2>2
  <2> QED
    BY <2>1, <2>2, <2>3
<1>5. ASSUME Heading(Asked(s))
      PROVE  Erasing(m, Len(m) - 1, p)
  <2>1. f # Len(s)
    BY <1>1, <1>3
  <2>2. ~(Len(s) = 2 /\ Heading(s[1]))
    <3>1. ASSUME Len(s) = 2
          PROVE  s[1].op = "catch"
      BY <1>1, <2>1, <3>1
    <3> QED
      BY <3>1 DEF Heading, Syncs
  <2>3. ~Cleared(s, Len(s) - 1, p, st, jw)
    <3>1. ASSUME Cleared(s, Len(s) - 1, p, st, jw)
          PROVE  FALSE
      <4>1. CASE f = Len(s) - 1
        BY <1>1, <3>1, <4>1 DEF Cleared, Drops
      <4>2. CASE f # Len(s) - 1
        <5>1. f \in 1..((Len(s) - 1) - 1)
          BY <1>2, <2>1, <4>2
        <5> QED
          BY <1>1, <3>1, <5>1 DEF Cleared, Clears
      <4> QED
        BY <4>1, <4>2
    <3> QED
      BY <3>1
  <2>4. Len(s) # 1
    <3>1. Len(s) = 1 => f = 1
      BY <1>1
    <3> QED
      BY <2>1, <3>1
  <2>5. Erasing(s, Len(s) - 1, p)
    BY <1>5, <2>2, <2>3, <2>4 DEF Ends, p
  <2>6. f # Len(s) - 1 /\ f # (Len(s) - 1) - 1
    BY <1>1, <2>5 DEF Erasing, Drops
  <2>7. /\ Len(m) - 1 \in 1..(Len(s) - f) /\ f + (Len(m) - 1) = Len(s) - 1
        /\ (Len(m) - 1) - 1 \in 1..(Len(s) - f)
        /\ f + ((Len(m) - 1) - 1) = (Len(s) - 1) - 1
        /\ Len(m) - 1 > 1
    BY <1>1, <1>2, <2>1, <2>6
  <2>8. m[Len(m) - 1] = s[Len(s) - 1]
        /\ m[(Len(m) - 1) - 1] = s[(Len(s) - 1) - 1]
    BY <1>1, <2>7
  <2> QED
    BY <2>5, <2>7, <2>8 DEF Erasing
<1> QED
  BY <1>2, <1>4, <1>5 DEF Ends, m, p

\* Calls that delete no issue came in place of the first one, which does not
\* either.
LEMMA EndsReplaced ==
    ASSUME NEW s \in Seq(Call), s # <<>>, Ordered(s), s[1].op # "reply",
           ~Ending(s[1]), NEW n \in Seq(Call),
           \A j \in 1..Len(n) : ~Ending(n[j]),
           NEW has, NEW st, NEW jw, Ends(s, has, st, jw),
           NEW has2, NEW st2, NEW jw2,
           LET m == n \o Tail(s)
               p == Target(Asked(s))
           IN  \/ Cleared(s, Len(s) - 1, p, st, jw)
               \/ Erasing(s, Len(s) - 1, p) /\ Len(s) = 3
               => Cleared(m, Len(m) - 1, p, st2, jw2)
    PROVE  Ends(n \o Tail(s), has2, st2, jw2)
<1> DEFINE m == n \o Tail(s)
           p == Target(Asked(s))
<1>1. /\ m \in Seq(Call) /\ Len(n) \in Nat /\ Len(s) \in Nat
      /\ Len(m) = Len(n) + Len(s) - 1
      /\ \A k \in 1..Len(n) : m[k] = n[k]
      /\ \A k \in 2..Len(s) : m[Len(n) + k - 1] = s[k]
      /\ \A j \in 1..Len(m) : \/ j \in 1..Len(n)
                              \/ \E k \in 2..Len(s) : j = Len(n) + k - 1
  BY Replaced
<1>2. Len(s) > 1 /\ m # <<>> /\ Asked(m) = Asked(s)
  BY AskedReplaced
<1>3. \/ Cleared(s, Len(s) - 1, p, st, jw)
      \/ Erasing(s, Len(s) - 1, p) /\ Len(s) = 3
      => Cleared(m, Len(m) - 1, p, st2, jw2)
  OBVIOUS
<1> HIDE DEF m, p
<1>4. ASSUME NEW j \in 1..Len(m), Ending(m[j])
      PROVE  j = Len(m) - 1 /\ Heading(Asked(s)) /\ Target(m[j]) = p
  <2>1. PICK k \in 2..Len(s) : j = Len(n) + k - 1
    BY <1>1, <1>4
  <2>2. k \in 1..Len(s) /\ m[j] = s[k]
    BY <1>1, <2>1
  <2>3. k = Len(s) - 1 /\ Heading(Asked(s)) /\ Target(s[k]) = p
    BY <1>4, <2>2 DEF Ends, p
  <2>4. j = Len(m) - 1
    BY <1>1, <2>1, <2>3
  <2> QED
    BY <2>2, <2>3, <2>4
<1>5. ASSUME Heading(Asked(s))
      PROVE  \/ Cleared(m, Len(m) - 1, p, st2, jw2)
             \/ Erasing(m, Len(m) - 1, p)
  <2>1. \/ Cleared(s, Len(s) - 1, p, st, jw)
        \/ Erasing(s, Len(s) - 1, p)
    BY <1>1, <1>2, <1>5 DEF Ends, Ending, p
  <2>2. CASE Erasing(s, Len(s) - 1, p) /\ Len(s) # 3
    <3>1. Len(s) - 1 > 1
      BY <2>2 DEF Erasing
    <3>2. Len(s) > 3
      <4> DEFINE l == Len(s)
      <4>1. l \in Nat /\ l - 1 > 1 /\ l # 3
        BY <1>1, <2>2, <3>1
      <4> HIDE DEF l
      <4>2. l > 3
        BY <4>1
      <4> QED
        BY <4>2 DEF l
    <3>3. /\ Len(s) - 1 \in 2..Len(s) /\ (Len(s) - 1) - 1 \in 2..Len(s)
          /\ Len(n) + (Len(s) - 1) - 1 = Len(m) - 1
          /\ Len(n) + ((Len(s) - 1) - 1) - 1 = (Len(m) - 1) - 1
          /\ Len(m) - 1 > 1
      BY <1>1, <3>2
    <3>4. /\ m[Len(m) - 1] = s[Len(s) - 1]
          /\ m[(Len(m) - 1) - 1] = s[(Len(s) - 1) - 1]
      BY <1>1, <3>3
    <3> QED
      BY <2>2, <3>3, <3>4 DEF Erasing
  <2> QED
    BY <1>3, <2>1, <2>2
<1> QED
  BY <1>2, <1>4, <1>5 DEF Ends, m, p

\* A call that deletes has been made, and less is left to delete.
LEMMA ClearedLess ==
    ASSUME NEW s \in Seq(Call), NEW p, NEW st, NEW jw,
           Cleared(s, Len(s) - 1, p, st, jw), s[1].op \notin Drops,
           NEW n \in Seq(Call), \A j \in 1..Len(n) : n[j].op \in Clears,
           NEW st2, NEW jw2,
           st2 => \/ st /\ ~TakesNkey(s[1], p)
                  \/ \E j \in 1..Len(n) : TakesNkey(n[j], p),
           jw2 => jw /\ ~TakesJWT(s[1], p)
    PROVE  LET m == n \o Tail(s) IN Cleared(m, Len(m) - 1, p, st2, jw2)
<1> DEFINE m == n \o Tail(s)
           e == Len(s) - 1
           d == Len(m) - 1
<1>1. s # <<>> /\ Len(s) \in Nat /\ Len(s) > 2
  <2> DEFINE l == Len(s)
  <2>1. l \in Nat /\ l - 1 > 0 /\ l # 2
    <3>1. l \in Nat /\ l - 1 > 0 /\ s[l - 1].op \in Drops
      BY LenProperties DEF Cleared
    <3> HIDE DEF l
    <3>2. l = 2 => l - 1 = 1
      OBVIOUS
    <3> QED
      BY <3>1, <3>2
  <2> HIDE DEF l
  <2>2. l > 2
    BY <2>1
  <2>3. s # <<>>
    BY <2>1, <2>2, EmptySeq DEF l
  <2> QED
    BY <2>1, <2>2, <2>3 DEF l
<1>2. /\ m \in Seq(Call) /\ Len(n) \in Nat
      /\ Len(m) = Len(n) + Len(s) - 1
      /\ \A k \in 1..Len(n) : m[k] = n[k]
      /\ \A k \in 2..Len(s) : m[Len(n) + k - 1] = s[k]
      /\ \A j \in 1..Len(m) : \/ j \in 1..Len(n)
                              \/ \E k \in 2..Len(s) : j = Len(n) + k - 1
  BY <1>1, Replaced
<1> HIDE DEF m
<1>3. /\ e \in 2..Len(s) /\ Len(n) + e - 1 = d /\ d > 0
      /\ \A k \in 2..(e - 1) : /\ k \in 2..Len(s) /\ k \in 1..(e - 1)
                               /\ Len(n) + k - 1 \in 1..(d - 1)
      /\ \A k \in 1..Len(n) : k \in 1..(d - 1)
  <2>1. /\ Len(n) \in Nat /\ Len(s) \in Nat /\ Len(s) > 2
        /\ Len(m) = Len(n) + Len(s) - 1
    BY <1>1, <1>2
  <2>2. e \in 2..Len(s) /\ Len(n) + e - 1 = d /\ d > 0
    BY <2>1
  <2>3. \A k \in 2..(e - 1) : /\ k \in 2..Len(s) /\ k \in 1..(e - 1)
                              /\ Len(n) + k - 1 \in 1..(d - 1)
    BY <2>1
  <2>4. \A k \in 1..Len(n) : k \in 1..(d - 1)
    BY <2>1
  <2> QED
    BY <2>2, <2>3, <2>4
<1>4. m[d] = s[e] /\ m[d].op \in Drops
  BY <1>2, <1>3 DEF Cleared
<1>5. \A k \in 2..(e - 1) : m[Len(n) + k - 1] = s[k]
  BY <1>2, <1>3
<1>6. ASSUME NEW j \in 1..(d - 1)
      PROVE  m[j].op \in Clears
  <2>1. CASE j \in 1..Len(n)
    BY <1>2, <2>1
  <2>2. CASE j \notin 1..Len(n)
    <3>1. /\ j - Len(n) + 1 \in 2..(e - 1)
          /\ j = Len(n) + (j - Len(n) + 1) - 1
      BY <1>1, <1>2, <1>6, <2>2
    <3>2. m[j] = s[j - Len(n) + 1]
      BY <1>5, <3>1
    <3>3. j - Len(n) + 1 \in 1..(e - 1)
      BY <1>3, <3>1
    <3> QED
      BY <3>2, <3>3 DEF Cleared
  <2> QED
    BY <2>1, <2>2
<1>7. ASSUME st2
      PROVE  \E j \in 1..(d - 1) : TakesNkey(m[j], p)
  <2>1. CASE \E j \in 1..Len(n) : TakesNkey(n[j], p)
    BY <1>2, <1>3, <2>1
  <2>2. CASE st /\ ~TakesNkey(s[1], p)
    <3>1. PICK k \in 1..(e - 1) : TakesNkey(s[k], p)
      BY <2>2 DEF Cleared
    <3>2. k \in 2..(e - 1)
      <4>1. k = 1 \/ k \in 2..(e - 1)
        BY <1>1
      <4> QED
        BY <2>2, <3>1, <4>1
    <3>3. Len(n) + k - 1 \in 1..(d - 1) /\ m[Len(n) + k - 1] = s[k]
      BY <1>3, <1>5, <3>2
    <3> QED
      BY <3>1, <3>3
  <2> QED
    BY <1>7, <2>1, <2>2
<1>8. ASSUME jw2
      PROVE  \E j \in 1..(d - 1) : TakesJWT(m[j], p)
  <2>1. PICK k \in 1..(e - 1) : TakesJWT(s[k], p)
    BY <1>8 DEF Cleared
  <2>2. k \in 2..(e - 1)
    <3>1. k = 1 \/ k \in 2..(e - 1)
      BY <1>1
    <3> QED
      BY <1>8, <2>1, <3>1
  <2>3. Len(n) + k - 1 \in 1..(d - 1) /\ m[Len(n) + k - 1] = s[k]
    BY <1>3, <1>5, <2>2
  <2> QED
    BY <2>1, <2>3
<1> QED
  BY <1>3, <1>4, <1>6, <1>7, <1>8 DEF Cleared, m

\* What is deleted is the path of an issue.
LEMMA TargetTyped ==
    ASSUME NEW c \in Call, Ending(c)
    PROVE  Target(c) \in Path /\ ~Signing(Target(c))
<1>1. \/ c.op \in {"deleteOperatorIssue", "deleteOperatorEntry"}
      \/ /\ c.op \in {"deleteUserIssue", "addUserToRevocationList",
                      "deleteUserTemplate"}
         /\ c.acc \in Accounts /\ c.user \in Users
      \/ /\ c.op \in {"deleteAccountIssue", "deleteAccountEntry"} \cup Syncs
         /\ c.acc \in Accounts
  <2>1. c.op \in UserNameCalls => c.acc \in Accounts /\ c.user \in Users
    BY UserCallFields
  <2>2. c.op \in AccNameCalls => c.acc \in Accounts
    BY AccountCallFields
  <2>3. c.op \in Syncs => c.acc \in Accounts
    BY ServerCallFields DEF Syncs
  <2> QED
    BY <2>1, <2>2, <2>3 DEF Ending, Heading, Drops, UserNameCalls, AccNameCalls
<1>2. \/ Target(c) = OpPath
      \/ \E a \in Accounts : Target(c) = AccPath(a)
      \/ \E a \in Accounts, u \in Users : Target(c) = UserPath(a, u)
  BY <1>1 DEF Target, Syncs
<1> QED
  BY <1>2, PathTyped DEF Signing, OpPath, AccPath, UserPath

\* What the calls are that delete what belongs to an issue.
LEMMA ClearsStep ==
    ASSUME TypeOK, NEW w \in Workers, Acts(w), Top(w) \in Call,
           Top(w).op \in Clears, ~StorageError(w), NEW p \in Path
    PROVE  \E n \in Seq(Call) :
              /\ agenda'[w] = n \o Tail(agenda[w])
              /\ \A j \in 1..Len(n) : n[j].op = "deleteNkeys"
              /\ Stored(p)' => \/ Stored(p) /\ ~TakesNkey(Top(w), p)
                               \/ \E j \in 1..Len(n) : TakesNkey(n[j], p)
              /\ HasJWT(p)' => HasJWT(p) /\ ~TakesJWT(Top(w), p)
<1> DEFINE t == Top(w)
<1>1. CASE t.op = "deleteNkeys"
  <2>1. DeleteNkeys(w)
    BY <1>1, RootActions
  <2>2. PICK q \in t.paths : /\ nkey' = [nkey EXCEPT ![q] = 0]
                             /\ Do(w, deleteNkeys(t.paths \ {q}))
    BY <2>1 DEF DeleteNkeys
  <2> DEFINE ps == t.paths \ {q}
             n  == deleteNkeys(ps)
             c  == [op |-> "deleteNkeys", paths |-> ps]
  <2>3. ps \in SUBSET Path /\ q \in Path
    BY <1>1, NkeyCallFields
  <2>4. n \in Seq(Call) /\ agenda'[w] = n \o Tail(agenda[w])
    BY <2>2, <2>3, DeleteNkeysTyped, DoLeaves
  <2>5. c \in Call /\ c.op = "deleteNkeys" /\ c.paths = ps
    BY <2>3, NkeyCallsMade
  <2>6. n = IF ps = {} THEN <<>> ELSE <<c>>
    BY DEF deleteNkeys
  <2> HIDE DEF c, n, ps
  <2>7. /\ \A j \in 1..Len(n) : n[j].op = "deleteNkeys"
        /\ p \in ps => \E j \in 1..Len(n) : TakesNkey(n[j], p)
    <3>1. CASE ps = {}
      BY <2>6, <3>1
    <3>2. CASE ps # {}
      <4>1. Len(n) = 1 /\ n[1] = c /\ 1 \in 1..1
        BY <2>6, <3>2
      <4> QED
        BY <2>5, <4>1 DEF TakesNkey
    <3> QED
      BY <3>1, <3>2
  <2>8. Stored(p)' => Stored(p) /\ p # q
    BY <2>2, <2>3 DEF Stored, TypeOK, StorageOK
  <2>9. p # q /\ TakesNkey(t, p) => p \in ps
    BY DEF TakesNkey, ps
  <2>10. HasJWT(p)' = HasJWT(p) /\ ~TakesJWT(t, p)
    BY <1>1, <2>1 DEF HasJWT, TakesJWT, DeleteNkeys, tokens
  <2> QED
    BY <2>4, <2>7, <2>8, <2>9, <2>10
<1>2. ASSUME Do(w, <<>>), nkey' = nkey, t.op # "deleteNkeys",
             HasJWT(p)' => HasJWT(p) /\ ~TakesJWT(t, p)
      PROVE  \E n \in Seq(Call) :
                /\ agenda'[w] = n \o Tail(agenda[w])
                /\ \A j \in 1..Len(n) : n[j].op = "deleteNkeys"
                /\ Stored(p)' => \/ Stored(p) /\ ~TakesNkey(t, p)
                                 \/ \E j \in 1..Len(n) : TakesNkey(n[j], p)
                /\ HasJWT(p)' => HasJWT(p) /\ ~TakesJWT(t, p)
  <2>1. <<>> \in Seq(Call) /\ agenda'[w] = <<>> \o Tail(agenda[w])
    <3>1. agenda'[w] = <<>> \o Tail(agenda[w])
      BY <1>2, DoLeaves
    <3> QED
      BY <3>1, ShortSeq
  <2>2. \A j \in 1..Len(<<>>) : FALSE
    OBVIOUS
  <2>3. Stored(p)' => Stored(p) /\ ~TakesNkey(t, p)
    BY <1>2 DEF Stored, TakesNkey
  <2> QED
    BY <1>2, <2>1, <2>2, <2>3
<1>3. CASE t.op = "deleteOperatorJWT"
  <2>1. DeleteOperatorJWT(w)
    BY <1>3, EndActions
  <2>2. HasJWT(p)' => HasJWT(p) /\ ~TakesJWT(t, p)
    BY <1>3, <2>1 DEF DeleteOperatorJWT, HasJWT, TakesJWT
  <2> QED
    BY <1>2, <1>3, <2>1, <2>2 DEF DeleteOperatorJWT, seeds
<1>4. CASE t.op = "deleteAccountJWT"
  <2>1. DeleteAccountJWT(w)
    BY <1>4, EndActions
  <2>2. HasJWT(p)' => HasJWT(p) /\ ~TakesJWT(t, p)
    <3>1. /\ accJWT' = [accJWT EXCEPT ![t.acc] = None]
          /\ opJWT' = opJWT
      BY <2>1 DEF DeleteAccountJWT
    <3>2. p[1] = "account" => p[2] \in Accounts
      BY DEF Path
    <3> QED
      BY <1>4, <3>1, <3>2 DEF HasJWT, TakesJWT, TypeOK, StorageOK
  <2> QED
    BY <1>2, <1>4, <2>1, <2>2 DEF DeleteAccountJWT, seeds
<1> QED
  BY <1>1, <1>3, <1>4 DEF Clears

\* An agenda whose last call but one is made ends with the reply.
LEMMA OnlyReply ==
    ASSUME NEW s \in Seq(Call), Len(s) = 2, Ordered(s), NEW n \in Seq(Call),
           n = <<>>
    PROVE  LET m == n \o Tail(s) IN
           m \in Seq(Call) /\ Len(m) = 1 /\ m[1] = s[2] /\ m[1].op = "reply"
<1> DEFINE m == n \o Tail(s)
<1>1. s # <<>> /\ Len(n) = 0
  BY EmptySeq
<1>2. /\ m \in Seq(Call) /\ Len(m) = Len(n) + Len(s) - 1
      /\ \A k \in 2..Len(s) : m[Len(n) + k - 1] = s[k]
  BY <1>1, Replaced
<1> HIDE DEF m
<1>3. 2 \in 2..Len(s) /\ Len(n) + 2 - 1 = 1 /\ Len(n) + Len(s) - 1 = 1
  BY <1>1
<1>4. m[1] = s[2] /\ Len(m) = 1
  BY <1>2, <1>3
<1>5. s[2].op = "reply"
  BY <1>1 DEF Ordered
<1> QED
  BY <1>2, <1>4, <1>5 DEF m

\* The last call but the reply is made, and the issue is gone.
LEMMA EndsDropped ==
    ASSUME NEW s \in Seq(Call), Len(s) = 2, Ordered(s), NEW n \in Seq(Call),
           n = <<>>, NEW has, ~has, NEW st, NEW jw
    PROVE  Ends(n \o Tail(s), has, st, jw)
<1> DEFINE m == n \o Tail(s)
<1>1. Len(m) = 1 /\ m[1].op = "reply"
  BY OnlyReply
<1> HIDE DEF m
<1>2. \A j \in 1..Len(m) : ~Ending(m[j])
  BY <1>1 DEF Ending, Heading, Drops, Syncs
<1> QED
  BY <1>1, <1>2 DEF Ends, m

\* The calls n that a call which leads to a deletion makes, or the end of it,
\* with no issue left.
Fulfils(n, p, has) ==
    /\ \A j \in 1..Len(n) : Ending(n[j]) => j = Len(n) /\ Target(n[j]) = p
    /\ \/ n = <<>> /\ ~has
       \/ Len(n) = 1 /\ Heading(n[1])
       \/ Cleared(n, Len(n), p, TRUE, TRUE)
       \/ Erasing(n, Len(n), p)

\* They come right before the reply.
LEMMA EndsHeaded ==
    ASSUME NEW s \in Seq(Call), Len(s) = 2, Ordered(s), Heading(Asked(s)),
           NEW n \in Seq(Call), NEW has, NEW st, NEW jw,
           Fulfils(n, Target(Asked(s)), has)
    PROVE  Ends(n \o Tail(s), has, st, jw)
<1> DEFINE m == n \o Tail(s)
           p == Target(Asked(s))
<1>1. s # <<>> /\ s[2].op = "reply"
  <2>1. s # <<>>
    <3>1. Len(<<>>) # 2
      OBVIOUS
    <3> QED
      BY <3>1
  <2> QED
    BY <2>1 DEF Ordered
<1>2. /\ m \in Seq(Call) /\ Len(n) \in Nat /\ Len(m) = Len(n) + Len(s) - 1
      /\ \A k \in 1..Len(n) : m[k] = n[k]
      /\ \A k \in 2..Len(s) : m[Len(n) + k - 1] = s[k]
  BY <1>1, Replaced
<1> HIDE DEF m
<1>3. 2 \in 2..Len(s) /\ Len(n) + 2 - 1 = Len(n) + 1
      /\ Len(n) + Len(s) - 1 = Len(n) + 1
  BY <1>2
<1>4. Len(m) = Len(n) + 1 /\ m[Len(n) + 1] = s[2]
  BY <1>2, <1>3
<1>5. Asked(m) = Asked(s)
  BY <1>4 DEF Asked
<1>6. Len(m) - 1 = Len(n)
  BY <1>2, <1>4
<1> HIDE DEF p
<1>7. ASSUME NEW j \in 1..Len(m), Ending(m[j])
      PROVE  j = Len(n) /\ Target(m[j]) = p
  <2>1. j \in 1..Len(n) \/ j = Len(n) + 1
    BY <1>2, <1>4
  <2>2. j # Len(n) + 1
    BY <1>1, <1>4, <1>7 DEF Ending, Heading, Drops, Syncs
  <2> QED
    BY <1>2, <1>7, <2>1, <2>2 DEF Fulfils, p
<1>8. CASE n = <<>> /\ ~has
  <2>1. Len(m) = 1
    BY <1>4, <1>8
  <2> QED
    BY <1>5, <1>6, <1>7, <1>8, <2>1 DEF Ends, m, p
<1>9. CASE Len(n) = 1 /\ Heading(n[1])
  <2>1. Len(m) = 2 /\ m[1] = n[1]
    BY <1>2, <1>4, <1>9
  <2> QED
    BY <1>5, <1>6, <1>7, <1>9, <2>1 DEF Ends, m, p
<1>10. CASE Cleared(n, Len(n), p, TRUE, TRUE)
  <2>1. Len(n) \in 1..Len(n) /\ \A j \in 1..(Len(n) - 1) : j \in 1..Len(n)
    BY <1>2, <1>10 DEF Cleared
  <2>2. m[Len(n)] = n[Len(n)] /\ \A j \in 1..(Len(n) - 1) : m[j] = n[j]
    BY <1>2, <2>1
  <2>3. Cleared(m, Len(n), p, st, jw)
    BY <1>10, <2>2 DEF Cleared
  <2> QED
    BY <1>5, <1>6, <1>7, <2>3 DEF Ends, m, p
<1>11. CASE Erasing(n, Len(n), p)
  <2>1. Len(n) \in 1..Len(n) /\ Len(n) - 1 \in 1..Len(n)
    BY <1>2, <1>11 DEF Erasing
  <2>2. m[Len(n)] = n[Len(n)] /\ m[Len(n) - 1] = n[Len(n) - 1]
    BY <1>2, <2>1
  <2>3. Erasing(m, Len(n), p)
    BY <1>11, <2>2 DEF Erasing
  <2> QED
    BY <1>5, <1>6, <1>7, <2>3 DEF Ends, m, p
<1> QED
  BY <1>8, <1>9, <1>10, <1>11 DEF Fulfils, p

\* What the handlers make of the calls that lead to a deletion.
LEMMA OneFulfils ==
    ASSUME NEW c \in Call, Heading(c), NEW p, Target(c) = p, NEW has
    PROVE  <<c>> \in Seq(Call) /\ Fulfils(<<c>>, p, has)
<1> DEFINE n == <<c>>
<1>1. n \in Seq(Call) /\ Len(n) = 1 /\ n[1] = c /\ \A j \in 1..1 : j = 1
  BY ShortSeq
<1> HIDE DEF n
<1>2. Fulfils(n, p, has)
  BY <1>1 DEF Fulfils
<1> QED
  BY <1>1, <1>2 DEF n

\* An issue of an operator or an account: nkeys, JWT, then the issue.
LEMMA EraseFulfils ==
    ASSUME NEW p \in Path, NEW ps \in SUBSET Path,
           p[1] \in {"operator", "account"},
           NEW c \in Call, TakesJWT(c, p), NEW e \in Call, e.op \in Drops,
           Target(e) = p, NEW has
    PROVE  LET n == deleteNkeys({p}) \o (deleteNkeys(ps) \o <<c, e>>) IN
           n \in Seq(Call) /\ Fulfils(n, p, has)
<1> DEFINE k == [op |-> "deleteNkeys", paths |-> {p}]
           g == deleteNkeys(ps)
           r == <<c, e>>
           q == g \o r
           n == <<k>> \o q
<1>1. k \in Call /\ TakesNkey(k, p) /\ k.op \in Clears
  BY NkeyCallsMade DEF TakesNkey, Clears
<1>2. g \in Seq(Call) /\ \A j \in 1..Len(g) : g[j].op \in Clears
  <2> DEFINE b == [op |-> "deleteNkeys", paths |-> ps]
  <2>1. b \in Call /\ b.op \in Clears
    BY NkeyCallsMade DEF Clears
  <2>2. g = IF ps = {} THEN <<>> ELSE <<b>>
    BY DEF deleteNkeys
  <2> HIDE DEF b, g
  <2>3. CASE ps = {}
    BY <2>2, <2>3, ShortSeq
  <2>4. CASE ps # {}
    BY <2>1, <2>2, <2>4, ShortSeq
  <2> QED
    BY <2>3, <2>4
<1>3. r \in Seq(Call) /\ Len(r) = 2 /\ r[1] = c /\ r[2] = e
  BY ShortSeq
<1>4. c.op \in Clears
  BY DEF TakesJWT, Clears
<1>5. deleteNkeys({p}) = <<k>> /\ <<k>> \in Seq(Call) /\ Len(<<k>>) = 1
      /\ <<k>>[1] = k
  BY <1>1, ShortSeq DEF deleteNkeys
<1> HIDE DEF g, r, k
<1>6. /\ q \in Seq(Call) /\ Len(g) \in Nat /\ Len(q) = Len(g) + 2
      /\ \A j \in 1..Len(g) : q[j] = g[j]
      /\ \A j \in 1..2 : q[Len(g) + j] = r[j]
  <2>1. /\ q \in Seq(Call) /\ Len(g) \in Nat /\ Len(q) = Len(g) + Len(r)
        /\ \A j \in 1..Len(g) : q[j] = g[j]
        /\ \A j \in 1..Len(r) : q[Len(g) + j] = r[j]
    BY <1>2, <1>3, Joined
  <2> HIDE DEF q
  <2> QED
    BY <1>3, <2>1
<1> HIDE DEF q
<1>7. /\ n \in Seq(Call) /\ Len(n) = 1 + Len(q)
      /\ \A j \in 1..1 : n[j] = <<k>>[j]
      /\ \A j \in 1..Len(q) : n[1 + j] = q[j]
  BY <1>5, <1>6, Joined
<1> HIDE DEF n
<1>8. /\ n[1] = k /\ n[Len(n)] = e /\ n[Len(n) - 1] = c
      /\ Len(n) = Len(g) + 3
      /\ \A j \in 2..(Len(n) - 2) : n[j].op \in Clears
  <2>1. Len(n) = Len(g) + 3 /\ 1 \in 1..1
    BY <1>6, <1>7
  <2>2. /\ Len(g) + 1 \in 1..Len(q) /\ Len(g) + 2 \in 1..Len(q)
        /\ 1 + (Len(g) + 1) = Len(n) - 1 /\ 1 + (Len(g) + 2) = Len(n)
        /\ 1 \in 1..2 /\ 2 \in 1..2
    BY <1>6, <2>1
  <2>3. n[Len(n)] = e /\ n[Len(n) - 1] = c
    BY <1>3, <1>6, <1>7, <2>2
  <2>4. ASSUME NEW j \in 2..(Len(n) - 2)
        PROVE  n[j].op \in Clears
    <3>1. j - 1 \in 1..Len(g) /\ j - 1 \in 1..Len(q) /\ 1 + (j - 1) = j
      BY <1>6, <2>1
    <3>2. n[j] = g[j - 1]
      BY <1>6, <1>7, <3>1
    <3> QED
      BY <1>2, <3>1, <3>2
  <2>5. n[1] = k
    BY <1>5, <1>7, <2>1
  <2> QED
    BY <2>1, <2>3, <2>4, <2>5
<1>9. \A j \in 1..(Len(n) - 1) : n[j].op \in Clears
  <2>1. \A j \in 1..(Len(n) - 1) :
           j = 1 \/ j = Len(n) - 1 \/ j \in 2..(Len(n) - 2)
    BY <1>6, <1>8
  <2> QED
    BY <1>1, <1>4, <1>8, <2>1
<1>10. /\ Len(n) > 0 /\ 1 \in 1..(Len(n) - 1)
       /\ Len(n) - 1 \in 1..(Len(n) - 1)
       /\ \A j \in 1..Len(n) : j = Len(n) \/ j \in 1..(Len(n) - 1)
  BY <1>6, <1>8
<1>11. Cleared(n, Len(n), p, TRUE, TRUE)
  BY <1>1, <1>8, <1>9, <1>10 DEF Cleared
<1>12. ASSUME NEW j \in 1..Len(n), Ending(n[j])
       PROVE  j = Len(n) /\ Target(n[j]) = p
  <2>1. j \notin 1..(Len(n) - 1)
    BY <1>9, <1>12 DEF Ending, Heading, Drops, Syncs, Clears
  <2> QED
    BY <1>8, <1>10, <2>1
<1>13. n \in Seq(Call) /\ Fulfils(n, p, has)
  BY <1>7, <1>11, <1>12 DEF Fulfils
<1>14. n = deleteNkeys({p}) \o (deleteNkeys(ps) \o <<c, e>>)
  BY <1>5 DEF n, q, g, r
<1> QED
  BY <1>13, <1>14

\* A user's: the revocation, or whatever came before, then nkey and template.
LEMMA EraseUserFulfils ==
    ASSUME NEW a \in Accounts, NEW u \in Users, NEW key \in Key \cup {None},
           NEW has, NEW q \in Seq(Ordinary)
    PROVE  LET n == q \o eraseUser(a, u, key) IN
           n \in Seq(Call) /\ Fulfils(n, UserPath(a, u), has)
<1> DEFINE b == [op |-> "deleteUserNkey", acc |-> a, user |-> u, key |-> key]
           c == [op |-> "deleteUserTemplate", acc |-> a, user |-> u]
           r == <<b, c>>
           n == q \o r
           p == UserPath(a, u)
<1>1. /\ b \in Call /\ b.op = "deleteUserNkey" /\ Target(b) = p
      /\ c \in Call /\ c.op \in Drops /\ Target(c) = p
  BY UserCallsMade DEF UserNameCalls, Drops, Target
<1>2. eraseUser(a, u, key) = r
  BY DEF eraseUser
<1> HIDE DEF b, c, p
<1>3. r \in Seq(Call) /\ Len(r) = 2 /\ r[1] = b /\ r[2] = c
  BY <1>1, ShortSeq
<1>4. q \in Seq(Call) /\ \A j \in 1..Len(q) : ~Ending(q[j])
  BY ElementOfSeq DEF Ordinary
<1> HIDE DEF r
<1>5. /\ n \in Seq(Call) /\ Len(q) \in Nat /\ Len(n) = Len(q) + 2
      /\ \A j \in 1..Len(q) : n[j] = q[j]
      /\ \A j \in 1..2 : n[Len(q) + j] = r[j]
  <2>1. /\ n \in Seq(Call) /\ Len(q) \in Nat /\ Len(n) = Len(q) + Len(r)
        /\ \A j \in 1..Len(q) : n[j] = q[j]
        /\ \A j \in 1..Len(r) : n[Len(q) + j] = r[j]
    BY <1>3, <1>4, Joined
  <2> HIDE DEF n
  <2> QED
    BY <1>3, <2>1
<1> HIDE DEF n
<1>6. /\ 1 \in 1..2 /\ 2 \in 1..2 /\ Len(n) - 1 = Len(q) + 1 /\ Len(n) > 1
      /\ \A j \in 1..Len(n) :
            j \in 1..Len(q) \/ j = Len(q) + 1 \/ j = Len(n)
  BY <1>5
<1>7. n[Len(n)] = c /\ n[Len(n) - 1] = b /\ n[Len(q) + 1] = b
  BY <1>3, <1>5, <1>6
<1>8. Erasing(n, Len(n), p)
  BY <1>1, <1>6, <1>7 DEF Erasing
<1>9. ASSUME NEW j \in 1..Len(n), Ending(n[j])
      PROVE  j = Len(n) /\ Target(n[j]) = p
  <2>1. ~Ending(b)
    BY <1>1 DEF Ending, Heading, Drops, Syncs
  <2> QED
    BY <1>1, <1>4, <1>5, <1>6, <1>7, <1>9, <2>1
<1>10. n \in Seq(Call) /\ Fulfils(n, p, has)
  BY <1>5, <1>8, <1>9 DEF Fulfils
<1> QED
  BY <1>2, <1>10 DEF n, p

\* What the first call of w makes if it leads to the deletion at p.
Made(w, p, n) ==
    /\ n \in Seq(Call) /\ agenda'[w] = n \o Tail(agenda[w])
    /\ Fulfils(n, p, HasIssue(p)')

\* All of the operator is deleted, or it has no issue.
LEMMA OperatorMade ==
    ASSUME TypeOK, NEW w \in Workers, NEW p, p = Target(Top(w)),
           Top(w) \in Call,
           opIssue # None => ~opIssue.sys, DeleteOperatorIssue(w)
    PROVE  \E n : Made(w, p, n)
<1> DEFINE c  == [op |-> "deleteOperatorJWT"]
           e  == [op |-> "deleteOperatorEntry"]
           ps == OpSignings(opIssue.signing)
           r  == <<c, e>>
           b  == deleteNkeys({OpPath})
           g  == deleteNkeys(ps)
<1>1. p = OpPath /\ Target(e) = p
  BY DEF DeleteOperatorIssue, Running, Top, Target
<1>2. HasIssue(p)' <=> opIssue # None
  BY <1>1 DEF HasIssue, OpPath, DeleteOperatorIssue, issues
<1>3. CASE opIssue = None
  <2>1. Do(w, <<>>)
    BY <1>3 DEF DeleteOperatorIssue
  <2>2. agenda'[w] = <<>> \o Tail(agenda[w])
    BY <2>1, DoLeaves
  <2>3. <<>> \in Seq(Call) /\ \A j \in 1..Len(<<>>) : FALSE
    BY ShortSeq
  <2>4. Fulfils(<<>>, p, HasIssue(p)')
    BY <1>2, <1>3, <2>3 DEF Fulfils
  <2> QED
    BY <1>1, <2>2, <2>3, <2>4 DEF Made
<1>4. CASE opIssue # None
  <2>1. ps \in SUBSET Path /\ OpPath \in Path /\ {OpPath} \in SUBSET Path
        /\ OpPath[1] = "operator"
    <3>1. opIssue.signing \in SUBSET OpKeys
      BY <1>4 DEF TypeOK, StorageOK, OpIssue
    <3> QED
      BY <3>1, PathTyped, PathsTyped DEF OpPath
  <2>2. /\ c \in Call /\ TakesJWT(c, OpPath)
        /\ e \in Call /\ e.op \in Drops
    BY <2>1, OperatorCallsMade DEF PlainCalls, TakesJWT, Drops
  <2>3. Do(w, ((b \o g) \o <<>>) \o r)
    BY <1>4 DEF DeleteOperatorIssue
  <2> HIDE DEF c, e, ps
  <2>4. /\ b \in Seq(Call) /\ g \in Seq(Call) /\ <<>> \in Seq(Call)
        /\ r \in Seq(Call)
    BY <2>1, <2>2, DeleteNkeysTyped, ShortSeq
  <2>5. LET n == b \o (g \o r) IN
        n \in Seq(Call) /\ Fulfils(n, p, HasIssue(p)')
    BY <1>1, <2>1, <2>2, EraseFulfils
  <2> HIDE DEF b, g, r
  <2>6. ((b \o g) \o <<>>) \o r = b \o (g \o r)
    <3>1. (b \o g) \o <<>> = b \o g
      BY <2>4, ConcatProperties, ConcatEmptySeq
    <3>2. (b \o g) \o r = b \o (g \o r)
      BY <2>4, ConcatAssociative, SMTT(20)
    <3> QED
      BY <3>1, <3>2
  <2>7. agenda'[w] = (b \o (g \o r)) \o Tail(agenda[w])
    BY <2>3, <2>6, DoLeaves
  <2> QED
    BY <1>1, <2>5, <2>7 DEF Made
<1> QED
  BY <1>3, <1>4

\* An account is deleted once the account server has been asked to delete it.
LEMMA AccountMade ==
    ASSUME TypeOK, NEW w \in Workers, NEW p, p = Target(Top(w)),
           Top(w) \in Call, DeleteAccountIssue(w)
    PROVE  \E n : Made(w, p, n)
<1> DEFINE a == Top(w).acc
           i == accIssue[a]
           c == [op |-> "refreshAccountResolver", acc |-> a, iss |-> i,
                 mode |-> "delete"]
<1>1. /\ Top(w).op = "deleteAccountIssue" /\ a \in Accounts
      /\ p = AccPath(a)
  <2>1. Top(w).op = "deleteAccountIssue"
    BY DEF DeleteAccountIssue, Running, Top
  <2> QED
    BY <2>1, AccountCallFields DEF AccNameCalls, Target
<1>2. HasIssue(p)' <=> i # None
  BY <1>1 DEF HasIssue, AccPath, DeleteAccountIssue, issues
<1>3. CASE i = None
  <2>1. Do(w, <<>>)
    BY <1>3 DEF DeleteAccountIssue
  <2>2. agenda'[w] = <<>> \o Tail(agenda[w])
    BY <2>1, DoLeaves
  <2>3. <<>> \in Seq(Call) /\ \A j \in 1..Len(<<>>) : FALSE
    BY ShortSeq
  <2>4. Fulfils(<<>>, p, HasIssue(p)')
    BY <1>2, <1>3, <2>3 DEF Fulfils
  <2> QED
    BY <1>1, <2>2, <2>3, <2>4 DEF Made
<1>4. CASE i # None
  <2>1. c \in Call /\ Heading(c) /\ Target(c) = p
    <3>1. i \in AccIssue
      BY <1>1, <1>4 DEF TypeOK, StorageOK
    <3> QED
      BY <1>1, <3>1, ServerCallsMade
         DEF Resolvable, ResolverModes, Heading, Syncs, Target
  <2>2. Do(w, <<c>>)
    BY <1>4 DEF DeleteAccountIssue, accountResolver
  <2> HIDE DEF c
  <2>3. <<c>> \in Seq(Call) /\ Fulfils(<<c>>, p, HasIssue(p)')
    BY <2>1, OneFulfils
  <2>4. agenda'[w] = <<c>> \o Tail(agenda[w])
    BY <2>2, DoLeaves
  <2> QED
    BY <1>1, <2>3, <2>4 DEF Made
<1> QED
  BY <1>3, <1>4

\* A user is deleted once its nkey has been revoked.
LEMMA UserMade ==
    ASSUME TypeOK, NEW w \in Workers, NEW p, p = Target(Top(w)),
           Top(w) \in Call, DeleteUserIssue(w)
    PROVE  \E n : Made(w, p, n)
<1> DEFINE a == Top(w).acc
           u == Top(w).user
           c == [op |-> "addUserToRevocationList", acc |-> a, user |-> u]
<1>1. /\ a \in Accounts /\ u \in Users /\ p = UserPath(a, u)
  <2>1. Top(w).op = "deleteUserIssue"
    BY DEF DeleteUserIssue, Running, Top
  <2> QED
    BY <2>1, UserCallFields DEF UserNameCalls, Target
<1>2. HasIssue(p)' <=> userIssue[a][u] # None
  BY <1>1 DEF HasIssue, UserPath, DeleteUserIssue, issues
<1>3. CASE userIssue[a][u] = None
  <2>1. Do(w, <<>>)
    BY <1>3 DEF DeleteUserIssue
  <2>2. agenda'[w] = <<>> \o Tail(agenda[w])
    BY <2>1, DoLeaves
  <2>3. <<>> \in Seq(Call) /\ \A j \in 1..Len(<<>>) : FALSE
    BY ShortSeq
  <2>4. Fulfils(<<>>, p, HasIssue(p)')
    BY <1>2, <1>3, <2>3 DEF Fulfils
  <2> QED
    BY <1>1, <2>2, <2>3, <2>4 DEF Made
<1>4. CASE userIssue[a][u] # None
  <2>1. c \in Call /\ Heading(c) /\ Target(c) = p
    BY <1>1, UserCallsMade DEF UserNameCalls, Heading, Target
  <2>2. Do(w, <<c>>)
    BY <1>4 DEF DeleteUserIssue
  <2> HIDE DEF c
  <2>3. <<c>> \in Seq(Call) /\ Fulfils(<<c>>, p, HasIssue(p)')
    BY <2>1, OneFulfils
  <2>4. agenda'[w] = <<c>> \o Tail(agenda[w])
    BY <2>2, DoLeaves
  <2> QED
    BY <1>1, <2>3, <2>4 DEF Made
<1> QED
  BY <1>3, <1>4

\* The revocation is stored and the account refreshed before that.
LEMMA RevocationMade ==
    ASSUME TypeOK, NEW w \in Workers, NEW p, p = Target(Top(w)),
           Top(w) \in Call,
           AddUserToRevocationList(w)
    PROVE  \E n : Made(w, p, n)
<1> DEFINE a == Top(w).acc
           v == Top(w).user
           u == UserPath(a, v)
           i == revoke(accIssue[a], Pub(u))
           q == <<[op |-> "putAccountIssue", acc |-> a, iss |-> i]>>
                \o refreshAccount(a, i)
<1>1. a \in Accounts /\ v \in Users /\ p = u
  <2>1. Top(w).op = "addUserToRevocationList"
    BY DEF AddUserToRevocationList, Running, Top
  <2> QED
    BY <2>1, UserCallFields DEF UserNameCalls, Target
<1>2. Pub(u) \in Key
  BY <1>1, PathTyped, PubTyped DEF TypeOK
<1>3. \/ Do(w, eraseUser(a, v, None))
      \/ accIssue[a] # None /\ Do(w, q \o eraseUser(a, v, Pub(u)))
  BY DEF AddUserToRevocationList
<1>4. CASE Do(w, eraseUser(a, v, None))
  <2> DEFINE n == <<>> \o eraseUser(a, v, None)
  <2>1. n \in Seq(Call) /\ Fulfils(n, p, HasIssue(p)')
    <3>1. <<>> \in Seq(Ordinary)
      BY ShortSeq
    <3> QED
      BY <1>1, <3>1, EraseUserFulfils
  <2>2. n = eraseUser(a, v, None)
    <3>1. eraseUser(a, v, None) \in Seq(Call)
      BY <1>1, UserCallsMade, ShortSeq DEF eraseUser, UserNameCalls
    <3> QED
      BY <3>1, ConcatEmptySeq
  <2> HIDE DEF n
  <2>3. agenda'[w] = n \o Tail(agenda[w])
    BY <1>4, <2>2, DoLeaves
  <2> QED
    BY <1>1, <2>1, <2>3 DEF Made
<1>5. CASE accIssue[a] # None /\ Do(w, q \o eraseUser(a, v, Pub(u)))
  <2> DEFINE n == q \o eraseUser(a, v, Pub(u))
  <2>1. accIssue[a] \in AccIssue
    BY <1>1, <1>5 DEF TypeOK, StorageOK
  <2>2. i \in AccIssue
    BY <1>2, <2>1 DEF revoke, AccIssue, AccPar
  <2> HIDE DEF i
  <2>3. q \in Seq(Ordinary)
    BY <1>1, <2>2, RefreshOrdinary
  <2> HIDE DEF q
  <2>4. n \in Seq(Call) /\ Fulfils(n, p, HasIssue(p)')
    BY <1>1, <1>2, <2>3, EraseUserFulfils
  <2>5. agenda'[w] = n \o Tail(agenda[w])
    BY <1>5, DoLeaves
  <2> QED
    BY <1>1, <2>4, <2>5 DEF Made
<1> QED
  BY <1>3, <1>4, <1>5

\* Whatever the account server does, the account is deleted then, unless the
\* plugin has no credentials to ask with.
LEMMA SyncMade ==
    ASSUME TypeOK, NEW w \in Workers, NEW p, p = Target(Top(w)),
           Top(w) \in Call, Top(w).op \in Syncs, Top(w).mode = "delete",
           RefreshAccountResolver(w) \/ PushAccount(w) \/ DeleteAccounts(w)
    PROVE  agenda'[w] = Unwind(agenda[w]) \/ \E n : Made(w, p, n)
<1> DEFINE t == Top(w)
<1>1. t.acc \in Accounts /\ t.iss \in AccIssue /\ p = AccPath(t.acc)
  BY ServerCallFields DEF Syncs, Target
<1>2. ASSUME NEW i \in AccIssue, Do(w, AfterSync(t.acc, i, t.mode))
      PROVE  \E n : Made(w, p, n)
  <2> DEFINE ps == AccSignings(t.acc, i.par.signing)
             c  == [op |-> "deleteAccountJWT", acc |-> t.acc]
             e  == [op |-> "deleteAccountEntry", acc |-> t.acc]
             r  == <<c, e>>
             b  == deleteNkeys({p})
             g  == deleteNkeys(ps)
             n  == b \o (g \o r)
  <2>1. /\ ps \in SUBSET Path /\ p \in Path /\ {p} \in SUBSET Path
        /\ p[1] = "account" /\ p[2] = t.acc
    <3>1. i.par.signing \in SUBSET AccKeys
      BY DEF AccIssue, AccPar
    <3> QED
      BY <1>1, <3>1, PathTyped, PathsTyped DEF AccPath
  <2>2. /\ c \in Call /\ TakesJWT(c, p)
        /\ e \in Call /\ e.op \in Drops /\ Target(e) = p
    BY <1>1, <2>1, AccountCallsMade
       DEF AccNameCalls, TakesJWT, Drops, Target, Syncs
  <2>3. Do(w, (b \o g) \o r)
    BY <1>1, <1>2 DEF AfterSync, eraseAccount
  <2> HIDE DEF c, e, ps
  <2>4. b \in Seq(Call) /\ g \in Seq(Call) /\ r \in Seq(Call)
    BY <2>1, <2>2, DeleteNkeysTyped, ShortSeq
  <2>5. n \in Seq(Call) /\ Fulfils(n, p, HasIssue(p)')
    BY <2>1, <2>2, EraseFulfils
  <2> HIDE DEF b, g, r
  <2>6. (b \o g) \o r = n
    BY <2>4, ConcatAssociative, SMTT(20)
  <2> HIDE DEF n
  <2>7. agenda'[w] = n \o Tail(agenda[w])
    BY <2>3, <2>6, DoLeaves
  <2> QED
    BY <2>5, <2>7 DEF Made
<1>3. Marked(t.iss, t.mode) \in AccIssue
  BY <1>1 DEF Marked, AccIssue
<1>4. CASE PushAccount(w) \/ DeleteAccounts(w)
  BY <1>1, <1>2, <1>3, <1>4 DEF PushAccount, DeleteAccounts
<1>5. CASE RefreshAccountResolver(w)
  <2> DEFINE c == [op |-> "deleteAccounts", acc |-> t.acc, iss |-> t.iss,
                   mode |-> t.mode, tok |-> accJWT[t.acc]]
  <2>1. \/ Do(w, AfterSync(t.acc, t.iss, t.mode)) \/ Fail(w)
        \/ SyncWanted(t.acc) /\ Do(w, <<c>>)
    BY <1>5 DEF RefreshAccountResolver
  <2>2. CASE SyncWanted(t.acc) /\ Do(w, <<c>>)
    <3>1. accJWT[t.acc] \in AccToken
      BY <1>1, <2>2 DEF SyncWanted, TypeOK, StorageOK
    <3>2. c \in Call /\ Heading(c) /\ Target(c) = p
      BY <1>1, <3>1, ServerCallsMade
         DEF Resolvable, ResolverModes, Heading, Syncs, Target
    <3> HIDE DEF c
    <3>3. <<c>> \in Seq(Call) /\ Fulfils(<<c>>, p, HasIssue(p)')
      BY <3>2, OneFulfils
    <3>4. agenda'[w] = <<c>> \o Tail(agenda[w])
      BY <2>2, DoLeaves
    <3> QED
      BY <3>3, <3>4 DEF Made
  <2> QED
    BY <1>1, <1>2, <2>1, <2>2, DoLeaves
<1> QED
  BY <1>4, <1>5

\* All that lead to a deletion.
LEMMA HeadMade ==
    ASSUME TypeOK, NEW w \in Workers, Acts(w), Top(w) \in Call,
           Heading(Top(w)), NEW p, p = Target(Top(w)),
           Top(w).op = "deleteOperatorIssue" =>
              (opIssue # None => ~opIssue.sys)
    PROVE  agenda'[w] = Unwind(agenda[w]) \/ \E n : Made(w, p, n)
<1> DEFINE t == Top(w)
<1>1. CASE t.op = "deleteOperatorIssue"
  BY <1>1, EndActions, OperatorMade, DoLeaves
<1>2. CASE t.op = "deleteAccountIssue"
  BY <1>2, EndActions, AccountMade, DoLeaves
<1>3. CASE t.op = "deleteUserIssue"
  BY <1>3, EndActions, UserMade, DoLeaves
<1>4. CASE t.op = "addUserToRevocationList"
  BY <1>4, EndActions, RevocationMade, DoLeaves
<1>5. CASE t.op \in Syncs /\ t.mode = "delete"
  BY <1>5, EndActions, SyncMade, DoLeaves
<1> QED
  BY <1>1, <1>2, <1>3, <1>4, <1>5 DEF Heading

\* Where the call is that deletes, or leads to it.
LEMMA EndsAt ==
    ASSUME NEW s, NEW has, NEW st, NEW jw, Ends(s, has, st, jw),
           NEW j \in 1..Len(s), Ending(s[j])
    PROVE  /\ j = Len(s) - 1 /\ Heading(Asked(s))
           /\ Target(s[j]) = Target(Asked(s))
BY DEF Ends

\* What a step does to a call that deletes.
LEMMA StepEnds ==
    ASSUME TypeOK, NEW w \in Workers, Acts(w), Top(w) \in Sane,
           Ordered(agenda[w]), NEW p, p = Target(Asked(agenda[w])),
           Ends(agenda[w], HasIssue(p), Stored(p), HasJWT(p)),
           Top(w).op = "deleteOperatorIssue" =>
              (opIssue # None => ~opIssue.sys),
           agenda'[w] # <<>>
    PROVE  Ends(agenda'[w], HasIssue(p)', Stored(p)', HasJWT(p)')
<1> DEFINE s == agenda[w]
           t == Top(w)
           has == HasIssue(p)
           st == Stored(p)
           jw == HasJWT(p)
<1>1. /\ s \in Seq(Call) /\ s # <<>> /\ s[1] = t /\ t \in Call /\ Shaped(t)
      /\ Len(s) \in Nat /\ 1 \in 1..Len(s)
  <2>1. s \in Seq(Call) /\ s # <<>> /\ s[1] = t /\ t \in Call /\ Shaped(t)
    BY ActsLeaves DEF Sane
  <2> QED
    BY <2>1, LenProperties, EmptySeq
<1>2. agenda'[w] = Unwind(s) => Ends(agenda'[w], has', st', jw')
  BY <1>1, EndsUnwound
<1>3. ASSUME Ending(t)
      PROVE  /\ Len(s) = 2 /\ Heading(Asked(s)) /\ Target(t) = p
             /\ p \in Path /\ ~Signing(p)
  <2>1. 1 = Len(s) - 1 /\ Heading(Asked(s)) /\ Target(t) = p
    BY <1>1, <1>3, EndsAt
  <2>2. Len(s) = 2
    BY <1>1, <2>1
  <2> QED
    BY <1>1, <1>3, <2>1, <2>2, TargetTyped
<1>4. CASE Heading(t)
  <2>1. Ending(t)
    BY <1>4 DEF Ending
  <2>2. p = Target(t)
    BY <1>3, <2>1
  <2>3. agenda'[w] = Unwind(s) \/ \E n : Made(w, p, n)
    BY <1>1, <1>4, <2>2, HeadMade
  <2>4. ASSUME NEW n, Made(w, p, n)
        PROVE  Ends(agenda'[w], has', st', jw')
    BY <1>1, <1>3, <2>1, <2>4, EndsHeaded DEF Made
  <2> QED
    BY <1>2, <2>3, <2>4
<1>5. CASE t.op \in Drops
  <2>1. Ending(t)
    BY <1>5 DEF Ending
  <2>2. CASE StorageError(w)
    BY <1>2, <2>2, DoLeaves
  <2>3. CASE ~StorageError(w)
    <3>1. agenda'[w] = <<>> \o Tail(s) /\ ~has'
      BY <1>1, <1>3, <1>5, <2>1, <2>3, IssueKept
    <3>2. <<>> \in Seq(Call)
      BY ShortSeq
    <3>3. Ends(<<>> \o Tail(s), has', st', jw')
      BY <1>1, <1>3, <2>1, <3>1, <3>2, EndsDropped
    <3> QED
      BY <3>1, <3>3
  <2> QED
    BY <2>2, <2>3
<1>6. CASE t.op = "reply"
  <2>1. \A k \in 2..Len(s) : FALSE
    BY <1>1, <1>6, FirstBefore DEF Before
  <2>2. agenda'[w] = Unwind(s) \/ agenda'[w] = <<>> \o Tail(s)
    BY <1>6, ActsLeaves DEF Sane
  <2>3. Tail(s) = <<>>
    BY <1>1, <2>1, TailWithin, ElementOfSeq, EmptySeq
  <2>4. <<>> \o <<>> = <<>>
    OBVIOUS
  <2> QED
    BY <1>2, <2>2, <2>3, <2>4
<1>7. CASE ~Ending(t) /\ t.op # "reply" /\ t.op \notin Clears
  <2>1. \/ agenda'[w] = Unwind(s)
        \/ \E n \in Seq(Call) : /\ agenda'[w] = n \o Tail(s)
                                 /\ \A j \in 1..Len(n) : ~Ending(n[j])
    BY <1>1, <1>7, EndingCalls DEF Ending
  <2>2. ~Cleared(s, Len(s) - 1, p, st, jw)
    <3>1. ASSUME Cleared(s, Len(s) - 1, p, st, jw)
          PROVE  FALSE
      <4>1. CASE Len(s) = 2
        <5>1. Len(s) - 1 = 1
          BY <4>1
        <5> QED
          BY <1>1, <1>7, <3>1, <5>1 DEF Cleared, Ending
      <4>2. CASE Len(s) # 2
        <5>1. 1 \in 1..((Len(s) - 1) - 1)
          <6> DEFINE l == Len(s)
          <6>1. l \in Nat /\ l - 1 > 0 /\ l # 2
            BY <1>1, <3>1, <4>2 DEF Cleared
          <6> HIDE DEF l
          <6>2. 1 \in 1..((l - 1) - 1)
            BY <6>1
          <6> QED
            BY <6>2 DEF l
        <5> QED
          BY <1>1, <1>7, <3>1, <5>1 DEF Cleared
      <4> QED
        BY <4>1, <4>2
    <3> QED
      BY <3>1
  <2>3. CASE ~(Erasing(s, Len(s) - 1, p) /\ Len(s) = 3)
    BY <1>1, <1>2, <1>7, <2>1, <2>2, <2>3, EndsReplaced
  <2>4. CASE Erasing(s, Len(s) - 1, p) /\ Len(s) = 3
    <3>1. /\ Len(s) - 1 = 2 /\ (Len(s) - 1) - 1 = 1
      BY <2>4
    <3>2. t.op = "deleteUserNkey" /\ Target(t) = p /\ s[2].op \in Drops
      BY <1>1, <2>4, <3>1 DEF Erasing
    <3>3. CASE StorageError(w)
      BY <1>2, <3>3, DoLeaves
    <3>4. CASE DeleteUserNkey(w)
      <4>1. t.acc \in Accounts /\ t.user \in Users
        BY <1>1, <3>2, UserCallFields
      <4>2. p = UserPath(t.acc, t.user) /\ p \in Path
        BY <3>2, <4>1, PathTyped DEF Target
      <4>3. ~st' /\ ~jw'
        <5>1. nkey' = [nkey EXCEPT ![p] = 0]
          BY <3>4, <4>2 DEF DeleteUserNkey
        <5>2. p[1] = "user"
          BY <4>2 DEF UserPath
        <5> QED
          BY <4>2, <5>1, <5>2 DEF Stored, HasJWT, TypeOK, StorageOK
      <4>4. agenda'[w] = <<>> \o Tail(s)
        BY <3>4, DoLeaves DEF DeleteUserNkey
      <4> DEFINE n == <<>>
                 m == n \o Tail(s)
      <4>5. n \in Seq(Call) /\ Len(n) = 0
        BY ShortSeq
      <4>6. /\ Len(m) = Len(n) + Len(s) - 1
            /\ \A k \in 2..Len(s) : m[Len(n) + k - 1] = s[k]
        BY <1>1, <4>5, Replaced
      <4>7. 2 \in 2..Len(s) /\ Len(n) + 2 - 1 = 1 /\ (Len(m) - 1) = 1
        BY <2>4, <4>5, <4>6
      <4>8. m[1] = s[2]
        BY <4>6, <4>7
      <4> HIDE DEF m
      <4>9. \A j \in 1..(1 - 1) : FALSE
        OBVIOUS
      <4>10. Cleared(m, Len(m) - 1, p, st', jw')
        <5>1. Cleared(m, 1, p, st', jw')
          BY <3>2, <4>3, <4>8, <4>9 DEF Cleared
        <5> QED
          BY <4>7, <5>1
      <4>11. \A j \in 1..Len(n) : ~Ending(n[j])
        BY <4>5
      <4>12. Ends(n \o Tail(s), has', st', jw')
        BY <1>1, <1>7, <4>5, <4>10, <4>11, EndsReplaced DEF m
      <4> QED
        BY <4>4, <4>12
    <3> QED
      BY <3>2, <3>3, <3>4, EndActions
  <2> QED
    BY <2>3, <2>4
<1>8. CASE t.op \in Clears
  <2>1. CASE StorageError(w)
    BY <1>2, <2>1, DoLeaves
  <2>2. CASE ~StorageError(w)
    <3>1. ~Ending(t) /\ t.op # "reply" /\ t.op \notin Drops
      BY <1>8 DEF Ending, Heading, Drops, Clears, Syncs
    <3>2. ~(Erasing(s, Len(s) - 1, p) /\ Len(s) = 3)
      <4>1. Len(s) = 3 => (Len(s) - 1) - 1 = 1
        OBVIOUS
      <4> QED
        BY <1>1, <1>8, <4>1 DEF Erasing, Clears
    <3>3. CASE p \in Path
      <4>1. PICK n \in Seq(Call) :
               /\ agenda'[w] = n \o Tail(s)
               /\ \A j \in 1..Len(n) : n[j].op = "deleteNkeys"
               /\ st' => \/ st /\ ~TakesNkey(t, p)
                         \/ \E j \in 1..Len(n) : TakesNkey(n[j], p)
               /\ jw' => jw /\ ~TakesJWT(t, p)
        BY <1>1, <1>8, <2>2, <3>3, ClearsStep
      <4>2. \A j \in 1..Len(n) : n[j].op \in Clears /\ ~Ending(n[j])
        BY <4>1 DEF Clears, Ending, Heading, Drops, Syncs
      <4> DEFINE m == n \o Tail(s)
      <4>3. Cleared(s, Len(s) - 1, p, st, jw)
               => Cleared(m, Len(m) - 1, p, st', jw')
        BY <1>1, <3>1, <4>1, <4>2, ClearedLess
      <4>4. Ends(n \o Tail(s), has', st', jw')
        BY <1>1, <3>1, <3>2, <4>1, <4>2, <4>3, EndsReplaced
      <4> QED
        BY <4>1, <4>4
    <3>4. CASE p \notin Path
      <4>1. \A j \in 1..Len(s) : ~Ending(s[j])
        BY <1>1, <3>4, TargetTyped, ElementOfSeq DEF Ends
      <4>2. \/ agenda'[w] = Unwind(s)
            \/ \E n \in Seq(Call) : /\ agenda'[w] = n \o Tail(s)
                                     /\ \A j \in 1..Len(n) : ~Ending(n[j])
        BY <1>1, <3>1, EndingCalls DEF Ending
      <4>3. ~Cleared(s, Len(s) - 1, p, st, jw)
        <5>1. Len(s) - 1 > 0 => Len(s) - 1 \in 1..Len(s)
          BY <1>1
        <5> QED
          BY <4>1, <5>1 DEF Cleared, Ending
      <4> QED
        BY <1>1, <1>2, <3>1, <3>2, <4>2, <4>3, EndsReplaced
    <3> QED
      BY <3>3, <3>4
  <2> QED
    BY <2>1, <2>2
<1> QED
  BY <1>4, <1>5, <1>6, <1>7, <1>8 DEF Ending

\* no request stores an nkey or a JWT that comes with it
NothingImported ==
    \A r \in Requests : r.op \notin {"addNkey", "addAccountJWT",
                                     "addOperatorJWT"}

\* A storage error leaves issues, nkeys and JWTs alone.
LEMMA StorageKeepsIssue ==
    ASSUME NEW w, Acts(w), StorageError(w), NEW p
    PROVE  /\ HasIssue(p) => HasIssue(p)'
           /\ Stored(p)' <=> Stored(p)
           /\ HasJWT(p)' <=> HasJWT(p)
BY EndActions DEF issues, tokens, seeds, HasIssue, Stored, HasJWT

\* An issue that goes leaves nothing of it.
LEMMA GoneWhole ==
    ASSUME TypeOK, NEW w \in Workers, Acts(w), Top(w) \in Sane,
           Ordered(agenda[w]), Grounded(w), NEW q \in Path, ~Signing(q),
           HasIssue(q), ~HasIssue(q)'
    PROVE  ~Stored(q)' /\ ~HasJWT(q)' /\ Based(agenda'[w], q, HasIssue(q)')
<1> DEFINE s == agenda[w]
           t == Top(w)
<1>1. /\ s \in Seq(Call) /\ s # <<>> /\ s[1] = t /\ t \in Call
      /\ 1 \in 1..Len(s)
  <2>1. s \in Seq(Call) /\ s # <<>> /\ s[1] = t /\ t \in Call
    BY ActsLeaves DEF Sane
  <2> QED
    BY <2>1, LenProperties, EmptySeq
<1>2. t.op \in Drops /\ Target(t) = q
  BY <1>1, IssueKept
<1>3. Ends(s, HasIssue(Target(Asked(s))), Stored(Target(Asked(s))),
           HasJWT(Target(Asked(s))))
  BY <1>1 DEF Grounded
<1>4. /\ 1 = Len(s) - 1 /\ Heading(Asked(s)) /\ Target(Asked(s)) = q
  BY <1>1, <1>2, <1>3, EndsAt DEF Ending
<1>5. Len(s) = 2
  BY <1>1, <1>4, LenProperties
<1>6. Ends(s, HasIssue(q), Stored(q), HasJWT(q))
  BY <1>3, <1>4
<1>7. Cleared(s, 1, q, Stored(q), HasJWT(q))
  <2>1. ~Heading(s[1])
    BY <1>1, <1>2 DEF Heading, Drops, Syncs
  <2>2. ~Erasing(s, 1, q)
    BY DEF Erasing
  <2> QED
    BY <1>4, <1>5, <1>6, <2>1, <2>2 DEF Ends
<1>8. ~Stored(q) /\ ~HasJWT(q)
  <2>1. \A j \in 1..(1 - 1) : FALSE
    OBVIOUS
  <2> QED
    BY <1>7, <2>1 DEF Cleared
<1>9. ~Fills(t, q)
  BY <1>2 DEF Fills, Drops
<1>10. ~Stored(q)' /\ ~HasJWT(q)'
  BY <1>8, <1>9, FilledBy
<1>11. agenda'[w] = <<>> \o Tail(s)
  <2>1. ~StorageError(w)
    BY <1>1, StorageKeepsIssue
  <2> QED
    BY <1>1, <1>2, <2>1, IssueKept
<1>12. Based(agenda'[w], q, HasIssue(q)')
  <2> DEFINE m == <<>> \o Tail(s)
  <2>1. <<>> \in Seq(Call)
    BY ShortSeq
  <2>2. Len(m) = 1 /\ m[1].op = "reply"
    BY <1>1, <1>5, <2>1, OnlyReply
  <2> HIDE DEF m
  <2>3. \A j \in 1..Len(m) : ~Fills(m[j], q)
    BY <2>2 DEF Fills
  <2> QED
    BY <1>11, <2>3 DEF Based, m
<1> QED
  BY <1>10, <1>12

\* A handler's step keeps the invariant.
LEMMA StepGrounded ==
    ASSUME TypeOK, NEW w \in Workers, Acts(w), OneAtATime(w), RootsKept(w),
           Grounded(w)
    PROVE  Grounded(w)'
<1> DEFINE s == agenda[w]
           t == Top(w)
<1>1. /\ t \in Sane /\ Ordered(s) /\ s \in Seq(Call) /\ s # <<>>
      /\ s[1] = t /\ t \in Call /\ 1 \in 1..Len(s) /\ Shaped(t)
  <2>1. t \in Sane /\ Ordered(s)
    BY ActsSane DEF OneAtATime
  <2>2. s \in Seq(Call) /\ s # <<>> /\ s[1] = t /\ t \in Call /\ Shaped(t)
    BY <2>1, ActsLeaves DEF Sane
  <2> QED
    BY <2>1, <2>2, LenProperties, EmptySeq
<1>2. t.op = "deleteOperatorIssue" => (opIssue # None => ~opIssue.sys)
  BY <1>1, StepSimple DEF Simple, RootsKept
<1>3. ASSUME agenda'[w] # <<>>, NEW p, p = Target(Asked(agenda'[w]))
      PROVE  Ends(agenda'[w], HasIssue(p)', Stored(p)', HasJWT(p)')
  <2>1. p = Target(Asked(s))
    BY <1>1, <1>3, ActsOrdered
  <2>2. Ends(s, HasIssue(p), Stored(p), HasJWT(p))
    BY <1>1, <2>1 DEF Grounded
  <2> QED
    BY <1>1, <1>2, <1>3, <2>1, <2>2, StepEnds
<1>4. ASSUME NEW q \in Path, ~Signing(q)
      PROVE  /\ Stored(q)' \/ HasJWT(q)' => HasIssue(q)'
             /\ Based(agenda'[w], q, HasIssue(q)')
  <2>1. CASE HasIssue(q) /\ ~HasIssue(q)'
    BY <1>1, <1>4, <2>1, GoneWhole
  <2>2. CASE HasIssue(q) => HasIssue(q)'
    <3>1. Based(s, q, HasIssue(q)) /\ (Stored(q) \/ HasJWT(q) => HasIssue(q))
      BY <1>4 DEF Grounded
    <3>2. Based(agenda'[w], q, HasIssue(q)')
      BY <1>1, <1>4, <2>2, <3>1, StepBased
    <3>3. ASSUME ~HasIssue(q), Stored(q)' \/ HasJWT(q)'
          PROVE  HasIssue(q)'
      <4>1. ~Stored(q) /\ ~HasJWT(q)
        BY <3>1, <3>3
      <4>2. Fills(t, q)
        BY <1>1, <3>3, <4>1, FilledBy
      <4>3. Puts(t, q)
        BY <1>1, <3>1, <3>3, <4>2 DEF Based
      <4>4. ~StorageError(w)
        BY <3>3, <4>1, StorageKeepsIssue
      <4> QED
        BY <1>1, <1>4, <4>3, <4>4, IssueKept
    <3> QED
      BY <2>2, <3>2, <3>3
  <2> QED
    BY <2>1, <2>2
<1> QED
  BY <1>3, <1>4 DEF Grounded, Signing

\* A request is received, with nothing created or deleted yet.
LEMMA ReceiveGrounded ==
    ASSUME TypeOK, NothingImported, NEW w \in Workers, Receive(w), Grounded(w)
    PROVE  Grounded(w)'
<1>1. PICK r \in Requests :
         agenda'[w] = <<r, [op |-> "reply", req |-> r, faults |-> faults]>>
  BY DEF Receive, TypeOK, WorldOK, AgendaOK
<1> DEFINE e == [op |-> "reply", req |-> r, faults |-> faults]
           s == <<r, e>>
<1>2. r \in Request /\ e.op = "reply" /\ e.req = r
  BY RequestsAssumption
<1>3. r.op \in {"addOperatorIssue", "deleteOperatorIssue",
                "addAccountIssue", "deleteAccountIssue", "addUserIssue",
                "deleteUserIssue", "generateUserCreds", "addNkey",
                "deleteNkeys", "addOperatorJWT", "deleteOperatorJWT",
                "addAccountJWT", "deleteAccountJWT", "periodicFunc"}
  BY <1>2 DEF Request, IssueOperatorRequest, IssueAccountRequest,
              IssueUserRequest, UserCredsRequest, NkeyRequest,
              OperatorJWTRequest, AccountJWTRequest
<1>4. agenda'[w] = s
  BY <1>1
<1> HIDE DEF e
<1>5. Len(s) = 2 /\ s[1] = r /\ s[2] = e /\ Len(s) - 1 = 1
      /\ \A j \in 1..Len(s) : j = 1 \/ j = 2
  OBVIOUS
<1> HIDE DEF s
<1>6. Asked(s) = r
  BY <1>2, <1>5 DEF Asked
<1>7. /\ Ending(r) => Heading(r)
      /\ ~Ending(e)
      /\ \A p : ~Fills(r, p) /\ ~Fills(e, p)
  BY <1>2, <1>3 DEF Ending, Drops, Heading, Syncs, Fills, NothingImported
<1>8. \A has, st, jw : Ends(s, has, st, jw)
  BY <1>5, <1>6, <1>7 DEF Ends
<1>9. \A p, has : Based(s, p, has)
  BY <1>5, <1>7 DEF Based
<1>10. ASSUME NEW q \in Path, ~Signing(q)
       PROVE  Stored(q)' \/ HasJWT(q)' => HasIssue(q)'
  <2>1. Stored(q) \/ HasJWT(q) => HasIssue(q)
    BY <1>10 DEF Grounded
  <2>2. UNCHANGED <<opIssue, accIssue, userIssue, opJWT, accJWT, nkey>>
    BY DEF Receive, issues, tokens, seeds
  <2> QED
    BY <2>1, <2>2 DEF HasIssue, HasJWT, Stored
<1> QED
  BY <1>4, <1>8, <1>9, <1>10 DEF Grounded, Signing

\* Every step of the plugin keeps the invariant.
LEMMA GroundedNext ==
    ASSUME NEW w, Workers = {w}, RootsAsked, NothingImported,
           TypeOK, OneAtATime(w), RootsKept(w), Grounded(w), [Next]_vars
    PROVE  Grounded(w)'
<1>1. w \in Workers
  OBVIOUS
<1>2. CASE Receive(w)
  BY <1>1, <1>2, ReceiveGrounded
<1>3. CASE Acts(w)
  BY <1>1, <1>3, StepGrounded
<1>4. CASE Crash
  <2>1. /\ UNCHANGED <<opIssue, accIssue, userIssue, opJWT, accJWT, nkey>>
        /\ agenda'[w] = <<>>
    BY <1>1, <1>4 DEF Crash, issues, tokens, seeds
  <2>2. \A q \in Path : /\ HasIssue(q)' = HasIssue(q)
                        /\ Stored(q)' = Stored(q) /\ HasJWT(q)' = HasJWT(q)
    BY <2>1 DEF HasIssue, HasJWT, Stored
  <2>3. \A q, has : Based(<<>>, q, has)
    BY DEF Based
  <2> QED
    BY <2>1, <2>2, <2>3 DEF Grounded, Signing
<1>5. CASE UNCHANGED vars
  <2>1. UNCHANGED <<opIssue, accIssue, userIssue, opJWT, accJWT, nkey, agenda>>
    BY <1>5 DEF vars, issues, tokens, seeds, world
  <2> QED
    BY <2>1 DEF Grounded, Signing, HasIssue, HasJWT, Stored
<1> QED
  BY <1>2, <1>3, <1>4, <1>5, OneWorker

\* A reply is to a request.
LEMMA ReplyAsks == \A c \in Call : c.op = "reply" => c.req \in Call
BY DEF Call, Reply, InnerCall, Request, IssueOperatorRequest,
       IssueAccountRequest, IssueUserRequest, UserCredsRequest, NkeyRequest,
       OperatorJWTRequest, AccountJWTRequest, OpCalls, PlainCalls,
       AccNameCalls, AccIssueCalls, AccLoopCalls, UserLoopCalls, UserNameCalls

\* One request at a time, whatever fails and wherever a handler is stopped:
\* when the plugin answers that it deleted an operator, an account or a user,
\* neither its issue nor its JWT nor any nkey of it is in storage.  The
\* requests may not import nkeys or JWTs, which stay when an account without
\* an issue is deleted; and if they delete the operator, it has no system
\* account.
THEOREM DeletedStaysNowhere ==
    ASSUME NEW one, Workers = {one}, RootsAsked, NothingImported
    PROVE  Spec => []DeletedIsGone
<1>1. Init => Grounded(one)
  <2> SUFFICES ASSUME Init
               PROVE  Grounded(one)
    OBVIOUS
  <2>1. /\ agenda[one] = <<>> /\ opJWT = None /\ (\A p \in Path : nkey[p] = 0)
        /\ \A a \in Accounts : accJWT[a] = None
    BY DEF Init, InitWith
  <2>2. \A q \in Path : q[1] = "account" => q[2] \in Accounts
    BY DEF Path
  <2>3. \A q, has : Based(<<>>, q, has)
    BY DEF Based
  <2> QED
    BY <2>1, <2>2, <2>3 DEF Grounded, Stored, HasJWT
<1>2. TypeOK /\ OneAtATime(one) /\ RootsKept(one) /\ Grounded(one)
      /\ [Next]_vars => Grounded(one)'
  BY GroundedNext
<1>3. TypeOK /\ OneAtATime(one) /\ RootsKept(one) /\ Grounded(one) =>
         DeletedIsGone
  <2> SUFFICES ASSUME TypeOK, OneAtATime(one), RootsKept(one), Grounded(one)
               PROVE  DeletedIsGone
    OBVIOUS
  <2> DEFINE s == agenda[one]
             r == Top(one).req
  <2>1. ASSUME NEW op \in {"deleteAccountIssue", "deleteUserIssue",
                           "deleteOperatorIssue"},
               Answering(one, op), NEW p, p = Target(r)
        PROVE  /\ r \in Call /\ r.op = op /\ p \in Path /\ ~Signing(p)
               /\ ~HasIssue(p) /\ ~Stored(p) /\ ~HasJWT(p)
    <3>1. /\ s \in Seq(Call) /\ s # <<>> /\ Top(one) \in Call /\ s[1] = Top(one)
          /\ s[1].op = "reply" /\ r.op = op
      BY <2>1, RunningTyped, AgendaTyped DEF Answering, Top
    <3>2. r \in Call
      BY <3>1, ReplyAsks
    <3>3. Len(s) = 1
      <4>1. \A k \in 2..Len(s) : FALSE
        BY <3>1, FirstBefore DEF Before, OneAtATime
      <4> DEFINE l == Len(s)
      <4>2. l \in Nat /\ l # 0 /\ \A k \in 2..l : FALSE
        BY <3>1, <4>1, LenProperties, EmptySeq
      <4> HIDE DEF l
      <4>3. l = 1
        BY <4>2
      <4> QED
        BY <4>3 DEF l
    <3>4. Asked(s) = r
      BY <3>1, <3>3 DEF Asked
    <3>5. Heading(r)
      BY <2>1, <3>1 DEF Heading
    <3>6. Ends(s, HasIssue(p), Stored(p), HasJWT(p))
      BY <2>1, <3>1, <3>4 DEF Grounded
    <3>7. ~HasIssue(p)
      <4>1. ~Cleared(s, Len(s) - 1, p, Stored(p), HasJWT(p))
            /\ ~Erasing(s, Len(s) - 1, p)
        BY <3>3 DEF Cleared, Erasing
      <4> QED
        BY <2>1, <3>3, <3>4, <3>5, <3>6, <4>1 DEF Ends
    <3>8. p \in Path /\ ~Signing(p)
      BY <2>1, <3>2, <3>5, TargetTyped DEF Ending
    <3> QED
      BY <3>1, <3>2, <3>7, <3>8 DEF Grounded
  <2>2. \A q \in Path : Signing(q) => (Stored(q) => Declared(q))
    BY DEF RootsKept
  <2>3. ASSUME Answering(one, "deleteAccountIssue")
        PROVE  LET a == r.acc IN
               /\ accIssue[a] = None /\ accJWT[a] = None
               /\ \A k \in AccKeys \cup {None} : ~Stored(AccSigning(a, k))
    <3> DEFINE a == r.acc
    <3>1. /\ r \in Call /\ r.op = "deleteAccountIssue"
      BY <2>1, <2>3
    <3>2. a \in Accounts /\ Target(r) = AccPath(a)
      BY <3>1, AccountCallFields DEF AccNameCalls, Target
    <3>3. ~HasIssue(AccPath(a)) /\ ~Stored(AccPath(a)) /\ ~HasJWT(AccPath(a))
      BY <2>1, <2>3, <3>2
    <3>4. accIssue[a] = None /\ accJWT[a] = None
      BY <3>3 DEF HasIssue, HasJWT, AccPath
    <3>5. ASSUME NEW k \in AccKeys \cup {None}
          PROVE  ~Stored(AccSigning(a, k))
      <4>1. CASE k = None
        BY <3>3, <4>1 DEF AccSigning, AccPath
      <4>2. CASE k # None
        <5>1. AccSigning(a, k) \in Path /\ Signing(AccSigning(a, k))
          BY <3>2, <4>2, PathTyped DEF Signing, AccSigning
        <5>2. ~Declared(AccSigning(a, k))
          BY <3>4 DEF Declared, AccSigning
        <5> QED
          BY <2>2, <5>1, <5>2
      <4> QED
        BY <4>1, <4>2
    <3> QED
      BY <3>4, <3>5
  <2>4. ASSUME Answering(one, "deleteUserIssue")
        PROVE  /\ userIssue[r.acc][r.user] = None
               /\ ~Stored(UserPath(r.acc, r.user))
    <3>1. /\ r \in Call /\ r.op = "deleteUserIssue"
      BY <2>1, <2>4
    <3>2. Target(r) = UserPath(r.acc, r.user)
      BY <3>1 DEF Target
    <3>3. /\ ~HasIssue(UserPath(r.acc, r.user))
          /\ ~Stored(UserPath(r.acc, r.user))
      BY <2>1, <2>4, <3>2
    <3> QED
      BY <3>3 DEF HasIssue, UserPath
  <2>5. ASSUME Answering(one, "deleteOperatorIssue")
        PROVE  /\ opIssue = None /\ opJWT = None
               /\ \A k \in OpKeys \cup {None} : ~Stored(OpSigning(k))
    <3>1. /\ r \in Call /\ r.op = "deleteOperatorIssue"
      BY <2>1, <2>5
    <3>2. Target(r) = OpPath
      BY <3>1 DEF Target
    <3>3. ~HasIssue(OpPath) /\ ~Stored(OpPath) /\ ~HasJWT(OpPath)
      BY <2>1, <2>5, <3>2
    <3>4. opIssue = None /\ opJWT = None
      BY <3>3 DEF HasIssue, HasJWT, OpPath
    <3>5. ASSUME NEW k \in OpKeys \cup {None}
          PROVE  ~Stored(OpSigning(k))
      <4>1. CASE k = None
        BY <3>3, <4>1 DEF OpSigning, OpPath
      <4>2. CASE k # None
        <5>1. OpSigning(k) \in Path /\ Signing(OpSigning(k))
          BY <4>2, PathTyped DEF Signing, OpSigning
        <5>2. ~Declared(OpSigning(k))
          BY <3>4 DEF Declared, OpSigning
        <5> QED
          BY <2>2, <5>1, <5>2
      <4> QED
        BY <4>1, <4>2
    <3> QED
      BY <3>4, <3>5
  <2> QED
    BY <2>3, <2>4, <2>5 DEF DeletedIsGone
<1>4. Spec => []OneAtATime(one)
  BY OneAtATimeHolds, PTL
<1>5. Spec => []RootsKept(one)
  BY RootsHold, PTL
<1> QED
  BY <1>1, <1>2, <1>3, <1>4, <1>5, TypeCorrect, PTL DEF Spec
=============================================================================
