---------------------------- MODULE ClaimsProofs ----------------------------
(***************************************************************************)
(* What the conversion of claims signs, for lists of any length and any    *)
(* texts clients may write.                                                *)
(***************************************************************************)
EXTENDS Claims, SequenceTheorems, TLAPS

-----------------------------------------------------------------------------
(* The loops: what has been appended is the beginning of the list meant,   *)
(* what is left is the end of the list as written.                         *)

Loop(written, meant, done, rest) ==
    /\ Len(done) + Len(rest) = Len(written)
    /\ \A i \in 1..Len(done) : done[i] = meant[i]
    /\ \A i \in 1..Len(rest) : rest[i] = written[Len(done) + i]

\* A loop begins with nothing done.
LEMMA LoopBegins ==
    ASSUME NEW S, NEW written \in Seq(S), NEW meant
    PROVE  Loop(written, meant, <<>>, written)
<1>1. Len(<<>>) = 0 /\ Len(written) \in Nat
  BY SMT
<1> QED
  BY <1>1, SMT DEF Loop

\* It goes on by one element.
LEMMA LoopGoesOn ==
    ASSUME NEW S, NEW written \in Seq(S), NEW rest \in Seq(S), rest # <<>>,
           NEW T, NEW meant \in Seq(T), Len(meant) = Len(written),
           NEW done \in Seq(T), Loop(written, meant, done, rest),
           NEW e, e = meant[Len(done) + 1]
    PROVE  /\ e \in T /\ Head(rest) = written[Len(done) + 1]
           /\ Len(done) + 1 \in 1..Len(written)
           /\ Append(done, e) \in Seq(T) /\ Tail(rest) \in Seq(S)
           /\ Loop(written, meant, Append(done, e), Tail(rest))
<1>1. /\ Len(rest) \in Nat /\ Len(rest) >= 1 /\ Head(rest) = rest[1]
      /\ Tail(rest) \in Seq(S) /\ Len(Tail(rest)) = Len(rest) - 1
      /\ \A i \in 1..(Len(rest) - 1) : Tail(rest)[i] = rest[i + 1]
  BY SMT
<1>2. Len(done) \in Nat /\ Len(written) \in Nat
  BY SMT
<1>3. Len(done) + 1 \in 1..Len(written)
  BY <1>1, <1>2 DEF Loop
<1>4. e \in T
  BY <1>3, SMT
<1>5. /\ Append(done, e) \in Seq(T)
      /\ Len(Append(done, e)) = Len(done) + 1
      /\ \A i \in 1..Len(done) : Append(done, e)[i] = done[i]
      /\ Append(done, e)[Len(done) + 1] = e
  BY <1>4, SMT
<1>6. Head(rest) = written[Len(done) + 1]
  BY <1>1 DEF Loop
<1>7. \A i \in 1..(Len(done) + 1) : Append(done, e)[i] = meant[i]
  BY <1>2, <1>5 DEF Loop
<1>8. \A i \in 1..Len(Tail(rest)) :
          Tail(rest)[i] = written[Len(Append(done, e)) + i]
  <2> SUFFICES ASSUME NEW i \in 1..Len(Tail(rest))
               PROVE  Tail(rest)[i] = written[Len(Append(done, e)) + i]
    OBVIOUS
  <2>1. i + 1 \in 1..Len(rest) /\ Tail(rest)[i] = rest[i + 1]
    BY <1>1
  <2>2. rest[i + 1] = written[Len(done) + (i + 1)]
    BY <2>1 DEF Loop
  <2>3. Len(done) + (i + 1) = Len(Append(done, e)) + i
    BY <1>2, <1>5, SMT
  <2> QED
    BY <2>1, <2>2, <2>3
<1>9. Len(Append(done, e)) + Len(Tail(rest)) = Len(written)
  <2>1. \A m, n \in Nat : (m + 1) + (n - 1) = m + n
    OBVIOUS
  <2>2. Len(done) + Len(rest) = Len(written)
    BY DEF Loop
  <2>3. (Len(done) + 1) + (Len(rest) - 1) = Len(written)
    BY <2>1, <2>2, <1>1, <1>2, Zenon
  <2> QED
    BY <2>3, <1>1, <1>5, Zenon
<1> QED
  BY <1>1, <1>3, <1>4, <1>5, <1>6, <1>7, <1>8, <1>9 DEF Loop

\* It ends with the list as it is meant.
LEMMA LoopEnds ==
    ASSUME NEW S, NEW written \in Seq(S),
           NEW T, NEW meant \in Seq(T), Len(meant) = Len(written),
           NEW done \in Seq(T), Loop(written, meant, done, <<>>)
    PROVE  done = meant
<1>1. Len(<<>>) = 0 /\ Len(done) \in Nat /\ Len(written) \in Nat
  BY SMT
<1>2. Len(done) = Len(meant)
  BY <1>1 DEF Loop
<1>3. \A i \in 1..Len(done) : done[i] = meant[i]
  BY DEF Loop
<1> QED
  BY <1>2, <1>3, SeqEqual

-----------------------------------------------------------------------------
(* The invariant.                                                          *)

\* the elements of the lists the conversion makes
SignedExport == [type : Types, threshold : Durations \cup {"0s"}]
signedExport(e) == [e EXCEPT !.threshold = duration(@)]
signedExports == [i \in DOMAIN claims.exports |->
                      signedExport(claims.exports[i])]
\* the default permissions of responses, with what duration makes of a text
signedResponse == IF claims.resp = None THEN None
                  ELSE [claims.resp EXCEPT !.ttl = duration(@)]
\* what is signed
Signed == IF claims.kind = "user" THEN claims
          ELSE [claims EXCEPT !.exports = signedExports,
                              !.resp = signedResponse]

\* every text of imports and exports is understood that has been converted
UnderstoodSoFar ==
    /\ \A i \in 1..Len(out.imports) : isExportType(claims.imports[i])
    /\ \A i \in 1..Len(out.exports) : understood(claims.exports[i])

\* every connection type is allowed but those that are left
AllowedSoFar ==
    /\ left \in Seq(Connections) /\ Len(left) <= Len(claims.conns)
    /\ \A i \in 1..(Len(claims.conns) - Len(left)) :
          allowedConnection(claims.conns[i])
    /\ \A i \in 1..Len(left) :
          left[i] = claims.conns[Len(claims.conns) - Len(left) + i]

OutOf(imports, exports, resp) ==
    [kind |-> "account", imports |-> imports, exports |-> exports,
     resp |-> resp]

AccountPart ==
    /\ claims \in Account
    /\ out.imports \in Seq(Types) /\ out.exports \in Seq(SignedExport)
    /\ out = OutOf(out.imports, out.exports, out.resp)
    /\ \/ /\ at = "imports" /\ left \in Seq(Types)
          /\ Loop(claims.imports, claims.imports, out.imports, left)
          /\ out.exports = <<>>
       \/ /\ at = "exports" /\ left \in Seq(Export)
          /\ out.imports = claims.imports
          /\ Loop(claims.exports, signedExports, out.exports, left)
       \/ /\ at = "done" /\ out = Signed
          /\ Len(out.exports) = Len(claims.exports)
       \/ at = "failed"
    /\ UnderstoodSoFar

UserPart ==
    /\ claims \in User
    /\ \/ /\ at = "permissions"
          /\ out = [kind |-> "user", resp |-> None, conns |-> <<>>]
       \/ /\ at = "connections"
          /\ out = [kind |-> "user", resp |-> claims.resp, conns |-> <<>>]
          /\ claims.resp # None => isDuration(claims.resp.ttl)
          /\ AllowedSoFar
       \/ at = "done" /\ out = claims /\ UserUnderstood
       \/ at = "failed"

CInv == AccountPart \/ UserPart

\* Lists that clients write are sequences.
LEMMA ListsAreSequences ==
    ASSUME NEW S, NEW s \in Lists(S)
    PROVE  s \in Seq(S)
<1>1. PICK m \in 0..MaxList : s \in [1..m -> S]
  BY DEF Lists, BoundedSeq, SeqOf
<1>2. m \in Nat
  BY <1>1, ClaimsAssumption
<1> QED
  BY <1>1, <1>2, SeqDef

\* The lists of an account's claims, and the one that its exports become.
LEMMA AccountLists ==
    ASSUME claims \in Account
    PROVE  /\ claims.imports \in Seq(Types)
           /\ claims.exports \in Seq(Export)
           /\ signedExports \in Seq(SignedExport)
           /\ Len(signedExports) = Len(claims.exports)
           /\ \A i \in 1..Len(claims.exports) :
                  signedExports[i] = signedExport(claims.exports[i])
           /\ claims.kind = "account"
           /\ DOMAIN claims.exports = 1..Len(claims.exports)
<1>1. claims.imports \in Lists(Types) /\ claims.exports \in Lists(Export)
      /\ claims.kind = "account"
  BY DEF Account
<1>2. claims.imports \in Seq(Types) /\ claims.exports \in Seq(Export)
  BY <1>1, ListsAreSequences
<1>3. /\ Len(claims.exports) \in Nat
      /\ DOMAIN claims.exports = 1..Len(claims.exports)
      /\ \A i \in 1..Len(claims.exports) : claims.exports[i] \in Export
  BY <1>2, SMT
<1>4. \A e \in Export : signedExport(e) \in SignedExport
  BY DEF Export, SignedExport, signedExport, duration
<1>5. signedExports \in [1..Len(claims.exports) -> SignedExport]
  BY <1>3, <1>4 DEF signedExports
<1>6. signedExports \in Seq(SignedExport)
  BY <1>3, <1>5, SeqDef
<1>7. Len(signedExports) = Len(claims.exports)
  BY <1>3, <1>5, <1>6, SMT
<1> QED
  BY <1>1, <1>2, <1>3, <1>6, <1>7 DEF signedExports

LEMMA InitCInv == Init => CInv
<1> SUFFICES ASSUME Init PROVE CInv
  OBVIOUS
<1>1. CASE claims \in Account
  <2>1. /\ claims.kind = "account" /\ claims.imports \in Seq(Types)
    BY <1>1, AccountLists
  <2>2. claims \notin User
    BY <2>1 DEF User
  <2>3. /\ at = "imports" /\ left = claims.imports
        /\ out = OutOf(<<>>, <<>>, None)
    BY <2>2 DEF Init, OutOf
  <2>4. Loop(claims.imports, claims.imports, <<>>, claims.imports)
    BY <2>1, LoopBegins
  <2>5. <<>> \in Seq(Types) /\ <<>> \in Seq(SignedExport) /\ Len(<<>>) = 0
    BY SMT
  <2>6. out.imports = <<>> /\ out.exports = <<>> /\ out.resp = None
    BY <2>3 DEF OutOf
  <2>7. UnderstoodSoFar
    BY <2>5, <2>6, SMT DEF UnderstoodSoFar
  <2> QED
    BY <1>1, <2>1, <2>3, <2>4, <2>5, <2>6, <2>7 DEF CInv, AccountPart
<1>2. CASE claims \in User /\ at = "permissions"
  BY <1>2 DEF Init, CInv, UserPart
<1> QED
  BY <1>1, <1>2 DEF Init

\* A user's claims: the list of connection types is signed as it is written.
LEMMA UserStep ==
    ASSUME UserPart, Next
    PROVE  UserPart'
<1>1. claims \in User /\ claims' = claims
  BY DEF UserPart, Next, convertImport, convertExports, convertExport,
         convertDefaultPermissions, convertUserPermissionLimits,
         checkAllowedConnectionType, connectionsChecked, Ended, Fail, vars
<1>2. claims = [kind |-> "user", resp |-> claims.resp, conns |-> claims.conns]
  BY <1>1 DEF User
<1>3. CASE at' = "failed"
  BY <1>1, <1>3 DEF UserPart
<1> USE DEF Fail
<1>3a. claims.conns \in Seq(Connections) /\ Len(claims.conns) \in Nat
  <2>1. claims.conns \in Lists(Connections)
    BY <1>1 DEF User
  <2>2. claims.conns \in Seq(Connections)
    BY <2>1, ListsAreSequences
  <2> QED
    BY <2>2, SMT
<1>4. CASE at = "permissions" /\ at' # "failed"
  <2>1. /\ at' = "connections" /\ out' = [out EXCEPT !.resp = claims.resp]
        /\ left' = claims.conns
        /\ claims.resp # None => isDuration(claims.resp.ttl)
    BY <1>4 DEF Next, convertImport, convertExports, convertExport,
         convertDefaultPermissions, convertUserPermissionLimits,
         checkAllowedConnectionType, connectionsChecked, Ended
  <2>2. out = [kind |-> "user", resp |-> None, conns |-> <<>>]
    BY <1>4 DEF UserPart
  <2>3. out' = [kind |-> "user", resp |-> claims.resp, conns |-> <<>>]
    BY <2>1, <2>2
  <2>4. AllowedSoFar'
    BY <1>1, <1>3a, <2>1 DEF AllowedSoFar
  <2> QED
    BY <1>1, <2>1, <2>3, <2>4 DEF UserPart
<1>5. CASE checkAllowedConnectionType /\ at' # "failed"
  <2>1. /\ at = "connections" /\ left # <<>> /\ allowedConnection(Head(left))
        /\ left' = Tail(left) /\ UNCHANGED <<out, at>>
    BY <1>5 DEF checkAllowedConnectionType
  <2>2. AllowedSoFar
    BY <2>1 DEF UserPart
  <2> DEFINE C == claims.conns  n == Len(C) - Len(left)
  <2>3. /\ Len(left) \in Nat /\ Len(left) >= 1 /\ Head(left) = left[1]
        /\ Tail(left) \in Seq(Connections) /\ Len(Tail(left)) = Len(left) - 1
        /\ \A i \in 1..(Len(left) - 1) : Tail(left)[i] = left[i + 1]
    BY <2>1, <2>2, SMT DEF AllowedSoFar
  <2>4. n \in Nat /\ Len(C) - Len(Tail(left)) = n + 1
    BY <1>3a, <2>2, <2>3 DEF AllowedSoFar
  <2>5. /\ \A i \in 1..n : allowedConnection(C[i])
        /\ \A i \in 1..Len(left) : left[i] = C[n + i]
    BY <2>2 DEF AllowedSoFar
  <2>6. AllowedSoFar' =
            (/\ left' \in Seq(Connections) /\ Len(left') <= Len(C)
             /\ \A i \in 1..(Len(C) - Len(left')) : allowedConnection(C[i])
             /\ \A i \in 1..Len(left') : left'[i] = C[Len(C) - Len(left') + i])
    BY <1>1 DEF AllowedSoFar
  <2>7. Len(left) <= Len(C)
    BY <2>2 DEF AllowedSoFar
  <2> HIDE DEF C, n
  <2>8. Len(C) \in Nat
    BY <1>3a DEF C
  <2>9. \A i \in 1..(n + 1) : allowedConnection(C[i])
    <3> TAKE i \in 1..(n + 1)
    <3>1. CASE i \in 1..n
      BY <2>5, <3>1
    <3>2. CASE i = n + 1
      BY <2>1, <2>3, <2>5, <3>2
    <3>3. n \in Nat
      BY <2>4
    <3>4. i \in 1..n \/ i = n + 1
      BY <3>3, SMT
    <3> QED
      BY <3>1, <3>2, <3>4
  <2>10. \A i \in 1..Len(Tail(left)) : Tail(left)[i] = C[(n + 1) + i]
    <3> TAKE i \in 1..Len(Tail(left))
    <3>1. i + 1 \in 1..Len(left) /\ Tail(left)[i] = left[i + 1]
      BY <2>3
    <3>2. left[i + 1] = C[n + (i + 1)]
      BY <2>5, <3>1
    <3>3. n + (i + 1) = (n + 1) + i
      BY <2>3, <2>4
    <3> QED
      BY <3>1, <3>2, <3>3
  <2>11. Len(Tail(left)) <= Len(C)
    BY <2>3, <2>7, <2>8
  <2>12. AllowedSoFar'
    BY <2>1, <2>3, <2>4, <2>6, <2>9, <2>10, <2>11
  <2> QED
    BY <1>1, <2>1, <2>12 DEF UserPart
<1>5a. CASE connectionsChecked
  <2>1. /\ at = "connections" /\ left = <<>>
        /\ at' = "done" /\ out' = [out EXCEPT !.conns = claims.conns]
    BY <1>5a DEF connectionsChecked
  <2>2. /\ out = [kind |-> "user", resp |-> claims.resp, conns |-> <<>>]
        /\ claims.resp # None => isDuration(claims.resp.ttl)
        /\ AllowedSoFar
    BY <2>1 DEF UserPart
  <2>3. [out EXCEPT !.conns = claims.conns] = claims
    BY <1>2, <2>2
  <2>4. Len(<<>>) = 0
    BY SMT
  <2>5. \A i \in 1..Len(claims.conns) : allowedConnection(claims.conns[i])
    BY <1>3a, <2>1, <2>2, <2>4 DEF AllowedSoFar
  <2> QED
    BY <1>1, <2>1, <2>2, <2>3, <2>5 DEF UserPart, UserUnderstood
<1>6. CASE at \in {"done", "failed"}
  <2>1. UNCHANGED vars
    BY <1>6 DEF Next, convertImport, convertExports, convertExport,
         convertDefaultPermissions, convertUserPermissionLimits,
         checkAllowedConnectionType, connectionsChecked, Ended
  <2> QED
    BY <1>6, <2>1 DEF UserPart, UserUnderstood, vars
<1>7. at \in {"permissions", "connections", "done", "failed"}
  BY DEF UserPart
<1>8. CASE at = "connections" /\ at' # "failed"
  BY <1>5, <1>5a, <1>8
  DEF Next, convertImport, convertExports, convertExport,
      convertDefaultPermissions, convertUserPermissionLimits, Ended
<1> QED
  BY <1>3, <1>4, <1>6, <1>7, <1>8

\* An account's claims: an element that is understood is appended the way it
\* is meant, any other ends the conversion.
LEMMA AccountStep ==
    ASSUME AccountPart, Next
    PROVE  AccountPart'
<1> USE DEF Fail
<1>0. /\ claims.imports \in Seq(Types)
      /\ claims.exports \in Seq(Export)
      /\ signedExports \in Seq(SignedExport)
      /\ Len(signedExports) = Len(claims.exports)
      /\ \A i \in 1..Len(claims.exports) :
             signedExports[i] = signedExport(claims.exports[i])
      /\ claims.kind = "account"
  BY AccountLists DEF AccountPart
<1>1. UNCHANGED claims /\ signedExports' = signedExports
      /\ Signed' = Signed
  <2>1. UNCHANGED claims
    BY DEF Next, convertImport, convertExports, convertExport,
         convertDefaultPermissions, convertUserPermissionLimits,
         checkAllowedConnectionType, connectionsChecked, Ended, vars
  <2> QED
    BY <2>1 DEF signedExports, Signed, signedResponse
<1>2. /\ claims \in Account
      /\ out.imports \in Seq(Types) /\ out.exports \in Seq(SignedExport)
      /\ out = OutOf(out.imports, out.exports, out.resp)
      /\ at \in {"imports", "exports", "done", "failed"}
      /\ UnderstoodSoFar
  BY DEF AccountPart
<1>3. CASE at' = "failed" /\ UNCHANGED out
  BY <1>1, <1>2, <1>3 DEF AccountPart, UnderstoodSoFar
<1>4. CASE convertImport /\ at' # "failed"
  <2>1. /\ at = "imports" /\ left # <<>> /\ at' = at
        /\ out' = [out EXCEPT !.imports = Append(@, Head(left))]
        /\ left' = Tail(left)
    BY <1>4 DEF convertImport, appended
  <2>2. /\ left \in Seq(Types) /\ out.exports = <<>>
        /\ Loop(claims.imports, claims.imports, out.imports, left)
    BY <2>1 DEF AccountPart
  <2>3. Head(left) = claims.imports[Len(out.imports) + 1]
    <3>1. Len(left) \in Nat /\ Len(left) >= 1 /\ Head(left) = left[1]
      BY <2>1, <2>2, SMT
    <3> QED
      BY <2>2, <3>1 DEF Loop
  <2>4. /\ Append(out.imports, Head(left)) \in Seq(Types)
        /\ Tail(left) \in Seq(Types)
        /\ Loop(claims.imports, claims.imports,
                Append(out.imports, Head(left)), Tail(left))
    <3> DEFINE W == claims.imports  D == out.imports  h == Head(left)
    <3>1. /\ W \in Seq(Types) /\ D \in Seq(Types) /\ Len(W) = Len(W)
          /\ Loop(W, W, D, left) /\ h = W[Len(D) + 1]
      BY <1>0, <1>2, <2>2, <2>3
    <3> HIDE DEF W, D, h
    <3>2. /\ Append(D, h) \in Seq(Types) /\ Tail(left) \in Seq(Types)
          /\ Loop(W, W, Append(D, h), Tail(left))
      BY <3>1, <2>1, <2>2, LoopGoesOn, SMTT(30)
    <3> QED
      BY <3>2 DEF W, D, h
  <2>5. out' = OutOf(Append(out.imports, Head(left)), out.exports, out.resp)
    <3>1. \A x : [OutOf(out.imports, out.exports, out.resp) EXCEPT !.imports = x]
                    = OutOf(x, out.exports, out.resp)
      BY DEF OutOf
    <3> QED
      BY <1>2, <2>1, <3>1
  <2>6. /\ out'.imports = Append(out.imports, Head(left))
        /\ out'.exports = out.exports /\ out'.resp = out.resp
    BY <2>5 DEF OutOf
  <2>7. UnderstoodSoFar'
    <3>1. /\ Len(out.imports) \in Nat
          /\ Len(Append(out.imports, Head(left))) = Len(out.imports) + 1
      BY <1>2, <2>2, <2>1, SMT
    <3>2. isExportType(Head(left))
      BY <1>4 DEF convertImport
    <3>3. \A i \in 1..(Len(out.imports) + 1) : isExportType(claims.imports[i])
      <4> TAKE i \in 1..(Len(out.imports) + 1)
      <4>1. CASE i = Len(out.imports) + 1
        BY <2>3, <3>2, <4>1
      <4>2. CASE i # Len(out.imports) + 1
        <5>1. i \in 1..Len(out.imports)
          BY <3>1, <4>2
        <5> QED
          BY <1>2, <5>1 DEF UnderstoodSoFar
      <4> QED
        BY <4>1, <4>2
    <3> QED
      BY <1>1, <1>2, <2>6, <3>1, <3>3 DEF UnderstoodSoFar
  <2> QED
    BY <1>1, <1>2, <2>1, <2>2, <2>4, <2>5, <2>6, <2>7 DEF AccountPart
<1>5. CASE convertExports
  <2>1. /\ at = "imports" /\ left = <<>> /\ at' = "exports"
        /\ left' = claims.exports /\ UNCHANGED out
    BY <1>5 DEF convertExports
  <2>2. /\ out.exports = <<>>
        /\ Loop(claims.imports, claims.imports, out.imports, <<>>)
    BY <2>1 DEF AccountPart
  <2>3. out.imports = claims.imports
    BY <1>0, <1>2, <2>2, LoopEnds
  <2>4. Loop(claims.exports, signedExports, out.exports, claims.exports)
    BY <1>0, <2>2, LoopBegins
  <2> QED
    BY <1>0, <1>1, <1>2, <2>1, <2>3, <2>4 DEF AccountPart, UnderstoodSoFar
<1>6. CASE convertExport /\ at' # "failed"
  <2> DEFINE e == Head(left)
  <2>1. /\ at = "exports" /\ left # <<>> /\ at' = at /\ understood(e)
        /\ out' = [out EXCEPT !.exports = Append(@, signedExport(e))]
        /\ left' = Tail(left)
    BY <1>6 DEF convertExport, appended, signedExport
  <2>2. /\ left \in Seq(Export) /\ out.imports = claims.imports
        /\ Loop(claims.exports, signedExports, out.exports, left)
    BY <2>1 DEF AccountPart
  <2>3. /\ e = claims.exports[Len(out.exports) + 1]
        /\ Len(out.exports) + 1 \in 1..Len(claims.exports)
    <3>1. /\ Len(left) \in Nat /\ Len(left) >= 1 /\ Head(left) = left[1]
          /\ Len(out.exports) \in Nat /\ Len(claims.exports) \in Nat
      BY <1>0, <1>2, <2>1, <2>2, SMT
    <3> QED
      BY <2>2, <3>1 DEF Loop
  <2>4. signedExport(e) = signedExports[Len(out.exports) + 1]
    BY <1>0, <2>3
  <2>5. /\ Append(out.exports, signedExport(e)) \in Seq(SignedExport)
        /\ Tail(left) \in Seq(Export)
        /\ Loop(claims.exports, signedExports,
                Append(out.exports, signedExport(e)), Tail(left))
    <3> DEFINE W == claims.exports  M == signedExports  D == out.exports
               h == signedExport(e)
    <3>1. /\ W \in Seq(Export) /\ M \in Seq(SignedExport)
          /\ Len(M) = Len(W) /\ D \in Seq(SignedExport)
          /\ Loop(W, M, D, left) /\ h = M[Len(D) + 1]
      BY <1>0, <1>2, <2>2, <2>4
    <3> HIDE DEF W, M, D, h
    <3>2. /\ Append(D, h) \in Seq(SignedExport) /\ Tail(left) \in Seq(Export)
          /\ Loop(W, M, Append(D, h), Tail(left))
      BY <3>1, <2>1, <2>2, LoopGoesOn
    <3> QED
      BY <3>2 DEF W, M, D, h
  <2>6. out' = OutOf(out.imports, Append(out.exports, signedExport(e)), out.resp)
    <3>1. \A x : [OutOf(out.imports, out.exports, out.resp) EXCEPT !.exports = x]
                    = OutOf(out.imports, x, out.resp)
      BY DEF OutOf
    <3> QED
      BY <1>2, <2>1, <3>1
  <2>7. /\ out'.imports = out.imports /\ out'.resp = out.resp
        /\ out'.exports = Append(out.exports, signedExport(e))
    BY <2>6 DEF OutOf
  <2>8. UnderstoodSoFar'
    <3>1. /\ Len(out.exports) \in Nat
          /\ Len(Append(out.exports, signedExport(e))) = Len(out.exports) + 1
      BY <1>2, SMT
    <3> SUFFICES ASSUME NEW i \in 1..(Len(out.exports) + 1)
                 PROVE  understood(claims.exports[i])
      BY <1>1, <1>2, <2>7, <3>1 DEF UnderstoodSoFar
    <3>2. CASE i = Len(out.exports) + 1
      BY <2>1, <2>3, <3>2
    <3>3. CASE i # Len(out.exports) + 1
      <4>1. i \in 1..Len(out.exports)
        BY <3>1, <3>3
      <4> QED
        BY <1>2, <4>1 DEF UnderstoodSoFar
    <3> QED
      BY <3>2, <3>3
  <2> QED
    BY <1>1, <1>2, <2>1, <2>2, <2>5, <2>6, <2>7, <2>8 DEF AccountPart
<1>7. CASE convertDefaultPermissions
  <2>1. /\ at = "exports" /\ left = <<>> /\ at' = "done"
        /\ out' = [out EXCEPT !.resp = signedResponse]
    BY <1>7 DEF convertDefaultPermissions, signedResponse
  <2>2. /\ out.imports = claims.imports
        /\ Loop(claims.exports, signedExports, out.exports, <<>>)
    BY <2>1 DEF AccountPart
  <2>3. out.exports = signedExports
    BY <1>0, <1>2, <2>2, LoopEnds
  <2>4. out' = OutOf(claims.imports, signedExports, signedResponse)
    BY <1>2, <2>1, <2>2, <2>3 DEF OutOf
  <2>5. claims = OutOf(claims.imports, claims.exports, claims.resp)
    BY <1>2 DEF Account, OutOf
  <2>6. Signed = OutOf(claims.imports, signedExports, signedResponse)
    BY <1>0, <2>5 DEF Signed, OutOf
  <2>7. /\ out'.imports = claims.imports /\ out'.exports = out.exports
        /\ out'.resp = signedResponse
    BY <2>3, <2>4 DEF OutOf
  <2>8. out' = OutOf(out'.imports, out'.exports, out'.resp)
    BY <2>3, <2>4, <2>7
  <2>9. UnderstoodSoFar'
    BY <1>1, <1>2, <2>2, <2>7 DEF UnderstoodSoFar
  <2>10. out' = Signed' /\ Len(out'.exports) = Len(claims'.exports)
    BY <1>0, <1>1, <2>3, <2>4, <2>6, <2>7
  <2> QED
    BY <1>0, <1>1, <1>2, <2>1, <2>3, <2>7, <2>8, <2>9, <2>10 DEF AccountPart
<1>8. CASE Ended
  BY <1>1, <1>2, <1>8 DEF Ended, vars, AccountPart, UnderstoodSoFar
<1> QED
  BY <1>2, <1>3, <1>4, <1>5, <1>6, <1>7, <1>8
  DEF Next, convertImport, convertExport, convertUserPermissionLimits,
      checkAllowedConnectionType, connectionsChecked

LEMMA NextCInv == CInv /\ [Next]_vars => CInv'
<1> SUFFICES ASSUME CInv, [Next]_vars PROVE CInv'
  OBVIOUS
<1>1. CASE UNCHANGED vars /\ AccountPart
  <2>1. signedExports' = signedExports /\ Signed' = Signed
    BY <1>1 DEF vars, signedExports, Signed, signedResponse
  <2>2. UnderstoodSoFar'
    BY <1>1 DEF vars, AccountPart, UnderstoodSoFar
  <2> QED
    BY <1>1, <2>1, <2>2 DEF vars, CInv, AccountPart
<1>2. CASE UNCHANGED vars /\ UserPart
  BY <1>2 DEF vars, CInv, UserPart, AllowedSoFar, UserUnderstood
<1> QED
  BY <1>1, <1>2, AccountStep, UserStep DEF CInv

\* A conversion that is done has understood every text and signs what is
\* meant.
LEMMA DoneIsMeant ==
    ASSUME CInv, at = "done"
    PROVE  Understood /\ out = Meant
<1> DEFINE time(t) == IF t = "" THEN "0s" ELSE t
<1>1. CASE UserPart
  BY <1>1 DEF UserPart, User, Meant, Understood
<1>2. CASE AccountPart
  <2>1. /\ claims \in Account /\ out = Signed /\ UnderstoodSoFar
        /\ Len(out.exports) = Len(claims.exports)
    BY <1>2 DEF AccountPart
  <2>2. /\ claims.exports \in Seq(Export) /\ claims.kind = "account"
        /\ DOMAIN claims.exports = 1..Len(claims.exports)
    BY <2>1, AccountLists
  <2>3. out.imports = claims.imports
    BY <2>1, <2>2 DEF Signed, Account
  <2>4. Understood
    BY <2>1, <2>2, <2>3
    DEF Understood, AccountUnderstood, UnderstoodSoFar, understood
  <2>5. \A i \in DOMAIN claims.exports :
            signedExport(claims.exports[i]) =
                [claims.exports[i] EXCEPT !.threshold = time(@)]
    <3> SUFFICES ASSUME NEW i \in DOMAIN claims.exports
                 PROVE  signedExport(claims.exports[i]) =
                            [claims.exports[i] EXCEPT !.threshold = time(@)]
      OBVIOUS
    <3>1. understood(claims.exports[i])
      BY <2>1, <2>2 DEF UnderstoodSoFar
    <3>2. duration(claims.exports[i].threshold) = time(claims.exports[i].threshold)
      BY <3>1 DEF understood, duration, isDuration
    <3> QED
      BY <3>2 DEF signedExport
  <2>6. signedExports = [i \in DOMAIN claims.exports |->
                             [claims.exports[i] EXCEPT !.threshold = time(@)]]
    BY <2>5 DEF signedExports
  <2>7. Signed = [claims EXCEPT !.exports = signedExports,
                               !.resp = signedResponse]
    BY <2>2 DEF Signed
  <2>8. Meant = [claims EXCEPT
                     !.exports = [i \in DOMAIN claims.exports |->
                         [claims.exports[i] EXCEPT !.threshold = time(@)]],
                     !.resp = IF claims.resp = None THEN None
                              ELSE [claims.resp EXCEPT !.ttl = duration(@)]]
    BY <2>2, Zenon DEF Meant
  <2> QED
    BY <2>1, <2>4, <2>6, <2>7, <2>8 DEF signedResponse
<1> QED
  BY <1>1, <1>2 DEF CInv

\* AllOrNothing, for lists of any length and any texts: a text that is not
\* understood is never signed away, but for the time to live of an account's
\* default permissions.
THEOREM ConvertsAllOrNothing == Spec => []AllOrNothing
<1>1. CInv => AllOrNothing
  BY DoneIsMeant DEF AllOrNothing
<1> QED
  BY <1>1, InitCInv, NextCInv, PTL DEF Spec

=============================================================================
