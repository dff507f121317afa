------------------------------- MODULE Claims -------------------------------
(***************************************************************************)
(* The conversion of account and user claims, as clients write them, into  *)
(* those of the NATS library (pkg/claims): issueAccountJWT and             *)
(* generateUserJWT sign what comes out of it, or nothing if it fails.      *)
(*                                                                         *)
(* Fields that are copied as they are have no part in this: claims are     *)
(* reduced to the texts that are understood or not, the types of imports   *)
(* and exports, durations and connection types, and to the lists whose     *)
(* elements one loop after the other appends.                              *)
(***************************************************************************)
EXTENDS Naturals, SequencesExt

CONSTANTS Types,        \* texts clients write for types of imports, exports
          Durations,    \* texts clients write for thresholds
          Lifetimes,    \* texts clients write for times to live
          Connections,  \* texts clients write for connection types
          MaxList,      \* bound: elements of a list
          None

ASSUME ClaimsAssumption == MaxList \in Nat

VARIABLES claims,       \* the claims to convert
          out,          \* the claims of the library so far
          left,         \* elements of the present list to come
          at            \* the function that is next, "done" or "failed"

vars == <<claims, out, left, at>>

Lists(S) == BoundedSeq(S, MaxList)
Response == [max : 0..1, ttl : Lifetimes] \cup {None}
Export   == [type : Types, threshold : Durations]
Account  == [kind : {"account"}, imports : Lists(Types),
             exports : Lists(Export), resp : Response]
User     == [kind : {"user"}, resp : Response, conns : Lists(Connections)]

-----------------------------------------------------------------------------
(* Texts.                                                                  *)

isExportType(t) == t \in {"Stream", "Service", "Unknown"}
\* time.ParseDuration knows no duration without a unit, and no empty one
isDuration(t) == t \in {"0s", "5m"}
\* the zero value stays where no duration is assigned
duration(t) == IF isDuration(t) THEN t ELSE "0s"

allowedConnection(t) == t \in {"STANDARD", "WEBSOCKET", "LEAFNODE",
                               "LEAFNODE_WS", "MQTT", "MQTT_WS"}

-----------------------------------------------------------------------------
(* The conversion of an account's claims.                                  *)

Fail == at' = "failed" /\ UNCHANGED <<claims, out, left>>
appended(list, e) == [out EXCEPT ![list] = Append(@, e)]

convertImport ==
    /\ at = "imports" /\ left # <<>>
    /\ \/ ~isExportType(Head(left)) /\ Fail
       \/ /\ isExportType(Head(left))
          /\ out' = appended("imports", Head(left))
          /\ left' = Tail(left)
          /\ UNCHANGED <<claims, at>>

convertExports ==
    /\ at = "imports" /\ left = <<>>
    /\ at' = "exports" /\ left' = claims.exports
    /\ UNCHANGED <<claims, out>>

\* mutant: the error of a duration is not returned, as it is not below
understoodType(e) == isExportType(e.type)
understood(e) == /\ isExportType(e.type)
                 /\ e.threshold = "" \/ isDuration(e.threshold)

convertExport ==
    /\ at = "exports" /\ left # <<>>
    /\ LET e == Head(left) IN
       \/ ~understood(e) /\ Fail
       \/ /\ understood(e)
          /\ out' = appended("exports",
                            [e EXCEPT !.threshold = duration(@)])
          /\ left' = Tail(left)
          /\ UNCHANGED <<claims, at>>

\* what is no duration is passed over here, and zero is left in its place
convertDefaultPermissions ==
    /\ at = "exports" /\ left = <<>>
    /\ out' = [out EXCEPT !.resp =
                  IF claims.resp = None THEN None
                  ELSE [claims.resp EXCEPT !.ttl = duration(@)]]
    /\ at' = "done"
    /\ UNCHANGED <<claims, left>>

-----------------------------------------------------------------------------
(* The conversion of a user's claims.                                      *)

\* an empty time to live is an error here
convertUserPermissionLimits ==
    /\ at = "permissions"
    /\ LET good == claims.resp # None => isDuration(claims.resp.ttl) IN
       \/ ~good /\ Fail
       \/ /\ good
          /\ out' = [out EXCEPT !.resp = claims.resp]
          /\ at' = "connections" /\ left' = claims.conns
          /\ UNCHANGED claims

checkAllowedConnectionType ==
    /\ at = "connections" /\ left # <<>>
    /\ \/ ~allowedConnection(Head(left)) /\ Fail
       \/ /\ allowedConnection(Head(left))
          /\ left' = Tail(left)
          /\ UNCHANGED <<claims, out, at>>

connectionsChecked ==
    /\ at = "connections" /\ left = <<>>
    /\ out' = [out EXCEPT !.conns = claims.conns]
    /\ at' = "done"
    /\ UNCHANGED <<claims, left>>

-----------------------------------------------------------------------------

Init == \/ /\ claims \in Account
           /\ at = "imports" /\ left = claims.imports
           /\ out = [kind |-> "account", imports |-> <<>>,
                     exports |-> <<>>, resp |-> None]
        \/ /\ claims \in User
           /\ at = "permissions" /\ left = <<>>
           /\ out = [kind |-> "user", resp |-> None, conns |-> <<>>]

Ended == at \in {"done", "failed"} /\ UNCHANGED vars
Next == \/ convertImport \/ convertExports \/ convertExport
        \/ convertDefaultPermissions
        \/ convertUserPermissionLimits \/ checkAllowedConnectionType
        \/ connectionsChecked
        \/ Ended
Spec == Init /\ [][Next]_vars

-----------------------------------------------------------------------------

\* what the claims say, with zero for durations that are left out; the one
\* exception is the time to live of an account's default permissions, which
\* is zero as well if it is no duration
Meant ==
    LET time(t) == IF t = "" THEN "0s" ELSE t
        meant(e) == [e EXCEPT !.threshold = time(@)]
        default(r) == IF r = None THEN None ELSE [r EXCEPT !.ttl = duration(@)]
    IN  IF claims.kind = "user" THEN claims
        ELSE [claims EXCEPT !.exports = [i \in DOMAIN @ |-> meant(@[i])],
                            !.resp = default(@)]

\* is every text understood, that exception aside?
AccountUnderstood ==
    /\ \A i \in 1..Len(claims.imports) : isExportType(claims.imports[i])
    /\ \A i \in 1..Len(claims.exports) :
          LET e == claims.exports[i] IN
          isExportType(e.type) /\ (e.threshold = "" \/ isDuration(e.threshold))
UserUnderstood ==
    /\ claims.resp # None => isDuration(claims.resp.ttl)
    /\ \A i \in 1..Len(claims.conns) : allowedConnection(claims.conns[i])
Understood == IF claims.kind = "user" THEN UserUnderstood
              ELSE AccountUnderstood

\* A text that is not understood, whichever list it is in and wherever it
\* stands there, fails the conversion as a whole, and then no JWT is signed.
\* The one exception is the time to live of an account's default permissions:
\* what is no duration there does not fail the conversion and is signed as
\* zero.  Otherwise what is signed is what is written: lists keep all their
\* elements in their order.
AllOrNothing == at = "done" => Understood /\ out = Meant

\* "Specifies the time to live for the response": the time to live that is
\* signed is the one the claims specify.
TimeToLive ==
    (at = "done" /\ claims.resp # None /\ claims.resp.ttl # "")
        => out.resp.ttl = claims.resp.ttl
=============================================================================
