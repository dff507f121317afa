------------------------------ MODULE MCClaims ------------------------------
(* Instances of Claims for TLC: texts that are understood and some that    *)
(* are not.                                                                *)
EXTENDS Claims

SomeTypes       == {"Stream", "Service", "Unknown", "", "stream"}
SomeDurations   == {"", "5m", "5"}
SomeLifetimes   == {"", "5m", "5"}
SomeConnections == {"STANDARD", "MQTT", "tcp"}
=============================================================================
