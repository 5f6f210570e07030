------------------------------- MODULE MCMux -------------------------------
(* Instances of Mux whose readers all read from endpoint e1.               *)
EXTENDS Mux

CONSTANTS e1, dtls, srtp

MCReadsFrom == [r \in Reader |-> e1]
MCMatch == [e \in Endpoint |-> IF e = e1 THEN {dtls} ELSE {srtp}]
============================================================================
