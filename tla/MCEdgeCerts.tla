------------------------------ MODULE MCEdgeCerts ------------------------------
(***************************************************************************)
(* One site whose certificate is replaced while the management plane is    *)
(* out of reach now and then.                                              *)
(***************************************************************************)
EXTENDS EdgeCerts

MCWildcardOf == [n \in HostNames |-> "w"]
===============================================================================
