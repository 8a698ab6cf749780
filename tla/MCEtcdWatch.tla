---------------------------- MODULE MCEtcdWatch ----------------------------
(* Model-checking instance of EtcdWatch.                                   *)
EXTENDS EtcdWatch
=============================================================================
