---------------------------- MODULE MCMqsOperators ----------------------------
(* TLC instance of MqsOperators: small sweeps and a few refinements.         *)
EXTENDS MqsOperators
=============================================================================
