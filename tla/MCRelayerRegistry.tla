-------------------------- MODULE MCRelayerRegistry --------------------------
(* Small instances of RelayerRegistry for TLC.                             *)
EXTENDS RelayerRegistry
==============================================================================
