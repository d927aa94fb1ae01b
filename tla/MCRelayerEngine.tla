--------------------------- MODULE MCRelayerEngine ---------------------------
(* Small instances of the relayer node.                                    *)
EXTENDS RelayerEngine
==============================================================================
