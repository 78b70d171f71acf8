------------------------------ MODULE MCPktBuf -------------------------------
(***************************************************************************)
(* Instances of PktBuf for TLC.                                            *)
(***************************************************************************)
EXTENDS PktBuf
=============================================================================
