----------------------------- MODULE MCNatMapping -----------------------------
(* Small instances of NatMapping.                                              *)
EXTENDS NatMapping

MCProtos == {"udp", "tcp"}
MCPorts == {"m", "p"}
MCRemotes == {"x"}
=============================================================================
