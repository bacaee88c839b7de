--------------------------- MODULE MCSocksConnect ---------------------------
(* An instance of SocksConnect: each worker has a TURN path of its own.    *)
EXTENDS SocksConnect

OwnPath == [w \in Workers |-> w]
=============================================================================
