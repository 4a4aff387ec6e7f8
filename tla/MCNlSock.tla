------------------------------ MODULE MCNlSock ------------------------------
(***************************************************************************)
(* Instances of NlSock for TLC.                                            *)
(***************************************************************************)
EXTENDS NlSock

CONSTANTS main, mc_recv

\* All batches of up to three requests.
UpToThree == UNION {[1 .. k -> Request] : k \in 1 .. 3}

\* Single requests, as dpif_linux_bf_gdt_put makes them.
Single == {<<r>> : r \in Request}
=============================================================================
