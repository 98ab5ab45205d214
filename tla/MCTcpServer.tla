---------------------------- MODULE MCTcpServer ----------------------------
(* TcpServer on a small instance. *)
EXTENDS TcpServer

MCMaxFed == [d \in Dir |-> IF d = "usb_to_net" THEN 4 ELSE 2]
=============================================================================
