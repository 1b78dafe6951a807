------------------------------- MODULE MCIpc -------------------------------
(* Ipc for TLC: one server, two clients, one page to pass around. *)
EXTENDS Ipc

CONSTANTS a, b
ClientSends == [e \in Envs |-> CASE e = a -> 2 [] e = b -> 1 [] OTHER -> 0]
=============================================================================
