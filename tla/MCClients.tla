----------------------------- MODULE MCClients -----------------------------
(***************************************************************************)
(* The run of Clients: its constants are model values and small sets, given *)
(* in the configuration.                                                   *)
(***************************************************************************)
EXTENDS Clients
=============================================================================
