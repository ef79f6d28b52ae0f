---------------------------- MODULE MCDhcpServer ----------------------------
(***************************************************************************)
(* The DHCP server with interchangeable clients.                           *)
(***************************************************************************)
EXTENDS DhcpServer, TLC

Symmetry == Permutations(Clients)
=============================================================================
