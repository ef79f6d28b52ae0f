---------------------------- MODULE SetupServers ----------------------------
(***************************************************************************)
(* The servers of the set-up mode that wifi_setup_start_ap starts next to  *)
(* the DHCP server: the web server and the DNS server.  lwIP calls them    *)
(* one at a time; they share no state.                                     *)
(***************************************************************************)
EXTENDS HttpConn, DnsServer

ServersInit == Init /\ dns = [query |-> NoQuery, reply |-> NoReply]

\* Bound of the model: names are only asked for before the first connection,
\* as neither server reads what the other one writes.
AskName ==
  /\ Init
  /\ \E m \in Messages : dns_server_process(m)
  /\ UNCHANGED vars

\* What was asked is forgotten when a connection makes a step.
WebStep == Next /\ dns' = [query |-> NoQuery, reply |-> NoReply]

ServersSpec == ServersInit /\ [][WebStep \/ AskName]_<<vars, dns>> /\ Fairness
=============================================================================
