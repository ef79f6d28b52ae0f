------------------------------ MODULE HttpConn ------------------------------
(***************************************************************************)
(* The connections of the set-up mode's web server, wifi_setup.c 83-410:   *)
(* the callbacks that lwIP makes for a connection, and the block of heap   *)
(* that keeps its state between them.                                      *)
(*                                                                         *)
(* lwIP is external.  It calls a callback only while it is registered, and *)
(* with the argument that tcp_arg set last; the pcb of a connection that   *)
(* was closed lives on for a while.  Lengths are in units of which the     *)
(* peer may acknowledge any number at a time.                              *)
(*                                                                         *)
(* A text that overruns its array on the stack is undefined behaviour: the *)
(* handler returns, having saved and answered whatever the stack then      *)
(* held, or the program is lost and no callback follows.                   *)
(***************************************************************************)
EXTENDS WebForm, FiniteSets

CONSTANTS
  Conns,        \* the pcbs of lwIP
  Blocks,       \* what the heap has room for, blocks of a TCP_CONNECT_STATE_T
  NULL,         \* no block, no connection
  Other,        \* a request without "GET /wifi_config", or the rest of one
  Forms,        \* forms as they are typed; the requests with it have their
  Partial,      \* queries, or a query that is no form's
  HeaderLen,    \* the length of the HTTP headers ...
  PageLen,      \* ... and of each page
  MaxRequests   \* bound of the model: segments received on one connection

Pages == {"setup", "complete", "failed", "invalid"}

ASSUME HttpConnAssumption ==
  /\ NULL \notin Blocks \cup Conns
  /\ HeaderLen \in Nat \ {0} /\ PageLen \in [Pages -> Nat \ {0}]
  /\ MaxRequests \in Nat
  /\ Forms \subseteq [ssid : Texts, password : Texts, callsign : Texts, locator : Texts,
                      frequency : Texts]
  /\ \A form \in Forms : \A i \in DOMAIN form.frequency : form.frequency[i] # "&"

VARIABLES
  pcb,      \* a pcb is "none", "open", or "closing" after tcp_close
  arg,      \* its callback argument, con_state
  cbs,      \* the callbacks registered on it
  queued,   \* written to it and not acknowledged yet
  mem,      \* the blocks: Free, or the TCP_CONNECT_STATE_T in them
  reqs,     \* history: segments received on the connection
  leaked,   \* history: the blocks of connections that lwIP aborted
  last      \* history: what the last callback did

conn == <<pcb, arg, cbs>>
vars == <<conn, queued, mem, reqs, leaked, last>>

Queried == [form \in Forms |-> Query(form)]
Queries == {Queried[form] : form \in Forms} \cup Partial
Callbacks == {"sent", "recv", "poll", "err"}
Free == [pcb |-> NULL, sent_len |-> 0, header_len |-> 0, result_len |-> 0]
Nothing == [kind |-> "nothing"]

\* The program has not been lost to an overrun.
Running == last.kind # "overrun"

\* lwIP may make this callback.
Calls(c, callback) == Running /\ pcb[c] # "none" /\ callback \in cbs[c]

Init ==
  /\ pcb = [c \in Conns |-> "none"]
  /\ arg = [c \in Conns |-> NULL]
  /\ cbs = [c \in Conns |-> {}]
  /\ queued = [c \in Conns |-> 0]
  /\ mem = [b \in Blocks |-> Free]
  /\ reqs = [c \in Conns |-> 0]
  /\ leaked = {}
  /\ last = Nothing

-----------------------------------------------------------------------------
\* Mutant: the server relies on the peer to end the connection.
AcceptNoPoll(c, b) ==
  /\ Running /\ pcb[c] = "none" /\ mem[b] = Free
  /\ mem' = [mem EXCEPT ![b].pcb = c]
  /\ pcb' = [pcb EXCEPT ![c] = "open"]
  /\ arg' = [arg EXCEPT ![c] = b]
  /\ cbs' = [cbs EXCEPT ![c] = Callbacks \ {"poll"}]
  /\ reqs' = [reqs EXCEPT ![c] = 0]
  /\ last' = Nothing
  /\ UNCHANGED <<queued, leaked>>

\* calloc finds a block and clears it.
tcp_server_accept(c, b) ==
  /\ Running /\ pcb[c] = "none" /\ mem[b] = Free
  /\ mem' = [mem EXCEPT ![b].pcb = c]
  /\ pcb' = [pcb EXCEPT ![c] = "open"]
  /\ arg' = [arg EXCEPT ![c] = b]
  /\ cbs' = [cbs EXCEPT ![c] = Callbacks]
  /\ reqs' = [reqs EXCEPT ![c] = 0]
  /\ last' = Nothing
  /\ UNCHANGED <<queued, leaked>>

\* calloc finds none: lwIP drops the connection.
Refuse ==
  /\ Running
  /\ \A b \in Blocks : mem[b] # Free
  /\ last' = [kind |-> "refused"]
  /\ UNCHANGED <<conn, queued, mem, reqs, leaked>>

\* Mutant: the sent callback stays registered.
CloseKeepsSent(c) ==
  /\ pcb' = [pcb EXCEPT ![c] = "closing"]
  /\ arg' = [arg EXCEPT ![c] = NULL]
  /\ cbs' = [cbs EXCEPT ![c] = {"sent"}]
  /\ mem' = [mem EXCEPT ![arg[c]] = Free]

\* Mutant: the state is not freed.
CloseKeepsState(c) ==
  /\ pcb' = [pcb EXCEPT ![c] = "closing"]
  /\ arg' = [arg EXCEPT ![c] = NULL]
  /\ cbs' = [cbs EXCEPT ![c] = {}]
  /\ UNCHANGED mem

tcp_close_client_connection(c) ==
  /\ pcb' = [pcb EXCEPT ![c] = "closing"]
  /\ arg' = [arg EXCEPT ![c] = NULL]
  /\ cbs' = [cbs EXCEPT ![c] = {}]
  /\ mem' = [mem EXCEPT ![arg[c]] = Free]

\* Mutant: only the page is waited for.
SentBody(c, n) ==
  LET state == mem[arg[c]]
      sent_len == state.sent_len + n
  IN
  /\ Calls(c, "sent") /\ n \in 1..queued[c]
  /\ queued' = [queued EXCEPT ![c] = @ - n]
  /\ IF sent_len >= state.result_len
     THEN /\ tcp_close_client_connection(c)
          /\ last' = [kind |-> "all data sent", unsent |-> queued[c] - n, requests |-> reqs[c]]
     ELSE /\ mem' = [mem EXCEPT ![arg[c]].sent_len = sent_len]
          /\ last' = Nothing
          /\ UNCHANGED conn
  /\ UNCHANGED <<reqs, leaked>>

\* The peer has acknowledged n.
tcp_server_sent(c, n) ==
  LET state == mem[arg[c]]
      sent_len == state.sent_len + n
  IN
  /\ Calls(c, "sent") /\ n \in 1..queued[c]
  /\ queued' = [queued EXCEPT ![c] = @ - n]
  /\ IF sent_len >= state.header_len + state.result_len
     THEN /\ tcp_close_client_connection(c)
          /\ last' = [kind |-> "all data sent", unsent |-> queued[c] - n, requests |-> reqs[c]]
     ELSE /\ mem' = [mem EXCEPT ![arg[c]].sent_len = sent_len]
          /\ last' = Nothing
          /\ UNCHANGED conn
  /\ UNCHANGED <<reqs, leaked>>

\* What is handed to wifi_setup_save_config, for each query.
Saves == [query \in Queries |-> IF Complete(query) THEN {Config(query)} ELSE {}]

\* What is saved when texts overran their arrays.
Unknown == {[texts |-> "unknown"]}

Overrunning == {query \in Queries : Overruns(query)}

\* What an answered query leads to.
PageAfter(query, page, config) ==
  [kind |-> "page", page |-> page, query |-> query, config |-> config]

\* The pages a request may be answered with, and what was saved, or not, before:
\* flashmem_write_config may fail.
Answers(request) ==
  CASE request = Other -> {[kind |-> "page", page |-> "setup"]}
    [] request \in Overrunning \ {Other} ->
         {PageAfter(request, page, Unknown) : page \in Pages \ {"setup"}}
    [] OTHER ->
         {PageAfter(request, page, Saves[request]) :
            page \in IF Saves[request] = {} THEN {"invalid"} ELSE {"complete", "failed"}}

\* A segment arrives and is answered; lwIP may refuse, without notice, tcp_write
\* of the headers and tcp_write of the page.
tcp_server_recv(c, answer, head, body) ==
  LET result_len == PageLen[answer.page] IN
  /\ Calls(c, "recv") /\ reqs[c] < MaxRequests
  /\ mem' = [mem EXCEPT ![arg[c]].header_len = HeaderLen, ![arg[c]].result_len = result_len]
  /\ queued' = [queued EXCEPT ![c] = @ + (IF head THEN HeaderLen ELSE 0) + (IF body THEN result_len ELSE 0)]
  /\ reqs' = [reqs EXCEPT ![c] = @ + 1]
  /\ last' = answer
  /\ UNCHANGED <<conn, leaked>>

\* A segment arrives whose texts overrun their arrays, and the handler does not
\* return.
RecvOverrun(c, query) ==
  /\ Calls(c, "recv") /\ reqs[c] < MaxRequests
  /\ query \in Overrunning
  /\ last' = [kind |-> "overrun", query |-> query]
  /\ UNCHANGED <<conn, queued, mem, reqs, leaked>>

\* The peer has closed its side, or lwIP reports an error.
RecvEnd(c) ==
  /\ Calls(c, "recv")
  /\ tcp_close_client_connection(c)
  /\ last' = Nothing
  /\ UNCHANGED <<queued, reqs, leaked>>

\* Five seconds after it was accepted the connection has had its time.
tcp_server_poll(c) ==
  /\ Calls(c, "poll")
  /\ tcp_close_client_connection(c)
  /\ last' = Nothing
  /\ UNCHANGED <<queued, reqs, leaked>>

\* lwIP gives the connection up: the block stays allocated after ERR_ABRT.
tcp_server_err(c, err) ==
  /\ Calls(c, "err")
  /\ IF err = "ERR_ABRT"
     THEN /\ leaked' = leaked \cup {arg[c]}
          /\ UNCHANGED mem
     ELSE /\ mem' = [mem EXCEPT ![arg[c]] = Free]
          /\ UNCHANGED leaked
  /\ pcb' = [pcb EXCEPT ![c] = "none"]
  /\ arg' = [arg EXCEPT ![c] = NULL]
  /\ cbs' = [cbs EXCEPT ![c] = {}]
  /\ queued' = [queued EXCEPT ![c] = 0]
  /\ last' = Nothing
  /\ UNCHANGED reqs

-----------------------------------------------------------------------------
\* lwIP is done with a closed connection; what was queued may be lost, as the
\* server never calls tcp_recved.
Release(c) ==
  /\ Running /\ pcb[c] = "closing"
  /\ pcb' = [pcb EXCEPT ![c] = "none"]
  /\ cbs' = [cbs EXCEPT ![c] = {}]
  /\ queued' = [queued EXCEPT ![c] = 0]
  /\ last' = Nothing
  /\ UNCHANGED <<arg, mem, reqs, leaked>>

Next ==
  \/ \E c \in Conns, b \in Blocks : tcp_server_accept(c, b)
  \/ Refuse
  \/ \E c \in Conns :
       \/ \E n \in 1..queued[c] : tcp_server_sent(c, n)
       \/ \E request \in {Other} \cup Queries : \E answer \in Answers(request), head, body \in BOOLEAN :
            tcp_server_recv(c, answer, head, body)
       \/ \E query \in Queries : RecvOverrun(c, query)
       \/ RecvEnd(c)
       \/ tcp_server_poll(c)
       \/ \E err \in {"ERR_ABRT", "ERR_RST"} : tcp_server_err(c, err)
       \/ Release(c)

\* The poll timer of lwIP runs as long as the connection does.
Fairness == \A c \in Conns : WF_vars(tcp_server_poll(c))

Spec == Init /\ [][Next]_vars /\ Fairness
-----------------------------------------------------------------------------
TypeOK ==
  /\ pcb \in [Conns -> {"none", "open", "closing"}]
  /\ arg \in [Conns -> Blocks \cup {NULL}]
  /\ cbs \in [Conns -> SUBSET Callbacks]
  /\ queued \in [Conns -> Nat]
  /\ mem \in [Blocks -> [pcb : Conns \cup {NULL}, sent_len : Nat, header_len : {0, HeaderLen},
                         result_len : {0} \cup {PageLen[p] : p \in Pages}]]
  /\ reqs \in [Conns -> 0..MaxRequests]
  /\ leaked \subseteq Blocks
  /\ last.kind \in {"nothing", "refused", "page", "all data sent", "overrun"}

(***************************************************************************)
(* A callback that lwIP may still make finds the state of its own          *)
(* connection, allocated: the assertion of wifi_setup.c:95, and no         *)
(* callback runs on a state that was freed or belongs to another           *)
(* connection, in whatever order the peer, the timer and lwIP end it.      *)
(***************************************************************************)
CallbackOwnsState ==
  \A c \in Conns : cbs[c] # {} => arg[c] \in Blocks /\ mem[arg[c]].pcb = c

(***************************************************************************)
(* Every block of the heap that is taken belongs to an open connection, or *)
(* to one that ended with ERR_ABRT (wifi_setup.c:349): no other way a      *)
(* connection can end loses its 2 kB.                                      *)
(***************************************************************************)
LeakOnlyByAbort ==
  \A b \in Blocks :
    mem[b].pcb # NULL => b \in leaked \/ \E c \in Conns : pcb[c] = "open" /\ arg[c] = b

(***************************************************************************)
(* "all data sent" (wifi_setup.c:112) is true, also when lwIP has refused  *)
(* the headers or the page, of every connection on which one segment was   *)
(* received.  With a second one, whose lengths replace those of the first, *)
(* the connection may be closed before both answers are out.               *)
(***************************************************************************)
WholeUnlessPipelined ==
  last.kind = "all data sent" /\ last.unsent > 0 => last.requests > 1

\* The form as it should be stored.
Entered ==
  [form \in Forms |->
     IF \E name \in {"ssid", "password", "callsign", "locator"} : form[name] = <<>> THEN {}
     ELSE {[form EXCEPT !.callsign = [i \in DOMAIN @ |-> Upper(@[i])],
                        !.locator  = [i \in DOMAIN @ |-> Upper(@[i])]]}]

\* Each text leaves a byte of its array for the zero behind it.
Fits(form) ==
  /\ Len(form.ssid) < Room["ssid="] /\ Len(form.password) < Room["password="]
  /\ Len(form.callsign) < Room["callsign="] /\ Len(form.locator) < Room["locator="]

(***************************************************************************)
(* A form whose texts, as they are typed, fit the arrays they are decoded  *)
(* to never overruns them, however much longer its query is; what is       *)
(* handed to the configuration store is the form as it was typed, whatever *)
(* the characters and to the last one, with callsign and locator in upper  *)
(* case; a form with an empty text is not.                                 *)
(***************************************************************************)
SavedAsEntered ==
  \A form \in Forms : Fits(form) =>
    /\ last.kind = "page" /\ last.page # "setup" /\ last.query = Queried[form] =>
         last.config = Entered[form]
    /\ last.kind = "overrun" => last.query # Queried[form]

(***************************************************************************)
(* No connection stays open for ever, whatever the peer does or does not   *)
(* do, unless the program is lost to an overrun: the poll callback ends    *)
(* those that nothing else has ended.                                      *)
(***************************************************************************)
EveryConnectionEnds == \A c \in Conns : pcb[c] = "open" ~> pcb[c] # "open" \/ ~Running
=============================================================================
