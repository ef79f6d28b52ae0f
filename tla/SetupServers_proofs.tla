------------------------- MODULE SetupServers_proofs -------------------------
(***************************************************************************)
(* Proofs about the servers of the set-up mode: the web server, for any    *)
(* number of connections and blocks of heap, any pages and any requests,   *)
(* and the DNS server, for any messages.                                   *)
(***************************************************************************)
EXTENDS SetupServers, SequenceTheorems, WellFoundedInduction, TLAPS

State == [pcb : Conns \cup {NULL}, sent_len : Nat, header_len : {0, HeaderLen},
          result_len : {0} \cup {PageLen[p] : p \in Pages}]

\* The state of an open connection is its own.
Owns(c) ==
  /\ pcb[c] = "open" => cbs[c] = Callbacks /\ arg[c] \in Blocks /\ mem[arg[c]].pcb = c
  /\ pcb[c] # "open" => cbs[c] = {} /\ arg[c] = NULL

\* What is queued of the answer to one request is not more than its lengths say.
Accounts(c) ==
  /\ pcb[c] = "none" => queued[c] = 0
  /\ pcb[c] = "open" /\ reqs[c] = 0 => queued[c] = 0 /\ mem[arg[c]].sent_len = 0
  /\ pcb[c] = "open" /\ reqs[c] = 1 =>
       mem[arg[c]].sent_len + queued[c] <= mem[arg[c]].header_len + mem[arg[c]].result_len

IInv ==
  /\ TypeOK
  /\ \A c \in Conns : Owns(c) /\ Accounts(c)
  /\ LeakOnlyByAbort
  /\ WholeUnlessPipelined

-----------------------------------------------------------------------------
LEMMA Lengths ==
  /\ HeaderLen \in Nat /\ MaxRequests \in Nat /\ \A p \in Pages : PageLen[p] \in Nat
  /\ State \subseteq [pcb : Conns \cup {NULL}, sent_len : Nat, header_len : Nat, result_len : Nat]
  <1>1. HeaderLen \in Nat /\ MaxRequests \in Nat /\ \A p \in Pages : PageLen[p] \in Nat
    BY HttpConnAssumption
  <1> QED
    BY <1>1 DEF State

LEMMA Updated ==
  ASSUME NEW S, NEW T, NEW f \in [S -> T], NEW x \in S, NEW y \in T
  PROVE  [f EXCEPT ![x] = y] \in [S -> T]
  OBVIOUS

LEMMA FreeIsState == Free \in State
  BY HttpConnAssumption DEF Free, State

\* Open connections have blocks of their own.
LEMMA Apart ==
  ASSUME IInv, NEW c \in Conns, NEW d \in Conns, c # d, pcb[c] = "open", pcb[d] = "open"
  PROVE  arg[c] # arg[d]
  BY DEF IInv, Owns

\* A block that is free is no connection's.
LEMMA FreeIsNobodys ==
  ASSUME IInv, NEW b \in Blocks, mem[b] = Free, NEW c \in Conns, pcb[c] = "open"
  PROVE  arg[c] # b
  <1>1. mem[b].pcb = NULL /\ NULL \notin Conns
    BY HttpConnAssumption DEF Free
  <1> QED
    BY <1>1 DEF IInv, Owns

\* What a callback does to one connection and its block leaves the others alone.
LEMMA OthersKeep ==
  ASSUME IInv, NEW d \in Conns, NEW b,
         pcb'[d] = pcb[d], arg'[d] = arg[d], cbs'[d] = cbs[d],
         queued'[d] = queued[d], reqs'[d] = reqs[d],
         pcb[d] = "open" => arg[d] # b,
         \A e \in Blocks : e # b => mem'[e] = mem[e]
  PROVE  (Owns(d) /\ Accounts(d))'
  <1>1. Owns(d) /\ Accounts(d)
    BY DEF IInv
  <1>2. CASE pcb[d] = "open"
    <2>1. arg[d] \in Blocks /\ mem'[arg'[d]] = mem[arg[d]]
      BY <1>1, <1>2 DEF Owns
    <2> QED
      BY <1>1, <1>2, <2>1 DEF Owns, Accounts
  <1>3. CASE pcb[d] # "open"
    BY <1>1, <1>3 DEF Owns, Accounts
  <1> QED
    BY <1>2, <1>3

-----------------------------------------------------------------------------
LEMMA InitIInv == Init => IInv
  <1> SUFFICES ASSUME Init PROVE IInv
    OBVIOUS
  <1>1. TypeOK
    <2>1. mem \in [Blocks -> State]
      BY FreeIsState DEF Init
    <2>2. last.kind = "nothing"
      BY DEF Init, Nothing
    <2>3. reqs \in [Conns -> 0..MaxRequests]
      BY HttpConnAssumption DEF Init
    <2> QED
      BY <2>1, <2>2, <2>3 DEF Init, TypeOK, State, Callbacks
  <1>2. \A c \in Conns : Owns(c) /\ Accounts(c)
    BY DEF Init, Owns, Accounts
  <1>3. LeakOnlyByAbort
    BY DEF Init, LeakOnlyByAbort, Free
  <1>4. WholeUnlessPipelined
    BY DEF Init, WholeUnlessPipelined, Nothing
  <1> QED
    BY <1>1, <1>2, <1>3, <1>4 DEF IInv

LEMMA AcceptKeeps ==
  ASSUME IInv, NEW c \in Conns, NEW b \in Blocks, tcp_server_accept(c, b)
  PROVE  IInv'
  <1> DEFINE new == [pcb |-> c, sent_len |-> 0, header_len |-> 0, result_len |-> 0]
  <1>1. /\ pcb[c] = "none" /\ mem[b] = Free
        /\ pcb' = [pcb EXCEPT ![c] = "open"] /\ arg' = [arg EXCEPT ![c] = b]
        /\ cbs' = [cbs EXCEPT ![c] = Callbacks] /\ reqs' = [reqs EXCEPT ![c] = 0]
        /\ last' = Nothing /\ queued' = queued /\ leaked' = leaked
    BY DEF tcp_server_accept
  <1>2. mem' = [mem EXCEPT ![b] = new]
    <2>1. mem[b] = [pcb |-> NULL, sent_len |-> 0, header_len |-> 0, result_len |-> 0]
      BY <1>1 DEF Free
    <2>2. [mem[b] EXCEPT !.pcb = c] = new
      BY <2>1
    <2> QED
      BY <2>2, Zenon DEF tcp_server_accept
  <1>3. new \in State /\ mem \in [Blocks -> State]
    BY DEF State, IInv, TypeOK
  <1>4. /\ mem' \in [Blocks -> State] /\ mem'[b] = new
        /\ \A e \in Blocks : e # b => mem'[e] = mem[e]
    <2> HIDE DEF new
    <2> QED
      BY <1>2, <1>3
  <1>5. TypeOK'
    <2>1. pcb' \in [Conns -> {"none", "open", "closing"}] /\ arg' \in [Conns -> Blocks \cup {NULL}]
          /\ cbs' \in [Conns -> SUBSET Callbacks] /\ queued' \in [Conns -> Nat] /\ leaked' \subseteq Blocks
      BY <1>1 DEF IInv, TypeOK
    <2>2. reqs' \in [Conns -> 0..MaxRequests]
      <3>1. 0 \in 0..MaxRequests
        BY Lengths
      <3>2. reqs \in [Conns -> 0..MaxRequests]
        BY DEF IInv, TypeOK
      <3> QED
        BY <1>1, <3>1, <3>2, Updated, Zenon
    <2>3. last'.kind = "nothing"
      BY <1>1 DEF Nothing
    <2> QED
      BY <1>4, <2>1, <2>2, <2>3 DEF TypeOK, State
  <1>6. ASSUME NEW d \in Conns PROVE (Owns(d) /\ Accounts(d))'
    <2>1. CASE d = c
      <3>1. pcb'[c] = "open" /\ arg'[c] = b /\ cbs'[c] = Callbacks /\ reqs'[c] = 0 /\ queued'[c] = 0
        BY <1>1 DEF IInv, TypeOK, Accounts
      <3>2. mem'[b].pcb = c /\ mem'[b].sent_len = 0
        BY <1>4
      <3> QED
        BY <2>1, <3>1, <3>2 DEF Owns, Accounts
    <2>2. CASE d # c
      <3>1. pcb'[d] = pcb[d] /\ arg'[d] = arg[d] /\ cbs'[d] = cbs[d] /\ queued'[d] = queued[d] /\ reqs'[d] = reqs[d]
        BY <1>1, <2>2 DEF IInv, TypeOK
      <3>2. pcb[d] = "open" => arg[d] # b
        BY <1>1, FreeIsNobodys
      <3> QED
        BY <1>4, <3>1, <3>2, OthersKeep
    <2> QED
      BY <2>1, <2>2
  <1>7. LeakOnlyByAbort'
    <2> SUFFICES ASSUME NEW e \in Blocks, mem'[e].pcb # NULL
                 PROVE  e \in leaked' \/ \E d \in Conns : pcb'[d] = "open" /\ arg'[d] = e
      BY DEF LeakOnlyByAbort
    <2>1. CASE e = b
      <3>1. pcb'[c] = "open" /\ arg'[c] = b
        BY <1>1 DEF IInv, TypeOK
      <3> QED
        BY <2>1, <3>1
    <2>2. CASE e # b
      <3>1. e \in leaked \/ \E d \in Conns : pcb[d] = "open" /\ arg[d] = e
        BY <1>4, <2>2 DEF IInv, LeakOnlyByAbort
      <3>2. \A d \in Conns : pcb[d] = "open" => pcb'[d] = "open" /\ arg'[d] = arg[d]
        BY <1>1 DEF IInv, TypeOK
      <3> QED
        BY <1>1, <3>1, <3>2
    <2> QED
      BY <2>1, <2>2
  <1>8. WholeUnlessPipelined'
    BY <1>1 DEF WholeUnlessPipelined, Nothing
  <1> QED
    BY <1>5, <1>6, <1>7, <1>8 DEF IInv

-----------------------------------------------------------------------------
\* What assignments to the fields of one block make of the heap.
LEMMA SentSet ==
  ASSUME NEW m \in [Blocks -> State], NEW b \in Blocks, NEW n \in Nat, NEW after,
         after = [m EXCEPT ![b].sent_len = n]
  PROVE  /\ after \in [Blocks -> State]
         /\ after[b].pcb = m[b].pcb /\ after[b].sent_len = n
         /\ after[b].header_len = m[b].header_len /\ after[b].result_len = m[b].result_len
         /\ \A e \in Blocks : e # b => after[e] = m[e]
  <1> DEFINE new == [m[b] EXCEPT !.sent_len = n]
  <1>1. /\ new \in State /\ new.pcb = m[b].pcb /\ new.sent_len = n
        /\ new.header_len = m[b].header_len /\ new.result_len = m[b].result_len
    BY DEF State
  <1>2. after = [m EXCEPT ![b] = new]
    OBVIOUS
  <1> HIDE DEF new
  <1> QED
    BY <1>1, <1>2

\* A connection is closed and its block freed, whatever becomes of its queue.
LEMMA CloseKeeps ==
  ASSUME IInv, NEW c \in Conns, pcb[c] = "open", tcp_close_client_connection(c),
         reqs' = reqs, leaked' = leaked, queued' \in [Conns -> Nat],
         \A d \in Conns : d # c => queued'[d] = queued[d],
         last'.kind \in {"nothing", "refused", "page", "all data sent"}
  PROVE  TypeOK' /\ (\A d \in Conns : (Owns(d) /\ Accounts(d))') /\ LeakOnlyByAbort'
  <1>1. /\ pcb' = [pcb EXCEPT ![c] = "closing"] /\ arg' = [arg EXCEPT ![c] = NULL]
        /\ cbs' = [cbs EXCEPT ![c] = {}] /\ mem' = [mem EXCEPT ![arg[c]] = Free]
    BY DEF tcp_close_client_connection
  <1>2. arg[c] \in Blocks
    BY DEF IInv, Owns
  <1>3. /\ mem' \in [Blocks -> State] /\ mem'[arg[c]] = Free
        /\ \A e \in Blocks : e # arg[c] => mem'[e] = mem[e]
    <2>1. mem \in [Blocks -> State]
      BY DEF IInv, TypeOK, State
    <2> QED
      BY <1>1, <1>2, <2>1, FreeIsState
  <1>4. TypeOK'
    <2>1. pcb' \in [Conns -> {"none", "open", "closing"}] /\ arg' \in [Conns -> Blocks \cup {NULL}]
          /\ cbs' \in [Conns -> SUBSET Callbacks] /\ leaked' \subseteq Blocks
      BY <1>1 DEF IInv, TypeOK
    <2>2. reqs' \in [Conns -> 0..MaxRequests]
      <3>1. reqs \in [Conns -> 0..MaxRequests]
        BY DEF IInv, TypeOK
      <3> QED
        BY <3>1, Zenon
    <2> QED
      BY <1>3, <2>1, <2>2 DEF TypeOK, State
  <1>5. ASSUME NEW d \in Conns PROVE (Owns(d) /\ Accounts(d))'
    <2>1. CASE d = c
      <3>1. pcb'[c] = "closing" /\ arg'[c] = NULL /\ cbs'[c] = {}
        BY <1>1 DEF IInv, TypeOK
      <3> QED
        BY <2>1, <3>1 DEF Owns, Accounts
    <2>2. CASE d # c
      <3>1. pcb'[d] = pcb[d] /\ arg'[d] = arg[d] /\ cbs'[d] = cbs[d] /\ queued'[d] = queued[d] /\ reqs'[d] = reqs[d]
        BY <1>1, <2>2 DEF IInv, TypeOK
      <3>2. pcb[d] = "open" => arg[d] # arg[c]
        BY <2>2, Apart
      <3> QED
        BY <1>3, <3>1, <3>2, OthersKeep
    <2> QED
      BY <2>1, <2>2
  <1>6. LeakOnlyByAbort'
    <2> SUFFICES ASSUME NEW e \in Blocks, mem'[e].pcb # NULL
                 PROVE  e \in leaked' \/ \E d \in Conns : pcb'[d] = "open" /\ arg'[d] = e
      BY DEF LeakOnlyByAbort
    <2>1. e # arg[c]
      <3>1. Free.pcb = NULL
        BY DEF Free
      <3> QED
        BY <1>3, <3>1
    <2>2. e \in leaked \/ \E d \in Conns : pcb[d] = "open" /\ arg[d] = e
      BY <1>3, <2>1 DEF IInv, LeakOnlyByAbort
    <2>3. \A d \in Conns : pcb[d] = "open" /\ arg[d] = e => pcb'[d] = "open" /\ arg'[d] = e
      BY <1>1, <2>1 DEF IInv, TypeOK
    <2> QED
      BY <2>2, <2>3
  <1> QED
    BY <1>4, <1>5, <1>6

\* A callback that is registered finds an open connection.
LEMMA CallsOpen ==
  ASSUME IInv, NEW c \in Conns, NEW callback, Calls(c, callback)
  PROVE  pcb[c] = "open"
  BY DEF IInv, Owns, Calls

LEMMA EndKeeps ==
  ASSUME IInv, NEW c \in Conns, RecvEnd(c) \/ tcp_server_poll(c)
  PROVE  IInv'
  <1>1. /\ \E callback : Calls(c, callback)
        /\ tcp_close_client_connection(c) /\ last' = Nothing
        /\ queued' = queued /\ reqs' = reqs /\ leaked' = leaked
    BY DEF RecvEnd, tcp_server_poll
  <1>2. pcb[c] = "open"
    BY <1>1, CallsOpen
  <1>3. queued' \in [Conns -> Nat] /\ last'.kind = "nothing"
    BY <1>1 DEF IInv, TypeOK, Nothing
  <1>4. TypeOK' /\ (\A d \in Conns : (Owns(d) /\ Accounts(d))') /\ LeakOnlyByAbort'
    BY <1>1, <1>2, <1>3, CloseKeeps
  <1>5. WholeUnlessPipelined'
    BY <1>3 DEF WholeUnlessPipelined
  <1> QED
    BY <1>4, <1>5 DEF IInv

LEMMA SentKeeps ==
  ASSUME IInv, NEW c \in Conns, NEW n \in 1..queued[c], tcp_server_sent(c, n)
  PROVE  IInv'
  <1> DEFINE b == arg[c]
             sent_len == mem[b].sent_len + n
             whole == mem[b].header_len + mem[b].result_len
  <1>1. pcb[c] = "open"
    BY CallsOpen DEF tcp_server_sent
  <1>2. /\ b \in Blocks /\ mem[b].pcb = c /\ cbs[c] = Callbacks
        /\ mem \in [Blocks -> State] /\ queued \in [Conns -> Nat] /\ reqs \in [Conns -> 0..MaxRequests]
    BY <1>1 DEF IInv, Owns, TypeOK, State
  <1>3. /\ mem[b].sent_len \in Nat /\ mem[b].header_len \in Nat /\ mem[b].result_len \in Nat
        /\ queued[c] \in Nat /\ n \in Nat /\ n <= queued[c] /\ n > 0 /\ reqs[c] \in Nat
    <2>1. mem[b] \in [pcb : Conns \cup {NULL}, sent_len : Nat, header_len : Nat, result_len : Nat]
      BY <1>2, Lengths
    <2>2. queued[c] \in Nat
      BY <1>2
    <2>3. reqs[c] \in Nat
      BY <1>2, Lengths
    <2> QED
      BY <2>1, <2>2, <2>3
  <1>4. /\ queued' = [queued EXCEPT ![c] = @ - n] /\ reqs' = reqs /\ leaked' = leaked
    BY DEF tcp_server_sent
  <1>5. /\ queued' \in [Conns -> Nat] /\ queued'[c] = queued[c] - n
        /\ \A d \in Conns : d # c => queued'[d] = queued[d]
    <2>1. queued[c] - n \in Nat
      BY <1>3
    <2> QED
      BY <1>2, <1>4, <2>1
  <1>6. CASE sent_len >= whole
    <2>1. /\ tcp_close_client_connection(c)
          /\ last' = [kind |-> "all data sent", unsent |-> queued[c] - n, requests |-> reqs[c]]
      BY <1>6 DEF tcp_server_sent
    <2>2. last'.kind = "all data sent" /\ last'.unsent = queued[c] - n /\ last'.requests = reqs[c]
      BY <2>1
    <2>3. TypeOK' /\ (\A d \in Conns : (Owns(d) /\ Accounts(d))') /\ LeakOnlyByAbort'
      BY <1>1, <1>4, <1>5, <2>1, <2>2, CloseKeeps
    <2>4. WholeUnlessPipelined'
      <3>1. reqs[c] # 0
        BY <1>1, <1>3 DEF IInv, Accounts
      <3>2. ASSUME reqs[c] = 1 PROVE queued[c] - n <= 0
        <4>1. mem[b].sent_len + queued[c] <= whole
          BY <1>1, <3>2 DEF IInv, Accounts
        <4> QED
          BY <1>3, <1>6, <4>1
      <3>3. queued[c] - n > 0 => reqs[c] > 1
        <4>1. queued[c] - n > 0 => reqs[c] # 1
          BY <1>3, <3>2
        <4> QED
          BY <1>3, <3>1, <4>1
      <3> QED
        BY <2>2, <3>3, Zenon DEF WholeUnlessPipelined
    <2> QED
      BY <2>3, <2>4 DEF IInv
  <1>7. CASE ~(sent_len >= whole)
    <2>1. /\ mem' = [mem EXCEPT ![b].sent_len = sent_len] /\ last' = Nothing
          /\ pcb' = pcb /\ arg' = arg /\ cbs' = cbs
      BY <1>7 DEF tcp_server_sent, conn
    <2>2. sent_len \in Nat
      BY <1>3
    <2>3. /\ mem' \in [Blocks -> State]
          /\ mem'[b].pcb = mem[b].pcb /\ mem'[b].sent_len = sent_len
          /\ mem'[b].header_len = mem[b].header_len /\ mem'[b].result_len = mem[b].result_len
          /\ \A e \in Blocks : e # b => mem'[e] = mem[e]
      <3> HIDE DEF sent_len, b
      <3> QED
        BY <1>2, <2>1, <2>2, SentSet
    <2>4. last'.kind = "nothing"
      BY <2>1 DEF Nothing
    <2>5. TypeOK'
      <3>1. reqs' \in [Conns -> 0..MaxRequests]
        BY <1>2, <1>4, Zenon
      <3> QED
        BY <1>4, <1>5, <2>1, <2>3, <2>4, <3>1 DEF IInv, TypeOK, State
    <2>6. ASSUME NEW d \in Conns PROVE (Owns(d) /\ Accounts(d))'
      <3>1. CASE d = c
        <4>1. Owns(c)'
          BY <1>1, <1>2, <2>1, <2>3 DEF Owns
        <4>2. reqs[c] # 0
          BY <1>1, <1>3 DEF IInv, Accounts
        <4>3. reqs[c] = 1 => mem'[b].sent_len + queued'[c] <= mem'[b].header_len + mem'[b].result_len
          <5>1. reqs[c] = 1 => mem[b].sent_len + queued[c] <= whole
            BY <1>1 DEF IInv, Accounts
          <5> QED
            BY <1>3, <1>5, <2>3, <5>1
        <4> QED
          BY <1>1, <1>4, <2>1, <3>1, <4>1, <4>2, <4>3 DEF Accounts
      <3>2. CASE d # c
        <4>1. pcb[d] = "open" => arg[d] # b
          BY <1>1, <3>2, Apart
        <4> QED
          BY <1>4, <1>5, <2>1, <2>3, <3>2, <4>1, OthersKeep
      <3> QED
        BY <3>1, <3>2
    <2>7. LeakOnlyByAbort'
      <3>1. \A e \in Blocks : mem'[e].pcb = mem[e].pcb
        BY <2>3
      <3> QED
        BY <1>4, <2>1, <3>1 DEF IInv, LeakOnlyByAbort
    <2>8. WholeUnlessPipelined'
      BY <2>4 DEF WholeUnlessPipelined
    <2> QED
      BY <2>5, <2>6, <2>7, <2>8 DEF IInv
  <1> QED
    BY <1>6, <1>7

\* Every answer has a page, and but for the set-up page it names its request
\* and, unless a text overran its array, what was saved.
LEMMA AnswerIsPage ==
  ASSUME NEW request \in {Other} \cup Queries, NEW answer \in Answers(request)
  PROVE  /\ answer.page \in Pages /\ answer.kind = "page"
         /\ \/ answer.page = "setup"
            \/ /\ request \in Queries /\ answer.query = request
               /\ answer.config = Saves[request] \/ request \in Overrunning
  <1>1. CASE request = Other
    <2>1. answer = [kind |-> "page", page |-> "setup"]
      BY <1>1 DEF Answers
    <2> QED
      BY <2>1 DEF Pages
  <1>2. CASE request \in Overrunning \ {Other}
    <2>1. PICK page \in Pages : answer = PageAfter(request, page, Unknown)
      BY <1>2 DEF Answers
    <2> QED
      BY <1>2, <2>1 DEF PageAfter
  <1>3. CASE request # Other /\ request \notin Overrunning
    <2>1. PICK page \in Pages : answer = PageAfter(request, page, Saves[request])
      <3>1. Answers(request) = {PageAfter(request, page, Saves[request]) :
              page \in IF Saves[request] = {} THEN {"invalid"} ELSE {"complete", "failed"}}
        BY <1>3, Zenon DEF Answers
      <3>2. (IF Saves[request] = {} THEN {"invalid"} ELSE {"complete", "failed"}) \subseteq Pages
        BY DEF Pages
      <3> QED
        BY <3>1, <3>2, Zenon
    <2> QED
      BY <1>3, <2>1 DEF PageAfter
  <1> QED
    BY <1>1, <1>2, <1>3

LEMMA RecvKeeps ==
  ASSUME IInv, NEW c \in Conns, NEW request \in {Other} \cup Queries, NEW answer \in Answers(request),
         NEW head \in BOOLEAN, NEW body \in BOOLEAN, tcp_server_recv(c, answer, head, body)
  PROVE  IInv'
  <1> DEFINE b == arg[c]
             result_len == PageLen[answer.page]
             first == IF head THEN HeaderLen ELSE 0
             rest == IF body THEN result_len ELSE 0
             more == first + rest
  <1>1. pcb[c] = "open"
    BY CallsOpen DEF tcp_server_recv
  <1>2. /\ b \in Blocks /\ mem[b].pcb = c /\ cbs[c] = Callbacks
        /\ mem \in [Blocks -> State] /\ queued \in [Conns -> Nat] /\ reqs \in [Conns -> 0..MaxRequests]
    BY <1>1 DEF IInv, Owns, TypeOK, State
  <1>3. /\ answer.page \in Pages /\ answer.kind = "page"
        /\ result_len \in Nat /\ result_len \in {0} \cup {PageLen[p] : p \in Pages}
    BY AnswerIsPage, Lengths
  <1>4. /\ reqs[c] < MaxRequests
        /\ mem' = [mem EXCEPT ![b].header_len = HeaderLen, ![b].result_len = result_len]
        /\ queued' = [queued EXCEPT ![c] = @ + first + rest]
        /\ reqs' = [reqs EXCEPT ![c] = @ + 1]
        /\ last' = answer
        /\ pcb' = pcb /\ arg' = arg /\ cbs' = cbs /\ leaked' = leaked
    BY DEF tcp_server_recv, conn
  <1> HIDE DEF result_len
  <1>5. /\ mem' \in [Blocks -> State]
        /\ mem'[b].pcb = c /\ mem'[b].sent_len = mem[b].sent_len
        /\ mem'[b].header_len = HeaderLen /\ mem'[b].result_len = result_len
        /\ \A e \in Blocks : e # b => mem'[e] = mem[e]
    <2> DEFINE half == [mem[b] EXCEPT !.header_len = HeaderLen]
               new  == [half EXCEPT !.result_len = result_len]
    <2>1. half \in State /\ half.pcb = c /\ half.sent_len = mem[b].sent_len /\ half.header_len = HeaderLen
      <3>1. mem[b] \in State /\ mem[b].pcb = c
        BY <1>2
      <3> QED
        BY <3>1 DEF State
    <2>2. /\ new \in State /\ new.pcb = half.pcb /\ new.sent_len = half.sent_len
          /\ new.header_len = half.header_len /\ new.result_len = result_len
      <3> HIDE DEF half
      <3> QED
        BY <1>3, <2>1 DEF State
    <2>3. mem' = [mem EXCEPT ![b] = new]
      <3>1. [mem EXCEPT ![b] = half][b] = half
        BY <1>2
      <3>2. mem' = [[mem EXCEPT ![b] = half] EXCEPT ![b] = [[mem EXCEPT ![b] = half][b] EXCEPT !.result_len = result_len]]
        BY <1>4, Zenon
      <3> QED
        BY <3>1, <3>2
    <2> HIDE DEF half, new
    <2> QED
      BY <1>2, <2>1, <2>2, <2>3
  <1>6. /\ HeaderLen \in Nat /\ queued[c] \in Nat /\ mem[b].sent_len \in Nat /\ reqs[c] \in Nat
        /\ more \in Nat /\ more <= HeaderLen + result_len
    <2>1. mem[b] \in [pcb : Conns \cup {NULL}, sent_len : Nat, header_len : Nat, result_len : Nat]
      BY <1>2, Lengths
    <2>2. reqs[c] \in Nat
      BY <1>2, Lengths
    <2>3. HeaderLen \in Nat
      BY Lengths
    <2>4. more \in Nat /\ more <= HeaderLen + result_len
      BY <1>3, <2>3
    <2> QED
      BY <1>2, <2>1, <2>2, <2>3, <2>4
  <1>7. /\ queued' \in [Conns -> Nat] /\ queued'[c] = queued[c] + more
        /\ \A d \in Conns : d # c => queued'[d] = queued[d]
    <2>1. queued[c] + first + rest = queued[c] + more
      <3>1. first \in Nat /\ rest \in Nat
        BY <1>3, <1>6
      <3> HIDE DEF first, rest
      <3> QED
        BY <1>6, <3>1
    <2>2. queued' = [queued EXCEPT ![c] = queued[c] + more]
      BY <1>4, <2>1, Zenon
    <2>3. queued[c] + more \in Nat
      BY <1>6
    <2> HIDE DEF more
    <2> QED
      BY <1>2, <2>2, <2>3
  <1>8. /\ reqs' \in [Conns -> 0..MaxRequests] /\ reqs'[c] = reqs[c] + 1
        /\ \A d \in Conns : d # c => reqs'[d] = reqs[d]
    <2>1. reqs[c] + 1 \in 0..MaxRequests
      BY <1>4, <1>6, Lengths
    <2>2. reqs' \in [Conns -> 0..MaxRequests]
      BY <1>2, <1>4, <2>1, Updated, Zenon
    <2>3. reqs'[c] = reqs[c] + 1 /\ \A d \in Conns : d # c => reqs'[d] = reqs[d]
      BY <1>2, <1>4
    <2> QED
      BY <2>2, <2>3
  <1>9. last'.kind = "page"
    BY <1>3, <1>4
  <1>10. TypeOK'
    BY <1>4, <1>5, <1>7, <1>8, <1>9 DEF IInv, TypeOK, State
  <1>11. ASSUME NEW d \in Conns PROVE (Owns(d) /\ Accounts(d))'
    <2>1. CASE d = c
      <3>1. Owns(c)'
        BY <1>1, <1>2, <1>4, <1>5 DEF Owns
      <3>2. reqs'[c] # 0
        BY <1>6, <1>8
      <3>3. ASSUME reqs'[c] = 1 PROVE mem'[b].sent_len + queued'[c] <= mem'[b].header_len + mem'[b].result_len
        <4>1. reqs[c] = 0
          BY <1>6, <1>8, <3>3
        <4>2. queued[c] = 0 /\ mem[b].sent_len = 0
          BY <1>1, <4>1 DEF IInv, Accounts
        <4> HIDE DEF more
        <4> QED
          BY <1>3, <1>5, <1>6, <1>7, <4>2
      <3> QED
        BY <1>1, <1>4, <2>1, <3>1, <3>2, <3>3 DEF Accounts
    <2>2. CASE d # c
      <3>1. pcb[d] = "open" => arg[d] # b
        BY <1>1, <2>2, Apart
      <3> QED
        BY <1>4, <1>5, <1>7, <1>8, <2>2, <3>1, OthersKeep
    <2> QED
      BY <2>1, <2>2
  <1>12. LeakOnlyByAbort'
    <2>1. \A e \in Blocks : mem'[e].pcb = mem[e].pcb
      BY <1>2, <1>5
    <2> QED
      BY <1>4, <2>1 DEF IInv, LeakOnlyByAbort
  <1>13. WholeUnlessPipelined'
    BY <1>9 DEF WholeUnlessPipelined
  <1> QED
    BY <1>10, <1>11, <1>12, <1>13 DEF IInv

LEMMA ErrKeeps ==
  ASSUME IInv, NEW c \in Conns, NEW err, tcp_server_err(c, err)
  PROVE  IInv'
  <1> DEFINE b == arg[c]
  <1>1. pcb[c] = "open"
    BY CallsOpen DEF tcp_server_err
  <1>2. b \in Blocks /\ mem[b].pcb = c /\ mem \in [Blocks -> State] /\ leaked \subseteq Blocks
    BY <1>1 DEF IInv, Owns, TypeOK, State
  <1>3. /\ pcb' = [pcb EXCEPT ![c] = "none"] /\ arg' = [arg EXCEPT ![c] = NULL]
        /\ cbs' = [cbs EXCEPT ![c] = {}] /\ queued' = [queued EXCEPT ![c] = 0]
        /\ last' = Nothing /\ reqs' = reqs
        /\ \/ leaked' = leaked \cup {b} /\ mem' = mem
           \/ leaked' = leaked /\ mem' = [mem EXCEPT ![b] = Free]
    BY DEF tcp_server_err
  <1>4. /\ mem' \in [Blocks -> State] /\ leaked' \subseteq Blocks /\ leaked \subseteq leaked'
        /\ b \in leaked' \/ mem'[b].pcb = NULL
        /\ \A e \in Blocks : e # b => mem'[e] = mem[e]
    <2>1. Free.pcb = NULL /\ Free \in State
      BY FreeIsState DEF Free
    <2> HIDE DEF b
    <2> QED
      BY <1>2, <1>3, <2>1
  <1>5. last'.kind = "nothing"
    BY <1>3 DEF Nothing
  <1>6. TypeOK'
    <2>1. pcb' \in [Conns -> {"none", "open", "closing"}] /\ arg' \in [Conns -> Blocks \cup {NULL}]
          /\ cbs' \in [Conns -> SUBSET Callbacks] /\ queued' \in [Conns -> Nat]
      BY <1>3 DEF IInv, TypeOK
    <2>2. reqs' \in [Conns -> 0..MaxRequests]
      <3>1. reqs \in [Conns -> 0..MaxRequests]
        BY DEF IInv, TypeOK
      <3> QED
        BY <1>3, <3>1, Zenon
    <2> QED
      BY <1>4, <1>5, <2>1, <2>2 DEF TypeOK, State
  <1>7. ASSUME NEW d \in Conns PROVE (Owns(d) /\ Accounts(d))'
    <2>1. CASE d = c
      <3>1. pcb'[c] = "none" /\ arg'[c] = NULL /\ cbs'[c] = {} /\ queued'[c] = 0
        BY <1>3 DEF IInv, TypeOK
      <3> QED
        BY <2>1, <3>1 DEF Owns, Accounts
    <2>2. CASE d # c
      <3>1. pcb'[d] = pcb[d] /\ arg'[d] = arg[d] /\ cbs'[d] = cbs[d] /\ queued'[d] = queued[d] /\ reqs'[d] = reqs[d]
        BY <1>3, <2>2 DEF IInv, TypeOK
      <3>2. pcb[d] = "open" => arg[d] # b
        BY <1>1, <2>2, Apart
      <3> QED
        BY <1>4, <3>1, <3>2, OthersKeep
    <2> QED
      BY <2>1, <2>2
  <1>8. LeakOnlyByAbort'
    <2> SUFFICES ASSUME NEW e \in Blocks, mem'[e].pcb # NULL
                 PROVE  e \in leaked' \/ \E d \in Conns : pcb'[d] = "open" /\ arg'[d] = e
      BY DEF LeakOnlyByAbort
    <2>1. CASE e = b
      BY <1>4, <2>1
    <2>2. CASE e # b
      <3>1. e \in leaked \/ \E d \in Conns : pcb[d] = "open" /\ arg[d] = e
        BY <1>4, <2>2 DEF IInv, LeakOnlyByAbort
      <3>2. \A d \in Conns : pcb[d] = "open" /\ arg[d] = e => pcb'[d] = "open" /\ arg'[d] = e
        BY <1>3, <2>2 DEF IInv, TypeOK
      <3> QED
        BY <1>4, <3>1, <3>2
    <2> QED
      BY <2>1, <2>2
  <1>9. WholeUnlessPipelined'
    BY <1>5 DEF WholeUnlessPipelined
  <1> QED
    BY <1>6, <1>7, <1>8, <1>9 DEF IInv

LEMMA ReleaseKeeps ==
  ASSUME IInv, NEW c \in Conns, Release(c)
  PROVE  IInv'
  <1>1. /\ pcb[c] = "closing" /\ pcb' = [pcb EXCEPT ![c] = "none"]
        /\ cbs' = [cbs EXCEPT ![c] = {}] /\ queued' = [queued EXCEPT ![c] = 0]
        /\ last' = Nothing /\ arg' = arg /\ mem' = mem /\ reqs' = reqs /\ leaked' = leaked
    BY DEF Release
  <1>2. last'.kind = "nothing"
    BY <1>1 DEF Nothing
  <1>3. TypeOK'
    <2>1. pcb' \in [Conns -> {"none", "open", "closing"}] /\ cbs' \in [Conns -> SUBSET Callbacks]
          /\ queued' \in [Conns -> Nat]
      BY <1>1 DEF IInv, TypeOK
    <2> QED
      BY <1>1, <1>2, <2>1 DEF IInv, TypeOK
  <1>4. ASSUME NEW d \in Conns PROVE (Owns(d) /\ Accounts(d))'
    <2>1. CASE d = c
      <3>1. pcb'[c] = "none" /\ arg'[c] = NULL /\ cbs'[c] = {} /\ queued'[c] = 0
        BY <1>1 DEF IInv, TypeOK, Owns
      <3> QED
        BY <2>1, <3>1 DEF Owns, Accounts
    <2>2. CASE d # c
      <3>1. pcb'[d] = pcb[d] /\ arg'[d] = arg[d] /\ cbs'[d] = cbs[d] /\ queued'[d] = queued[d] /\ reqs'[d] = reqs[d]
        BY <1>1, <2>2 DEF IInv, TypeOK
      <3> QED
        BY <1>1, <3>1, OthersKeep
    <2> QED
      BY <2>1, <2>2
  <1>5. LeakOnlyByAbort'
    <2>1. \A d \in Conns : pcb[d] = "open" => pcb'[d] = "open"
      BY <1>1 DEF IInv, TypeOK
    <2> QED
      BY <1>1, <2>1 DEF IInv, LeakOnlyByAbort
  <1>6. WholeUnlessPipelined'
    BY <1>2 DEF WholeUnlessPipelined
  <1> QED
    BY <1>3, <1>4, <1>5, <1>6 DEF IInv

\* A step that changes nothing but the history of the last callback, if that.
LEMMA IdleKeeps ==
  ASSUME IInv, Refuse \/ (\E c \in Conns, query \in Queries : RecvOverrun(c, query)) \/ UNCHANGED vars
  PROVE  IInv'
  <1>1. /\ pcb' = pcb /\ arg' = arg /\ cbs' = cbs /\ queued' = queued /\ mem' = mem
        /\ reqs' = reqs /\ leaked' = leaked
    BY DEF Refuse, RecvOverrun, vars, conn
  <1>2. last' = last \/ last'.kind = "refused" \/ last'.kind = "overrun"
    BY DEF Refuse, RecvOverrun, vars
  <1>3. TypeOK'
    BY <1>1, <1>2 DEF IInv, TypeOK
  <1>4. ASSUME NEW d \in Conns PROVE (Owns(d) /\ Accounts(d))'
    BY <1>1 DEF IInv, Owns, Accounts
  <1>5. LeakOnlyByAbort'
    BY <1>1 DEF IInv, LeakOnlyByAbort
  <1>6. WholeUnlessPipelined'
    BY <1>2 DEF IInv, WholeUnlessPipelined
  <1> QED
    BY <1>3, <1>4, <1>5, <1>6 DEF IInv

LEMMA NextKeeps == IInv /\ [Next]_vars => IInv'
  <1> SUFFICES ASSUME IInv, [Next]_vars PROVE IInv'
    OBVIOUS
  <1>1. ASSUME NEW c \in Conns, NEW b \in Blocks, tcp_server_accept(c, b) PROVE IInv'
    BY <1>1, AcceptKeeps
  <1>2. ASSUME NEW c \in Conns, NEW n \in 1..queued[c], tcp_server_sent(c, n) PROVE IInv'
    BY <1>2, SentKeeps
  <1>3. ASSUME NEW c \in Conns, NEW request \in {Other} \cup Queries, NEW answer \in Answers(request),
               NEW head \in BOOLEAN, NEW body \in BOOLEAN, tcp_server_recv(c, answer, head, body)
        PROVE  IInv'
    BY <1>3, RecvKeeps
  <1>4. ASSUME NEW c \in Conns, RecvEnd(c) \/ tcp_server_poll(c) PROVE IInv'
    BY <1>4, EndKeeps
  <1>5. ASSUME NEW c \in Conns, NEW err \in {"ERR_ABRT", "ERR_RST"}, tcp_server_err(c, err) PROVE IInv'
    BY <1>5, ErrKeeps
  <1>6. ASSUME NEW c \in Conns, Release(c) PROVE IInv'
    BY <1>6, ReleaseKeeps
  <1>7. ASSUME Refuse \/ (\E c \in Conns, query \in Queries : RecvOverrun(c, query)) \/ UNCHANGED vars
        PROVE  IInv'
    BY <1>7, IdleKeeps
  <1> QED
    BY <1>1, <1>2, <1>3, <1>4, <1>5, <1>6, <1>7 DEF Next

THEOREM Invariance == Spec => []IInv
  BY InitIInv, NextKeeps, PTL DEF Spec

-----------------------------------------------------------------------------
\* The types, for every number of connections and blocks.
THEOREM TypeCorrect == Spec => []TypeOK
  <1>1. IInv => TypeOK
    BY DEF IInv
  <1> QED
    BY Invariance, <1>1, PTL

\* No callback runs on a state that was freed or is another connection's.
THEOREM CallbacksFindTheirState == Spec => []CallbackOwnsState
  <1>1. IInv => CallbackOwnsState
    BY DEF IInv, Owns, CallbackOwnsState
  <1> QED
    BY Invariance, <1>1, PTL

\* Only ERR_ABRT loses a block of the heap.
THEOREM OnlyAbortLeaks == Spec => []LeakOnlyByAbort
  <1>1. IInv => LeakOnlyByAbort
    BY DEF IInv
  <1> QED
    BY Invariance, <1>1, PTL

\* A connection with one request is closed only when its answer is out.
THEOREM AnswersAreWhole == Spec => []WholeUnlessPipelined
  <1>1. IInv => WholeUnlessPipelined
    BY DEF IInv
  <1> QED
    BY Invariance, <1>1, PTL

-----------------------------------------------------------------------------
\* The smallest of some numbers is one of them, and no other is smaller.
LEMMA Least ==
  ASSUME NEW S \in SUBSET Nat, S # {}
  PROVE  Min(S) \in S /\ \A y \in S : Min(S) <= y
  <1> DEFINE R == {p \in Nat \X Nat : p[1] < p[2]}
  <1>1. IsWellFoundedOn(R, Nat)
    BY NatLessThanWellFounded DEF OpToRel
  <1>2. PICK x \in S : \A y \in S : ~(<<y, x>> \in R)
    BY <1>1, WFMin
  <1>3. ASSUME NEW y \in S PROVE x <= y
    <2>1. <<y, x>> \in Nat \X Nat /\ y \in Nat /\ x \in Nat
      OBVIOUS
    <2>2. ~(y < x)
      BY <1>2, <2>1
    <2> QED
      BY <2>1, <2>2
  <1> QED
    BY <1>3 DEF Min

\* The equation that Ends stands for, up to label n.
EndsUpTo(end, labels, n) ==
  end = [i \in 0..n |-> IF i = 0 THEN 0 ELSE end[i - 1] + labels[i] + 1]

\* It has a solution: the shortest name without one would have a solution
\* but for its last label, and that label extends it.
LEMMA EndsExist ==
  ASSUME NEW labels \in Seq(0..255), NEW n \in Nat
  PROVE  \E end : EndsUpTo(end, labels, n)
  <1> DEFINE Bad == {k \in Nat : ~\E end : EndsUpTo(end, labels, k)}
  <1> SUFFICES ASSUME Bad # {} PROVE FALSE
    OBVIOUS
  <1> DEFINE k == Min(Bad)
  <1>1. k \in Bad /\ \A y \in Bad : k <= y
    BY Least
  <1> HIDE DEF k
  <1>2. k # 0
    <2> SUFFICES EndsUpTo([i \in 0..0 |-> 0], labels, 0)
      BY <1>1
    <2> QED
      BY DEF EndsUpTo
  <1>3. k \in Nat /\ k - 1 \in Nat /\ k - 1 \notin Bad
    BY <1>1, <1>2
  <1>4. PICK e : EndsUpTo(e, labels, k - 1)
    BY <1>3
  <1> DEFINE f == [i \in 0..k |-> IF i = k THEN e[k - 1] + labels[k] + 1 ELSE e[i]]
  <1>5. e = [i \in 0..(k - 1) |-> IF i = 0 THEN 0 ELSE e[i - 1] + labels[i] + 1]
    BY <1>4 DEF EndsUpTo
  <1>6. ASSUME NEW i \in 0..k PROVE f[i] = IF i = 0 THEN 0 ELSE f[i - 1] + labels[i] + 1
    <2>1. CASE i = 0
      BY <1>2, <1>3, <1>5, <2>1
    <2>2. CASE i # 0 /\ i # k
      <3>1. i \in 0..(k - 1) /\ i - 1 \in 0..k /\ i - 1 # k
        BY <1>3, <2>2
      <3>2. e[i] = e[i - 1] + labels[i] + 1
        BY <1>5, <2>2, <3>1
      <3> QED
        BY <2>2, <3>1, <3>2
    <2>3. CASE i = k
      <3>1. k - 1 \in 0..k /\ k - 1 # k
        BY <1>3
      <3> QED
        BY <1>2, <2>3, <3>1
    <2> QED
      BY <2>1, <2>2, <2>3
  <1>7. EndsUpTo(f, labels, k)
    BY <1>6 DEF EndsUpTo
  <1> QED
    BY <1>1, <1>7

LEMMA EndsEquation ==
  ASSUME NEW labels \in Seq(0..255)
  PROVE  EndsUpTo(Ends(labels), labels, Len(labels))
  <1>1. \E end : EndsUpTo(end, labels, Len(labels))
    BY EndsExist
  <1>2. Ends(labels) = CHOOSE end : EndsUpTo(end, labels, Len(labels))
    BY Zenon DEF Ends, EndsUpTo
  <1> QED
    BY <1>1, <1>2, Zenon

\* Of the numbers up to n with a property, one is the first.
LEMMA FirstUpTo ==
  ASSUME NEW n \in Nat, NEW Bad \in SUBSET (0..n), Bad # {}
  PROVE  \E k \in 0..n : k \in Bad /\ \A y \in Bad : k <= y
  <1>1. Bad \in SUBSET Nat
    OBVIOUS
  <1>2. Min(Bad) \in Bad /\ \A y \in Bad : Min(Bad) <= y
    BY <1>1, Least
  <1> QED
    BY <1>2

\* What the equation says of the lengths l of n labels and where they end.
Grow(e, l, n) ==
  /\ e[0] = 0
  /\ \A i \in 1..n : l[i] \in 0..255 /\ e[i] = e[i - 1] + l[i] + 1

LEMMA GrowNumbers ==
  ASSUME NEW n \in Nat, NEW e, NEW l, Grow(e, l, n)
  PROVE  \A i \in 0..n : e[i] \in Nat
  <1> DEFINE Bad == {i \in 0..n : e[i] \notin Nat}
  <1> SUFFICES ASSUME Bad # {} PROVE FALSE
    OBVIOUS
  <1>1. PICK k \in 0..n : k \in Bad /\ \A y \in Bad : k <= y
    <2>1. Bad \in SUBSET (0..n)
      OBVIOUS
    <2> HIDE DEF Bad
    <2> QED
      BY <2>1, FirstUpTo
  <1>2. k # 0
    BY <1>1 DEF Grow
  <1>3. k \in 1..n /\ k - 1 \in 0..n /\ ~(k <= k - 1)
    BY <1>2
  <1>4. k - 1 \notin Bad
    BY <1>1, <1>3
  <1>5. e[k - 1] \in Nat
    BY <1>3, <1>4
  <1>6. l[k] \in 0..255 /\ e[k] = e[k - 1] + l[k] + 1
    BY <1>3 DEF Grow
  <1>7. e[k] \in Nat
    <2>1. ASSUME NEW a \in Nat, NEW b \in 0..255 PROVE a + b + 1 \in Nat
      OBVIOUS
    <2> QED
      BY <1>5, <1>6, <2>1
  <1> QED
    BY <1>1, <1>7

LEMMA GrowBelow ==
  ASSUME NEW n \in Nat, NEW e, NEW l, Grow(e, l, n), NEW i \in 0..n
  PROVE  e[i] <= e[n]
  <1>1. \A j \in 0..n : e[j] \in Nat
    BY GrowNumbers
  <1> DEFINE Bad == {d \in 0..n : ~(e[n - d] <= e[n])}
  <1>2. Bad = {}
    <2> SUFFICES ASSUME Bad # {} PROVE FALSE
      OBVIOUS
    <2>1. PICK d \in 0..n : d \in Bad /\ \A y \in Bad : d <= y
      <3>1. Bad \in SUBSET (0..n)
        OBVIOUS
      <3> HIDE DEF Bad
      <3> QED
        BY <3>1, FirstUpTo
    <2>2. ~(e[n - d] <= e[n])
      BY <2>1
    <2>3. d # 0
      <3>1. CASE d = 0
        <4>1. n - d = n /\ n \in 0..n
          BY <3>1
        <4>2. e[n] \in Nat
          BY <1>1, <4>1
        <4>3. e[n] <= e[n]
          BY <4>2
        <4> QED
          BY <2>2, <4>1, <4>3
      <3> QED
        BY <3>1
    <2>4. d - 1 \in 0..n /\ ~(d <= d - 1)
      BY <2>3
    <2>5. d - 1 \notin Bad
      BY <2>1, <2>4
    <2>6. PICK j \in 1..n : j = n - (d - 1)
      BY <2>3
    <2>7. j - 1 = n - d /\ j - 1 \in 0..n /\ j \in 0..n /\ n \in 0..n
      BY <2>6
    <2>8. e[j] <= e[n]
      BY <2>4, <2>5, <2>6
    <2>9. e[j - 1] \in Nat /\ e[j] \in Nat /\ e[n] \in Nat /\ ~(e[j - 1] <= e[n])
      BY <1>1, <2>2, <2>7
    <2>10. l[j] \in 0..255 /\ e[j] = e[j - 1] + l[j] + 1
      BY <2>6 DEF Grow
    <2>11. ASSUME NEW a \in Nat, NEW b \in Nat, NEW c \in Nat, NEW x \in 0..255,
                  b = a + x + 1, b <= c
           PROVE a <= c
      BY <2>11
    <2> QED
      BY <2>8, <2>9, <2>10, <2>11
  <1>3. n - i \in 0..n /\ n - (n - i) = i
    OBVIOUS
  <1>4. ~~(e[n - (n - i)] <= e[n])
    BY <1>2, <1>3
  <1> QED
    BY <1>3, <1>4

\* The ends are numbers, each label ends behind the one before it, and all of
\* them end within the name.
LEMMA EndsGrow ==
  ASSUME NEW labels \in Seq(0..255)
  PROVE  /\ Len(labels) \in Nat
         /\ Grow(Ends(labels), labels, Len(labels))
         /\ \A i \in 0..Len(labels) : Ends(labels)[i] \in Nat /\ Ends(labels)[i] <= Span(labels)
  <1>1. Len(labels) \in Nat /\ \A i \in 1..Len(labels) : labels[i] \in 0..255
    <2>1. Len(labels) \in Nat
      OBVIOUS
    <2>2. ASSUME NEW i \in 1..Len(labels) PROVE labels[i] \in 0..255
      BY ElementOfSeq
    <2> QED
      BY <2>1, <2>2
  <1> DEFINE e == Ends(labels)
             n == Len(labels)
  <1>2. e = [i \in 0..n |-> IF i = 0 THEN 0 ELSE e[i - 1] + labels[i] + 1]
    BY EndsEquation, Zenon DEF EndsUpTo
  <1>3. Span(labels) = e[n]
    BY Zenon DEF Span
  <1> HIDE DEF e, n
  <1>4. n \in Nat /\ \A i \in 1..n : labels[i] \in 0..255
    BY <1>1, Zenon DEF n
  <1>5. ASSUME NEW i \in 0..n PROVE e[i] = IF i = 0 THEN 0 ELSE e[i - 1] + labels[i] + 1
    BY <1>2
  <1>6. Grow(e, labels, n)
    BY <1>4, <1>5 DEF Grow
  <1>7. \A i \in 0..n : e[i] \in Nat /\ e[i] <= Span(labels)
    BY <1>3, <1>4, <1>6, GrowNumbers, GrowBelow
  <1> QED
    BY <1>4, <1>6, <1>7, Zenon DEF e, n

-----------------------------------------------------------------------------
LEMMA MessageTypes ==
  ASSUME NEW m \in Messages
  PROVE  m.size \in Nat /\ m.labels \in Seq(0..255) /\ Received(m) \in Nat
  <1>1. m.size \in Nat /\ m.labels \in Seq(0..255)
    BY DnsServerAssumption
  <1>2. {m.size, MAX_DNS_MSG_SIZE} \in SUBSET Nat /\ {m.size, MAX_DNS_MSG_SIZE} # {}
    BY <1>1 DEF MAX_DNS_MSG_SIZE
  <1>3. Received(m) \in {m.size, MAX_DNS_MSG_SIZE}
    BY <1>2, Least DEF Received
  <1> QED
    BY <1>1, <1>2, <1>3

\* The labels at which the walk over the name may end, and the place behind them.
Ending(m) ==
  {i \in DOMAIN m.labels :
     Offset(m, i) >= Received(m) \/ m.labels[i] = 0 \/ m.labels[i] > MaxLabel}
  \cup {Len(m.labels) + 1}

\* The walk ends at one of the labels or behind the last.
LEMMA WalkEnds ==
  ASSUME NEW m \in Messages
  PROVE  /\ StopsAt(m) \in 1..(Len(m.labels) + 1) /\ StopsAt(m) \in Ending(m)
         /\ \A i \in Ending(m) : StopsAt(m) <= i
         /\ Question(m) \in Nat
  <1>1. m.labels \in Seq(0..255) /\ Len(m.labels) \in Nat /\ DOMAIN m.labels = 1..Len(m.labels)
    BY MessageTypes
  <1>2. Ending(m) \subseteq 1..(Len(m.labels) + 1) /\ Len(m.labels) + 1 \in Ending(m)
    BY <1>1 DEF Ending
  <1>3. Ending(m) \in SUBSET Nat /\ Ending(m) # {}
    BY <1>2
  <1>4. StopsAt(m) \in Ending(m) /\ \A i \in Ending(m) : StopsAt(m) <= i
    BY <1>3, Least DEF StopsAt, Ending
  <1>5. StopsAt(m) \in 1..(Len(m.labels) + 1)
    BY <1>2, <1>4
  <1>6. StopsAt(m) - 1 \in 0..Len(m.labels)
    BY <1>1, <1>5
  <1>7. PICK k \in Nat : k = Ends(m.labels)[StopsAt(m) - 1]
    BY <1>1, <1>6, EndsGrow
  <1>8. PICK o : o = Offset(m, StopsAt(m)) /\ o = HeaderSize + k
    BY <1>7, Zenon DEF Offset
  <1>9. Question(m) \in Nat
    <2>1. Question(m) = o - HeaderSize + (IF Runs(m) THEN 0 ELSE 1)
      BY <1>8, Zenon DEF Question
    <2> QED
      BY <1>8, <2>1 DEF HeaderSize
  <1> QED
    BY <1>4, <1>5, <1>9

\* What is built for a message that is answered is at most 12 + 255 + 4 + 16 bytes.
LEMMA ReplyBound ==
  ASSUME NEW m \in Messages, Accepted(m)
  PROVE  Reply(m).size <= MAX_DNS_MSG_SIZE
  <1>1. Question(m) \in Nat /\ Question(m) <= MaxName
    BY WalkEnds DEF Accepted
  <1> QED
    BY <1>1 DEF Reply, HeaderSize, TypeAndClass, RecordSize, MaxName, MAX_DNS_MSG_SIZE

\* All of the name of a legal query arrives, with its type and class.
LEMMA LegalArrives ==
  ASSUME NEW m \in Messages, LegalQuery(m)
  PROVE  /\ Span(m.labels) \in Nat /\ Received(m) > HeaderSize + Span(m.labels)
         /\ \A i \in 1..Len(m.labels) : Offset(m, i) < Received(m)
  <1>1. m.labels \in Seq(0..255) /\ m.size \in Nat
    BY MessageTypes
  <1>2. /\ Len(m.labels) \in Nat
        /\ \A i \in 0..Len(m.labels) :
             Ends(m.labels)[i] \in Nat /\ Ends(m.labels)[i] <= Span(m.labels)
    BY <1>1, EndsGrow
  <1>3. Span(m.labels) \in Nat
    BY <1>2 DEF Span
  <1>4. Span(m.labels) <= 255 /\ m.size >= HeaderSize + Span(m.labels) + TypeAndClass
    BY DEF LegalQuery
  <1>5. Received(m) \in {m.size, MAX_DNS_MSG_SIZE}
    <2>1. {m.size, MAX_DNS_MSG_SIZE} \in SUBSET Nat /\ {m.size, MAX_DNS_MSG_SIZE} # {}
      BY <1>1 DEF MAX_DNS_MSG_SIZE
    <2> QED
      BY <2>1, Least DEF Received
  <1>6. Received(m) > HeaderSize + Span(m.labels)
    BY <1>1, <1>3, <1>4, <1>5 DEF HeaderSize, TypeAndClass, MAX_DNS_MSG_SIZE
  <1>7. ASSUME NEW i \in 1..Len(m.labels) PROVE Offset(m, i) < Received(m)
    <2>1. i - 1 \in 0..Len(m.labels)
      BY <1>2
    <2>2. Ends(m.labels)[i - 1] \in Nat /\ Ends(m.labels)[i - 1] <= Span(m.labels)
      BY <1>2, <2>1
    <2>3. Offset(m, i) = HeaderSize + Ends(m.labels)[i - 1]
      BY DEF Offset
    <2> HIDE DEF Offset
    <2>4. Received(m) \in Nat
      BY MessageTypes
    <2> QED
      BY <1>3, <1>6, <2>2, <2>3, <2>4 DEF HeaderSize
  <1> QED
    BY <1>3, <1>6, <1>7

\* The walk over the name of a legal query ends at its zero, so that the
\* question is the whole name.
LEMMA LegalWalk ==
  ASSUME NEW m \in Messages, LegalQuery(m)
  PROVE  Accepted(m) /\ Question(m) = Span(m.labels)
  <1> DEFINE n == Len(m.labels)
  <1>1. m.labels \in Seq(0..255) /\ m.size \in Nat /\ Received(m) \in Nat
    BY MessageTypes
  <1>2. /\ n \in Nat /\ Grow(Ends(m.labels), m.labels, n)
        /\ \A i \in 0..n : Ends(m.labels)[i] \in Nat
    BY <1>1, EndsGrow
  <1>3. n \in 1..n /\ m.labels[n] = 0 /\ DOMAIN m.labels = 1..n
    <2>1. m.labels # <<>> /\ m.labels[n] = 0
      BY DEF LegalQuery, Last
    <2>2. n # 0 /\ DOMAIN m.labels = 1..n
      BY <1>1, <2>1
    <2> QED
      BY <1>2, <2>1, <2>2
  <1>4. \A i \in 1..(n - 1) : m.labels[i] \in 1..63
    BY DEF LegalQuery
  <1>5. \A i \in 1..n : Offset(m, i) < Received(m) /\ Offset(m, i) \in Nat
    <2>1. ASSUME NEW i \in 1..n PROVE Offset(m, i) \in Nat
      BY <1>2 DEF Offset, HeaderSize
    <2> QED
      BY <2>1, LegalArrives
  <1> HIDE DEF n
  <1>6. n \in Ending(m)
    BY <1>3 DEF Ending
  <1>7. ASSUME NEW i \in 1..(n - 1) PROVE i \notin Ending(m)
    <2>1. i \in 1..n /\ i # n + 1
      BY <1>2
    <2>2. m.labels[i] # 0 /\ ~(m.labels[i] > MaxLabel)
      BY <1>4 DEF MaxLabel
    <2>3. ~(Offset(m, i) >= Received(m))
      BY <1>1, <1>5, <2>1
    <2> QED
      BY <2>1, <2>2, <2>3 DEF Ending, n
  <1>8. StopsAt(m) = n
    <2>1. /\ StopsAt(m) \in 1..(n + 1) /\ StopsAt(m) \in Ending(m)
          /\ \A i \in Ending(m) : StopsAt(m) <= i
      BY WalkEnds DEF n
    <2>2. StopsAt(m) <= n
      BY <1>6, <2>1
    <2>3. ~(StopsAt(m) \in 1..(n - 1))
      BY <1>7, <2>1
    <2> QED
      BY <1>2, <2>1, <2>2, <2>3
  <1>9. ~Runs(m) /\ ~InvalidLabel(m)
    <2>1. ~(Offset(m, n) >= Received(m))
      BY <1>1, <1>3, <1>5
    <2> QED
      BY <1>3, <1>8, <2>1 DEF Runs, InvalidLabel, MaxLabel
  <1>10. Question(m) = Span(m.labels)
    <2>1. Ends(m.labels)[n] = Ends(m.labels)[n - 1] + 0 + 1
      BY <1>2, <1>3 DEF Grow
    <2>2. n - 1 \in 0..n
      BY <1>3
    <2>3. Ends(m.labels)[n - 1] \in Nat
      BY <1>2, <2>2
    <2>4. PICK o : o = Offset(m, StopsAt(m)) /\ o = HeaderSize + Ends(m.labels)[n - 1]
      BY <1>8, Zenon DEF Offset
    <2>5. Span(m.labels) = Ends(m.labels)[n]
      BY DEF Span, n
    <2>6. Question(m) = o - HeaderSize + (IF Runs(m) THEN 0 ELSE 1)
      BY <2>4, Zenon DEF Question
    <2> QED
      BY <1>9, <2>1, <2>3, <2>4, <2>5, <2>6 DEF HeaderSize
  <1>11. Span(m.labels) \in Nat /\ Received(m) >= HeaderSize
    BY <1>1, LegalArrives DEF HeaderSize
  <1>12. Question(m) <= MaxName
    BY <1>10 DEF LegalQuery, MaxName
  <1>13. ~m.response /\ m.opcode = 0 /\ m.questions >= 1
    BY DEF LegalQuery
  <1> QED
    BY <1>9, <1>10, <1>11, <1>12, <1>13 DEF Accepted

-----------------------------------------------------------------------------
\* Of every message, the last one and what was made of it are kept.
Answered(d) ==
  \/ d = [query |-> NoQuery, reply |-> NoReply]
  \/ \E m \in Messages : d = [query |-> m, reply |-> IF Accepted(m) THEN Reply(m) ELSE NoReply]

LEMMA DnsInvariance == ServersSpec => []Answered(dns)
  <1>1. ServersInit => Answered(dns)
    BY DEF ServersInit, Answered
  <1>2. Answered(dns) /\ [WebStep \/ AskName]_<<vars, dns>> => Answered(dns)'
    <2> SUFFICES ASSUME Answered(dns), [WebStep \/ AskName]_<<vars, dns>> PROVE Answered(dns')
      OBVIOUS
    <2>1. CASE WebStep
      BY <2>1 DEF WebStep, Answered
    <2>2. CASE AskName
      BY <2>2 DEF AskName, dns_server_process, Answered
    <2>3. CASE UNCHANGED <<vars, dns>>
      BY <2>3
    <2> QED
      BY <2>1, <2>2, <2>3
  <1> QED
    BY <1>1, <1>2, PTL DEF ServersSpec

\* The reply to a message never needs more than the 300 bytes of its buffer,
\* whatever name is asked for: dns_server_process writes within dns_msg.
THEOREM RepliesFit == ServersSpec => []ReplyFits
  <1>1. Answered(dns) => ReplyFits
    <2> SUFFICES ASSUME Answered(dns) PROVE dns.reply.size <= MAX_DNS_MSG_SIZE
      BY DEF ReplyFits
    <2>1. NoReply.size <= MAX_DNS_MSG_SIZE
      BY DEF NoReply, MAX_DNS_MSG_SIZE
    <2>2. CASE dns = [query |-> NoQuery, reply |-> NoReply]
      BY <2>1, <2>2
    <2>3. ASSUME NEW m \in Messages,
                 dns = [query |-> m, reply |-> IF Accepted(m) THEN Reply(m) ELSE NoReply]
          PROVE  dns.reply.size <= MAX_DNS_MSG_SIZE
      <3>1. dns.reply = IF Accepted(m) THEN Reply(m) ELSE NoReply
        BY <2>3
      <3> QED
        BY <2>1, <3>1, ReplyBound
    <2> QED
      BY <2>2, <2>3 DEF Answered
  <1> QED
    BY <1>1, DnsInvariance, PTL

\* Every legal query is answered, and its answer stands where a resolver looks
\* for it: dns_server_process finds the end of every name of up to 255 bytes.
THEOREM LegalQueriesAnswered == ServersSpec => []LegalAnswered
  <1>1. Answered(dns) => LegalAnswered
    <2> SUFFICES ASSUME Answered(dns), LegalQuery(dns.query)
                 PROVE  /\ dns.reply # NoReply
                        /\ dns.reply.answer = HeaderSize + Span(dns.query.labels) + TypeAndClass
                        /\ dns.reply.size = dns.reply.answer + RecordSize
      BY DEF LegalAnswered
    <2>1. ~LegalQuery(NoQuery)
      BY DEF LegalQuery, NoQuery
    <2>2. PICK m \in Messages :
            dns = [query |-> m, reply |-> IF Accepted(m) THEN Reply(m) ELSE NoReply]
      BY <2>1 DEF Answered
    <2>3. dns.query = m /\ LegalQuery(m) /\ Accepted(m) /\ Question(m) = Span(m.labels)
      BY <2>2, LegalWalk
    <2>4. dns.reply = Reply(m)
      BY <2>2, <2>3
    <2>5. Span(m.labels) \in Nat
      BY <2>3, LegalArrives
    <2>6. /\ Reply(m).answer = HeaderSize + Span(m.labels) + TypeAndClass
          /\ Reply(m).size = HeaderSize + Span(m.labels) + TypeAndClass + RecordSize
      BY <2>3 DEF Reply
    <2>7. Reply(m) # NoReply
      BY <2>5, <2>6 DEF NoReply, HeaderSize, TypeAndClass, RecordSize
    <2> QED
      BY <2>3, <2>4, <2>6, <2>7
  <1> QED
    BY <1>1, DnsInvariance, PTL

\* Beside the DNS server the web server behaves as it does alone, so that its
\* theorems are theorems about both.
THEOREM WebServerRuns == ServersSpec => Spec
  <1>1. ServersInit => Init
    BY DEF ServersInit
  <1>2. [WebStep \/ AskName]_<<vars, dns>> => [Next]_vars
    BY DEF WebStep, AskName
  <1> QED
    BY <1>1, <1>2, PTL DEF ServersSpec, Spec

-----------------------------------------------------------------------------
\* A text that is put together from its end: a piece of each of its n
\* characters, and the rest from the next one or a later one on.
Ahead(piece, rest) == piece \o rest
Unfolds(f, n, piece, step, first) ==
  f = [i \in first..(n + 1) |-> IF i > n THEN <<>> ELSE Ahead(piece[i], f[i + step[i]])]

\* There is such a text, by the same argument as for EndsExist.
LEMMA UnfoldingExists ==
  ASSUME NEW n \in Nat, NEW piece, NEW step, \A i \in 1..n : step[i] \in 1..(n + 1 - i)
  PROVE  \E f : Unfolds(f, n, piece, step, 1)
  <1> DEFINE Bad == {k \in 0..n : ~\E f : Unfolds(f, n, piece, step, n + 1 - k)}
  <1>1. Bad = {}
    <2> SUFFICES ASSUME Bad # {} PROVE FALSE
      OBVIOUS
    <2>1. PICK k \in 0..n : k \in Bad /\ \A y \in Bad : k <= y
      <3>1. Bad \in SUBSET (0..n)
        OBVIOUS
      <3> HIDE DEF Bad
      <3> QED
        BY <3>1, FirstUpTo
    <2>2. k # 0
      <3> SUFFICES Unfolds([i \in (n + 1)..(n + 1) |-> <<>>], n, piece, step, n + 1 - 0)
        BY <2>1
      <3>1. n + 1 - 0 = n + 1
        OBVIOUS
      <3>2. Unfolds([i \in (n + 1)..(n + 1) |-> <<>>], n, piece, step, n + 1)
        BY DEF Unfolds
      <3> QED
        BY <3>1, <3>2
    <2>3. k - 1 \in 0..n /\ ~(k <= k - 1)
      BY <2>2
    <2>4. k - 1 \notin Bad
      BY <2>1, <2>3
    <2>5. PICK e : Unfolds(e, n, piece, step, n + 1 - (k - 1))
      BY <2>3, <2>4
    <2>6. PICK s \in 1..n : s = n + 1 - k /\ s + 1 = n + 1 - (k - 1)
      BY <2>2
    <2> DEFINE f == [i \in s..(n + 1) |-> IF i = s THEN Ahead(piece[s], e[s + step[s]]) ELSE e[i]]
    <2>7. e = [i \in (s + 1)..(n + 1) |-> IF i > n THEN <<>> ELSE Ahead(piece[i], e[i + step[i]])]
      BY <2>5, <2>6 DEF Unfolds
    <2>8. ASSUME NEW i \in s..(n + 1)
          PROVE  f[i] = IF i > n THEN <<>> ELSE Ahead(piece[i], f[i + step[i]])
      <3>1. CASE i > n
        <4>1. i # s /\ i \in (s + 1)..(n + 1)
          BY <3>1
        <4> QED
          BY <2>7, <3>1, <4>1
      <3>2. CASE i <= n
        <4>1. i \in 1..n
          BY <3>2
        <4>2. PICK t \in (i + 1)..(n + 1) : t = i + step[i]
          BY <4>1
        <4>3. t \in s..(n + 1) /\ t # s
          BY <4>2
        <4>4. f[t] = e[t]
          BY <4>3
        <4>5. CASE i = s
          BY <3>2, <4>2, <4>4, <4>5
        <4>6. CASE i # s
          <5>1. i \in (s + 1)..(n + 1)
            BY <4>6
          <5>2. e[i] = Ahead(piece[i], e[t])
            <6>1. ~(i > n)
              BY <3>2
            <6>2. e[i] = IF i > n THEN <<>> ELSE Ahead(piece[i], e[i + step[i]])
              BY <2>7, <5>1, Zenon
            <6> QED
              BY <4>2, <6>1, <6>2, Zenon
          <5> QED
            BY <3>2, <4>2, <4>4, <4>6, <5>2
        <4> QED
          BY <4>5, <4>6
      <3> QED
        BY <3>1, <3>2
    <2>9. Unfolds(f, n, piece, step, s)
      BY <2>8 DEF Unfolds
    <2> QED
      BY <2>1, <2>6, <2>9
  <1>2. n \in 0..n /\ n + 1 - n = 1
    OBVIOUS
  <1>3. \E f : Unfolds(f, n, piece, step, n + 1 - n)
    BY <1>1, <1>2
  <1> QED
    BY <1>2, <1>3

\* What is said of each text from character i on, from the last one to the
\* first, by induction: P is the set of the characters of which it is true.
LEMMA Backwards ==
  ASSUME NEW n \in Nat, NEW P, n + 1 \in P,
         \A i \in 1..n : (\A j \in (i + 1)..(n + 1) : j \in P) => i \in P
  PROVE  \A i \in 1..(n + 1) : i \in P
  <1> DEFINE Bad == {k \in 0..n : n + 1 - k \notin P}
  <1>1. Bad = {}
    <2> SUFFICES ASSUME Bad # {} PROVE FALSE
      OBVIOUS
    <2>1. PICK k \in 0..n : k \in Bad /\ \A y \in Bad : k <= y
      <3>1. Bad \in SUBSET (0..n)
        OBVIOUS
      <3> HIDE DEF Bad
      <3> QED
        BY <3>1, FirstUpTo
    <2>2. k # 0
      <3>1. n + 1 - 0 \in P
        BY n + 1 - 0 = n + 1
      <3> QED
        BY <2>1, <3>1
    <2>3. PICK i \in 1..n : i = n + 1 - k
      BY <2>2
    <2>4. ASSUME NEW j \in (i + 1)..(n + 1) PROVE j \in P
      <3>1. PICK y \in 0..n : y = n + 1 - j /\ ~(k <= y) /\ n + 1 - y = j
        BY <2>3
      <3>2. y \notin Bad
        BY <2>1, <3>1
      <3> QED
        BY <3>1, <3>2
    <2> QED
      BY <2>1, <2>3, <2>4
  <1>2. ASSUME NEW i \in 1..(n + 1) PROVE i \in P
    <2>1. PICK k \in 0..n : k = n + 1 - i /\ n + 1 - k = i
      OBVIOUS
    <2> QED
      BY <1>1, <2>1
  <1> QED
    BY <1>2

-----------------------------------------------------------------------------
LEMMA TextFacts ==
  ASSUME NEW text \in Texts
  PROVE  /\ Len(text) \in Nat /\ DOMAIN text = 1..Len(text)
         /\ \A i \in 1..Len(text) : text[i] \in Characters
  <1>1. text \in Seq(Characters)
    BY DEF Texts
  <1>2. Len(text) \in Nat /\ DOMAIN text = 1..Len(text)
    BY <1>1, LenProperties
  <1>3. ASSUME NEW i \in 1..Len(text) PROVE text[i] \in Characters
    BY <1>1, ElementOfSeq
  <1> QED
    BY <1>2, <1>3

\* Two sequences one behind the other.
LEMMA Joined ==
  ASSUME NEW S, NEW a \in Seq(S), NEW b \in Seq(S)
  PROVE  /\ Len(a) \in Nat /\ Len(b) \in Nat
         /\ a \o b \in Seq(S) /\ Len(a \o b) = Len(a) + Len(b)
         /\ \A i \in 1..Len(a) : (a \o b)[i] = a[i]
         /\ \A i \in 1..Len(b) : (a \o b)[Len(a) + i] = b[i]
  <1> DEFINE q == a \o b
             m == Len(a)
             n == Len(b)
  <1>1. m \in Nat /\ n \in Nat
    BY LenProperties
  <1>2. /\ q \in Seq(S) /\ Len(q) = m + n
        /\ \A i \in 1..(m + n) : q[i] = IF i <= m THEN a[i] ELSE b[i - m]
    BY ConcatProperties
  <1> HIDE DEF q, m, n
  <1>3. \A i \in 1..m : q[i] = a[i]
    BY <1>1, <1>2
  <1>4. ASSUME NEW i \in 1..n PROVE q[m + i] = b[i]
    <2>1. PICK k \in 1..(m + n) : k = m + i /\ ~(k <= m) /\ k - m = i
      BY <1>1
    <2> QED
      BY <1>2, <2>1
  <1> QED
    BY <1>1, <1>2, <1>3, <1>4 DEF q, m, n

\* What Decoded and Encoded stand for.
LEMMA DecodedEquation ==
  ASSUME NEW src \in Texts, NEW i \in 1..(Len(src) + 1)
  PROVE  /\ Takes(src, i) \in {1, 3} /\ (i <= Len(src) => i + Takes(src, i) <= Len(src) + 1)
         /\ Decoded(src)[i] = IF i > Len(src) THEN <<>>
                              ELSE Ahead(<<Char(src, i)>>, Decoded(src)[i + Takes(src, i)])
  <1> DEFINE n == Len(src)
             piece == [j \in 1..n |-> <<Char(src, j)>>]
             step == [j \in 1..n |-> Takes(src, j)]
             Obeys(f) == f = [j \in 1..(n + 1) |-> IF j > n THEN <<>> ELSE <<Char(src, j)>> \o f[j + Takes(src, j)]]
  <1>1. n \in Nat
    BY TextFacts
  <1>2. ASSUME NEW j \in 1..n PROVE Takes(src, j) \in {1, 3} /\ j + Takes(src, j) <= n + 1
    BY <1>1 DEF Takes
  <1>3. \A j \in 1..n : step[j] \in 1..(n + 1 - j)
    BY <1>1, <1>2
  <1>4. PICK f : Unfolds(f, n, piece, step, 1)
    <2> HIDE DEF n, piece, step
    <2> QED
      BY <1>1, <1>3, UnfoldingExists
  <1>5. f = [j \in 1..(n + 1) |-> IF j > n THEN <<>> ELSE Ahead(piece[j], f[j + step[j]])]
    BY <1>4 DEF Unfolds
  <1>6. ASSUME NEW j \in 1..(n + 1)
        PROVE  f[j] = IF j > n THEN <<>> ELSE Ahead(<<Char(src, j)>>, f[j + Takes(src, j)])
    <2>1. CASE j > n
      BY <1>5, <2>1
    <2>2. CASE ~(j > n)
      <3>1. j \in 1..n
        BY <1>1, <2>2
      <3>2. piece[j] = <<Char(src, j)>> /\ step[j] = Takes(src, j)
        BY <3>1
      <3> HIDE DEF piece, step
      <3>3. f[j] = Ahead(piece[j], f[j + step[j]])
        BY <1>5, <2>2, Zenon
      <3> QED
        BY <2>2, <3>2, <3>3, Zenon
    <2> QED
      BY <2>1, <2>2
  <1>7. Obeys(f)
    <2>1. f = [j \in 1..(n + 1) |-> f[j]]
      BY <1>5, Zenon
    <2> QED
      BY <1>6, <2>1, Zenon DEF Ahead
  <1>8. Decoded(src) = CHOOSE g : Obeys(g)
    BY Zenon DEF Decoded
  <1>9. Obeys(Decoded(src))
    <2> HIDE DEF Obeys
    <2> QED
      BY <1>7, <1>8, Zenon
  <1>10. Decoded(src)[i] = IF i > n THEN <<>> ELSE <<Char(src, i)>> \o Decoded(src)[i + Takes(src, i)]
    BY <1>9, Zenon
  <1>11. Takes(src, i) \in {1, 3}
    BY DEF Takes
  <1>12. i <= n => i \in 1..n
    BY <1>1
  <1> QED
    BY <1>2, <1>10, <1>11, <1>12, Zenon DEF Ahead

LEMMA EncodedEquation ==
  ASSUME NEW text \in Texts, NEW i \in 1..(Len(text) + 1)
  PROVE  Encoded(text)[i] = IF i > Len(text) THEN <<>>
                            ELSE Ahead(EncodeChar(text[i]), Encoded(text)[i + 1])
  <1> DEFINE n == Len(text)
             piece == [j \in 1..n |-> EncodeChar(text[j])]
             step == [j \in 1..n |-> 1]
             Obeys(f) == f = [j \in 1..(n + 1) |-> IF j > n THEN <<>> ELSE EncodeChar(text[j]) \o f[j + 1]]
  <1>1. n \in Nat
    BY TextFacts
  <1>2. \A j \in 1..n : step[j] \in 1..(n + 1 - j)
    BY <1>1
  <1>3. PICK f : Unfolds(f, n, piece, step, 1)
    <2> HIDE DEF n, piece, step
    <2> QED
      BY <1>1, <1>2, UnfoldingExists
  <1>4. f = [j \in 1..(n + 1) |-> IF j > n THEN <<>> ELSE Ahead(piece[j], f[j + step[j]])]
    BY <1>3 DEF Unfolds
  <1>5. ASSUME NEW j \in 1..(n + 1)
        PROVE  f[j] = IF j > n THEN <<>> ELSE Ahead(EncodeChar(text[j]), f[j + 1])
    <2>1. CASE j > n
      BY <1>4, <2>1
    <2>2. CASE ~(j > n)
      <3>1. j \in 1..n
        BY <1>1, <2>2
      <3>2. piece[j] = EncodeChar(text[j]) /\ step[j] = 1
        BY <3>1
      <3> HIDE DEF piece, step
      <3>3. f[j] = Ahead(piece[j], f[j + step[j]])
        BY <1>4, <2>2, Zenon
      <3> QED
        BY <2>2, <3>2, <3>3, Zenon
    <2> QED
      BY <2>1, <2>2
  <1>6. Obeys(f)
    <2>1. f = [j \in 1..(n + 1) |-> f[j]]
      BY <1>4, Zenon
    <2> QED
      BY <1>5, <2>1, Zenon DEF Ahead
  <1>7. Encoded(text) = CHOOSE g : Obeys(g)
    BY Zenon DEF Encoded
  <1>8. Obeys(Encoded(text))
    <2> HIDE DEF Obeys
    <2> QED
      BY <1>6, <1>7, Zenon
  <1> QED
    BY <1>8, Zenon DEF Ahead

\* What stands before a character does not change how it is decoded.
LEMMA DecodedBehind ==
  ASSUME NEW a \in Texts, NEW b \in Texts
  PROVE  \A i \in 1..(Len(b) + 1) : Decoded(a \o b)[Len(a) + i] = Decoded(b)[i]
  <1> DEFINE q == a \o b
             m == Len(a)
             n == Len(b)
             Same == {i \in 1..(n + 1) : Decoded(q)[m + i] = Decoded(b)[i]}
  <1>1. /\ m \in Nat /\ n \in Nat /\ q \in Texts /\ Len(q) = m + n
        /\ \A i \in 1..n : q[m + i] = b[i]
    BY Joined DEF Texts
  <1> HIDE DEF q, m, n
  <1>2. ASSUME NEW i \in 1..(n + 1)
        PROVE  /\ m + i \in 1..(Len(q) + 1) /\ (m + i > Len(q) <=> i > n)
               /\ (i <= n => i \in 1..n) /\ (i > n => i = n + 1)
    BY <1>1
  <1>3. n + 1 \in Same
    <2>1. n + 1 \in 1..(n + 1) /\ n + 1 > n
      BY <1>1
    <2>2. Decoded(q)[m + (n + 1)] = <<>>
      BY <1>1, <1>2, <2>1, DecodedEquation
    <2>3. Decoded(b)[n + 1] = <<>>
      BY <2>1, DecodedEquation DEF n
    <2> QED
      BY <2>1, <2>2, <2>3
  <1>4. ASSUME NEW i \in 1..n, \A j \in (i + 1)..(n + 1) : j \in Same PROVE i \in Same
    <2>1. i \in 1..(n + 1) /\ ~(i > n)
      BY <1>1
    <2>2. q[m + i] = b[i] /\ (m + i + 2 <= Len(q) <=> i + 2 <= n)
      BY <1>1
    <2>3. Takes(q, m + i) = Takes(b, i)
      BY <2>2 DEF Takes, n
    <2>4. Char(q, m + i) = Char(b, i)
      <3>1. CASE b[i] = "+"
        BY <2>2, <3>1 DEF Char
      <3>2. CASE b[i] # "+" /\ Takes(b, i) = 3
        <4>1. i + 2 <= n
          BY <3>2 DEF Takes, n
        <4>2. /\ i + 1 \in 1..n /\ i + 2 \in 1..n
              /\ m + i + 1 = m + (i + 1) /\ m + i + 2 = m + (i + 2)
          BY <1>1, <4>1
        <4>3. q[m + i + 1] = b[i + 1] /\ q[m + i + 2] = b[i + 2]
          BY <1>1, <4>2
        <4> QED
          BY <2>2, <2>3, <3>2, <4>3 DEF Char
      <3>3. CASE b[i] # "+" /\ Takes(b, i) # 3
        BY <2>2, <2>3, <3>3 DEF Char
      <3> QED
        BY <3>1, <3>2, <3>3
    <2>5. PICK t : t = Takes(b, i)
      OBVIOUS
    <2>6. t \in {1, 3} /\ i + t <= n + 1
      <3>1. i \in 1..(Len(b) + 1) /\ i <= Len(b)
        BY <1>1, <2>1 DEF n
      <3> QED
        BY <2>5, <3>1, DecodedEquation DEF n
    <2>7. i + t \in (i + 1)..(n + 1) /\ m + i + t = m + (i + t)
      BY <1>1, <2>6
    <2>8. Decoded(q)[m + (i + t)] = Decoded(b)[i + t]
      BY <1>4, <2>7
    <2>9. Decoded(b)[i] = Ahead(<<Char(b, i)>>, Decoded(b)[i + t])
      BY <2>1, <2>5, DecodedEquation DEF n
    <2>10. Decoded(q)[m + i] = Ahead(<<Char(q, m + i)>>, Decoded(q)[m + i + t])
      BY <1>1, <1>2, <2>1, <2>3, <2>5, DecodedEquation
    <2> QED
      BY <2>1, <2>4, <2>7, <2>8, <2>9, <2>10
  <1>5. \A i \in 1..(n + 1) : i \in Same
    <2> HIDE DEF Same
    <2> QED
      BY <1>1, <1>3, <1>4, Backwards
  <1> QED
    BY <1>5 DEF q, m, n

\* No "&" is in a text.
Whole(text) == \A i \in DOMAIN text : text[i] # "&"

LEMMA ShortTexts ==
  ASSUME NEW S, NEW c \in S, NEW d \in S, NEW e \in S
  PROVE  /\ <<c>> \in Seq(S) /\ <<c, d, e>> \in Seq(S) /\ <<c, d>> \in Seq(S)
         /\ c # "&" => Whole(<<c>>)
         /\ c # "&" /\ d # "&" /\ e # "&" => Whole(<<c, d, e>>)
  <1>1. <<c>> \in Seq(S) /\ <<c, d, e>> \in Seq(S) /\ <<c, d>> \in Seq(S)
    OBVIOUS
  <1>2. ASSUME c # "&" PROVE Whole(<<c>>)
    <2>1. DOMAIN <<c>> = {1}
      OBVIOUS
    <2>2. \A i \in {1} : <<c>>[i] # "&"
      BY <1>2
    <2> QED
      BY <2>1, <2>2 DEF Whole
  <1>3. ASSUME c # "&", d # "&", e # "&" PROVE Whole(<<c, d, e>>)
    <2>1. DOMAIN <<c, d, e>> = {1, 2, 3}
      OBVIOUS
    <2>2. \A i \in {1, 2, 3} : <<c, d, e>>[i] # "&"
      BY <1>3
    <2> QED
      BY <2>1, <2>2 DEF Whole
  <1> QED
    BY <1>1, <1>2, <1>3

\* What the browser's table says of a character.
LEMMA Table ==
  /\ "space" \in Characters /\ "&" \in Characters /\ "%" \in Characters /\ "+" \in Characters
  /\ \A t \in Ascii : t[1] # "space" /\ t[2] \in Characters \ {"&"} /\ t[3] \in Characters \ {"&"}
  /\ \A c \in {"&", "%", "+"} : \E t \in Ascii : t[1] = c
  /\ \A t, u \in Ascii : t[1] = u[1] <=> t[2] = u[2] /\ t[3] = u[3]
  <1>1. \A t \in Ascii : t \in (Characters \ {"space"}) \X (Characters \ {"&"}) \X (Characters \ {"&"})
    BY WebFormAssumption
  <1>2. \A t \in Ascii : t[1] # "space" /\ t[2] \in Characters \ {"&"} /\ t[3] \in Characters \ {"&"}
    BY <1>1
  <1> QED
    BY <1>2, WebFormAssumption

\* The code of a character is a text without "&".
LEMMA CodeOfChar ==
  ASSUME NEW c \in Characters
  PROVE  EncodeChar(c) \in Texts /\ Whole(EncodeChar(c))
  <1>1. CASE c = "space"
    <2>1. EncodeChar(c) = <<"+">>
      BY <1>1, Table DEF EncodeChar
    <2>2. "+" \in Characters /\ "+" # "&"
      BY Table
    <2>3. <<"+">> \in Texts /\ Whole(<<"+">>)
      BY <2>2, ShortTexts DEF Texts
    <2> QED
      BY <2>1, <2>3
  <1>2. CASE c # "space" /\ \E t \in Ascii : t[1] = c
    <2> DEFINE t == CHOOSE t \in Ascii : t[1] = c
    <2>1. t \in Ascii /\ t[1] = c
      BY <1>2
    <2>2. EncodeChar(c) = <<"%", t[2], t[3]>>
      BY <1>2 DEF EncodeChar
    <2> HIDE DEF t
    <2>3. t[2] \in Characters \ {"&"} /\ t[3] \in Characters \ {"&"}
      BY <2>1, Table
    <2>4. "%" \in Characters /\ "%" # "&"
      BY Table
    <2>5. PICK p, d, e \in Characters \ {"&"} : p = "%" /\ d = t[2] /\ e = t[3]
      BY <2>3, <2>4
    <2>6. <<p, d, e>> \in Texts /\ Whole(<<p, d, e>>)
      BY ShortTexts DEF Texts
    <2> QED
      BY <2>2, <2>5, <2>6
  <1>3. CASE c # "space" /\ ~\E t \in Ascii : t[1] = c
    <2>1. EncodeChar(c) = <<c>>
      BY <1>3 DEF EncodeChar
    <2>2. c # "&"
      BY <1>3, Table
    <2> QED
      BY <2>1, <2>2, ShortTexts DEF Texts
  <1> QED
    BY <1>1, <1>2, <1>3

\* The code of a character is decoded to it, whatever follows.
LEMMA CharDecoded ==
  ASSUME NEW c \in Characters, NEW rest \in Texts
  PROVE  url_decode(EncodeChar(c) \o rest) = Ahead(<<c>>, url_decode(rest))
  <1> DEFINE code == EncodeChar(c)
             q == code \o rest
  <1>1. code \in Texts
    BY CodeOfChar
  <1>2. /\ q \in Texts /\ Len(q) = Len(code) + Len(rest) /\ Len(rest) \in Nat
        /\ \A i \in 1..Len(code) : q[i] = code[i]
    BY <1>1, Joined DEF q, Texts
  <1>3. \A i \in 1..(Len(rest) + 1) : Decoded(q)[Len(code) + i] = Decoded(rest)[i]
    BY <1>1, DecodedBehind
  <1> HIDE DEF q, code
  <1>4. ASSUME Len(code) \in Nat \ {0}, Takes(q, 1) = Len(code), Char(q, 1) = c
        PROVE  url_decode(q) = Ahead(<<c>>, url_decode(rest))
    <2>1. 1 \in 1..(Len(q) + 1) /\ ~(1 > Len(q)) /\ 1 \in 1..(Len(rest) + 1)
      <3>1. ASSUME NEW m \in Nat \ {0}, NEW n \in Nat
            PROVE  1 \in 1..(m + n + 1) /\ ~(1 > m + n) /\ 1 \in 1..(n + 1)
        OBVIOUS
      <3> QED
        BY <1>2, <1>4, <3>1
    <2>2. Decoded(q)[1] = Ahead(<<c>>, Decoded(q)[1 + Len(code)])
      BY <1>2, <1>4, <2>1, DecodedEquation
    <2>3. 1 + Len(code) = Len(code) + 1
      BY <1>4
    <2>4. Decoded(q)[Len(code) + 1] = Decoded(rest)[1]
      BY <1>3, <2>1
    <2> QED
      BY <2>2, <2>3, <2>4 DEF url_decode
  <1>5. CASE c = "space"
    <2>1. code = <<"+">>
      BY <1>5, Table DEF EncodeChar, code
    <2>2. Len(code) = 1 /\ q[1] = "+"
      BY <1>2, <2>1
    <2>3. Takes(q, 1) = 1 /\ Char(q, 1) = c
      BY <1>5, <2>2 DEF Takes, Char
    <2> QED
      BY <1>4, <2>2, <2>3 DEF q, code
  <1>6. CASE c # "space" /\ \E t \in Ascii : t[1] = c
    <2> DEFINE t == CHOOSE t \in Ascii : t[1] = c
    <2>1. t \in Ascii /\ t[1] = c
      BY <1>6
    <2>2. code = <<"%", t[2], t[3]>>
      BY <1>6 DEF EncodeChar, code
    <2> HIDE DEF t
    <2>3. Len(code) = 3 /\ q[1] = "%" /\ q[1 + 1] = t[2] /\ q[1 + 2] = t[3]
      BY <1>2, <2>2
    <2>4. Takes(q, 1) = 3
      BY <1>2, <2>3 DEF Takes
    <2>5. HexChar(t[2], t[3]) = c
      <3>1. ASSUME NEW u \in Ascii, u[2] = t[2] /\ u[3] = t[3] PROVE u[1] = c
        BY <2>1, <3>1, Table
      <3> QED
        BY <2>1, <3>1 DEF HexChar
    <2>6. Char(q, 1) = c
      BY <2>3, <2>4, <2>5 DEF Char
    <2> QED
      BY <1>4, <2>3, <2>4, <2>6 DEF q, code
  <1>7. CASE c # "space" /\ ~\E t \in Ascii : t[1] = c
    <2>1. code = <<c>>
      BY <1>7 DEF EncodeChar, code
    <2>2. c # "%" /\ c # "+"
      BY <1>7, Table
    <2>3. Len(code) = 1 /\ q[1] = c
      BY <1>2, <2>1
    <2>4. Takes(q, 1) = 1
      BY <2>2, <2>3 DEF Takes
    <2>5. Char(q, 1) = c
      BY <2>2, <2>3, <2>4 DEF Char
    <2> QED
      BY <1>4, <2>3, <2>4, <2>5 DEF q, code
  <1> QED
    BY <1>5, <1>6, <1>7

\* A text is encoded as a text without "&".
LEMMA EncodedTexts ==
  ASSUME NEW text \in Texts
  PROVE  \A i \in 1..(Len(text) + 1) : Encoded(text)[i] \in Texts /\ Whole(Encoded(text)[i])
  <1> DEFINE n == Len(text)
             e == Encoded(text)
             Fine == {i \in 1..(n + 1) : e[i] \in Texts /\ Whole(e[i])}
  <1>1. n \in Nat /\ \A i \in 1..n : text[i] \in Characters
    BY TextFacts
  <1>2. \A i \in 1..(n + 1) : e[i] = IF i > n THEN <<>> ELSE Ahead(EncodeChar(text[i]), e[i + 1])
    BY EncodedEquation
  <1> HIDE DEF n, e
  <1>3. n + 1 \in Fine
    <2>1. n + 1 \in 1..(n + 1) /\ n + 1 > n
      BY <1>1
    <2>2. e[n + 1] = <<>>
      BY <1>2, <2>1
    <2>3. <<>> \in Texts /\ Whole(<<>>)
      BY DEF Texts, Whole
    <2> QED
      BY <2>1, <2>2, <2>3
  <1>4. ASSUME NEW i \in 1..n, \A j \in (i + 1)..(n + 1) : j \in Fine PROVE i \in Fine
    <2>1. i + 1 \in (i + 1)..(n + 1) /\ i \in 1..(n + 1) /\ ~(i > n)
      BY <1>1
    <2>2. e[i + 1] \in Texts /\ Whole(e[i + 1])
      BY <1>4, <2>1
    <2>3. PICK c \in Texts : c = EncodeChar(text[i]) /\ Whole(c)
      BY <1>1, CodeOfChar
    <2>4. PICK r \in Texts : r = e[i + 1] /\ Whole(r)
      BY <2>2
    <2>5. e[i] = c \o r
      BY <1>2, <2>1, <2>3, <2>4 DEF Ahead
    <2>6. Len(c) \in Nat /\ Len(r) \in Nat /\ DOMAIN c = 1..Len(c) /\ DOMAIN r = 1..Len(r)
      BY TextFacts
    <2>7. /\ c \o r \in Texts /\ Len(c \o r) = Len(c) + Len(r)
          /\ \A k \in 1..Len(c) : (c \o r)[k] = c[k]
          /\ \A k \in 1..Len(r) : (c \o r)[Len(c) + k] = r[k]
      BY Joined DEF Texts
    <2>8. Whole(c \o r)
      <3> DEFINE q == c \o r
      <3>1. DOMAIN q = 1..(Len(c) + Len(r))
        BY <2>7, TextFacts
      <3>2. /\ \A k \in 1..Len(c) : q[k] = c[k]
            /\ \A k \in 1..Len(r) : q[Len(c) + k] = r[k]
        BY <2>7
      <3> HIDE DEF q
      <3>3. ASSUME NEW k \in 1..(Len(c) + Len(r)) PROVE q[k] # "&"
        <4>1. CASE k \in 1..Len(c)
          BY <2>3, <2>6, <3>2, <4>1 DEF Whole
        <4>2. CASE k \notin 1..Len(c)
          <5>1. PICK l \in 1..Len(r) : k = Len(c) + l
            <6>1. k - Len(c) \in 1..Len(r) /\ k = Len(c) + (k - Len(c))
              BY <2>6, <4>2
            <6> QED
              BY <6>1
          <5> QED
            BY <2>4, <2>6, <3>2, <5>1 DEF Whole
        <4> QED
          BY <4>1, <4>2
      <3> QED
        BY <3>1, <3>3 DEF Whole, q
    <2> QED
      BY <2>1, <2>5, <2>7, <2>8
  <1>5. \A i \in 1..(n + 1) : i \in Fine
    <2> HIDE DEF Fine
    <2> QED
      BY <1>1, <1>3, <1>4, Backwards
  <1> QED
    BY <1>5 DEF n, e

\* What the browser encodes, url_decode decodes, whatever the characters.
LEMMA Decodes ==
  ASSUME NEW text \in Texts
  PROVE  /\ Encode(text) \in Texts /\ Whole(Encode(text))
         /\ url_decode(Encode(text)) = text
  <1> DEFINE n == Len(text)
             e == Encoded(text)
             Back == {i \in 1..(n + 1) : url_decode(e[i]) = SubSeq(text, i, n)}
  <1>1. n \in Nat /\ text \in Seq(Characters) /\ \A i \in 1..n : text[i] \in Characters
    BY TextFacts DEF Texts
  <1>2. \A i \in 1..(n + 1) : /\ e[i] = IF i > n THEN <<>> ELSE Ahead(EncodeChar(text[i]), e[i + 1])
                              /\ e[i] \in Texts /\ Whole(e[i])
    BY EncodedEquation, EncodedTexts
  <1>3. SubSeq(text, 1, n) = text
    BY <1>1, SubSeqFull
  <1>4. ASSUME NEW i \in 1..n PROVE SubSeq(text, i, n) = Ahead(<<text[i]>>, SubSeq(text, i + 1, n))
    <2>1. i \in 1..Len(text) /\ n \in i..Len(text)
      BY <1>1
    <2> QED
      BY <1>1, <2>1, SubSeqRecursiveFirst DEF Ahead
  <1>5. SubSeq(text, n + 1, n) = <<>>
    <2>1. n + 1 \in Int /\ n \in Int /\ n < n + 1
      BY <1>1
    <2> QED
      BY <2>1, SubSeqEmpty
  <1> HIDE DEF n, e
  <1>6. n + 1 \in Back
    <2>1. n + 1 \in 1..(n + 1) /\ n + 1 > n
      BY <1>1
    <2>2. e[n + 1] = <<>>
      BY <1>2, <2>1
    <2>3. url_decode(<<>>) = <<>>
      <3>1. <<>> \in Texts /\ 1 \in 1..(Len(<<>>) + 1) /\ 1 > Len(<<>>)
        BY DEF Texts
      <3> QED
        BY <3>1, DecodedEquation DEF url_decode
    <2> QED
      BY <1>5, <2>1, <2>2, <2>3
  <1>7. ASSUME NEW i \in 1..n, \A j \in (i + 1)..(n + 1) : j \in Back PROVE i \in Back
    <2>1. i + 1 \in (i + 1)..(n + 1) /\ i \in 1..(n + 1) /\ i + 1 \in 1..(n + 1) /\ ~(i > n)
      BY <1>1
    <2>2. url_decode(e[i + 1]) = SubSeq(text, i + 1, n)
      BY <1>7, <2>1
    <2>3. PICK r \in Texts : r = e[i + 1]
      BY <1>2, <2>1
    <2>4. e[i] = EncodeChar(text[i]) \o r
      BY <1>2, <2>1, <2>3 DEF Ahead
    <2>5. PICK c \in Characters : c = text[i]
      BY <1>1
    <2>6. url_decode(EncodeChar(c) \o r) = Ahead(<<c>>, url_decode(r))
      BY CharDecoded
    <2> QED
      BY <1>4, <2>1, <2>2, <2>3, <2>4, <2>5, <2>6
  <1>8. \A i \in 1..(n + 1) : i \in Back
    <2> HIDE DEF Back
    <2> QED
      BY <1>1, <1>6, <1>7, Backwards
  <1>9. 1 \in 1..(n + 1)
    BY <1>1
  <1> QED
    BY <1>2, <1>3, <1>8, <1>9 DEF Encode, e

-----------------------------------------------------------------------------
\* The queries are sequences of characters and names.
Symbols == Characters \cup Names

LEMMA SymbolFacts ==
  /\ "&" \in Symbols /\ "&" \notin Names
  /\ \A c \in Characters : c \in Symbols /\ c \notin Names
  /\ \A text \in Texts : text \in Seq(Symbols)
  <1>1. Characters \subseteq Symbols
    BY DEF Symbols
  <1>2. \A text \in Texts : text \in Seq(Symbols)
    BY <1>1, SeqMonotonic DEF Texts
  <1>3. \A c \in Characters : c \notin Names
    BY WebFormAssumption
  <1>4. "&" \in Characters
    BY Table
  <1> QED
    BY <1>1, <1>2, <1>3, <1>4

LEMMA LeastIs ==
  ASSUME NEW S \in SUBSET Nat, NEW x \in S, \A y \in S : x <= y
  PROVE  Min(S) = x
  <1>1. Min(S) \in S /\ \A y \in S : Min(S) <= y
    BY Least
  <1>2. Min(S) \in Nat /\ x \in Nat /\ Min(S) <= x /\ x <= Min(S)
    BY <1>1
  <1> QED
    BY <1>2

LEMMA OnlyOne ==
  ASSUME NEW x \in Nat
  PROVE  Min({x}) = x /\ Max({x}) = x
  <1>1. Min({x}) = x
    BY LeastIs
  <1>2. Max({x}) = x
    BY DEF Max
  <1> QED
    BY <1>1, <1>2

LEMMA Greatest ==
  ASSUME NEW n \in Nat, NEW S \in SUBSET (0..n), S # {}
  PROVE  Max(S) \in S
  <1> DEFINE T == {k \in 0..n : n - k \in S}
  <1>1. T # {}
    <2>1. PICK x \in 0..n : x \in S
      OBVIOUS
    <2>2. n - x \in 0..n /\ n - (n - x) = x
      OBVIOUS
    <2> QED
      BY <2>1, <2>2
  <1>2. PICK k \in 0..n : k \in T /\ \A y \in T : k <= y
    <2>1. T \in SUBSET (0..n)
      OBVIOUS
    <2> HIDE DEF T
    <2> QED
      BY <1>1, <2>1, FirstUpTo
  <1>3. PICK x \in S : x = n - k
    BY <1>2
  <1>4. ASSUME NEW y \in S PROVE x >= y
    <2>1. PICK l \in 0..n : l = n - y /\ n - l = y
      OBVIOUS
    <2>2. k <= l
      BY <1>2, <2>1
    <2> QED
      BY <1>3, <2>1, <2>2
  <1> QED
    BY <1>4 DEF Max

LEMMA BeginsAt ==
  ASSUME NEW query \in Seq(Symbols), NEW s \in 1..Len(query)
  PROVE  s \in Begins(query) <=> s = 1 \/ (s - 1 \in 1..Len(query) /\ query[s - 1] = "&")
  <1>1. Len(query) \in Nat /\ DOMAIN query = 1..Len(query)
    BY LenProperties
  <1>2. ASSUME s \in Begins(query), s # 1 PROVE s - 1 \in 1..Len(query) /\ query[s - 1] = "&"
    <2>1. PICK i \in 1..Len(query) : s = i + 1 /\ query[i] = "&"
      BY <1>1, <1>2 DEF Begins
    <2>2. s - 1 = i
      BY <1>1, <2>1
    <2> QED
      BY <2>1, <2>2
  <1>3. ASSUME s - 1 \in 1..Len(query), query[s - 1] = "&" PROVE s \in Begins(query)
    <2>1. PICK i \in 1..Len(query) : i = s - 1 /\ s = i + 1
      BY <1>1, <1>3
    <2> QED
      BY <1>1, <1>3, <2>1 DEF Begins
  <1>4. 1 \in Begins(query)
    BY DEF Begins
  <1> QED
    BY <1>2, <1>3, <1>4

\* The text of the last parameter is what is behind its name.
LEMMA LastParam ==
  ASSUME NEW a \in Seq(Symbols), Len(a) # 0, a[Len(a)] # "&", NEW text \in Texts, Whole(text),
         NEW name, Named(a \o text, name) = {Len(a)}
  PROVE  Param(a \o text, name) = text
  <1> DEFINE q == a \o text
             m == Len(a)
             n == Len(text)
  <1>1. text \in Seq(Symbols)
    BY SymbolFacts
  <1>2. /\ m \in Nat /\ n \in Nat /\ q \in Seq(Symbols) /\ Len(q) = m + n
        /\ \A i \in 1..m : q[i] = a[i]
        /\ \A i \in 1..n : q[m + i] = text[i]
    BY <1>1, Joined
  <1>3. DOMAIN q = 1..(m + n) /\ DOMAIN text = 1..n
    BY <1>1, <1>2, LenProperties
  <1>4. m # 0 /\ a[m] # "&" /\ Named(q, name) = {m}
    OBVIOUS
  <1> HIDE DEF q, m, n
  <1>6. Param(q, name) = TextAt(q, m)
    BY <1>2, <1>4, OnlyOne DEF Param
  <1>7. EndOf(q, m) = m + n
    <2>1. ASSUME NEW i \in 1..(m + n), i >= m PROVE q[i] # "&"
      <3>1. CASE i = m
        BY <1>2, <1>4, <3>1
      <3>2. CASE i # m
        <4>1. PICK k \in 1..n : i = m + k
          <5>1. i - m \in 1..n /\ i = m + (i - m)
            BY <1>2, <2>1, <3>2
          <5> QED
            BY <5>1
        <4> QED
          BY <1>2, <1>3, <4>1 DEF Whole
      <3> QED
        BY <3>1, <3>2
    <2>2. {i \in DOMAIN q : i >= m /\ q[i] = "&"} \cup {Len(q) + 1} = {m + n + 1}
      BY <1>2, <1>3, <2>1
    <2>3. EndOf(q, m) = Min({m + n + 1}) - 1
      BY <2>2 DEF EndOf
    <2>4. m + n + 1 \in Nat
      BY <1>2
    <2>5. Min({m + n + 1}) = m + n + 1
      BY <2>4, OnlyOne
    <2> QED
      BY <1>2, <2>3, <2>5
  <1>8. SubSeq(q, m + 1, m + n) = text
    <2>1. \A i \in (m + 1)..(m + n) : q[i] \in Symbols
      <3>1. ASSUME NEW i \in (m + 1)..(m + n) PROVE i \in 1..Len(q)
        BY <1>2
      <3> QED
        BY <1>2, <3>1, ElementOfSeq
    <2>2. PICK lo, hi \in Int : lo = m + 1 /\ hi = m + n
      BY <1>2
    <2> DEFINE t == SubSeq(q, lo, hi)
    <2>3. /\ t \in Seq(Symbols)
          /\ Len(t) = IF lo <= hi THEN hi - lo + 1 ELSE 0
          /\ \A i \in 1..(hi - lo + 1) : t[i] = q[lo + i - 1]
      <3>1. \A i \in lo..hi : q[i] \in Symbols
        BY <2>1, <2>2
      <3> QED
        BY <3>1, SubSeqProperties
    <2> HIDE DEF t
    <2>4. hi - lo + 1 = n /\ Len(t) = n
      BY <1>2, <2>2, <2>3
    <2>5. ASSUME NEW i \in 1..n PROVE t[i] = text[i]
      <3>1. lo + i - 1 = m + i
        BY <1>2, <2>2
      <3> QED
        BY <1>2, <2>3, <2>4, <3>1
    <2>6. Len(text) = Len(t) /\ \A i \in 1..Len(t) : t[i] = text[i]
      BY <2>4, <2>5 DEF n
    <2> QED
      BY <1>1, <2>2, <2>3, <2>6, SeqEqual DEF t
  <1> QED
    BY <1>6, <1>7, <1>8 DEF TextAt, q

\* One parameter of a query has this name.
Once(query, name) == \E s \in Nat : Named(query, name) = {s}

\* A query with one parameter.
LEMMA FirstParam ==
  ASSUME NEW name \in Names, NEW text \in Texts, Whole(text)
  PROVE  /\ <<name>> \o text \in Seq(Symbols) /\ Len(<<name>> \o text) # 0
         /\ Param(<<name>> \o text, name) = text
         /\ Once(<<name>> \o text, name)
         /\ \A other \in Names \ {name} : Named(<<name>> \o text, other) = {}
  <1> DEFINE q == <<name>> \o text
             n == Len(text)
  <1>1. /\ text \in Seq(Symbols) /\ <<name>> \in Seq(Symbols)
        /\ Len(<<name>>) = 1 /\ <<name>>[1] = name
    BY SymbolFacts, ShortTexts DEF Symbols
  <1>2. /\ n \in Nat /\ q \in Seq(Symbols) /\ Len(q) = 1 + n
        /\ q[1] = name
        /\ \A i \in 1..n : q[1 + i] = text[i]
    BY <1>1, Joined
  <1>3. \A i \in 1..n : text[i] \in Characters
    BY TextFacts
  <1> HIDE DEF q, n
  <1>4. ASSUME NEW i \in 1..(1 + n), i # 1 PROVE q[i] \notin Names
    <2>1. PICK k \in 1..n : i = 1 + k
      <3>1. i - 1 \in 1..n /\ i = 1 + (i - 1)
        BY <1>2, <1>4
      <3> QED
        BY <3>1
    <2> QED
      BY <1>2, <1>3, <2>1, SymbolFacts
  <1>5. \A s \in Begins(q) : s \in Nat \ {0}
    BY <1>2, LenProperties DEF Begins
  <1>6. ASSUME NEW other \in Names, NEW s PROVE s \in Named(q, other) <=> s = 1 /\ other = name
    <2>1. ASSUME s \in Named(q, other) PROVE s = 1 /\ other = name
      <3>1. s \in Begins(q) /\ s <= Len(q) /\ q[s] = other
        BY <2>1 DEF Named
      <3>2. s \in 1..(1 + n)
        BY <1>2, <1>5, <3>1
      <3> QED
        BY <1>2, <1>4, <3>1, <3>2
    <2>2. ASSUME s = 1, other = name PROVE s \in Named(q, other)
      <3>1. 1 \in Begins(q) /\ 1 <= Len(q)
        BY <1>2 DEF Begins
      <3> QED
        BY <1>2, <2>2, <3>1 DEF Named
    <2> QED
      BY <2>1, <2>2
  <1>7. Named(q, name) = {1}
    BY <1>6
  <1>8. name # "&"
    BY SymbolFacts
  <1>9. Param(q, name) = text
    <2>1. PICK a \in Seq(Symbols) : a = <<name>>
      BY <1>1
    <2>2. Len(a) # 0 /\ a[Len(a)] # "&" /\ Named(a \o text, name) = {Len(a)}
      BY <1>1, <1>7, <1>8, <2>1 DEF q
    <2> QED
      BY <2>1, <2>2, LastParam DEF q
  <1>10. \A other \in Names \ {name} : Named(q, other) = {}
    BY <1>6
  <1>11. Len(q) # 0
    BY <1>2
  <1> QED
    BY <1>2, <1>7, <1>9, <1>10, <1>11 DEF q, Once

\* The text at s is the same in a query that goes on with "&".
LEMMA SameText ==
  ASSUME NEW query \in Seq(Symbols), NEW q \in Seq(Symbols), Len(q) > Len(query),
         \A i \in 1..Len(query) : q[i] = query[i], q[Len(query) + 1] = "&",
         NEW s \in 1..Len(query)
  PROVE  TextAt(q, s) = TextAt(query, s)
  <1> DEFINE m == Len(query)
             l == Len(q)
             A == {i \in DOMAIN query : i >= s /\ query[i] = "&"} \cup {m + 1}
             B == {i \in DOMAIN q : i >= s /\ q[i] = "&"} \cup {l + 1}
  <1>1. m \in Nat /\ l \in Nat /\ l > m /\ DOMAIN query = 1..m /\ DOMAIN q = 1..l
    BY LenProperties
  <1>2. s \in 1..m /\ q[m + 1] = "&" /\ \A i \in 1..m : q[i] = query[i]
    OBVIOUS
  <1>3. A \in SUBSET Nat /\ A # {} /\ B \in SUBSET Nat
    BY <1>1
  <1>4. PICK x : x = Min(A) /\ x \in A /\ \A y \in A : x <= y
    <2> HIDE DEF A, m
    <2> QED
      BY <1>3, Least
  <1> HIDE DEF m, l
  <1>5. x \in 1..(m + 1) /\ x <= m + 1
    BY <1>1, <1>4
  <1>6. x \in B
    <2>1. CASE x = m + 1
      BY <1>1, <1>2, <2>1
    <2>2. CASE x # m + 1
      <3>1. x \in 1..m /\ x >= s /\ query[x] = "&"
        BY <1>1, <1>4, <2>2
      <3>2. x \in 1..l
        BY <1>1, <3>1
      <3> QED
        BY <1>1, <1>2, <3>1, <3>2
    <2> QED
      BY <2>1, <2>2
  <1>7. ASSUME NEW y \in B PROVE x <= y
    <2>1. CASE y \in 1..m
      <3>1. y # l + 1
        BY <1>1, <2>1
      <3>2. y >= s /\ q[y] = "&"
        BY <3>1
      <3>3. y \in A
        BY <1>1, <1>2, <2>1, <3>2
      <3> QED
        BY <1>4, <3>3
    <2>2. CASE y \notin 1..m
      <3>1. y \in Nat /\ y >= m + 1
        BY <1>1, <2>2
      <3> QED
        BY <1>1, <1>5, <3>1
    <2> QED
      BY <2>1, <2>2
  <1>8. Min(B) = x
    <2> HIDE DEF B
    <2> QED
      BY <1>3, <1>6, <1>7, LeastIs
  <1>9. EndOf(q, s) = x - 1 /\ EndOf(query, s) = x - 1
    BY <1>4, <1>8 DEF EndOf, m, l
  <1>10. PICK lo, hi \in Int : lo = s + 1 /\ hi = x - 1
    BY <1>2, <1>5
  <1>11. \A i \in lo..hi : q[i] = query[i] /\ q[i] \in Symbols /\ query[i] \in Symbols
    <2>1. ASSUME NEW i \in lo..hi PROVE i \in 1..m /\ i \in 1..l
      BY <1>1, <1>2, <1>5, <1>10
    <2> QED
      BY <1>2, <2>1, ElementOfSeq DEF m, l
  <1> DEFINE t == SubSeq(q, lo, hi)
             u == SubSeq(query, lo, hi)
  <1>12. /\ t \in Seq(Symbols) /\ u \in Seq(Symbols) /\ Len(t) = Len(u)
         /\ \A i \in 1..(hi - lo + 1) : t[i] = q[lo + i - 1] /\ u[i] = query[lo + i - 1]
         /\ Len(t) = IF lo <= hi THEN hi - lo + 1 ELSE 0
    BY <1>11, SubSeqProperties
  <1> HIDE DEF t, u
  <1>13. ASSUME NEW i \in 1..Len(t) PROVE t[i] = u[i]
    <2>1. i \in 1..(hi - lo + 1) /\ lo + i - 1 \in lo..hi
      BY <1>12
    <2> QED
      BY <1>11, <1>12, <2>1
  <1>14. t = u
    BY <1>12, <1>13, SeqEqual
  <1> QED
    BY <1>9, <1>10, <1>14 DEF TextAt, t, u

\* A further parameter is found, and does not change the others.
LEMMA FurtherParam ==
  ASSUME NEW query \in Seq(Symbols), Len(query) # 0, NEW name \in Names,
         NEW text \in Texts, Whole(text), Named(query, name) = {}
  PROVE  /\ With(query, name, text) \in Seq(Symbols) /\ Len(With(query, name, text)) # 0
         /\ Param(With(query, name, text), name) = text
         /\ Once(With(query, name, text), name)
         /\ \A other \in Names \ {name} :
              /\ Named(With(query, name, text), other) = Named(query, other)
              /\ Param(With(query, name, text), other) = Param(query, other)
  <1> DEFINE a == query \o <<"&", name>>
             q == a \o text
             m == Len(query)
             n == Len(text)
  <1>1. /\ text \in Seq(Symbols) /\ <<"&", name>> \in Seq(Symbols)
        /\ Len(<<"&", name>>) = 2 /\ <<"&", name>>[1] = "&" /\ <<"&", name>>[2] = name
    <2>1. "&" \in Symbols /\ name \in Symbols
      BY SymbolFacts DEF Symbols
    <2> QED
      BY <2>1, SymbolFacts, ShortTexts
  <1>2. /\ m \in Nat /\ a \in Seq(Symbols) /\ Len(a) = m + 2
        /\ \A i \in 1..m : a[i] = query[i]
        /\ a[m + 1] = "&" /\ a[m + 2] = name
    BY <1>1, Joined
  <1>3. /\ n \in Nat /\ q \in Seq(Symbols) /\ Len(q) = m + 2 + n
        /\ \A i \in 1..(m + 2) : q[i] = a[i]
        /\ \A i \in 1..n : q[m + 2 + i] = text[i]
    <2> HIDE DEF a
    <2>1. PICK b, t \in Seq(Symbols) : b = a /\ t = text
      BY <1>1, <1>2
    <2>2. /\ Len(t) \in Nat /\ b \o t \in Seq(Symbols) /\ Len(b \o t) = Len(b) + Len(t)
          /\ \A i \in 1..Len(b) : (b \o t)[i] = b[i]
          /\ \A i \in 1..Len(t) : (b \o t)[Len(b) + i] = t[i]
      BY Joined
    <2>3. q = b \o t
      BY <2>1
    <2> HIDE DEF q
    <2> QED
      BY <1>2, <2>1, <2>2, <2>3
  <1>4. \A i \in 1..n : text[i] \in Characters
    BY TextFacts
  <1>5. DOMAIN query = 1..m /\ DOMAIN q = 1..(m + 2 + n)
    BY <1>2, <1>3, LenProperties
  <1>6. m # 0 /\ Named(query, name) = {} /\ With(query, name, text) = q
    BY DEF With
  <1> HIDE DEF a, q, m, n
  <1>7. /\ \A i \in 1..m : q[i] = query[i]
        /\ q[m + 1] = "&" /\ q[m + 2] = name
        /\ \A i \in 1..(m + 2 + n) : i > m + 2 => q[i] \notin Names
    <2>1. ASSUME NEW i \in 1..(m + 2 + n), i > m + 2 PROVE q[i] \notin Names
      <3>1. PICK k \in 1..n : i = m + 2 + k
        <4>1. i - (m + 2) \in 1..n /\ i = m + 2 + (i - (m + 2))
          BY <1>2, <1>3, <2>1
        <4> QED
          BY <4>1
      <3> QED
        BY <1>3, <1>4, <3>1, SymbolFacts
    <2>2. \A i \in 1..m : i \in 1..(m + 2)
      BY <1>2
    <2>3. m + 1 \in 1..(m + 2) /\ m + 2 \in 1..(m + 2)
      BY <1>2
    <2> QED
      BY <1>2, <1>3, <2>1, <2>2, <2>3
  <1>8. \A s \in Begins(q) \cup Begins(query) : s \in Nat \ {0}
    BY <1>5, <1>2, <1>3 DEF Begins
  <1>9. ASSUME NEW s \in 1..m PROVE s \in Begins(q) <=> s \in Begins(query)
    <2>1. s \in 1..Len(q) /\ s \in 1..Len(query)
      BY <1>2, <1>3 DEF m
    <2>2. s \in Begins(q) <=> s = 1 \/ (s - 1 \in 1..(m + 2 + n) /\ q[s - 1] = "&")
      BY <1>3, <2>1, BeginsAt
    <2>3. s \in Begins(query) <=> s = 1 \/ (s - 1 \in 1..m /\ query[s - 1] = "&")
      BY <2>1, BeginsAt DEF m
    <2>4. s # 1 => s - 1 \in 1..m /\ s - 1 \in 1..(m + 2 + n)
      BY <1>2, <1>3
    <2> QED
      BY <1>7, <2>2, <2>3, <2>4
  <1>10. m + 2 \in Begins(q)
    <2>1. PICK s \in 1..Len(q) : s = m + 2 /\ s - 1 = m + 1 /\ s - 1 \in 1..Len(q)
      BY <1>2, <1>3
    <2>2. s \in Begins(q)
      BY <1>3, <1>7, <2>1, BeginsAt
    <2> QED
      BY <2>1, <2>2
  <1>11. ASSUME NEW other \in Names, NEW s
         PROVE  s \in Named(q, other) <=> s \in Named(query, other) \/ (s = m + 2 /\ other = name)
    <2>1. ASSUME s \in Named(q, other) PROVE s \in Named(query, other) \/ (s = m + 2 /\ other = name)
      <3>1. s \in Begins(q) /\ s <= Len(q) /\ q[s] = other
        BY <2>1 DEF Named
      <3>2. s \in 1..(m + 2 + n)
        BY <1>3, <1>8, <3>1
      <3>3. s # m + 1 /\ ~(s > m + 2)
        BY <1>7, <3>1, <3>2, SymbolFacts
      <3>4. s \in 1..m \/ s = m + 2
        BY <1>2, <3>2, <3>3
      <3>5. CASE s \in 1..m
        <4>1. s \in Begins(query) /\ query[s] = other /\ s <= Len(query)
          BY <1>2, <1>7, <1>9, <3>1, <3>5 DEF m
        <4> QED
          BY <4>1 DEF Named
      <3> QED
        BY <1>7, <3>1, <3>4, <3>5
    <2>2. ASSUME s \in Named(query, other) PROVE s \in Named(q, other)
      <3>1. s \in Begins(query) /\ s <= m /\ query[s] = other
        BY <2>2 DEF Named, m
      <3>2. s \in 1..m /\ s <= Len(q)
        BY <1>2, <1>3, <1>8, <3>1
      <3> QED
        BY <1>7, <1>9, <3>1, <3>2 DEF Named
    <2>3. ASSUME s = m + 2, other = name PROVE s \in Named(q, other)
      <3>1. m + 2 <= Len(q)
        BY <1>2, <1>3
      <3> QED
        BY <1>7, <1>10, <2>3, <3>1 DEF Named
    <2> QED
      BY <2>1, <2>2, <2>3
  <1>12. Param(q, name) = text
    <2>1. Named(q, name) = {m + 2}
      BY <1>6, <1>11
    <2>2. Len(a) # 0 /\ a[Len(a)] # "&" /\ Named(a \o text, name) = {Len(a)}
      BY <1>2, <2>1, SymbolFacts DEF q
    <2> QED
      BY <1>2, <2>2, LastParam DEF q
  <1>13. ASSUME NEW other \in Names \ {name} PROVE Named(q, other) = Named(query, other)
    BY <1>11, <1>13
  <1>14. ASSUME NEW other \in Names \ {name} PROVE Param(q, other) = Param(query, other)
    <2>1. CASE Named(query, other) = {}
      BY <1>13, <2>1 DEF Param
    <2>2. CASE Named(query, other) # {}
      <3>1. Named(query, other) \in SUBSET (0..m)
        BY <1>2, <1>8 DEF Named, m
      <3>2. PICK s : s = Max(Named(query, other)) /\ s \in Named(query, other)
        BY <1>2, <2>2, <3>1, Greatest
      <3>3. s \in 1..m
        BY <1>2, <1>8, <3>2 DEF Named, m
      <3>4. TextAt(q, s) = TextAt(query, s)
        BY <1>3, <1>6, <1>7, <3>3, SameText DEF m
      <3> QED
        BY <1>13, <2>2, <3>2, <3>4 DEF Param
    <2> QED
      BY <2>1, <2>2
  <1>15. Len(q) # 0
    BY <1>2, <1>3
  <1>16. Named(q, name) = {m + 2} /\ m + 2 \in Nat
    BY <1>2, <1>6, <1>11
  <1> QED
    BY <1>3, <1>6, <1>12, <1>13, <1>14, <1>15, <1>16 DEF Once

LEMMA NotMissing ==
  ASSUME NEW text \in Texts
  PROVE  text # Missing
  <1> SUFFICES ASSUME text = Missing PROVE FALSE
    OBVIOUS
  <1>1. Len(text) = 1 /\ text[1] = "missing"
    BY DEF Missing
  <1>2. text[1] \in Characters
    BY <1>1, TextFacts
  <1> QED
    BY <1>1, <1>2, WebFormAssumption

LEMMA FormTexts ==
  ASSUME NEW form \in Forms
  PROVE  /\ form \in [ssid : Texts, password : Texts, callsign : Texts, locator : Texts,
                      frequency : Texts]
         /\ Whole(form.frequency)
  BY HttpConnAssumption DEF Whole

\* What the parameters of a form's query are found to be.
LEMMA QueryParams ==
  ASSUME NEW form \in Forms
  PROVE  /\ Param(Query(form), "ssid=") = Encode(form.ssid)
         /\ Param(Query(form), "password=") = Encode(form.password)
         /\ Param(Query(form), "callsign=") = Encode(form.callsign)
         /\ Param(Query(form), "locator=") = Encode(form.locator)
         /\ Param(Query(form), "frequency=") = form.frequency
         /\ \A name \in TextNames : Once(Query(form), name)
  <1>1. /\ form.ssid \in Texts /\ form.password \in Texts /\ form.callsign \in Texts
        /\ form.locator \in Texts /\ form.frequency \in Texts /\ Whole(form.frequency)
    BY FormTexts
  <1>2. PICK s, p, c, l, f \in Texts :
          /\ s = Encode(form.ssid) /\ p = Encode(form.password) /\ c = Encode(form.callsign)
          /\ l = Encode(form.locator) /\ f = form.frequency
          /\ Whole(s) /\ Whole(p) /\ Whole(c) /\ Whole(l) /\ Whole(f)
    BY <1>1, Decodes
  <1>3. PICK q1 : q1 = <<"ssid=">> \o s
    OBVIOUS
  <1>4. PICK q2 : q2 = With(q1, "password=", p)
    OBVIOUS
  <1>5. PICK q3 : q3 = With(q2, "callsign=", c)
    OBVIOUS
  <1>6. PICK q4 : q4 = With(q3, "locator=", l)
    OBVIOUS
  <1>7. PICK q5 : q5 = With(q4, "frequency=", f)
    OBVIOUS
  <1>8. Query(form) = q5
    BY <1>2, <1>3, <1>4, <1>5, <1>6, <1>7 DEF Query
  <1>9. /\ "ssid=" \in Names /\ "password=" \in Names /\ "callsign=" \in Names
        /\ "locator=" \in Names /\ "frequency=" \in Names
        /\ "ssid=" # "password=" /\ "ssid=" # "callsign=" /\ "ssid=" # "locator="
        /\ "ssid=" # "frequency=" /\ "password=" # "callsign=" /\ "password=" # "locator="
        /\ "password=" # "frequency=" /\ "callsign=" # "locator=" /\ "callsign=" # "frequency="
        /\ "locator=" # "frequency="
    BY DEF Names, TextNames
  <1>10. /\ q1 \in Seq(Symbols) /\ Len(q1) # 0 /\ Param(q1, "ssid=") = s
         /\ Once(q1, "ssid=")
         /\ \A name \in Names \ {"ssid="} : Named(q1, name) = {}
    BY <1>2, <1>3, <1>9, FirstParam
  <1>11. /\ q2 \in Seq(Symbols) /\ Len(q2) # 0 /\ Param(q2, "password=") = p
         /\ Once(q2, "password=")
         /\ \A name \in Names \ {"password="} :
              Named(q2, name) = Named(q1, name) /\ Param(q2, name) = Param(q1, name)
    <2>1. Named(q1, "password=") = {}
      BY <1>9, <1>10
    <2> QED
      BY <1>2, <1>4, <1>9, <1>10, <2>1, FurtherParam
  <1>12. /\ q3 \in Seq(Symbols) /\ Len(q3) # 0 /\ Param(q3, "callsign=") = c
         /\ Once(q3, "callsign=")
         /\ \A name \in Names \ {"callsign="} :
              Named(q3, name) = Named(q2, name) /\ Param(q3, name) = Param(q2, name)
    <2>1. Named(q2, "callsign=") = {}
      BY <1>9, <1>10, <1>11
    <2> QED
      BY <1>2, <1>5, <1>9, <1>11, <2>1, FurtherParam
  <1>13. /\ q4 \in Seq(Symbols) /\ Len(q4) # 0 /\ Param(q4, "locator=") = l
         /\ Once(q4, "locator=")
         /\ \A name \in Names \ {"locator="} :
              Named(q4, name) = Named(q3, name) /\ Param(q4, name) = Param(q3, name)
    <2>1. Named(q3, "locator=") = {}
      BY <1>9, <1>10, <1>11, <1>12
    <2> QED
      BY <1>2, <1>6, <1>9, <1>12, <2>1, FurtherParam
  <1>14. /\ Param(q5, "frequency=") = f
         /\ \A name \in Names \ {"frequency="} : Named(q5, name) = Named(q4, name) /\ Param(q5, name) = Param(q4, name)
    <2>1. Named(q4, "frequency=") = {}
      BY <1>9, <1>10, <1>11, <1>12, <1>13
    <2> QED
      BY <1>2, <1>7, <1>9, <1>13, <2>1, FurtherParam
  <1>15. \A name \in TextNames : Once(q5, name)
    <2>1. Once(q5, "ssid=")
      BY <1>9, <1>10, <1>11, <1>12, <1>13, <1>14 DEF Once
    <2>2. Once(q5, "password=")
      BY <1>9, <1>11, <1>12, <1>13, <1>14 DEF Once
    <2>3. Once(q5, "callsign=")
      BY <1>9, <1>12, <1>13, <1>14 DEF Once
    <2>4. Once(q5, "locator=")
      BY <1>9, <1>13, <1>14 DEF Once
    <2> QED
      BY <2>1, <2>2, <2>3, <2>4 DEF TextNames
  <1> QED
    BY <1>2, <1>8, <1>9, <1>10, <1>11, <1>12, <1>13, <1>14, <1>15

\* What is decoded from a form's query is what was typed, and each text is there
\* once.
LEMMA FieldsRead ==
  ASSUME NEW form \in Forms
  PROVE  /\ \A name \in TextNames : Once(Query(form), name)
         /\ Field(Query(form), "ssid=") = form.ssid /\ form.ssid # Missing
         /\ Field(Query(form), "password=") = form.password /\ form.password # Missing
         /\ Field(Query(form), "callsign=") = form.callsign /\ form.callsign # Missing
         /\ Field(Query(form), "locator=") = form.locator /\ form.locator # Missing
  <1>1. form \in [ssid : Texts, password : Texts, callsign : Texts, locator : Texts,
                  frequency : Texts]
    BY FormTexts
  <1>2. ASSUME NEW text \in Texts, NEW name, Param(Query(form), name) = Encode(text)
        PROVE  Field(Query(form), name) = text /\ text # Missing
    <2>1. Encode(text) # Missing /\ text # Missing /\ url_decode(Encode(text)) = text
      BY Decodes, NotMissing
    <2> QED
      BY <1>2, <2>1 DEF Field
  <1> QED
    BY <1>1, <1>2, QueryParams

\* A form that fits overruns no array.
LEMMA FittingStays ==
  ASSUME NEW form \in Forms, Fits(form)
  PROVE  ~Overruns(Query(form))
  <1> DEFINE q == Query(form)
  <1>1. ASSUME NEW name \in TextNames, NEW text \in Texts, Field(q, name) = text, text # Missing,
               Len(text) < Room[name], NEW s \in Named(q, name)
        PROVE  ~(Len(url_decode(TextAt(q, s))) >= Room[name])
    <2>1. PICK at \in Nat : Named(q, name) = {at}
      BY FieldsRead DEF Once
    <2>2. Param(q, name) = TextAt(q, s)
      BY <1>1, <2>1, OnlyOne DEF Param
    <2>3. url_decode(TextAt(q, s)) = text
      BY <1>1, <2>2 DEF Field
    <2>4. Room[name] \in Nat /\ Len(text) \in Nat
      BY WebFormAssumption, TextFacts
    <2> QED
      BY <1>1, <2>3, <2>4
  <1>2. form.ssid \in Texts /\ form.password \in Texts /\ form.callsign \in Texts /\ form.locator \in Texts
    BY FormTexts
  <1>3. /\ Field(q, "ssid=") = form.ssid /\ form.ssid # Missing
        /\ Field(q, "password=") = form.password /\ form.password # Missing
        /\ Field(q, "callsign=") = form.callsign /\ form.callsign # Missing
        /\ Field(q, "locator=") = form.locator /\ form.locator # Missing
    BY FieldsRead
  <1>4. /\ Len(form.ssid) < Room["ssid="] /\ Len(form.password) < Room["password="]
        /\ Len(form.callsign) < Room["callsign="] /\ Len(form.locator) < Room["locator="]
    BY DEF Fits
  <1> HIDE DEF q
  <1>5. ASSUME NEW name \in TextNames, NEW s \in Named(q, name)
        PROVE  ~(Len(url_decode(TextAt(q, s))) >= Room[name])
    <2>1. CASE name = "ssid="
      BY <1>1, <1>2, <1>3, <1>4, <1>5, <2>1
    <2>2. CASE name = "password="
      BY <1>1, <1>2, <1>3, <1>4, <1>5, <2>2
    <2>3. CASE name = "callsign="
      BY <1>1, <1>2, <1>3, <1>4, <1>5, <2>3
    <2>4. CASE name = "locator="
      BY <1>1, <1>2, <1>3, <1>4, <1>5, <2>4
    <2> QED
      BY <2>1, <2>2, <2>3, <2>4 DEF TextNames
  <1> QED
    BY <1>5 DEF Overruns, q

\* A text that fits is not cut.
LEMMA Uncut ==
  ASSUME NEW text \in Texts, NEW size \in Nat, Len(text) < size
  PROVE  toupper(text, size) = [i \in DOMAIN text |-> Upper(text[i])]
  <1>1. DOMAIN text = 1..Len(text)
    BY TextFacts, LenProperties
  <1> QED
    BY <1>1 DEF toupper

\* tcp_server_recv reads from a form's query what was typed.
LEMMA QueryRead ==
  ASSUME NEW form \in Forms, Fits(form)
  PROVE  (IF Complete(Query(form)) THEN {Config(Query(form))} ELSE {}) = Entered[form]
  <1> DEFINE q == Query(form)
             call == [i \in DOMAIN form.callsign |-> Upper(form.callsign[i])]
             grid == [i \in DOMAIN form.locator |-> Upper(form.locator[i])]
  <1>1. form \in [ssid : Texts, password : Texts, callsign : Texts, locator : Texts,
                  frequency : Texts]
    BY FormTexts
  <1>2. /\ toupper(form.callsign, Room["callsign="]) = call
        /\ toupper(form.locator, Room["locator="]) = grid
    <2>1. Room["callsign="] \in Nat /\ Room["locator="] \in Nat
      BY WebFormAssumption DEF TextNames
    <2>2. Len(form.callsign) < Room["callsign="] /\ Len(form.locator) < Room["locator="]
      BY DEF Fits
    <2>3. form.callsign \in Texts /\ form.locator \in Texts
      BY <1>1
    <2> QED
      BY <2>1, <2>2, <2>3, Uncut
  <1>3. /\ Field(q, "ssid=") = form.ssid /\ Field(q, "password=") = form.password
        /\ Field(q, "callsign=") = form.callsign /\ Field(q, "locator=") = form.locator
        /\ form.ssid # Missing /\ form.password # Missing /\ form.callsign # Missing
        /\ form.locator # Missing
    BY FieldsRead
  <1>4. Param(q, "frequency=") = form.frequency /\ form.frequency # Missing
    BY <1>1, QueryParams, NotMissing
  <1> HIDE DEF q, call, grid
  <1>5. Complete(q) <=> ~\E name \in {"ssid", "password", "callsign", "locator"} : form[name] = <<>>
    <2>1. Complete(q) <=> form.ssid # <<>> /\ form.password # <<>> /\ form.callsign # <<>> /\ form.locator # <<>>
      BY <1>3 DEF Complete, TextNames
    <2>2. /\ form["ssid"] = form.ssid /\ form["password"] = form.password
          /\ form["callsign"] = form.callsign /\ form["locator"] = form.locator
      BY <1>1
    <2> QED
      BY <2>1, <2>2
  <1>6. Config(q) = [form EXCEPT !.callsign = call, !.locator = grid]
    <2>1. Config(q) = [ssid |-> form.ssid, password |-> form.password, callsign |-> call,
                       locator |-> grid, frequency |-> form.frequency]
      BY <1>2, <1>3, <1>4 DEF Config
    <2>2. ASSUME NEW x, NEW y
          PROVE  [form EXCEPT !.callsign = x, !.locator = y]
                 = [ssid |-> form.ssid, password |-> form.password, callsign |-> x, locator |-> y,
                    frequency |-> form.frequency]
      <3> DEFINE g == [form EXCEPT !.callsign = x, !.locator = y]
                 fields == {"ssid", "password", "callsign", "locator", "frequency"}
      <3>1. DOMAIN form = fields
        BY <1>1
      <3>2. g = [i \in fields |-> IF i = "locator" THEN y ELSE IF i = "callsign" THEN x ELSE form[i]]
        BY <3>1
      <3> HIDE DEF g
      <3> QED
        BY <3>2 DEF g
    <2> QED
      BY <2>1, <2>2, Zenon
  <1>7. [form EXCEPT !.callsign = [i \in DOMAIN @ |-> Upper(@[i])],
                     !.locator  = [i \in DOMAIN @ |-> Upper(@[i])]]
        = [form EXCEPT !.callsign = call, !.locator = grid]
    BY <1>1 DEF call, grid
  <1> QED
    BY <1>5, <1>6, <1>7 DEF Entered, q

-----------------------------------------------------------------------------
\* What the last callback did to a form is what its query says, and its texts
\* did not overrun unless it does.
SavedInv ==
  /\ last.kind = "page" =>
       \/ last.page = "setup"
       \/ last.query \in Queries /\ (last.config = Saves[last.query] \/ Overruns(last.query))
  /\ last.kind = "overrun" => Overruns(last.query)

LEMMA SavedStep ==
  ASSUME SavedInv, [Next]_vars
  PROVE  SavedInv'
  <1>1. ASSUME last' = Nothing \/ (last'.kind # "page" /\ last'.kind # "overrun") PROVE SavedInv'
    BY <1>1 DEF SavedInv, Nothing
  <1>2. ASSUME NEW c \in Conns, NEW b \in Blocks, tcp_server_accept(c, b) PROVE SavedInv'
    BY <1>1, <1>2 DEF tcp_server_accept
  <1>3. CASE Refuse
    BY <1>1, <1>3 DEF Refuse
  <1>4. ASSUME NEW c \in Conns, NEW n \in 1..queued[c], tcp_server_sent(c, n) PROVE SavedInv'
    <2>1. \/ last' = Nothing
          \/ \E u, r : last' = [kind |-> "all data sent", unsent |-> u, requests |-> r]
      BY <1>4, Zenon DEF tcp_server_sent
    <2>2. ASSUME NEW u, NEW r
          PROVE  /\ [kind |-> "all data sent", unsent |-> u, requests |-> r].kind # "page"
                 /\ [kind |-> "all data sent", unsent |-> u, requests |-> r].kind # "overrun"
      BY Zenon
    <2>3. last' = Nothing \/ (last'.kind # "page" /\ last'.kind # "overrun")
      BY <2>1, <2>2, Zenon
    <2> QED
      BY <1>1, <2>3, Zenon
  <1>5. ASSUME NEW c \in Conns, NEW request \in {Other} \cup Queries, NEW answer \in Answers(request),
               NEW head \in BOOLEAN, NEW body \in BOOLEAN, tcp_server_recv(c, answer, head, body)
        PROVE  SavedInv'
    <2>1. last' = answer
      BY <1>5 DEF tcp_server_recv
    <2>2. /\ answer.kind = "page"
          /\ \/ answer.page = "setup"
             \/ /\ request \in Queries /\ answer.query = request
                /\ answer.config = Saves[request] \/ Overruns(request)
      BY AnswerIsPage DEF Overrunning
    <2> QED
      BY <2>1, <2>2 DEF SavedInv
  <1>6. ASSUME NEW c \in Conns, RecvEnd(c) \/ tcp_server_poll(c) \/ Release(c) PROVE SavedInv'
    BY <1>1, <1>6 DEF RecvEnd, tcp_server_poll, Release
  <1>7. ASSUME NEW c \in Conns, NEW err \in {"ERR_ABRT", "ERR_RST"}, tcp_server_err(c, err)
        PROVE  SavedInv'
    BY <1>1, <1>7 DEF tcp_server_err
  <1>8. CASE UNCHANGED vars
    BY <1>8 DEF vars, SavedInv
  <1>9. ASSUME NEW c \in Conns, NEW query \in Queries, RecvOverrun(c, query) PROVE SavedInv'
    BY <1>9 DEF RecvOverrun, Overrunning, SavedInv
  <1> QED
    BY <1>2, <1>3, <1>4, <1>5, <1>6, <1>7, <1>8, <1>9 DEF Next

(***************************************************************************)
(* Of every form whose texts fit their arrays, for arrays of any size, the *)
(* configuration that tcp_server_recv hands to wifi_setup_save_config is   *)
(* what was typed, none is handed over if it is incomplete, and no array   *)
(* is overrun.                                                             *)
(***************************************************************************)
THEOREM FormsAreSaved == Spec => []SavedAsEntered
  <1>1. Init => SavedInv
    BY DEF Init, Nothing, SavedInv
  <1>2. SavedInv /\ [Next]_vars => SavedInv'
    BY SavedStep
  <1>3. SavedInv => SavedAsEntered
    <2> SUFFICES ASSUME SavedInv, NEW form \in Forms, Fits(form)
                 PROVE  /\ last.kind = "page" /\ last.page # "setup" /\ last.query = Queried[form] =>
                             last.config = Entered[form]
                        /\ last.kind = "overrun" => last.query # Queried[form]
      BY DEF SavedAsEntered
    <2>1. Queried[form] = Query(form) /\ ~Overruns(Queried[form])
      BY FittingStays DEF Queried
    <2>2. ASSUME last.kind = "page", last.page # "setup", last.query = Queried[form]
          PROVE  last.config = Entered[form]
      <3>1. last.query \in Queries /\ last.config = Saves[last.query]
        BY <2>1, <2>2 DEF SavedInv
      <3>2. last.config = IF Complete(Query(form)) THEN {Config(Query(form))} ELSE {}
        BY <2>1, <2>2, <3>1 DEF Saves
      <3> QED
        BY <3>2, QueryRead
    <2>3. ASSUME last.kind = "overrun" PROVE last.query # Queried[form]
      BY <2>1, <2>3 DEF SavedInv
    <2> QED
      BY <2>2, <2>3
  <1> QED
    BY <1>1, <1>2, <1>3, PTL DEF Spec
=============================================================================
