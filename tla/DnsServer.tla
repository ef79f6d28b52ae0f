------------------------------ MODULE DnsServer ------------------------------
(***************************************************************************)
(* The DNS server of the set-up mode, dnsserver/dnsserver.c: every query   *)
(* is answered, in the buffer it was received in, with the server's own    *)
(* address.  A message is what the code looks at: its size, its flags, and *)
(* the bytes of the question that the walk over the name reads, which are  *)
(* the lengths of the labels up to the zero that ends the name.            *)
(***************************************************************************)
EXTENDS Naturals, SequencesExt

MAX_DNS_MSG_SIZE == 300
HeaderSize == 12   \* sizeof(dns_header_t)
MaxName == 255
MaxLabel == 63
TypeAndClass == 4  \* QTYPE and QCLASS
RecordSize == 16   \* the answer: a pointer to the name, and the address

CONSTANT Messages

ASSUME DnsServerAssumption ==
  \A m \in Messages :
    /\ m.size \in Nat /\ m.response \in BOOLEAN /\ m.opcode \in 0..15 /\ m.questions \in Nat
    /\ m.labels \in Seq(0..255)

VARIABLE dns  \* history: the last message and its reply

NoReply == [size |-> 0]
NoQuery == [size |-> 0, response |-> TRUE, opcode |-> 0, questions |-> 0, labels |-> <<>>]

\* Where each label ends, from the start of the name: it takes the byte with
\* its length, and that many more.
Ends(labels) ==
  LET end[i \in 0..Len(labels)] == IF i = 0 THEN 0 ELSE end[i - 1] + labels[i] + 1 IN end
Span(labels) == Ends(labels)[Len(labels)]

\* Where label i begins, from the start of the message.
Offset(m, i) == HeaderSize + Ends(m.labels)[i - 1]

\* pbuf_copy_partial keeps what fits.
Received(m) == Min({m.size, MAX_DNS_MSG_SIZE})

\* The label at which the walk ends: it is past the end of the message, it
\* ends the name, or it is too long.
StopsAt(m) ==
  Min({i \in DOMAIN m.labels :
         Offset(m, i) >= Received(m) \/ m.labels[i] = 0 \/ m.labels[i] > MaxLabel}
      \cup {Len(m.labels) + 1})
Runs(m) == Offset(m, StopsAt(m)) >= Received(m)

\* question_ptr - question_ptr_start after the loop, if it was not left.
Question(m) == Offset(m, StopsAt(m)) - HeaderSize + (IF Runs(m) THEN 0 ELSE 1)
InvalidLabel(m) == ~Runs(m) /\ m.labels[StopsAt(m)] > MaxLabel

\* Mutant: the terminating zero is not counted in the limit.
AcceptedShort(m) ==
  /\ Received(m) >= HeaderSize /\ ~m.response /\ m.opcode = 0
  /\ m.questions >= 1
  /\ ~InvalidLabel(m) /\ Question(m) < MaxName

\* Mutant: the length of the question is not tested.
AcceptedAnyLength(m) ==
  /\ Received(m) >= HeaderSize /\ ~m.response /\ m.opcode = 0
  /\ m.questions >= 1
  /\ ~InvalidLabel(m)

\* No test led to ignore_request.
Accepted(m) ==
  /\ Received(m) >= HeaderSize /\ ~m.response /\ m.opcode = 0
  /\ m.questions >= 1
  /\ ~InvalidLabel(m) /\ Question(m) <= MaxName

\* The reply keeps the question and ends with one answer; records that
\* followed the question are overwritten and no longer counted.
Reply(m) ==
  [size |-> HeaderSize + Question(m) + TypeAndClass + RecordSize,
   answer |-> HeaderSize + Question(m) + TypeAndClass, questions |-> 1, answers |-> 1, additional |-> 0]

dns_server_process(m) ==
  dns' = [query |-> m, reply |-> IF Accepted(m) THEN Reply(m) ELSE NoReply]

-----------------------------------------------------------------------------
(***************************************************************************)
(* Whatever is received, the reply is built within dns_msg                 *)
(* (dnsserver.c:107): a name that runs past the end of the message and the *)
(* answer behind it stay below its 300 bytes.                              *)
(***************************************************************************)
ReplyFits == dns.reply.size <= MAX_DNS_MSG_SIZE

\* A standard query by RFC 1035, with or without additional records.
LegalQuery(m) ==
  /\ ~m.response /\ m.opcode = 0 /\ m.questions = 1
  /\ m.labels # <<>> /\ Last(m.labels) = 0
  /\ \A i \in 1..(Len(m.labels) - 1) : m.labels[i] \in 1..63
  /\ Span(m.labels) <= 255
  /\ m.size >= HeaderSize + Span(m.labels) + TypeAndClass

(***************************************************************************)
(* Every legal query is answered, also for the longest name and with       *)
(* records behind the question, and the answer begins where a resolver     *)
(* that reads the name and its type and class will look for it.            *)
(***************************************************************************)
LegalAnswered ==
  LegalQuery(dns.query) =>
    /\ dns.reply # NoReply
    /\ dns.reply.answer = HeaderSize + Span(dns.query.labels) + TypeAndClass
    /\ dns.reply.size = dns.reply.answer + RecordSize
=============================================================================
