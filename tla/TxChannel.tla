------------------------------ MODULE TxChannel ------------------------------
(***************************************************************************)
(* The transmit FIFO of TxChannel/TxChannel.c between its two users: the   *)
(* main loop, which fills it in WSPRbeaconSendPacket, and the timer        *)
(* interrupt TxChannelISR, which pops one symbol per period and keys it on *)
(* the oscillator.  Both run on core 0, so the handler is atomic for the   *)
(* main loop, but it may run between any two stores of the main loop; no   *)
(* lock and no interrupt mask protects the FIFO.                           *)
(*                                                                         *)
(* TxChannelClear is one C statement, _ix_input = _ix_output = 0, that     *)
(* writes two adjacent bytes.  The fields are not volatile, so the build   *)
(* may store the right one first, the left one first, or both at once; the *)
(* model lets every call choose.                                           *)
(***************************************************************************)
EXTENDS Naturals, Sequences

CONSTANTS
  Tones,        \* the FSK tones, 0..7 in FT8
  IxModulus,    \* the indices are uint8_t: 256
  SymbolCount,  \* FT8_SYMBOL_COUNT: 79
  Packets,      \* the symbol arrays WSPRbeaconCreatePacket may produce
  MaxTicks      \* timer interrupts that can hit one WSPRbeaconSendPacket

\* In what order TxChannelClear stores its two zeros.
Orders == {"output_first", "input_first", "both"}

ASSUME TxChannelAssumption ==
  /\ 0 \in Tones
  /\ IxModulus \in Nat
  /\ SymbolCount \in Nat \ {0}
  /\ MaxTicks \in Nat
  /\ MaxTicks <= SymbolCount
  /\ SymbolCount + MaxTicks < IxModulus
  /\ Packets \subseteq [0..(SymbolCount - 1) -> Tones]

VARIABLES
  ix_input, ix_output,  \* the two indices of the FIFO
  pbyte_buffer,         \* its IxModulus bytes
  outbuf,               \* the beacon's _pu8_outbuf
  tone,                 \* the tone given to PioDCOSetFreq last
  pc,                   \* where the main loop is
  copied,               \* symbols memcpy has copied
  ticks,                \* timer interrupts since TxChannelClear began
  packet, lost, emitted, \* history: the packet committed last, how many of its
                         \* first symbols were skipped, and what was keyed since
  stored, between        \* history: the order of the last TxChannelClear, and
                         \* the interrupts that hit it between its two stores

fifo    == <<ix_input, ix_output, pbyte_buffer>>
history == <<packet, lost, emitted, stored, between>>
vars    == <<fifo, outbuf, tone, pc, copied, ticks, history>>

\* Between the two stores of TxChannelClear, and between the first of them
\* and the store that ends WSPRbeaconSendPacket.
Clearing == pc \in {"clear_input", "clear_output"}
Sending  == pc \in {"clear_input", "clear_output", "memcpy", "commit"}

Zeros(n) == [i \in 0..(n - 1) |-> 0]

\* TxChannelInit: calloc zeroes the context, WSPRbeaconInit its own.
Init ==
  /\ ix_input = 0
  /\ ix_output = 0
  /\ pbyte_buffer = Zeros(IxModulus)
  /\ outbuf = Zeros(SymbolCount)
  /\ tone = 0
  /\ pc = "idle"
  /\ copied = 0
  /\ ticks = 0
  /\ packet = Zeros(SymbolCount)
  /\ lost = 0
  /\ emitted = << >>
  /\ stored = "both" /\ between = 0

\* The number of symbols left, in uint8_t arithmetic.
TxChannelPending == (IxModulus + ix_input - ix_output) % IxModulus

\* Mutant: the read index is incremented before the byte is read.
PreIncrement ==
  /\ ix_input # ix_output
  /\ ix_output' = (ix_output + 1) % IxModulus
  /\ tone' = pbyte_buffer[ix_output']
  /\ emitted' = IF Sending THEN emitted ELSE Append(emitted, tone')

\* Mutant: the last symbol is left in the FIFO.
LeaveTheLast ==
  /\ TxChannelPending > 1
  /\ tone' = pbyte_buffer[ix_output]
  /\ ix_output' = (ix_output + 1) % IxModulus
  /\ emitted' = IF Sending THEN emitted ELSE Append(emitted, tone')

TxChannelPop ==
  /\ ix_input # ix_output
  /\ tone' = pbyte_buffer[ix_output]
  /\ ix_output' = (ix_output + 1) % IxModulus
  /\ emitted' = IF Sending THEN emitted ELSE Append(emitted, tone')

TxChannelISR ==
  /\ Sending => ticks < MaxTicks
  /\ ticks' = IF Sending THEN ticks + 1 ELSE ticks
  /\ between' = IF Clearing THEN between + 1 ELSE between
  /\ \/ TxChannelPop
     \/ /\ ix_input = ix_output
        /\ UNCHANGED <<tone, ix_output, emitted>>
  /\ UNCHANGED <<ix_input, pbyte_buffer, outbuf, pc, copied, packet, lost, stored>>

\* The caller builds the next packet whenever it likes, the FIFO empty or not.
WSPRbeaconCreatePacket(p) ==
  /\ pc = "idle"
  /\ pc' = "created"
  /\ outbuf' = p
  /\ UNCHANGED <<fifo, tone, copied, ticks, history>>

\* Mutant: the FIFO is "emptied" by moving the write index only.
ClearInputOnly(order) ==
  /\ pc = "created"
  /\ ix_input' = 0
  /\ pc' = "memcpy"
  /\ copied' = 0
  /\ ticks' = 0
  /\ stored' = order /\ between' = 0
  /\ UNCHANGED <<ix_output, pbyte_buffer, outbuf, tone, packet, lost, emitted>>

\* WSPRbeaconSendPacket calls TxChannelClear: its first store, or both.
TxChannelClear(order) ==
  /\ pc = "created"
  /\ ix_output' = IF order = "input_first" THEN ix_output ELSE 0
  /\ ix_input'  = IF order = "output_first" THEN ix_input ELSE 0
  /\ pc' = CASE order = "output_first" -> "clear_input"
             [] order = "input_first"  -> "clear_output"
             [] OTHER                  -> "memcpy"
  /\ copied' = 0
  /\ ticks' = 0
  /\ stored' = order /\ between' = 0
  /\ UNCHANGED <<pbyte_buffer, outbuf, tone, packet, lost, emitted>>

\* The other store of TxChannelClear.
ClearInput ==
  /\ pc = "clear_input"
  /\ ix_input' = 0
  /\ pc' = "memcpy"
  /\ UNCHANGED <<ix_output, pbyte_buffer, outbuf, tone, copied, ticks, history>>

\* Mutant: the read index is not cleared.
KeepOutput ==
  /\ pc = "clear_output"
  /\ pc' = "memcpy"
  /\ UNCHANGED <<fifo, outbuf, tone, copied, ticks, history>>

ClearOutput ==
  /\ pc = "clear_output"
  /\ ix_output' = 0
  /\ pc' = "memcpy"
  /\ UNCHANGED <<ix_input, pbyte_buffer, outbuf, tone, copied, ticks, history>>

\* Mutant: each symbol is pushed, visible to the handler at once.
PushEach ==
  /\ pc = "memcpy"
  /\ pbyte_buffer' = [pbyte_buffer EXCEPT ![copied] = outbuf[copied]]
  /\ copied' = copied + 1
  /\ ix_input' = copied'
  /\ pc' = IF copied' = SymbolCount THEN "commit" ELSE "memcpy"
  /\ UNCHANGED <<ix_output, outbuf, tone, ticks, history>>

Memcpy ==
  /\ pc = "memcpy"
  /\ pbyte_buffer' = [pbyte_buffer EXCEPT ![copied] = outbuf[copied]]
  /\ copied' = copied + 1
  /\ pc' = IF copied' = SymbolCount THEN "commit" ELSE "memcpy"
  /\ UNCHANGED <<ix_input, ix_output, outbuf, tone, ticks, history>>

\* Mutant: the index of the last symbol instead of their number.
CommitOneShort ==
  /\ pc = "commit"
  /\ ix_input' = SymbolCount - 1
  /\ pc' = "idle"
  /\ packet' = outbuf
  /\ lost' = ix_output
  /\ emitted' = << >>
  /\ UNCHANGED <<ix_output, pbyte_buffer, outbuf, tone, copied, ticks, stored, between>>

\* _ix_input = FT8_SYMBOL_COUNT makes the packet visible to the handler.
Commit ==
  /\ pc = "commit"
  /\ ix_input' = SymbolCount
  /\ pc' = "idle"
  /\ packet' = outbuf
  /\ lost' = ix_output
  /\ emitted' = << >>
  /\ UNCHANGED <<ix_output, pbyte_buffer, outbuf, tone, copied, ticks, stored, between>>

WSPRbeaconSendPacket ==
  \/ \E order \in Orders : TxChannelClear(order)
  \/ ClearInput
  \/ ClearOutput
  \/ Memcpy
  \/ Commit

Next ==
  \/ TxChannelISR
  \/ \E p \in Packets : WSPRbeaconCreatePacket(p)
  \/ WSPRbeaconSendPacket

\* The timer keeps interrupting, and a started WSPRbeaconSendPacket returns.
Fairness == WF_vars(TxChannelISR) /\ WF_vars(WSPRbeaconSendPacket)

Spec == Init /\ [][Next]_vars /\ Fairness

-----------------------------------------------------------------------------
TypeOK ==
  /\ ix_input \in 0..(IxModulus - 1)
  /\ ix_output \in 0..(IxModulus - 1)
  /\ pbyte_buffer \in [0..(IxModulus - 1) -> Tones]
  /\ outbuf \in [0..(SymbolCount - 1) -> Tones]
  /\ tone \in Tones
  /\ pc \in {"idle", "created", "clear_input", "clear_output", "memcpy", "commit"}
  /\ copied \in 0..SymbolCount
  /\ ticks \in 0..MaxTicks
  /\ packet \in [0..(SymbolCount - 1) -> Tones]
  /\ lost \in 0..SymbolCount
  /\ emitted \in Seq(Tones)
  /\ stored \in Orders /\ between \in 0..MaxTicks

(***************************************************************************)
(* What TxChannelISR keyed since the commit is the packet, in order,       *)
(* without a gap, a repeat or a symbol of an older packet, from the first  *)
(* symbol that was not lost; and TxChannelPending is what is left of it.   *)
(***************************************************************************)
InOrder ==
  ~Sending =>
    /\ \A i \in 1..Len(emitted) : emitted[i] = packet[lost + i - 1]
    /\ ix_input = SymbolCount =>
         lost + Len(emitted) + TxChannelPending = SymbolCount

(***************************************************************************)
(* A packet loses no more symbols than timer interrupts have hit its       *)
(* hand-over, and none when no interrupt came between the two stores of    *)
(* TxChannelClear: interrupts during memcpy alone cost nothing.            *)
(***************************************************************************)
LossBounded == ~Sending => lost <= ticks /\ (between = 0 => lost = 0)

(***************************************************************************)
(* When TxChannelClear did not store the read index first, the packet is   *)
(* keyed from its first symbol on, whatever interrupts hit the hand-over.  *)
(***************************************************************************)
NoLossUnlessOutputFirst == ~Sending /\ stored # "output_first" => lost = 0

(***************************************************************************)
(* When TxChannelClear stored both indices at once, the handler keys       *)
(* nothing while WSPRbeaconSendPacket rewrites the buffer: it never reads  *)
(* a byte that memcpy is about to change.                                  *)
(***************************************************************************)
QuietWhileLoading ==
  [][stored = "both" /\ Sending => UNCHANGED <<tone, ix_output>>]_vars

(***************************************************************************)
(* A committed packet is keyed to its last symbol, unless the caller       *)
(* replaces it first.                                                      *)
(***************************************************************************)
Drains ==
  (pc = "idle" /\ ix_input = SymbolCount)
     ~> (pc # "idle" \/ lost + Len(emitted) = SymbolCount)

-----------------------------------------------------------------------------
\* The packets as sequences, and the FIFO contents as the abstract queue.
AsSeq(p) == [i \in 1..SymbolCount |-> p[i - 1]]
PacketSeqs == {AsSeq(p) : p \in Packets}

Stream == INSTANCE SymbolStream WITH
  Packets <- PacketSeqs,
  queue   <- IF Sending THEN << >>
             ELSE [i \in 1..(ix_input - ix_output) |-> pbyte_buffer[ix_output + i - 1]],
  loading <- Sending,
  strays  <- IF Sending THEN ticks ELSE 0

\* The channel implements the abstract stream of symbols.
ImplementsStream == Stream!Spec
=============================================================================
