------------------------------- MODULE TxSlot -------------------------------
(***************************************************************************)
(* The transmission loop of main.c in time, with the symbol timer and the  *)
(* oscillator.  Time is discrete: one unit of the model stands for some    *)
(* milliseconds, and all durations are given in that unit.  The code       *)
(* between two sleeps takes no time; a sleep lasts as long as it says or   *)
(* up to Late units longer (interrupts, printf, the time to encode).       *)
(*                                                                         *)
(* The FIFO is the abstract stream of module SymbolStream, reduced to the  *)
(* number of symbols left, which is all the loop reads of it.              *)
(***************************************************************************)
EXTENDS Naturals

CONSTANTS
  Second,       \* units in a second
  SlotSeconds,  \* a slot is 15 seconds
  Windows,      \* slots in a minute: 4
  SymbolCount,  \* FT8_SYMBOL_COUNT: 79
  Period,       \* the symbol period of TxChannelInit, 159 ms
  Lead,         \* from PioDCOStart to WSPRbeaconSendPacket, 100 ms
  Poll,         \* the sleeps of the loops, 100 ms
  Tail,         \* from an empty FIFO to PioDCOStop, 50 ms
  Timeout,      \* TX_TIMEOUT_MS, 15 seconds
  ClkSpan,      \* 2^32 ms, the span of the uint32_t tx_start_time
  MaxEpoch,     \* 0: the first 2^32 ms since power-up; 1: also later ones
  Late          \* how much longer than asked a sleep may last

Slot   == SlotSeconds * Second
Minute == Windows * Slot

ASSUME TxSlotAssumption ==
  /\ {Second, SlotSeconds, Windows, SymbolCount, Period, Poll, Tail, Lead} \subseteq Nat \ {0}
  /\ {Timeout, Late} \subseteq Nat
  /\ ClkSpan \in Nat /\ ClkSpan >= Timeout
  /\ MaxEpoch \in 0..1

VARIABLES
  utc,        \* the time of day within the minute
  epoch,      \* powman_timer_get_ms() \div 2^32, 1 standing for 1 or more
  isr,        \* time to the next TxChannelISR
  pending,    \* TxChannelPending
  dco,        \* the oscillator runs: the carrier is on the air
  pc, wait,   \* where the loop is, and how long it still sleeps there
  second,     \* current_second, read at the top of the loop
  triggered,  \* tx_triggered_this_slot
  lastWindow, \* last_slot_window, Windows standing for the initial -1
  elapsed,    \* time the wait loop has run since tx_start_time, at most Timeout
  txEpoch,    \* the part of the clock that tx_start_time does not hold
  hold,       \* history: time since the last symbol was keyed, at most HoldSpan
  sends,      \* history: packets sent in this window, at most 2
  whole       \* history: the loop has been running since this window began

clock == <<utc, epoch>>
loop  == <<second, triggered, lastWindow>>
start == <<elapsed, txEpoch>>
vars  == <<clock, isr, pending, dco, pc, wait, loop, start, hold, sends, whole>>

\* A symbol held for longer than this is not told apart: one unit more
\* than TailAfterLastSymbol allows.
HoldSpan == Tail + Poll + 2 * Late + 1

Minimum(a, b) == IF a < b THEN a ELSE b

\* The loop is entered at any time, the timer has been running since
\* WSPRbeaconInit and the oscillator has not been started.
Init ==
  /\ utc \in 0..(Minute - 1)
  /\ epoch = 0
  /\ isr \in 0..Period
  /\ pending = 0
  /\ dco = FALSE
  /\ pc = "top" /\ wait = 0
  /\ second = 0 /\ triggered = FALSE /\ lastWindow = Windows
  /\ elapsed = 0 /\ txEpoch = 0
  /\ hold = HoldSpan /\ sends = 0 /\ whole = FALSE

Sleep(d, next) == wait' \in d..(d + Late) /\ pc' = next

Awake(label) == pc = label /\ wait = 0

CurrentSecond == utc \div Second

\* Mutants: a slot in every second; the third second of each slot.
AnySecond == TRUE
ThirdSecond == CurrentSecond % SlotSeconds = 2

IsSlotTime == CurrentSecond % SlotSeconds = 0

\* The top of the loop, in a slot's first second: PioDCOStart and
\* WSPRbeaconCreatePacket, then a sleep.
Trigger ==
  /\ Awake("top")
  /\ IsSlotTime /\ ~triggered
  /\ second' = CurrentSecond
  /\ triggered' = TRUE
  /\ dco' = TRUE
  /\ Sleep(Lead, "send")
  /\ UNCHANGED <<clock, isr, pending, lastWindow, start, hold, sends, whole>>

\* The top of the loop at any other time.
NoTrigger ==
  /\ Awake("top")
  /\ ~(IsSlotTime /\ ~triggered)
  /\ second' = CurrentSecond
  /\ Sleep(Poll, "bottom")
  /\ UNCHANGED <<clock, isr, pending, dco, triggered, lastWindow, start, hold, sends, whole>>

\* WSPRbeaconSendPacket, then the start time is read into 32 bits.
SendPacket ==
  /\ Awake("send")
  /\ pending' = SymbolCount
  /\ elapsed' = 0
  /\ txEpoch' = epoch
  /\ pc' = "test"
  /\ sends' = Minimum(sends + 1, 2)
  /\ UNCHANGED <<clock, isr, dco, wait, loop, hold, whole>>

\* powman_timer_get_ms() - tx_start_time, a uint64_t minus a uint32_t.
SinceStart == elapsed + txEpoch * ClkSpan

\* Mutant: the test of TxChannelPending is inverted.
AwaitFirst ==
  /\ Awake("test")
  /\ SinceStart < Timeout
  /\ IF pending # 0 THEN Sleep(Tail, "stop") ELSE Sleep(Poll, "test")
  /\ UNCHANGED <<clock, isr, pending, dco, loop, start, hold, sends, whole>>

\* Mutant: the last symbol is not waited for.
AwaitLast ==
  /\ Awake("test")
  /\ SinceStart < Timeout
  /\ IF pending <= 1 THEN Sleep(Tail, "stop") ELSE Sleep(Poll, "test")
  /\ UNCHANGED <<clock, isr, pending, dco, loop, start, hold, sends, whole>>

\* Mutant: no delay before the oscillator is stopped.
AwaitNoTail ==
  /\ Awake("test")
  /\ SinceStart < Timeout
  /\ IF pending = 0 THEN pc' = "stop" /\ wait' = 0 ELSE Sleep(Poll, "test")
  /\ UNCHANGED <<clock, isr, pending, dco, loop, start, hold, sends, whole>>

\* The loop that waits for the packet to be keyed.
AwaitEmpty ==
  /\ Awake("test")
  /\ SinceStart < Timeout
  /\ IF pending = 0 THEN Sleep(Tail, "stop") ELSE Sleep(Poll, "test")
  /\ UNCHANGED <<clock, isr, pending, dco, loop, start, hold, sends, whole>>

\* The packet is complete: PioDCOStop.
Complete ==
  /\ Awake("stop")
  /\ dco' = FALSE
  /\ Sleep(Poll, "exit")
  /\ UNCHANGED <<clock, isr, pending, loop, start, hold, sends, whole>>

\* The wait loop gives up: PioDCOStop.
ForceStop ==
  /\ Awake("test")
  /\ SinceStart >= Timeout
  /\ dco' = FALSE
  /\ Sleep(Poll, "bottom")
  /\ UNCHANGED <<clock, isr, pending, loop, start, hold, sends, whole>>

\* tx_complete ends the wait loop; the sleep of the main loop follows.
ExitLoop ==
  /\ Awake("exit")
  /\ Sleep(Poll, "bottom")
  /\ UNCHANGED <<clock, isr, pending, dco, loop, start, hold, sends, whole>>

\* Mutant: the trigger flag is never reset.
NeverReset ==
  /\ Awake("bottom")
  /\ lastWindow' = second \div SlotSeconds
  /\ pc' = "top"
  /\ UNCHANGED <<clock, isr, pending, dco, wait, second, triggered, start, hold, sends, whole>>

\* The end of the loop's body compares windows by the second it read above.
Bottom ==
  /\ Awake("bottom")
  /\ LET window == second \div SlotSeconds IN
       /\ triggered' = (triggered /\ window = lastWindow)
       /\ lastWindow' = window
  /\ pc' = "top"
  /\ UNCHANGED <<clock, isr, pending, dco, wait, second, start, hold, sends, whole>>

\* The timer interrupt keys a symbol, if there is one, and arms the next.
TxChannelISR ==
  /\ isr = 0
  /\ isr' = Period
  /\ pending' = IF pending > 0 THEN pending - 1 ELSE 0
  /\ hold' = IF pending > 0 THEN 0 ELSE hold
  /\ UNCHANGED <<clock, dco, pc, wait, loop, start, sends, whole>>

\* One unit of time passes while the loop sleeps.
Tick ==
  /\ isr > 0 /\ wait > 0
  /\ utc' = (utc + 1) % Minute
  /\ epoch' \in epoch..MaxEpoch
  /\ isr' = isr - 1
  /\ wait' = wait - 1
  /\ elapsed' = IF pc = "test" THEN Minimum(elapsed + 1, Timeout) ELSE elapsed
  /\ hold' = Minimum(hold + 1, HoldSpan)
  /\ sends' = IF utc' % Slot = 0 THEN 0 ELSE sends
  /\ whole' = (whole \/ utc' % Slot = 0)
  /\ UNCHANGED <<pending, dco, pc, loop, txEpoch>>

MainLoop ==
  \/ Trigger \/ NoTrigger \/ SendPacket \/ AwaitEmpty
  \/ Complete \/ ForceStop \/ ExitLoop \/ Bottom

Next == MainLoop \/ TxChannelISR \/ Tick

\* The hardware keeps time, interrupts are taken and the core executes.
Fairness == WF_vars(MainLoop) /\ WF_vars(TxChannelISR) /\ WF_vars(Tick)

Spec == Init /\ [][Next]_vars /\ Fairness

-----------------------------------------------------------------------------
TypeOK ==
  /\ utc \in 0..(Minute - 1) /\ epoch \in 0..MaxEpoch
  /\ isr \in 0..Period
  /\ pending \in 0..SymbolCount
  /\ dco \in BOOLEAN
  /\ pc \in {"top", "send", "test", "stop", "exit", "bottom"}
  /\ wait \in Nat
  /\ second \in 0..(Windows * SlotSeconds - 1)
  /\ triggered \in BOOLEAN
  /\ lastWindow \in 0..Windows
  /\ elapsed \in 0..Timeout /\ txEpoch \in 0..MaxEpoch
  /\ hold \in 0..HoldSpan /\ sends \in 0..2 /\ whole \in BOOLEAN

(***************************************************************************)
(* The carrier is on only from the trigger to the stop: every path through *)
(* the body of the loop, also the one that gives up, switches it off.      *)
(***************************************************************************)
CarrierOnlyInTx == dco <=> pc \in {"send", "test", "stop"}

(***************************************************************************)
(* The carrier never reaches into the next slot: it is off before the      *)
(* window that triggered it ends.                                          *)
(***************************************************************************)
CarrierInOwnWindow == dco => utc \div Slot = second \div SlotSeconds

(***************************************************************************)
(* A slot gets at most one packet, as long as the clock fits in 32 bits.   *)
(* tx_triggered_this_slot does not ensure that: the iteration that sets it *)
(* also resets it.                                                         *)
(***************************************************************************)
OnePacketPerWindow == epoch = 0 => sends <= 1

(***************************************************************************)
(* No slot is skipped: a window the loop saw from its start has got its    *)
(* packet when it ends.                                                    *)
(***************************************************************************)
NoWindowSkipped == whole /\ utc % Slot = Slot - 1 => sends >= 1

(***************************************************************************)
(* As long as the clock fits in 32 bits, stopping the oscillator cuts the  *)
(* last symbol of the packet at most, and that one not before it was on    *)
(* the air for the tail: each symbol has been started, and each but the    *)
(* last has had its period.                                                *)
(***************************************************************************)
CutsOnlyLastSymbol ==
  [][epoch = 0 /\ dco /\ ~dco' => pending = 0 /\ hold >= Tail]_vars

(***************************************************************************)
(* When the loop stops the oscillator, the last symbol has been on the air *)
(* for the tail and at most one poll more.                                 *)
(***************************************************************************)
TailAfterLastSymbol ==
  Awake("stop") => hold \in Tail..(Tail + Poll + 2 * Late)

(***************************************************************************)
(* The first symbol is keyed within two seconds of the start of the slot,  *)
(* what FT8 receivers accept, also when the loop is entered in mid-second. *)
(***************************************************************************)
FirstSymbolInTime ==
  dco /\ pc = "test" /\ pending = SymbolCount => utc % Slot < 2 * Second

(***************************************************************************)
(* main.c:559: "FT8 transmission runs forever": again and again a packet   *)
(* is completed, as long as the clock fits in 32 bits.                     *)
(***************************************************************************)
TransmitsForever == []<>(pc = "stop" \/ epoch > 0)

(***************************************************************************)
(* main.c:501: TX_TIMEOUT_MS is a "15 second timeout": the wait is given   *)
(* up only when that much time has passed.                                 *)
(***************************************************************************)
GivesUpAfterTimeout == [][ForceStop => elapsed >= Timeout]_vars

(***************************************************************************)
(* main.c:505: the delay is there "to ensure transmission is fully         *)
(* complete": a complete packet ends with a last symbol that was on the    *)
(* air for its period.                                                     *)
(***************************************************************************)
LastSymbolWhole == [][Complete => hold >= Period]_vars
=============================================================================
