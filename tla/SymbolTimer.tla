----------------------------- MODULE SymbolTimer -----------------------------
(***************************************************************************)
(* The alarm that calls TxChannelISR for each symbol, TxChannel.c 73-77    *)
(* and 95-114.  The hardware compares the low word of its microsecond      *)
(* counter with the alarm, raises the interrupt once, and disarms the      *)
(* alarm.  The handler runs up to Late units afterwards and sets the alarm *)
(* one period after the time it was set to before.                         *)
(***************************************************************************)
EXTENDS Naturals

CONSTANTS
  Span,    \* 2^32: timerawl and the alarm have 32 bits
  Period,  \* _bit_period_us
  Lead,    \* the 20000 us before the first interrupt
  Late     \* how long an interrupt may be kept waiting

ASSUME SymbolTimerAssumption ==
  /\ {Span, Period, Lead} \subseteq Nat \ {0} /\ Late \in Nat
  /\ Lead <= Period /\ Period < Span /\ Late < Period + Span

VARIABLES
  now,      \* timerawl
  alarm,    \* timer_hw->alarm, the low word of _tm_future_call
  armed,    \* the alarm waits for its time
  intr,     \* the interrupt is raised and not handled yet
  age,      \* history: time since it was raised last, counted up to Period + Span + 1
  gap,      \* history: time between the last two times it was raised
  waited    \* history: how late the handler ran that set the alarm

timings == <<age, gap, waited>>
timerVars == <<now, alarm, armed, intr, timings>>

\* TxChannelInit; the first interrupt counts as due a period after another.
TimerInit ==
  /\ now \in 0..(Span - 1)
  /\ alarm = (now + Lead) % Span
  /\ armed = TRUE /\ intr = FALSE
  /\ age = Period - Lead /\ gap = Period /\ waited = 0

\* The counter moves on; when it gets to the alarm the interrupt is raised.
Tick ==
  /\ intr => age < Late
  /\ now' = (now + 1) % Span
  /\ IF armed /\ now' = alarm
     THEN intr' = TRUE /\ armed' = FALSE /\ gap' = age + 1 /\ age' = 0
     ELSE age' = age + (IF age > Period + Span THEN 0 ELSE 1) /\ UNCHANGED <<intr, armed, gap>>
  /\ UNCHANGED <<alarm, waited>>

\* The alarm is set.  If the counter stands there already, that counts or not.
Arm(time) ==
  /\ alarm' = time
  /\ \/ armed' = TRUE /\ intr' = FALSE /\ UNCHANGED <<age, gap>>
     \/ time = now /\ armed' = FALSE /\ intr' = TRUE /\ gap' = age /\ age' = 0

\* Mutant: the period is counted from the time the handler runs.
FromNow ==
  /\ intr
  /\ waited' = age
  /\ Arm((now + Period) % Span)
  /\ UNCHANGED now

\* Mutant: the alarm is not cut to 32 bits.
NoTruncation ==
  /\ intr
  /\ waited' = age
  /\ Arm(alarm + Period)
  /\ UNCHANGED now

NextAlarm ==
  /\ intr
  /\ waited' = age
  /\ Arm((alarm + Period) % Span)
  /\ UNCHANGED now

TimerNext == Tick \/ NextAlarm

TimerSpec == TimerInit /\ [][TimerNext]_timerVars

-----------------------------------------------------------------------------
TimerTypeOK ==
  /\ now \in 0..(Span - 1) /\ alarm \in 0..(Span - 1)
  /\ armed \in BOOLEAN /\ intr = ~armed
  /\ age \in 0..(Period + Span) /\ gap \in 0..(Period + Span)
  /\ waited \in 0..Late

(***************************************************************************)
(* Unless the handler before it ran a whole period late, an interrupt      *)
(* comes exactly one period after the last one, however late handlers run  *)
(* and across the wrap of the counter: the symbols of a packet do not      *)
(* drift.                                                                  *)
(***************************************************************************)
NoDrift == intr /\ waited < Period => gap = Period

(***************************************************************************)
(* A handler that runs a period late sets an alarm in the past: the next   *)
(* symbol comes a whole span of the counter, 71.6 minutes, after it was    *)
(* due, or at once, when the handler sets the alarm at the very moment it  *)
(* is due.  The channel is never silent for longer than that.              *)
(***************************************************************************)
SilentForOneSpan ==
  /\ intr /\ waited >= Period => gap \in {Period, Period + Span}
  /\ age <= Period + Span
=============================================================================
