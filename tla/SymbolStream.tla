---------------------------- MODULE SymbolStream ----------------------------
(***************************************************************************)
(* What the transmit channel promises its caller: a packet handed over is  *)
(* keyed symbol by symbol, in order, each symbol once.  Handing a packet   *)
(* over discards what was left of the previous one.  The promise has one   *)
(* flaw: for each timer interrupt taken in the middle of a hand-over, up   *)
(* to MaxTicks of them, one stray tone may be keyed, and for each stray    *)
(* tone the new packet may lose one of its first symbols.                  *)
(***************************************************************************)
EXTENDS Naturals, Sequences

CONSTANTS Tones,    \* what one symbol can be
          Packets,  \* the packets the caller may hand over
          MaxTicks  \* timer interrupts that fit in one hand-over

VARIABLES queue,    \* symbols not keyed yet, the next one first
          tone,     \* the tone keyed last
          loading,  \* a hand-over is going on
          strays    \* interrupts during the current hand-over that may have
                    \* keyed a stray tone

vars == <<queue, tone, loading, strays>>

Init ==
  /\ queue = << >>
  /\ tone \in Tones
  /\ loading = FALSE
  /\ strays = 0

\* The caller starts to hand a packet over: the previous one is abandoned.
Begin ==
  /\ ~loading
  /\ loading' = TRUE
  /\ queue' = << >>
  /\ strays' = 0
  /\ UNCHANGED tone

\* The timer may key a tone that belongs to no packet.
Stray ==
  /\ loading
  /\ strays < MaxTicks
  /\ strays' = strays + 1
  /\ tone' \in Tones
  /\ UNCHANGED <<queue, loading>>

\* The hand-over ends: the packet is queued, less at most one symbol per stray.
Load(p, lost) ==
  /\ loading
  /\ lost <= strays
  /\ loading' = FALSE
  /\ queue' = [i \in 1..(Len(p) - lost) |-> p[lost + i]]
  /\ strays' = 0
  /\ UNCHANGED tone

\* The timer keys the next symbol.
Key ==
  /\ ~loading
  /\ queue # << >>
  /\ tone' = Head(queue)
  /\ queue' = Tail(queue)
  /\ UNCHANGED <<loading, strays>>

Next ==
  \/ Begin
  \/ Stray
  \/ \E p \in Packets, lost \in 0..MaxTicks : Load(p, lost)
  \/ Key

Spec == Init /\ [][Next]_vars
=============================================================================
