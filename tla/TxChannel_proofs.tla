-------------------------- MODULE TxChannel_proofs --------------------------
(***************************************************************************)
(* Proofs about the transmit FIFO, for every number of symbols, index      *)
(* modulus, tone set, packet set and bound on the interrupts; and on the   *)
(* symbol timer, for every width of the counter, period and lateness.      *)
(***************************************************************************)
EXTENDS TimedChannel, Integers, SequenceTheorems, TLAPS

(***************************************************************************)
(* Where the read index and the buffer are at each point of                *)
(* WSPRbeaconSendPacket.  The input index is zero or SymbolCount; from the *)
(* moment TxChannelClear has zeroed the read index, the handler advances   *)
(* it at most once per interrupt, and not at all when none came between    *)
(* the two stores; memcpy has copied a prefix; and after the commit what   *)
(* was keyed is the read part of the packet.                               *)
(***************************************************************************)
InputInv  == ix_input \in {0, SymbolCount}
LostInv   == lost \in 0..MaxTicks /\ (~Sending => lost <= ticks)
RacedInv  == pc \in {"clear_input", "memcpy", "commit"} => ix_output <= ticks
ZeroInv   == pc \in {"clear_output", "memcpy", "commit"} => ix_input = 0
CopyInv   ==
  /\ pc \in {"clear_input", "clear_output"} => copied = 0
  /\ pc = "memcpy" => copied < SymbolCount
  /\ pc = "commit" => copied = SymbolCount
  /\ pc \in {"memcpy", "commit"} =>
       \A i \in 0..(copied - 1) : pbyte_buffer[i] = outbuf[i]
BetweenInv ==
  /\ Sending => between <= ticks
  /\ pc \in {"clear_input", "memcpy", "commit"} /\ between = 0 => ix_output = 0
  /\ ~Sending /\ between = 0 => lost = 0
KeyedInv  ==
  ~Sending =>
    /\ ix_output = lost + Len(emitted)
    /\ ix_output <= ix_input
    /\ ix_input = SymbolCount =>
         \A i \in 0..(SymbolCount - 1) : pbyte_buffer[i] = packet[i]
    /\ \A i \in 1..Len(emitted) : emitted[i] = packet[lost + i - 1]

IInv ==
  /\ TypeOK
  /\ InputInv
  /\ LostInv
  /\ RacedInv
  /\ ZeroInv
  /\ CopyInv
  /\ BetweenInv
  /\ KeyedInv

-----------------------------------------------------------------------------
\* The initial states satisfy the inductive invariant.
LEMMA InitIInv == Init => IInv
  <1> SUFFICES ASSUME Init PROVE IInv
    OBVIOUS
  <1> USE TxChannelAssumption DEF Init, Zeros
  <1>1. TypeOK
    BY DEF TypeOK
  <1>2. InputInv /\ LostInv /\ RacedInv /\ ZeroInv /\ CopyInv /\ BetweenInv
    BY DEF InputInv, LostInv, RacedInv, ZeroInv, CopyInv, BetweenInv, Sending
  <1>3. KeyedInv
    BY DEF KeyedInv
  <1> QED
    BY <1>1, <1>2, <1>3 DEF IInv

\* A pop never reaches the end of the index range: the increment is exact.
LEMMA PopIndex ==
  ASSUME IInv, TxChannelPop, Sending => ticks < MaxTicks
  PROVE  pc # "clear_output" => ix_output' = ix_output + 1 /\ ix_output < SymbolCount
  <1> SUFFICES ASSUME pc # "clear_output"
               PROVE  ix_output' = ix_output + 1 /\ ix_output < SymbolCount
    OBVIOUS
  <1>1. /\ ix_output \in Nat /\ SymbolCount \in Nat /\ MaxTicks \in Nat /\ IxModulus \in Nat
        /\ ticks \in Nat /\ MaxTicks <= SymbolCount /\ SymbolCount + MaxTicks < IxModulus
        /\ ix_input \in {0, SymbolCount} /\ ix_input # ix_output
    BY TxChannelAssumption DEF IInv, TypeOK, InputInv, TxChannelPop
  <1>2. ix_output < SymbolCount
    <2>1. CASE pc \in {"clear_input", "memcpy", "commit"}
      <3>1. ix_output <= ticks /\ ticks < MaxTicks
        BY <2>1 DEF IInv, RacedInv, Sending
      <3> QED
        BY <3>1, <1>1
    <2>2. CASE ~Sending
      <3>1. ix_output <= ix_input
        BY <2>2 DEF IInv, KeyedInv
      <3> QED
        BY <3>1, <1>1
    <2> QED
      BY <2>1, <2>2 DEF Sending
  <1>3. ix_output' = (ix_output + 1) % IxModulus
    BY DEF TxChannelPop
  <1>4. ix_output + 1 \in Nat /\ ix_output + 1 < IxModulus
    BY <1>1, <1>2
  <1> QED
    BY <1>1, <1>2, <1>3, <1>4

\* The handler preserves the invariant.
LEMMA ISRIInv == ASSUME IInv, TxChannelISR PROVE IInv'
  <1> USE TxChannelAssumption
  <1>1. CASE TxChannelPop
    <2> USE <1>1
    <2>0. ix_output \in 0..(IxModulus - 1) /\ ix_output' \in 0..(IxModulus - 1)
      BY DEF IInv, TypeOK, TxChannelPop
    <2>1. tone' \in Tones
      BY <2>0 DEF IInv, TypeOK, TxChannelPop
    <2>2. TypeOK'
      <3>1. emitted' \in Seq(Tones)
        BY <2>1 DEF IInv, TypeOK, TxChannelPop, TxChannelISR
      <3>2. ticks' \in 0..MaxTicks /\ between' \in 0..MaxTicks
        BY DEF IInv, TypeOK, BetweenInv, TxChannelISR, Sending, Clearing
      <3> QED
        BY <2>0, <2>1, <3>1, <3>2 DEF IInv, TypeOK, TxChannelISR
    <2>3. InputInv' /\ LostInv' /\ ZeroInv' /\ CopyInv'
      BY DEF IInv, TypeOK, InputInv, LostInv, ZeroInv, CopyInv, TxChannelISR, Sending
    <2>7. BetweenInv'
      <3>1. Sending' => between' <= ticks'
        BY DEF IInv, TypeOK, BetweenInv, TxChannelISR, Sending, Clearing
      <3>2. ASSUME pc' \in {"clear_input", "memcpy", "commit"}, between' = 0 PROVE ix_output' = 0
        <4>1. pc \in {"memcpy", "commit"} /\ between = 0
          BY <3>2 DEF IInv, TypeOK, TxChannelISR, Clearing
        <4>2. ix_output = 0 /\ ix_input = 0
          BY <4>1 DEF IInv, BetweenInv, ZeroInv
        <4> QED
          BY <4>2 DEF TxChannelPop
      <3>3. ~Sending' /\ between' = 0 => lost' = 0
        BY DEF IInv, BetweenInv, TxChannelISR, Sending, Clearing
      <3> QED
        BY <3>1, <3>2, <3>3 DEF BetweenInv
    <2>4. pc # "clear_output" => ix_output' = ix_output + 1 /\ ix_output < SymbolCount
      BY PopIndex DEF TxChannelISR
    <2>5. RacedInv'
      BY <2>4 DEF IInv, TypeOK, RacedInv, TxChannelISR, Sending
    <2>6. KeyedInv'
      <3> SUFFICES ASSUME ~Sending PROVE KeyedInv'
        BY DEF KeyedInv, Sending, TxChannelISR
      <3>1. emitted' = Append(emitted, tone') /\ emitted \in Seq(Tones)
        BY DEF TxChannelPop, IInv, TypeOK
      <3>2. Len(emitted') = Len(emitted) + 1 /\ Len(emitted) \in Nat
        BY <3>1, <2>1
      <3>3. ix_output' = ix_output + 1 /\ ix_output < ix_input /\ ix_input = SymbolCount
        BY <2>4 DEF IInv, KeyedInv, InputInv, TypeOK, TxChannelPop, Sending
      <3>4. tone' = packet[ix_output]
        BY <3>3 DEF IInv, KeyedInv, TypeOK, TxChannelPop
      <3>5. \A i \in 1..Len(emitted') : emitted'[i] = packet[lost + i - 1]
        <4> TAKE i \in 1..Len(emitted')
        <4>1. CASE i <= Len(emitted)
          BY <4>1, <3>1, <3>2, <2>1 DEF IInv, KeyedInv
        <4>2. CASE i = Len(emitted) + 1
          <5>1. emitted'[i] = tone'
            BY <4>2, <3>1, <2>1
          <5>2. lost + i - 1 = ix_output
            BY <4>2, <3>2 DEF IInv, KeyedInv, TypeOK
          <5> QED
            BY <5>1, <5>2, <3>4
        <4> QED
          BY <4>1, <4>2, <3>2
      <3> QED
        BY <3>2, <3>3, <3>5 DEF KeyedInv, IInv, TypeOK, TxChannelISR
    <2> QED
      BY <2>2, <2>3, <2>5, <2>6, <2>7 DEF IInv
  <1>2. CASE ix_input = ix_output /\ UNCHANGED <<tone, ix_output, emitted>>
    <2>1. ticks' \in 0..MaxTicks /\ between' \in 0..MaxTicks
      BY DEF IInv, TypeOK, BetweenInv, TxChannelISR, Sending, Clearing
    <2>2. TypeOK' /\ InputInv' /\ LostInv' /\ RacedInv' /\ ZeroInv' /\ CopyInv' /\ KeyedInv'
      BY <1>2, <2>1 DEF TxChannelISR, IInv, TypeOK, InputInv, LostInv, RacedInv, ZeroInv,
                CopyInv, BetweenInv, KeyedInv, Sending
    <2>3. BetweenInv'
      BY <1>2 DEF TxChannelISR, IInv, TypeOK, BetweenInv, Sending, Clearing
    <2> QED
      BY <2>2, <2>3 DEF IInv
  <1> QED
    BY <1>1, <1>2 DEF TxChannelISR

\* The first store of TxChannelClear preserves the invariant.
LEMMA ClearIInv ==
  ASSUME IInv, NEW order \in Orders, TxChannelClear(order) PROVE IInv'
  <1> USE TxChannelAssumption DEF TxChannelClear, Sending
  <1>0. order \in {"output_first", "input_first", "both"}
    BY DEF Orders
  <1>1. TypeOK'
    BY <1>0 DEF IInv, TypeOK, history
  <1>2. InputInv' /\ LostInv'
    BY <1>0 DEF IInv, InputInv, LostInv, history
  <1>3. RacedInv' /\ ZeroInv' /\ CopyInv' /\ BetweenInv'
    BY <1>0 DEF RacedInv, ZeroInv, CopyInv, BetweenInv, history
  <1>4. KeyedInv'
    BY <1>0 DEF KeyedInv
  <1> QED
    BY <1>1, <1>2, <1>3, <1>4 DEF IInv

\* memcpy extends the copied prefix.
LEMMA MemcpyIInv == ASSUME IInv, Memcpy PROVE IInv'
  <1> USE TxChannelAssumption
  <1>1. copied \in 0..(SymbolCount - 1) /\ copied' = copied + 1
    BY DEF IInv, TypeOK, CopyInv, Memcpy
  <1>2. TypeOK'
    BY <1>1 DEF IInv, TypeOK, Memcpy, history
  <1>3. InputInv' /\ LostInv' /\ RacedInv' /\ ZeroInv' /\ KeyedInv' /\ BetweenInv'
    BY DEF IInv, InputInv, LostInv, RacedInv, ZeroInv, KeyedInv, BetweenInv, Memcpy, history, Sending
  <1>4. CopyInv'
    <2>1. \A i \in 0..(copied' - 1) : pbyte_buffer'[i] = outbuf'[i]
      BY <1>1 DEF IInv, TypeOK, CopyInv, Memcpy
    <2> QED
      BY <2>1, <1>1 DEF CopyInv, Memcpy
  <1> QED
    BY <1>2, <1>3, <1>4 DEF IInv

\* The store that ends WSPRbeaconSendPacket makes the copied packet current.
LEMMA CommitIInv == ASSUME IInv, Commit PROVE IInv'
  <1> USE TxChannelAssumption DEF Commit
  <1>1. ix_output \in 0..MaxTicks /\ ix_output <= ticks
    BY DEF IInv, TypeOK, RacedInv
  <1>2. TypeOK'
    BY <1>1 DEF IInv, TypeOK
  <1>3. InputInv' /\ LostInv' /\ RacedInv' /\ ZeroInv' /\ CopyInv' /\ BetweenInv'
    BY <1>1 DEF IInv, InputInv, LostInv, RacedInv, ZeroInv, CopyInv, BetweenInv, Sending
  <1>4. KeyedInv'
    BY <1>1 DEF IInv, TypeOK, CopyInv, KeyedInv
  <1> QED
    BY <1>2, <1>3, <1>4 DEF IInv

\* Every step preserves the invariant.
LEMMA StepIInv == IInv /\ [Next]_vars => IInv'
  <1> SUFFICES ASSUME IInv, [Next]_vars PROVE IInv'
    OBVIOUS
  <1> USE TxChannelAssumption
  <1>1. CASE TxChannelISR
    BY <1>1, ISRIInv
  <1>2. ASSUME NEW p \in Packets, WSPRbeaconCreatePacket(p) PROVE IInv'
    BY <1>2 DEF WSPRbeaconCreatePacket, IInv, TypeOK, InputInv, LostInv, RacedInv,
                ZeroInv, CopyInv, BetweenInv, KeyedInv, Sending, fifo, history
  <1>3. ASSUME NEW order \in Orders, TxChannelClear(order) PROVE IInv'
    BY <1>3, ClearIInv
  <1>4. CASE ClearInput
    BY <1>4 DEF ClearInput, IInv, TypeOK, InputInv, LostInv, RacedInv,
                ZeroInv, CopyInv, BetweenInv, KeyedInv, Sending, history
  <1>5. CASE ClearOutput
    BY <1>5 DEF ClearOutput, IInv, TypeOK, InputInv, LostInv, RacedInv,
                ZeroInv, CopyInv, BetweenInv, KeyedInv, Sending, history
  <1>6. CASE Memcpy
    BY <1>6, MemcpyIInv
  <1>7. CASE Commit
    BY <1>7, CommitIInv
  <1>8. CASE UNCHANGED vars
    BY <1>8 DEF vars, fifo, history, IInv, TypeOK, InputInv, LostInv, RacedInv,
                ZeroInv, CopyInv, BetweenInv, KeyedInv, Sending
  <1> QED
    BY <1>1, <1>2, <1>3, <1>4, <1>5, <1>6, <1>7, <1>8 DEF Next, WSPRbeaconSendPacket

\* The inductive invariant holds in every reachable state.
LEMMA Invariance == Spec => []IInv
  BY InitIInv, StepIInv, PTL DEF Spec

-----------------------------------------------------------------------------
\* Type correctness.
THEOREM TypeCorrect == Spec => []TypeOK
  <1>1. IInv => TypeOK
    BY DEF IInv
  <1> QED
    BY <1>1, Invariance, PTL

\* What TxChannelISR keys after a commit is the packet, in order, and
\* TxChannelPending is what is left of it.
THEOREM KeyedInOrder == Spec => []InOrder
  <1>1. IInv => InOrder
    <2> SUFFICES ASSUME IInv, ~Sending PROVE InOrder
      BY DEF InOrder
    <2>1. ix_input = SymbolCount => lost + Len(emitted) + TxChannelPending = SymbolCount
      <3> SUFFICES ASSUME ix_input = SymbolCount
                   PROVE  ix_output + TxChannelPending = SymbolCount
        BY DEF IInv, KeyedInv
      <3>1. /\ ix_output \in Nat /\ ix_output <= SymbolCount
            /\ SymbolCount \in Nat /\ IxModulus \in Nat /\ SymbolCount < IxModulus
        BY TxChannelAssumption DEF IInv, TypeOK, KeyedInv
      <3>2. TxChannelPending = SymbolCount - ix_output
        BY <3>1 DEF TxChannelPending
      <3> QED
        BY <3>1, <3>2
    <2> QED
      BY <2>1 DEF IInv, KeyedInv, InOrder
  <1> QED
    BY <1>1, Invariance, PTL

\* A packet loses at most one symbol per interrupt that hits its hand-over, and
\* none unless one of them came between the two stores of TxChannelClear.
THEOREM LossIsBounded == Spec => []LossBounded
  <1>1. IInv => LossBounded
    BY DEF IInv, LostInv, BetweenInv, LossBounded
  <1> QED
    BY <1>1, Invariance, PTL

-----------------------------------------------------------------------------
(***************************************************************************)
(* When the read index was not stored before the input index, no interrupt *)
(* finds the FIFO non-empty once the read index is zero; when both were    *)
(* stored at once, none does during the whole hand-over.                   *)
(***************************************************************************)
OrderInv ==
  /\ stored # "output_first" =>
       /\ pc # "clear_input"
       /\ pc \in {"memcpy", "commit"} => ix_output = 0
       /\ ~Sending => lost = 0
  /\ stored = "both" => pc # "clear_output"

LEMMA OrderInvariance == Spec => []OrderInv
  <1>1. Init => OrderInv
    BY DEF Init, OrderInv, Sending
  <1>2. IInv /\ OrderInv /\ [Next]_vars => OrderInv'
    <2> SUFFICES ASSUME IInv, OrderInv, [Next]_vars PROVE OrderInv'
      OBVIOUS
    <2>1. CASE TxChannelISR
      BY <2>1 DEF OrderInv, Sending, IInv, ZeroInv, TxChannelISR, TxChannelPop
    <2>2. ASSUME NEW p \in Packets, WSPRbeaconCreatePacket(p) PROVE OrderInv'
      BY <2>2 DEF OrderInv, Sending, WSPRbeaconCreatePacket, fifo, history
    <2>3. ASSUME NEW order \in Orders, TxChannelClear(order) PROVE OrderInv'
      <3>1. order \in {"output_first", "input_first", "both"}
        BY DEF Orders
      <3> QED
        BY <2>3, <3>1 DEF OrderInv, Sending, TxChannelClear, history
    <2>4. CASE ClearInput
      BY <2>4 DEF OrderInv, Sending, ClearInput, history
    <2>5. CASE ClearOutput
      BY <2>5 DEF OrderInv, Sending, ClearOutput, history
    <2>6. CASE Memcpy
      BY <2>6 DEF OrderInv, Sending, Memcpy, history
    <2>7. CASE Commit
      BY <2>7 DEF OrderInv, Sending, Commit
    <2>8. CASE UNCHANGED vars
      BY <2>8 DEF OrderInv, Sending, vars, fifo, history
    <2> QED
      BY <2>1, <2>2, <2>3, <2>4, <2>5, <2>6, <2>7, <2>8 DEF Next, WSPRbeaconSendPacket
  <1> QED
    BY <1>1, <1>2, Invariance, PTL DEF Spec

\* Unless TxChannelClear stores the read index first, no packet loses a symbol.
THEOREM NoLoss == Spec => []NoLossUnlessOutputFirst
  <1>1. OrderInv => NoLossUnlessOutputFirst
    BY DEF OrderInv, NoLossUnlessOutputFirst
  <1> QED
    BY <1>1, OrderInvariance, PTL

\* With a single store, the handler keys nothing while the buffer is rewritten.
THEOREM QuietLoading == Spec => QuietWhileLoading
  <1>1. ASSUME IInv, OrderInv, [Next]_vars, stored = "both", Sending
        PROVE  UNCHANGED <<tone, ix_output>>
    <2>1. ix_input = 0 /\ ix_output = 0 /\ pc \in {"memcpy", "commit"}
      BY <1>1 DEF IInv, ZeroInv, OrderInv, Sending
    <2> QED
      BY <1>1, <2>1 DEF Next, TxChannelISR, TxChannelPop, WSPRbeaconCreatePacket,
        WSPRbeaconSendPacket, TxChannelClear, ClearInput, ClearOutput, Memcpy, Commit,
        vars, fifo
  <1>2. IInv /\ OrderInv /\ [Next]_vars =>
          [stored = "both" /\ Sending => UNCHANGED <<tone, ix_output>>]_vars
    BY <1>1
  <1> QED
    BY <1>2, Invariance, OrderInvariance, PTL DEF Spec, QuietWhileLoading

-----------------------------------------------------------------------------
(***************************************************************************)
(* The FIFO implements the abstract stream of symbols.  TxChannelClear's   *)
(* first store begins a hand-over, an interrupt during it is a stray, the  *)
(* commit loads the packet, and a pop at any other time keys its head.     *)
(***************************************************************************)
PacketInv == pc # "idle" => outbuf \in Packets

LEMMA PacketInvariance == Spec => []PacketInv
  <1>1. Init => PacketInv
    BY DEF Init, PacketInv
  <1>2. PacketInv /\ [Next]_vars => PacketInv'
    BY DEF PacketInv, Next, TxChannelISR, WSPRbeaconCreatePacket, WSPRbeaconSendPacket,
      TxChannelClear, ClearInput, ClearOutput, Memcpy, Commit, vars
  <1> QED
    BY <1>1, <1>2, PTL DEF Spec

\* The contents of the FIFO, the next symbol first.
Contents == [i \in 1..(ix_input - ix_output) |-> pbyte_buffer[ix_output + i - 1]]

LEMMA ContentsSeq ==
  ASSUME IInv, ~Sending
  PROVE  /\ ix_input - ix_output \in Nat
         /\ Contents \in Seq(Tones)
         /\ Len(Contents) = ix_input - ix_output
  <1>1. /\ ix_input \in Nat /\ ix_output \in Nat /\ ix_output <= ix_input
        /\ ix_input < IxModulus /\ IxModulus \in Nat
    BY TxChannelAssumption DEF IInv, TypeOK, KeyedInv
  <1>2. \A i \in 1..(ix_input - ix_output) : pbyte_buffer[ix_output + i - 1] \in Tones
    BY <1>1 DEF IInv, TypeOK
  <1> QED
    BY <1>1, <1>2 DEF Contents

\* A pop outside a hand-over takes the head of the contents.
LEMMA PopIsKey ==
  ASSUME IInv, ~Sending, TxChannelISR, TxChannelPop
  PROVE  /\ Contents # << >>
         /\ tone' = Head(Contents)
         /\ Contents' = Tail(Contents)
  <1>1. /\ ix_output' = ix_output + 1 /\ ix_input' = ix_input
        /\ pbyte_buffer' = pbyte_buffer /\ ix_output # ix_input
    BY PopIndex DEF TxChannelISR, TxChannelPop, Sending
  <1>2. ix_input \in Nat /\ ix_output \in Nat /\ ix_output < ix_input
    BY <1>1 DEF IInv, TypeOK, KeyedInv
  <1>3. Contents \in Seq(Tones) /\ Len(Contents) = ix_input - ix_output
    BY ContentsSeq
  <1>4. Contents[1] = pbyte_buffer[ix_output]
    BY <1>2 DEF Contents
  <1>5. Contents # << >>
    BY <1>2, <1>3
  <1>6. /\ Tail(Contents) \in Seq(Tones)
        /\ Len(Tail(Contents)) = Len(Contents) - 1
        /\ \A i \in 1..Len(Tail(Contents)) : Tail(Contents)[i] = Contents[i + 1]
    BY <1>3, <1>5, HeadTailProperties
  <1>7. Contents' = [i \in 1..(ix_input - (ix_output + 1)) |->
                       pbyte_buffer[ix_output + 1 + i - 1]]
    BY <1>1 DEF Contents
  <1>8. \A i \in 1..(ix_input - (ix_output + 1)) :
          pbyte_buffer[ix_output + 1 + i - 1] \in Tones
    BY <1>2, TxChannelAssumption DEF IInv, TypeOK
  <1> DEFINE n == ix_input - (ix_output + 1)
             C(i) == pbyte_buffer[ix_output + 1 + i - 1]
             later == [i \in 1..n |-> C(i)]
  <1>9. n \in Nat /\ n = Len(Tail(Contents))
    <2>1. n \in Nat /\ n = (ix_input - ix_output) - 1
      BY <1>2
    <2> HIDE DEF n
    <2> QED
      BY <1>3, <1>6, <2>1, Zenon
  <1>10. later \in Seq(Tones) /\ Len(later) = n
    <2> HIDE DEF n, C
    <2>1. n \in Nat /\ \A i \in 1..n : C(i) \in Tones
      BY <1>8, <1>9 DEF C, n
    <2> QED
      BY <2>1
  <1>11. \A i \in 1..n : later[i] = Tail(Contents)[i]
    <2> TAKE i \in 1..n
    <2>1. later[i] = C(i)
      OBVIOUS
    <2>2. Tail(Contents)[i] = Contents[i + 1]
      BY <1>6, <1>9
    <2>3. Contents[i + 1] = pbyte_buffer[ix_output + (i + 1) - 1]
      BY <1>2, <1>9 DEF Contents
    <2>4. ix_output + (i + 1) - 1 = ix_output + 1 + i - 1
      BY <1>2, <1>9
    <2> QED
      BY <2>1, <2>2, <2>3, <2>4
  <1>12. later = Tail(Contents)
    <2> HIDE DEF n, later
    <2> QED
      BY <1>6, <1>9, <1>10, <1>11, SeqEqual
  <1> QED
    BY <1>3, <1>4, <1>5, <1>7, <1>12 DEF TxChannelPop

\* The commit queues the packet from the first symbol not lost on.
LEMMA CommitIsLoad ==
  ASSUME IInv, PacketInv, Commit
  PROVE  /\ AsSeq(outbuf) \in PacketSeqs
         /\ ix_output \in 0..MaxTicks /\ ix_output <= ticks
         /\ Contents' = [i \in 1..(Len(AsSeq(outbuf)) - ix_output) |->
                           AsSeq(outbuf)[ix_output + i]]
  <1> USE TxChannelAssumption
  <1>1. ix_output \in 0..MaxTicks /\ ix_output <= ticks
    BY DEF IInv, TypeOK, RacedInv, Commit
  <1>2. Len(AsSeq(outbuf)) = SymbolCount
    BY DEF AsSeq
  <1>3. \A i \in 1..(SymbolCount - ix_output) :
          pbyte_buffer[ix_output + i - 1] = AsSeq(outbuf)[ix_output + i]
    BY <1>1 DEF IInv, TypeOK, CopyInv, Commit, AsSeq
  <1>4. Contents' = [i \in 1..(SymbolCount - ix_output) |-> pbyte_buffer[ix_output + i - 1]]
    BY DEF Contents, Commit
  <1> QED
    BY <1>1, <1>2, <1>3, <1>4 DEF PacketInv, Commit, PacketSeqs

LEMMA StepImplements == IInv /\ PacketInv /\ [Next]_vars => [Stream!Next]_(Stream!vars)
  <1> SUFFICES ASSUME IInv, PacketInv, [Next]_vars
               PROVE  Stream!Next \/ UNCHANGED Stream!vars
    OBVIOUS
  <1> USE TxChannelAssumption
  <1>1. ASSUME TxChannelISR, Sending PROVE Stream!Stray
    <2>1. tone' \in Tones
      BY <1>1, ISRIInv DEF IInv, TypeOK
    <2> QED
      BY <1>1, <2>1 DEF Stream!Stray, TxChannelISR, Sending
  <1>2. ASSUME TxChannelISR, TxChannelPop, ~Sending PROVE Stream!Key
    BY <1>2, PopIsKey DEF Stream!Key, TxChannelISR, Sending, Contents
  <1>3. ASSUME TxChannelISR, ~TxChannelPop, ~Sending PROVE UNCHANGED Stream!vars
    BY <1>3 DEF Stream!vars, TxChannelISR, Sending
  <1>4. ASSUME NEW p \in Packets, WSPRbeaconCreatePacket(p) PROVE UNCHANGED Stream!vars
    BY <1>4 DEF Stream!vars, WSPRbeaconCreatePacket, Sending, fifo
  <1>5. ASSUME NEW order \in Orders, TxChannelClear(order) PROVE Stream!Begin
    BY <1>5 DEF Stream!Begin, TxChannelClear, Sending, Orders, fifo
  <1>6. CASE ClearInput
    BY <1>6 DEF Stream!vars, ClearInput, Sending
  <1>7. CASE ClearOutput
    BY <1>7 DEF Stream!vars, ClearOutput, Sending
  <1>8. CASE Memcpy
    BY <1>8 DEF Stream!vars, Memcpy, Sending
  <1>9. ASSUME Commit, NEW p \in PacketSeqs, NEW l \in 0..MaxTicks,
               p = AsSeq(outbuf), l = ix_output
        PROVE  Stream!Load(p, l)
    <2>1. Sending /\ ~Sending' /\ UNCHANGED tone
      BY <1>9 DEF Commit, Sending
    <2>2. l <= ticks
      BY <1>9, CommitIsLoad
    <2>3. Contents' = [i \in 1..(Len(p) - l) |-> p[l + i]]
      BY <1>9, CommitIsLoad
    <2> QED
      BY <2>1, <2>2, <2>3 DEF Stream!Load, Contents
  <1>10. CASE UNCHANGED vars
    BY <1>10 DEF Stream!vars, vars, fifo, Sending
  <1>11. ASSUME Commit PROVE Stream!Next
    <2>1. \E p \in PacketSeqs, l \in 0..MaxTicks : p = AsSeq(outbuf) /\ l = ix_output
      BY <1>11, CommitIsLoad
    <2>2. PICK p \in PacketSeqs, l \in 0..MaxTicks : p = AsSeq(outbuf) /\ l = ix_output
      BY <2>1
    <2>3. Stream!Load(p, l)
      BY <1>9, <1>11, <2>2
    <2> QED
      BY <2>3 DEF Stream!Next
  <1> QED
    BY <1>1, <1>2, <1>3, <1>4, <1>5, <1>6, <1>7, <1>8, <1>10, <1>11
       DEF Next, WSPRbeaconSendPacket, Stream!Next

\* Every behaviour of the FIFO is one the abstract stream of symbols allows.
THEOREM ChannelImplementsStream == Spec => ImplementsStream
  <1>1. Init => Stream!Init
    BY TxChannelAssumption DEF Init, Stream!Init, Sending
  <1> QED
    BY <1>1, StepImplements, Invariance, PacketInvariance, PTL
       DEF Spec, ImplementsStream, Stream!Spec

-----------------------------------------------------------------------------
(***************************************************************************)
(* The symbol timer, for every width of the counter, period and lateness.  *)
(***************************************************************************)
\* The constants one by one.
LEMMA ConstantTypes ==
  /\ Span \in Nat \ {0} /\ Period \in Nat \ {0} /\ Lead \in Nat \ {0} /\ Late \in Nat
  /\ Lead <= Period /\ Period < Span /\ Late < Period + Span
  BY SymbolTimerAssumption

-----------------------------------------------------------------------------
\* Division with rest.
LEMMA DivRest ==
  ASSUME NEW a \in Int, NEW m \in Nat \ {0}
  PROVE  a % m \in 0..(m - 1) /\ a \div m \in Int /\ a = m * (a \div m) + (a % m)
  BY SMT

\* Two remainders that differ by a multiple of the modulus are the same.
LEMMA SameRemainder ==
  ASSUME NEW m \in Nat \ {0}, NEW x \in 0..(m - 1), NEW y \in 0..(m - 1),
         NEW k \in Int, x - y = m * k
  PROVE  x = y
  BY SMT

\* A sum of two words wraps at most once.
LEMMA WrapsOnce ==
  ASSUME NEW m \in Nat \ {0}, NEW x \in 0..(m - 1), NEW d \in 0..(m - 1)
  PROVE  /\ (x + d) % m \in 0..(m - 1)
         /\ (x + d) % m = x + d \/ (x + d) % m = x + d - m
  <1> DEFINE s == x + d
             r == s % m
             q == s \div m
  <1>1. s \in Int /\ s \in 0..(2 * m - 2)
    OBVIOUS
  <1>2. r \in 0..(m - 1) /\ q \in Int /\ s = m * q + r
    <2> HIDE DEF s
    <2> QED
      BY <1>1, DivRest
  <1>3. CASE s < m
    <2>1. s \in 0..(m - 1) /\ s - r = m * q
      BY <1>1, <1>2, <1>3
    <2> HIDE DEF s, r, q
    <2>2. s = r
      BY <1>2, <2>1, SameRemainder
    <2> QED
      BY <1>2, <2>2 DEF s, r
  <1>4. CASE s >= m
    <2>1. s - m \in 0..(m - 1) /\ q - 1 \in Int
      BY <1>1, <1>2, <1>4
    <2>2. (s - m) - r = m * (q - 1)
      <3> HIDE DEF s, r, q
      <3> QED
        BY <1>1, <1>2, <1>4
    <2> HIDE DEF s, r, q
    <2>3. s - m = r
      BY <1>2, <2>1, <2>2, SameRemainder
    <2> QED
      BY <1>2, <2>3 DEF s, r
  <1> QED
    BY <1>1, <1>3, <1>4

-----------------------------------------------------------------------------
(***************************************************************************)
(* Where the counter stands to the alarm: a period after the interrupt     *)
(* before, modulo the span.                                                *)
(***************************************************************************)
Flags ==
  \/ armed = TRUE /\ intr = FALSE
  \/ armed = FALSE /\ intr = TRUE

Words ==
  /\ now \in 0..(Span - 1) /\ alarm \in 0..(Span - 1)
  /\ age \in Int /\ gap \in Int /\ waited \in 0..Late

ArmedInv ==
  armed = TRUE =>
    /\ now + Period - alarm - age \in {-Span, 0, Span}
    /\ waited < Period => 0 <= age /\ age < Period
    /\ waited >= Period => Period <= age /\ age < Period + Span

RaisedInv ==
  intr = TRUE =>
    /\ now - alarm - age \in {-2 * Span, -Span, 0}
    /\ 0 <= age /\ age <= Late
    /\ waited < Period => gap = Period
    /\ waited >= Period => gap = Period \/ gap = Period + Span

GapInv == 0 <= gap /\ gap <= Period + Span

TimerInv == Flags /\ Words /\ ArmedInv /\ RaisedInv /\ GapInv

LEMMA TimerStarts == TimerInit => TimerInv
  <1> SUFFICES ASSUME TimerInit PROVE TimerInv
    OBVIOUS
  <1>1. /\ Span \in Nat \ {0} /\ Period \in Nat \ {0} /\ Lead \in Nat \ {0} /\ Late \in Nat
        /\ Lead <= Period /\ Period < Span
    BY ConstantTypes
  <1>2. now \in 0..(Span - 1) /\ Lead \in 0..(Span - 1)
    BY <1>1 DEF TimerInit
  <1>3. alarm \in 0..(Span - 1) /\ (alarm = now + Lead \/ alarm = now + Lead - Span)
    BY <1>1, <1>2, WrapsOnce DEF TimerInit
  <1>4. armed = TRUE /\ intr = FALSE /\ waited = 0 /\ age = Period - Lead /\ gap = Period
    BY DEF TimerInit
  <1>5. Flags /\ Words
    BY <1>1, <1>2, <1>3, <1>4 DEF Flags, Words
  <1>6. ArmedInv
    BY <1>1, <1>2, <1>3, <1>4 DEF ArmedInv
  <1>7. RaisedInv /\ GapInv
    BY <1>1, <1>4 DEF RaisedInv, GapInv
  <1> QED
    BY <1>5, <1>6, <1>7 DEF TimerInv

\* How far the counter is behind the alarm and the age, after a tick of both.
LEMMA ArmedDistance ==
  ASSUME NEW s \in Nat \ {0}, NEW p \in Nat, p < s,
         NEW n \in 0..(s - 1), NEW m \in 0..(s - 1), NEW a \in 0..(s - 1), NEW g \in Int,
         m = n + 1 \/ m = n + 1 - s,
         n + p - a - g \in {-s, 0, s}, 0 <= g, g < p + s
  PROVE  m + p - a - (g + 1) \in {-s, 0, s}
  OBVIOUS

LEMMA RaisedDistance ==
  ASSUME NEW s \in Nat \ {0}, NEW l \in Nat, l < 2 * s,
         NEW n \in 0..(s - 1), NEW m \in 0..(s - 1), NEW a \in 0..(s - 1), NEW g \in Int,
         m = n + 1 \/ m = n + 1 - s,
         n - a - g \in {-2 * s, -s, 0}, 0 <= g, g < l
  PROVE  m - a - (g + 1) \in {-2 * s, -s, 0}
  OBVIOUS

\* A tick moves the counter on by one.
LEMMA TickMoves ==
  ASSUME Words, now' = (now + 1) % Span
  PROVE  now' \in 0..(Span - 1) /\ (now' = now + 1 \/ now' = now + 1 - Span)
  <1>1. Span \in Nat \ {0} /\ 1 \in 0..(Span - 1)
    BY ConstantTypes
  <1>2. now \in 0..(Span - 1)
    BY DEF Words
  <1> QED
    BY <1>1, <1>2, WrapsOnce

LEMMA TickKeeps == TimerInv /\ Tick => TimerInv'
  <1> SUFFICES ASSUME TimerInv, Tick PROVE TimerInv'
    OBVIOUS
  <1>1. /\ Span \in Nat \ {0} /\ Period \in Nat \ {0} /\ Late \in Nat
        /\ Period < Span /\ Late < Period + Span
    BY ConstantTypes
  <1>2. now' \in 0..(Span - 1) /\ (now' = now + 1 \/ now' = now + 1 - Span)
    BY TickMoves DEF TimerInv, Tick
  <1>3. CASE armed /\ now' = alarm
    <2>1. intr' = TRUE /\ armed' = FALSE /\ gap' = age + 1 /\ age' = 0
          /\ alarm' = alarm /\ waited' = waited
      BY <1>3 DEF Tick
    <2>2. IF waited >= Period THEN age + 1 = Period + Span ELSE age + 1 = Period
      BY <1>1, <1>2, <1>3 DEF TimerInv, Flags, Words, ArmedInv
    <2> QED
      BY <1>1, <1>2, <1>3, <2>1, <2>2 DEF TimerInv, Flags, Words, ArmedInv, RaisedInv, GapInv
  <1>4. CASE ~(armed /\ now' = alarm)
    <2>1. /\ age' = age + (IF age > Period + Span THEN 0 ELSE 1)
          /\ intr' = intr /\ armed' = armed /\ gap' = gap
          /\ alarm' = alarm /\ waited' = waited
          /\ intr => age < Late
      BY <1>4 DEF Tick
    <2>2. age' = age + 1
      BY <1>1, <2>1 DEF TimerInv, Flags, Words, ArmedInv, RaisedInv
    <2>3. Words' /\ GapInv'
      BY <1>1, <1>2, <2>1, <2>2 DEF TimerInv, Words, GapInv
    <2>4. CASE armed = TRUE
      <3>1. now' # alarm
        BY <1>4, <2>4
      <3>2. /\ now \in 0..(Span - 1) /\ alarm \in 0..(Span - 1) /\ age \in Int
            /\ now + Period - alarm - age \in {-Span, 0, Span}
            /\ 0 <= age /\ age < Period + Span
        BY <1>1, <2>4 DEF TimerInv, Flags, Words, ArmedInv
      <3>3. IF waited >= Period THEN Period <= age' /\ age' < Period + Span ELSE 0 <= age' /\ age' < Period
        BY <1>1, <1>2, <2>2, <2>4, <3>1 DEF TimerInv, Flags, Words, ArmedInv
      <3>4. now' + Period - alarm - age' \in {-Span, 0, Span}
        BY <1>1, <1>2, <2>2, <3>2, ArmedDistance
      <3> QED
        <4>1. Flags' /\ intr' # TRUE
          BY <2>1, <2>4 DEF TimerInv, Flags
        <4>2. ArmedInv'
          BY <1>1, <2>1, <3>3, <3>4 DEF TimerInv, Words, ArmedInv
        <4> QED
          BY <2>3, <4>1, <4>2 DEF TimerInv, RaisedInv
    <2>5. CASE armed = FALSE
      <3>1. /\ now \in 0..(Span - 1) /\ alarm \in 0..(Span - 1) /\ age \in Int
            /\ now - alarm - age \in {-2 * Span, -Span, 0} /\ 0 <= age /\ age < Late
        BY <2>1, <2>5 DEF TimerInv, Flags, Words, RaisedInv
      <3>2. 0 <= age' /\ age' <= Late
        BY <1>1, <2>1, <2>2, <2>5 DEF TimerInv, Flags, Words, RaisedInv
      <3>3. now' - alarm - age' \in {-2 * Span, -Span, 0}
        <4>1. Late < 2 * Span
          BY <1>1
        <4> QED
          BY <1>1, <1>2, <2>2, <3>1, <4>1, RaisedDistance
      <3> QED
        BY <2>1, <2>3, <2>5, <3>2, <3>3 DEF TimerInv, Flags, Words, ArmedInv, RaisedInv
    <2>6. armed = TRUE \/ armed = FALSE
      BY DEF TimerInv, Flags
    <2> QED
      BY <2>4, <2>5, <2>6, Zenon
  <1> QED
    BY <1>3, <1>4

LEMMA ISRKeeps == TimerInv /\ NextAlarm => TimerInv'
  <1> SUFFICES ASSUME TimerInv, NextAlarm PROVE TimerInv'
    OBVIOUS
  <1> DEFINE next == (alarm + Period) % Span
  <1>1. /\ Span \in Nat \ {0} /\ Period \in Nat \ {0} /\ Late \in Nat
        /\ Period < Span /\ Late < Period + Span
    BY ConstantTypes
  <1>2. alarm \in 0..(Span - 1) /\ Period \in 0..(Span - 1)
    BY <1>1 DEF TimerInv, Words
  <1>3. next \in 0..(Span - 1) /\ (next = alarm + Period \/ next = alarm + Period - Span)
    BY <1>1, <1>2, WrapsOnce
  <1>4. /\ intr /\ now' = now /\ alarm' = next /\ waited' = age
        /\ \/ armed' = TRUE /\ intr' = FALSE /\ age' = age /\ gap' = gap
           \/ next = now /\ armed' = FALSE /\ intr' = TRUE /\ gap' = age /\ age' = 0
    BY DEF NextAlarm, Arm
  <1> HIDE DEF next
  <1>5. /\ now \in 0..(Span - 1) /\ age \in Int /\ gap \in Int /\ 0 <= age /\ age <= Late
        /\ now - alarm - age \in {-2 * Span, -Span, 0}
    BY <1>4 DEF TimerInv, Flags, Words, RaisedInv
  <1>6. now + Period - next - age \in {-2 * Span, -Span, 0, Span}
    BY <1>1, <1>2, <1>3, <1>5
  <1>8. CASE armed' = TRUE /\ intr' = FALSE /\ age' = age /\ gap' = gap
    <2>1. now + Period - next - age \in {-Span, 0, Span}
      BY <1>1, <1>3, <1>5, <1>6
    <2>2. ArmedInv'
      BY <1>1, <1>4, <1>5, <1>8, <2>1 DEF ArmedInv
    <2> QED
      BY <1>1, <1>3, <1>4, <1>5, <1>8, <2>2 DEF TimerInv, Flags, Words, RaisedInv, GapInv
  <1>9. CASE next = now /\ armed' = FALSE /\ intr' = TRUE /\ gap' = age /\ age' = 0
    <2>1. age = Period
      BY <1>1, <1>5, <1>6, <1>9
    <2>2. RaisedInv'
      BY <1>1, <1>4, <1>5, <1>9, <2>1 DEF RaisedInv
    <2> QED
      BY <1>1, <1>3, <1>4, <1>5, <1>9, <2>1, <2>2 DEF TimerInv, Flags, Words, ArmedInv, GapInv
  <1> QED
    BY <1>4, <1>8, <1>9

LEMMA StutterKeeps == TimerInv /\ UNCHANGED timerVars => TimerInv'
  BY DEF TimerInv, Flags, Words, ArmedInv, RaisedInv, GapInv, timerVars, timings

THEOREM TimerInvariance == TimerSpec => []TimerInv
  <1>1. TimerInv /\ [TimerNext]_timerVars => TimerInv'
    BY TickKeeps, ISRKeeps, StutterKeeps DEF TimerNext
  <1> QED
    BY TimerStarts, <1>1, PTL DEF TimerSpec

-----------------------------------------------------------------------------
\* The types, for every width and period.
THEOREM TimerTypeCorrect == TimerSpec => []TimerTypeOK
  <1>1. ASSUME TimerInv PROVE TimerTypeOK
    <2>1. armed \in BOOLEAN /\ intr = ~armed
      BY <1>1, Zenon DEF TimerInv, Flags
    <2>2. now \in 0..(Span - 1) /\ alarm \in 0..(Span - 1) /\ waited \in 0..Late
      BY <1>1 DEF TimerInv, Words
    <2>3. age \in 0..(Period + Span)
      BY <1>1, ConstantTypes DEF TimerInv, Flags, Words, ArmedInv, RaisedInv
    <2>4. gap \in 0..(Period + Span)
      BY <1>1, ConstantTypes DEF TimerInv, Words, GapInv
    <2> QED
      BY <2>1, <2>2, <2>3, <2>4 DEF TimerTypeOK
  <1> QED
    BY TimerInvariance, <1>1, PTL

\* Symbols do not drift, across the wrap of the counter.
THEOREM SymbolsDoNotDrift == TimerSpec => []NoDrift
  <1>1. TimerInv => NoDrift
    BY DEF TimerInv, RaisedInv, NoDrift
  <1> QED
    BY TimerInvariance, <1>1, PTL

\* A handler that is late costs one span of the counter, or nothing.
THEOREM LateCostsASpan == TimerSpec => []SilentForOneSpan
  <1>1. TimerInv => SilentForOneSpan
    <2> SUFFICES ASSUME TimerInv PROVE SilentForOneSpan
      OBVIOUS
    <2>1. age <= Period + Span
      BY ConstantTypes DEF TimerInv, Flags, Words, ArmedInv, RaisedInv
    <2>2. intr /\ waited >= Period => gap \in {Period, Period + Span}
      BY DEF TimerInv, RaisedInv
    <2> QED
      BY <2>1, <2>2 DEF SilentForOneSpan
  <1> QED
    BY TimerInvariance, <1>1, PTL

-----------------------------------------------------------------------------
(***************************************************************************)
(* Driven by the symbol timer the FIFO behaves as it does under any timer, *)
(* and the timer as it does alone, so that what is proved of each holds of *)
(* the two together.                                                       *)
(***************************************************************************)
THEOREM TimedChannelRuns == TimedSpec => Init /\ [][Next]_vars /\ TimerSpec
  <1>1. TimedInit => Init /\ TimerInit
    BY DEF TimedInit
  <1>2. [TimedNext]_timedVars => [Next]_vars
    BY DEF TimedNext, timedVars, Handler, MainLoop, TimePasses, Next
  <1>3. [TimedNext]_timedVars => [TimerNext]_timerVars
    BY DEF TimedNext, timedVars, Handler, MainLoop, TimePasses, TimerNext
  <1> QED
    BY <1>1, <1>2, <1>3, PTL DEF TimedSpec, TimerSpec
=============================================================================
