---------------------------- MODULE TxSlot_proofs ----------------------------
(***************************************************************************)
(* Proofs about the transmission loop, for all durations, any number of    *)
(* symbols and any lateness of its sleeps.                                 *)
(***************************************************************************)
EXTENDS TxSlot, Integers, TLAPS

\* The constants one by one.
LEMMA ConstantTypes ==
  /\ Second \in Nat \ {0} /\ SlotSeconds \in Nat \ {0} /\ Windows \in Nat \ {0}
  /\ SymbolCount \in Nat \ {0} /\ Period \in Nat \ {0} /\ Poll \in Nat \ {0}
  /\ Tail \in Nat \ {0} /\ Lead \in Nat \ {0} /\ Timeout \in Nat /\ Late \in Nat
  /\ ClkSpan \in Nat /\ ClkSpan >= Timeout /\ MaxEpoch \in 0..1
  BY TxSlotAssumption

LEMMA ProductIsPositive ==
  ASSUME NEW a \in Nat \ {0}, NEW b \in Nat \ {0}
  PROVE  a * b \in Nat \ {0}
  OBVIOUS

LEMMA Rest ==
  ASSUME NEW a \in Int, NEW m \in Nat \ {0}
  PROVE  a % m \in 0..(m - 1)
  BY SMT

LEMMA QuotientBounded ==
  ASSUME NEW d \in Nat \ {0}, NEW n \in Nat \ {0}, NEW a \in 0..(n * d - 1)
  PROVE  a \div d \in 0..(n - 1)
  OBVIOUS

LEMMA Quot ==
  ASSUME NEW u \in Nat, NEW d \in Nat \ {0}
  PROVE  /\ u \div d \in Nat /\ u % d \in 0..(d - 1)
         /\ u = (u \div d) * d + (u % d)
  OBVIOUS

LEMMA Less ==
  ASSUME NEW a \in Nat, NEW b \in Nat, NEW d \in Nat \ {0}, a < b
  PROVE  a * d + d <= b * d
  <1>1. PICK k \in Nat : b = a + 1 + k
    <2>1. b - a - 1 \in Nat /\ b = a + 1 + (b - a - 1)
      OBVIOUS
    <2> QED
      BY <2>1
  <1>2. b * d = a * d + d + k * d
    BY <1>1
  <1>3. k * d \in Nat /\ a * d \in Nat
    BY <1>1
  <1> QED
    BY <1>2, <1>3

LEMMA Unique ==
  ASSUME NEW u \in Nat, NEW d \in Nat \ {0}, NEW w \in Nat, w * d <= u, u < w * d + d
  PROVE  u \div d = w /\ u % d = u - w * d
  <1> DEFINE q == u \div d
             r == u % d
  <1>1. q \in Nat /\ r \in 0..(d - 1) /\ u = q * d + r
    BY Quot
  <1> HIDE DEF q, r
  <1>2. q * d \in Nat /\ w * d \in Nat
    BY <1>1
  <1>3. ~(q < w)
    <2> SUFFICES ASSUME q < w PROVE FALSE
      OBVIOUS
    <2>1. q * d + d <= w * d
      BY <1>1, Less
    <2> QED
      BY <1>1, <1>2, <2>1
  <1>4. ~(w < q)
    <2> SUFFICES ASSUME w < q PROVE FALSE
      OBVIOUS
    <2>1. w * d + d <= q * d
      BY <1>1, Less
    <2> QED
      BY <1>1, <1>2, <2>1
  <1>5. q = w
    BY <1>1, <1>3, <1>4
  <1>6. r = u - w * d
    BY <1>1, <1>2, <1>5
  <1> QED
    BY <1>5, <1>6 DEF q, r

LEMMA MinuteTypes ==
  /\ Slot \in Nat \ {0} /\ Minute \in Nat \ {0}
  /\ Windows * SlotSeconds \in Nat \ {0}
  /\ Minute = (Windows * SlotSeconds) * Second
  <1>1. Slot \in Nat \ {0} /\ Windows * SlotSeconds \in Nat \ {0}
    BY ConstantTypes, ProductIsPositive DEF Slot
  <1>2. Minute \in Nat \ {0}
    BY <1>1, ConstantTypes, ProductIsPositive DEF Minute
  <1>3. Minute = (Windows * SlotSeconds) * Second
    BY ConstantTypes DEF Minute, Slot
  <1> QED
    BY <1>1, <1>2, <1>3

LEMMA HoldSpanIs == HoldSpan \in Nat \ {0} /\ HoldSpan = Tail + Poll + 2 * Late + 1
  BY ConstantTypes DEF HoldSpan

-----------------------------------------------------------------------------
\* The types are inductive by themselves.
LEMMA InitTypes == Init => TypeOK
  <1> SUFFICES ASSUME Init PROVE TypeOK
    OBVIOUS
  <1>1. /\ epoch \in 0..MaxEpoch /\ pending \in 0..SymbolCount /\ lastWindow \in 0..Windows
        /\ elapsed \in 0..Timeout /\ txEpoch \in 0..MaxEpoch /\ hold \in 0..HoldSpan /\ sends \in 0..2
    BY ConstantTypes, HoldSpanIs DEF Init
  <1>2. second \in 0..(Windows * SlotSeconds - 1)
    <2> DEFINE n == Windows * SlotSeconds
    <2>1. n \in Nat \ {0} /\ second = 0
      BY MinuteTypes DEF Init
    <2> HIDE DEF n
    <2>2. second \in 0..(n - 1)
      BY <2>1
    <2> QED
      BY <2>2 DEF n
  <1> QED
    BY <1>1, <1>2 DEF Init, TypeOK

LEMMA SecondTypes ==
  ASSUME TypeOK
  PROVE  /\ CurrentSecond \in 0..(Windows * SlotSeconds - 1)
         /\ second \div SlotSeconds \in 0..Windows
  <1>1. CurrentSecond \in 0..(Windows * SlotSeconds - 1)
    <2> DEFINE n == Windows * SlotSeconds
    <2>1. n \in Nat \ {0} /\ utc \in 0..(n * Second - 1)
      BY MinuteTypes DEF TypeOK
    <2> HIDE DEF n
    <2>2. utc \div Second \in 0..(n - 1)
      BY <2>1, ConstantTypes, QuotientBounded
    <2> QED
      BY <2>2 DEF n, CurrentSecond
  <1>2. second \div SlotSeconds \in 0..(Windows - 1)
    BY ConstantTypes, QuotientBounded DEF TypeOK
  <1> QED
    BY <1>1, <1>2, ConstantTypes

LEMMA LoopTypes ==
  ASSUME TypeOK, MainLoop
  PROVE  TypeOK'
  <1>1. /\ CurrentSecond \in 0..(Windows * SlotSeconds - 1)
        /\ second \div SlotSeconds \in 0..Windows
    BY SecondTypes
  <1> DEFINE secs == Windows * SlotSeconds - 1
             mins == Minute - 1
             Rests == /\ utc \in 0..mins /\ epoch \in 0..MaxEpoch /\ isr \in 0..Period /\ pending \in 0..SymbolCount
                      /\ dco \in BOOLEAN /\ wait \in Nat /\ second \in 0..secs /\ triggered \in BOOLEAN
                      /\ lastWindow \in 0..Windows /\ elapsed \in 0..Timeout /\ txEpoch \in 0..MaxEpoch
                      /\ hold \in 0..HoldSpan /\ sends \in 0..2 /\ whole \in BOOLEAN
                      /\ pc \in {"top", "send", "test", "stop", "exit", "bottom"}
  <1>2. Rests
    BY DEF TypeOK
  <1>3. SUFFICES Rests'
    BY DEF TypeOK
  <1>4. /\ CurrentSecond \in 0..secs /\ second \div SlotSeconds \in 0..Windows
        /\ SymbolCount \in 0..SymbolCount /\ 0 \in 0..Timeout
    BY <1>1, ConstantTypes
  <1>5. /\ Lead..(Lead + Late) \subseteq Nat /\ Poll..(Poll + Late) \subseteq Nat
        /\ Tail..(Tail + Late) \subseteq Nat
    BY ConstantTypes
  <1> HIDE DEF secs, mins
  <1> USE DEF Sleep, Awake, loop, start, clock
  <1>6. CASE Trigger
    BY <1>2, <1>4, <1>5, <1>6 DEF Trigger
  <1>7. CASE NoTrigger
    BY <1>2, <1>4, <1>5, <1>7 DEF NoTrigger
  <1>8. CASE SendPacket
    <2>1. Minimum(sends + 1, 2) \in 0..2
      BY <1>2 DEF Minimum
    <2> QED
      BY <1>2, <1>4, <1>8, <2>1 DEF SendPacket
  <1>9. CASE AwaitEmpty
    BY <1>2, <1>5, <1>9 DEF AwaitEmpty
  <1>10. CASE Complete
    BY <1>2, <1>5, <1>10 DEF Complete
  <1>11. CASE ForceStop
    BY <1>2, <1>5, <1>11 DEF ForceStop
  <1>12. CASE ExitLoop
    BY <1>2, <1>5, <1>12 DEF ExitLoop
  <1>13. CASE Bottom
    <2>1. lastWindow' \in 0..Windows
      BY <1>4, <1>13 DEF Bottom
    <2>2. triggered' \in BOOLEAN
      BY <1>13, Zenon DEF Bottom
    <2> QED
      BY <1>2, <1>13, <2>1, <2>2 DEF Bottom
  <1> QED
    BY <1>6, <1>7, <1>8, <1>9, <1>10, <1>11, <1>12, <1>13 DEF MainLoop

LEMMA IsrTypes ==
  ASSUME TypeOK, TxChannelISR
  PROVE  TypeOK'
  <1>1. isr' \in 0..Period /\ pending' \in 0..SymbolCount /\ hold' \in 0..HoldSpan
    BY ConstantTypes, HoldSpanIs DEF TypeOK, TxChannelISR
  <1> QED
    BY <1>1, Zenon DEF TypeOK, TxChannelISR, loop, start, clock

LEMMA TickTypes ==
  ASSUME TypeOK, Tick
  PROVE  TypeOK'
  <1>1. utc' \in 0..(Minute - 1)
    <2>1. utc + 1 \in Int /\ utc' = (utc + 1) % Minute
      BY MinuteTypes DEF TypeOK, Tick
    <2> QED
      BY <2>1, MinuteTypes, Rest
  <1>2. epoch' \in 0..MaxEpoch /\ isr' \in 0..Period /\ wait' \in Nat
    BY ConstantTypes DEF TypeOK, Tick
  <1>3. elapsed' \in 0..Timeout /\ hold' \in 0..HoldSpan
    BY ConstantTypes, HoldSpanIs DEF TypeOK, Tick, Minimum
  <1>4. sends' \in 0..2
    BY DEF TypeOK, Tick
  <1>5. whole' \in BOOLEAN
    BY Zenon DEF Tick
  <1> QED
    BY <1>1, <1>2, <1>3, <1>4, <1>5, Zenon DEF TypeOK, Tick, loop

(***************************************************************************)
(* Every variable of the loop keeps its type, for all durations.           *)
(***************************************************************************)
THEOREM TypeCorrect == Spec => []TypeOK
  <1>1. Init => TypeOK
    BY InitTypes
  <1>2. TypeOK /\ [Next]_vars => TypeOK'
    <2> SUFFICES ASSUME TypeOK, [Next]_vars PROVE TypeOK'
      OBVIOUS
    <2>1. CASE MainLoop
      BY <2>1, LoopTypes
    <2>2. CASE TxChannelISR
      BY <2>2, IsrTypes
    <2>3. CASE Tick
      BY <2>3, TickTypes
    <2>4. CASE UNCHANGED vars
      BY <2>4, Zenon DEF vars, clock, loop, start, TypeOK
    <2> QED
      BY <2>1, <2>2, <2>3, <2>4 DEF Next
  <1> QED
    BY <1>1, <1>2, PTL DEF Spec

-----------------------------------------------------------------------------
\* Where the loop is decides whether the oscillator runs.
Carrier ==
  \/ dco = TRUE /\ pc \in {"send", "test", "stop"}
  \/ dco = FALSE /\ pc \in {"top", "exit", "bottom"}

(***************************************************************************)
(* The carrier is on the air from the trigger to the stop and at no other  *)
(* time, whether the packet was completed or given up.                     *)
(***************************************************************************)
THEOREM CarrierStops == Spec => []CarrierOnlyInTx
  <1>1. Init => Carrier
    BY DEF Init, Carrier
  <1>2. Carrier /\ [Next]_vars => Carrier'
    <2> SUFFICES ASSUME Carrier, [Next]_vars PROVE Carrier'
      OBVIOUS
    <2> USE DEF Sleep, Awake, Carrier
    <2>1. CASE Trigger
      BY <2>1 DEF Trigger
    <2>2. CASE NoTrigger
      BY <2>2 DEF NoTrigger
    <2>3. CASE SendPacket
      BY <2>3 DEF SendPacket
    <2>4. CASE AwaitEmpty
      BY <2>4 DEF AwaitEmpty
    <2>5. CASE Complete
      BY <2>5 DEF Complete
    <2>6. CASE ForceStop
      BY <2>6 DEF ForceStop
    <2>7. CASE ExitLoop
      BY <2>7 DEF ExitLoop
    <2>8. CASE Bottom
      BY <2>8 DEF Bottom
    <2>9. CASE TxChannelISR
      BY <2>9 DEF TxChannelISR
    <2>10. CASE Tick
      BY <2>10 DEF Tick
    <2>11. CASE UNCHANGED vars
      BY <2>11 DEF vars
    <2> QED
      BY <2>1, <2>2, <2>3, <2>4, <2>5, <2>6, <2>7, <2>8, <2>9, <2>10, <2>11 DEF Next, MainLoop
  <1>3. Carrier => CarrierOnlyInTx
    BY DEF Carrier, CarrierOnlyInTx
  <1> QED
    BY <1>1, <1>2, <1>3, PTL DEF Spec

-----------------------------------------------------------------------------
\* How long the last symbol may still be held: while the loop waits in its
\* poll, and while it sleeps before the stop.
Held ==
  /\ pc = "test" => wait <= Poll + Late
  /\ pc = "test" /\ pending = 0 => hold + wait <= Poll + Late
  /\ pc = "stop" => pending = 0
  /\ pc = "stop" => Tail <= hold + wait /\ hold + wait < HoldSpan

LEMMA HeldStep ==
  ASSUME TypeOK, Held, [Next]_vars
  PROVE  Held'
  <1>1. /\ Tail \in Nat /\ Poll \in Nat \ {0} /\ Late \in Nat /\ SymbolCount \in Nat \ {0}
        /\ HoldSpan = Tail + Poll + 2 * Late + 1
    BY ConstantTypes, HoldSpanIs
  <1>2. hold \in Nat /\ wait \in Nat /\ pending \in Nat /\ isr \in Nat
    BY HoldSpanIs, ConstantTypes DEF TypeOK
  <1> USE DEF Sleep, Awake, Held
  <1>3. CASE Trigger
    BY <1>3 DEF Trigger
  <1>4. CASE NoTrigger
    BY <1>4 DEF NoTrigger
  <1>5. CASE SendPacket
    BY <1>1, <1>5 DEF SendPacket
  <1>6. CASE AwaitEmpty
    <2>1. CASE pending = 0
      BY <1>1, <1>2, <1>6, <2>1 DEF AwaitEmpty
    <2>2. CASE pending # 0
      BY <1>1, <1>2, <1>6, <2>2 DEF AwaitEmpty
    <2> QED
      BY <2>1, <2>2
  <1>7. CASE Complete
    BY <1>7 DEF Complete
  <1>8. CASE ForceStop
    BY <1>8 DEF ForceStop
  <1>9. CASE ExitLoop
    BY <1>9 DEF ExitLoop
  <1>10. CASE Bottom
    BY <1>10 DEF Bottom
  <1>11. CASE TxChannelISR
    BY <1>1, <1>2, <1>11 DEF TxChannelISR
  <1>12. CASE Tick
    BY <1>1, <1>2, <1>12 DEF Tick, Minimum
  <1>13. CASE UNCHANGED vars
    BY <1>13 DEF vars
  <1> QED
    BY <1>3, <1>4, <1>5, <1>6, <1>7, <1>8, <1>9, <1>10, <1>11, <1>12, <1>13 DEF Next, MainLoop

(***************************************************************************)
(* The oscillator is stopped no earlier than the tail after the last       *)
(* symbol was keyed and at most one poll, and the lateness of two sleeps,  *)
(* later, whatever the symbol period and wherever the interrupt falls.     *)
(***************************************************************************)
THEOREM TailAfterLast == Spec => []TailAfterLastSymbol
  <1>1. Init => Held
    BY DEF Init, Held
  <1>2. TypeOK /\ Held /\ [Next]_vars => Held'
    BY HeldStep
  <1>3. TypeOK /\ Held => TailAfterLastSymbol
    <2> SUFFICES ASSUME TypeOK, Held, pc = "stop", wait = 0
                 PROVE  hold \in Tail..(Tail + Poll + 2 * Late)
      BY DEF TailAfterLastSymbol, Awake
    <2> QED
      BY ConstantTypes, HoldSpanIs DEF TypeOK, Held
  <1> QED
    BY <1>1, <1>2, <1>3, TypeCorrect, PTL DEF Spec

-----------------------------------------------------------------------------
\* The time the symbols take: 80 symbol periods at most, one of them the
\* wait for the first interrupt, and the last poll.
PacketTime == (SymbolCount + 1) * Period + Poll + Late

LEMMA OneFewer ==
  ASSUME NEW p \in Nat \ {0}, NEW d \in Nat
  PROVE  /\ p * d \in Nat /\ (p - 1) * d \in Nat
         /\ (p - 1) * d + d = p * d
         /\ d <= p * d
  <1>1. (p - 1) * d + d = p * d
    OBVIOUS
  <1>2. p * d \in Nat /\ (p - 1) * d \in Nat
    OBVIOUS
  <1> QED
    BY <1>1, <1>2

LEMMA Times == /\ SymbolCount * Period \in Nat /\ PacketTime \in Nat
               /\ PacketTime = SymbolCount * Period + Period + Poll + Late
  <1>1. SymbolCount + 1 \in Nat \ {0} /\ (SymbolCount + 1) - 1 = SymbolCount
    BY ConstantTypes
  <1>2. /\ SymbolCount * Period \in Nat
        /\ (SymbolCount + 1) * Period = SymbolCount * Period + Period
    BY <1>1, ConstantTypes, OneFewer
  <1> QED
    BY <1>2, ConstantTypes DEF PacketTime

\* Each interrupt of the wait takes a symbol out of the FIFO, so the time
\* waited is bounded by the symbols gone, and then by the last poll.
Waited ==
  /\ pc = "test" => wait <= Poll + Late
  /\ pc = "test" /\ pending > 0 =>
       elapsed + isr + pending * Period <= SymbolCount * Period + Period
  /\ pc = "test" /\ pending = 0 => elapsed + wait <= SymbolCount * Period + Poll + Late

LEMMA WaitedStep ==
  ASSUME TypeOK, Waited, [Next]_vars
  PROVE  Waited'
  <1>1. /\ Poll \in Nat /\ Late \in Nat /\ Period \in Nat \ {0} /\ Timeout \in Nat
        /\ SymbolCount \in Nat \ {0} /\ SymbolCount * Period \in Nat
    BY ConstantTypes, Times
  <1>2. elapsed \in Nat /\ isr \in Nat /\ isr <= Period /\ wait \in Nat /\ pending \in Nat
    BY ConstantTypes DEF TypeOK
  <1> DEFINE all == SymbolCount * Period
             due == pending * Period
  <1>3. /\ pc = "test" => wait <= Poll + Late
        /\ pc = "test" /\ pending > 0 => elapsed + isr + due <= all + Period
        /\ pc = "test" /\ pending = 0 => elapsed + wait <= all + Poll + Late
    BY DEF Waited
  <1>4. all \in Nat /\ due \in Nat
    BY <1>1, <1>2
  <1>5. SUFFICES /\ pc' = "test" => wait' <= Poll + Late
                 /\ pc' = "test" /\ pending' > 0 => elapsed' + isr' + pending' * Period <= all + Period
                 /\ pc' = "test" /\ pending' = 0 => elapsed' + wait' <= all + Poll + Late
    BY DEF Waited
  <1>6. UNCHANGED pending => pending' * Period = due
    OBVIOUS
  <1>7. pending' = SymbolCount => pending' * Period = all
    OBVIOUS
  <1>8. pending > 0 /\ pending' = pending - 1 => /\ pending' * Period \in Nat
                                                 /\ pending' * Period + Period = due
    BY <1>1, <1>2, OneFewer
  <1> DEFINE dueNext == pending' * Period
  <1> HIDE DEF all, due, dueNext
  <1>9. /\ UNCHANGED pending => dueNext = due
        /\ pending' = SymbolCount => dueNext = all
        /\ pending > 0 /\ pending' = pending - 1 => dueNext \in Nat /\ dueNext + Period = due
    BY <1>6, <1>7, <1>8 DEF dueNext
  <1>10. SUFFICES /\ pc' = "test" => wait' <= Poll + Late
                  /\ pc' = "test" /\ pending' > 0 => elapsed' + isr' + dueNext <= all + Period
                  /\ pc' = "test" /\ pending' = 0 => elapsed' + wait' <= all + Poll + Late
    BY DEF dueNext
  <1> USE DEF Sleep, Awake, start
  <1>11. CASE Trigger
    BY <1>11 DEF Trigger
  <1>12. CASE NoTrigger
    BY <1>12 DEF NoTrigger
  <1>13. CASE SendPacket
    BY <1>1, <1>2, <1>4, <1>9, <1>13 DEF SendPacket
  <1>14. CASE AwaitEmpty
    BY <1>1, <1>2, <1>3, <1>4, <1>9, <1>14 DEF AwaitEmpty
  <1>15. CASE Complete
    BY <1>15 DEF Complete
  <1>16. CASE ForceStop
    BY <1>16 DEF ForceStop
  <1>17. CASE ExitLoop
    BY <1>17 DEF ExitLoop
  <1>18. CASE Bottom
    BY <1>18 DEF Bottom
  <1>19. CASE TxChannelISR
    <2>1. CASE pending = 0
      BY <1>1, <1>2, <1>3, <1>4, <1>19, <2>1 DEF TxChannelISR
    <2>2. CASE pending = 1
      BY <1>1, <1>2, <1>3, <1>4, <1>9, <1>19, <2>2 DEF TxChannelISR
    <2>3. CASE pending > 1
      BY <1>1, <1>2, <1>3, <1>4, <1>9, <1>19, <2>3 DEF TxChannelISR
    <2> QED
      BY <1>2, <2>1, <2>2, <2>3
  <1>20. CASE Tick
    BY <1>1, <1>2, <1>3, <1>4, <1>9, <1>20 DEF Tick, Minimum
  <1>21. CASE UNCHANGED vars
    BY <1>3, <1>9, <1>21 DEF vars
  <1> QED
    BY <1>11, <1>12, <1>13, <1>14, <1>15, <1>16, <1>17, <1>18, <1>19, <1>20, <1>21 DEF Next, MainLoop

LEMMA WaitedCorrect == Spec => []Waited
  <1>1. Init => Waited
    BY DEF Init, Waited
  <1>2. TypeOK /\ Waited /\ [Next]_vars => Waited'
    BY WaitedStep
  <1> QED
    BY <1>1, <1>2, TypeCorrect, PTL DEF Spec

LEMMA WaitedBound ==
  ASSUME TypeOK, Waited, pc = "test"
  PROVE  elapsed <= PacketTime /\ (isr > 0 /\ wait > 0 => elapsed < PacketTime)
  <1> DEFINE all == SymbolCount * Period
             due == pending * Period
  <1>1. /\ elapsed \in Nat /\ isr \in Nat /\ wait \in Nat /\ pending \in Nat /\ due \in Nat
        /\ Period \in Nat /\ Poll \in Nat /\ Late \in Nat /\ all \in Nat
    BY ConstantTypes, Times DEF TypeOK
  <1>2. /\ pending > 0 => elapsed + isr + due <= all + Period
        /\ pending = 0 => elapsed + wait <= all + Poll + Late
    BY DEF Waited
  <1>3. PacketTime = all + Period + Poll + Late
    BY Times
  <1> HIDE DEF all, due
  <1> QED
    BY <1>1, <1>2, <1>3

\* In the first epoch no symbols are left outside the wait loop.
Spent ==
  epoch = 0 => /\ txEpoch = 0
               /\ pc # "test" => pending = 0

LEMMA NoForceStop ==
  ASSUME PacketTime < Timeout, TypeOK, Waited, Spent, ForceStop
  PROVE  epoch # 0
  <1>1. elapsed \in Nat /\ PacketTime \in Nat /\ Timeout \in Nat
    BY ConstantTypes, Times DEF TypeOK
  <1>2. epoch = 0 => SinceStart = elapsed
    BY <1>1, ConstantTypes DEF SinceStart, Spent
  <1>3. elapsed <= PacketTime
    BY WaitedBound DEF ForceStop, Awake
  <1> QED
    BY <1>1, <1>2, <1>3 DEF ForceStop

LEMMA SpentStep ==
  ASSUME PacketTime < Timeout, TypeOK, Waited, Spent, [Next]_vars
  PROVE  Spent'
  <1>1. epoch \in Nat /\ elapsed \in Nat /\ pending \in Nat /\ PacketTime \in Nat /\ Timeout \in Nat
    BY ConstantTypes, Times DEF TypeOK
  <1> USE DEF Sleep, Awake, clock, start, Spent
  <1>2. CASE Trigger
    BY <1>2 DEF Trigger
  <1>3. CASE NoTrigger
    BY <1>3 DEF NoTrigger
  <1>4. CASE SendPacket
    BY <1>4 DEF SendPacket
  <1>5. CASE AwaitEmpty
    BY <1>5 DEF AwaitEmpty
  <1>6. CASE Complete
    BY <1>6 DEF Complete
  <1>7. CASE ForceStop
    <2>1. epoch # 0
      BY <1>7, NoForceStop
    <2> QED
      BY <1>7, <2>1 DEF ForceStop
  <1>8. CASE ExitLoop
    BY <1>8 DEF ExitLoop
  <1>9. CASE Bottom
    BY <1>9 DEF Bottom
  <1>10. CASE TxChannelISR
    BY <1>1, <1>10 DEF TxChannelISR
  <1>11. CASE Tick
    <2>1. epoch' = 0 => epoch = 0
      BY <1>1, <1>11, ConstantTypes DEF Tick
    <2> QED
      BY <1>11, <2>1 DEF Tick
  <1>12. CASE UNCHANGED vars
    BY <1>12 DEF vars
  <1> QED
    BY <1>2, <1>3, <1>4, <1>5, <1>6, <1>7, <1>8, <1>9, <1>10, <1>11, <1>12 DEF Next, MainLoop

(***************************************************************************)
(* In the first 2^32 ms no stop of the oscillator cuts more than the last  *)
(* symbol, nor that one before the tail, for any timeout longer than 80    *)
(* symbol periods and one late poll.                                       *)
(***************************************************************************)
THEOREM OnlyLastSymbolIsCut ==
  ASSUME PacketTime < Timeout
  PROVE  Spec => CutsOnlyLastSymbol
  <1>1. Init => Spent
    BY DEF Init, Spent
  <1>2. TypeOK /\ Waited /\ Spent /\ [Next]_vars => Spent'
    BY SpentStep
  <1>3. ASSUME TypeOK, Waited, Spent, TailAfterLastSymbol, [Next]_vars, epoch = 0, dco, ~dco'
        PROVE  pending = 0 /\ hold >= Tail
    <2>1. CASE Complete
      <3>1. Awake("stop")
        BY <2>1 DEF Complete
      <3>2. pending = 0
        BY <1>3, <3>1 DEF Spent, Awake
      <3>3. hold \in Tail..(Tail + Poll + 2 * Late)
        BY <1>3, <3>1 DEF TailAfterLastSymbol
      <3> QED
        BY <3>2, <3>3, ConstantTypes
    <2>2. ~ForceStop
      BY <1>3, NoForceStop
    <2>3. Complete
      BY <1>3, <2>2 DEF Next, MainLoop, Trigger, NoTrigger, SendPacket, AwaitEmpty, ExitLoop, Bottom,
                        TxChannelISR, Tick, vars
    <2> QED
      BY <2>1, <2>3
  <1>4. TypeOK /\ Waited /\ Spent /\ TailAfterLastSymbol /\ [Next]_vars
          => [epoch = 0 /\ dco /\ ~dco' => pending = 0 /\ hold >= Tail]_vars
    BY <1>3
  <1> QED
    BY <1>1, <1>2, <1>4, TypeCorrect, WaitedCorrect, TailAfterLast, PTL DEF Spec, CutsOnlyLastSymbol

-----------------------------------------------------------------------------
\* Where the window that was triggered begins, and how long the carrier may
\* be on in it, the second in which it is triggered included.
Base == (second \div SlotSeconds) * Slot
CarrierTime == Second + Lead + PacketTime + Tail + 2 * Late

LEMMA BaseFits ==
  ASSUME TypeOK
  PROVE  /\ second \div SlotSeconds \in Nat
         /\ Base \in Nat /\ Base + Slot <= Minute
  <1>1. second \div SlotSeconds \in 0..(Windows - 1)
    BY ConstantTypes, QuotientBounded DEF TypeOK
  <1> DEFINE w == second \div SlotSeconds
  <1>2. w \in Nat /\ w < Windows
    BY <1>1, ConstantTypes
  <1> HIDE DEF w
  <1>3. w * Slot \in Nat /\ w * Slot + Slot <= Windows * Slot
    BY <1>2, ConstantTypes, MinuteTypes, Less
  <1> QED
    BY <1>2, <1>3 DEF Base, Minute, w

\* A slot's first second starts with the slot.
LEMMA SlotBegins ==
  ASSUME TypeOK, IsSlotTime
  PROVE  LET b == (CurrentSecond \div SlotSeconds) * Slot IN
           b \in Nat /\ b <= utc /\ utc < b + Second
  <1> DEFINE c == utc \div Second
             r == utc % Second
             w == c \div SlotSeconds
  <1>1. c % SlotSeconds = 0
    BY DEF IsSlotTime, CurrentSecond
  <1>2. utc \in Nat
    BY MinuteTypes DEF TypeOK
  <1>3. c \in Nat /\ r \in 0..(Second - 1) /\ utc = c * Second + r
    BY <1>2, ConstantTypes, Quot
  <1> HIDE DEF c, r
  <1>4. w \in Nat /\ c = w * SlotSeconds + (c % SlotSeconds)
    BY <1>3, ConstantTypes, Quot
  <1> HIDE DEF w
  <1>5. w * SlotSeconds \in Nat /\ c * Second \in Nat
    BY <1>3, <1>4, ConstantTypes
  <1>6. c = w * SlotSeconds
    BY <1>1, <1>4, <1>5
  <1>7. c * Second = w * Slot
    BY <1>4, <1>6, ConstantTypes DEF Slot
  <1>8. w * Slot \in Nat /\ w * Slot <= utc /\ utc < w * Slot + Second
    <2> DEFINE b == w * Slot
    <2>1. b \in Nat /\ utc = b + r
      BY <1>3, <1>5, <1>7
    <2> HIDE DEF b
    <2>2. b \in Nat /\ b <= utc /\ utc < b + Second
      BY <1>3, <2>1, ConstantTypes
    <2> QED
      BY <2>2 DEF b
  <1> QED
    BY <1>8 DEF CurrentSecond, c, w

LEMMA TickUtc ==
  ASSUME TypeOK, Tick
  PROVE  /\ utc \in Nat /\ utc + 1 <= Minute
         /\ utc + 1 < Minute => utc' = utc + 1
         /\ utc + 1 = Minute => utc' = 0
  <1>1. utc \in Nat /\ Minute \in Nat \ {0} /\ utc + 1 <= Minute /\ utc' = (utc + 1) % Minute
    BY MinuteTypes DEF TypeOK, Tick
  <1>2. ASSUME utc + 1 < Minute PROVE (utc + 1) % Minute = utc + 1
    <2>1. utc + 1 \in Nat /\ 0 * Minute <= utc + 1 /\ utc + 1 < 0 * Minute + Minute
      BY <1>1, <1>2
    <2>2. (utc + 1) % Minute = (utc + 1) - 0 * Minute
      BY <2>1, <1>1, Unique
    <2> QED
      BY <1>1, <2>2
  <1>3. ASSUME utc + 1 = Minute PROVE (utc + 1) % Minute = 0
    <2>1. 1 * Minute <= utc + 1 /\ utc + 1 < 1 * Minute + Minute /\ utc + 1 \in Nat
      BY <1>1, <1>3
    <2>2. (utc + 1) % Minute = (utc + 1) - 1 * Minute
      BY <2>1, <1>1, Unique
    <2> QED
      BY <1>1, <1>3, <2>2
  <1> QED
    BY <1>1, <1>2, <1>3

\* The carrier within the window, at each label of the loop.
InWindow ==
  /\ pc = "send" => Base <= utc /\ utc + wait < Base + Second + Lead + Late
  /\ pc = "test" => Base + elapsed <= utc /\ utc < Base + Second + Lead + Late + elapsed
  /\ pc = "stop" => Base <= utc /\ utc + wait < Base + CarrierTime

LEMMA InWindowStep ==
  ASSUME PacketTime < Timeout, CarrierTime <= Slot, TypeOK, Waited, InWindow, [Next]_vars
  PROVE  InWindow'
  <1>1. /\ Second \in Nat /\ Lead \in Nat /\ Late \in Nat /\ Tail \in Nat /\ PacketTime \in Nat
        /\ Slot \in Nat /\ Minute \in Nat \ {0} /\ Timeout \in Nat
        /\ CarrierTime = Second + Lead + PacketTime + Tail + 2 * Late
    BY ConstantTypes, MinuteTypes, Times DEF CarrierTime
  <1>2. /\ utc \in Nat /\ elapsed \in Nat /\ wait \in Nat /\ Base \in Nat
        /\ Base + Slot <= Minute
    BY BaseFits, MinuteTypes, ConstantTypes DEF TypeOK
  <1>3. UNCHANGED second => UNCHANGED Base
    BY DEF Base
  <1>4. CASE Trigger
    <2>1. /\ pc' = "send" /\ wait' \in Lead..(Lead + Late) /\ utc' = utc
          /\ Base' = (CurrentSecond \div SlotSeconds) * Slot
      BY <1>4 DEF Trigger, Sleep, Base, clock
    <2>2. Base' \in Nat /\ Base' <= utc /\ utc < Base' + Second
      BY <1>4, <2>1, SlotBegins DEF Trigger
    <2> HIDE DEF Base
    <2> QED
      BY <1>1, <1>2, <2>1, <2>2 DEF InWindow
  <1> HIDE DEF Base
  <1> USE DEF Sleep, Awake, clock, loop, start, InWindow
  <1>5. CASE NoTrigger
    BY <1>5 DEF NoTrigger
  <1>6. CASE SendPacket
    BY <1>1, <1>2, <1>3, <1>6 DEF SendPacket
  <1>7. CASE AwaitEmpty
    <2>1. elapsed <= PacketTime
      BY <1>7, WaitedBound DEF AwaitEmpty
    <2> QED
      BY <1>1, <1>2, <1>3, <1>7, <2>1 DEF AwaitEmpty
  <1>8. CASE Complete
    BY <1>8 DEF Complete
  <1>9. CASE ForceStop
    BY <1>9 DEF ForceStop
  <1>10. CASE ExitLoop
    BY <1>10 DEF ExitLoop
  <1>11. CASE Bottom
    BY <1>11 DEF Bottom
  <1>12. CASE TxChannelISR
    BY <1>1, <1>2, <1>3, <1>12 DEF TxChannelISR
  <1>13. CASE Tick
    <2>1. pc = "test" => elapsed < PacketTime
      BY <1>13, WaitedBound DEF Tick
    <2>2. pc = "test" => elapsed' = elapsed + 1
      BY <1>1, <1>2, <1>13, <2>1 DEF Tick, Minimum
    <2>3. pc \in {"send", "test", "stop"} => utc + 1 < Base + Slot
      BY <1>1, <1>2, <1>13, <2>1 DEF Tick
    <2>4. utc + 1 < Minute => utc' = utc + 1
      BY <1>13, TickUtc
    <2>5. UNCHANGED Base
      BY <1>3, <1>13 DEF Tick
    <2> QED
      BY <1>1, <1>2, <1>13, <2>1, <2>2, <2>3, <2>4, <2>5 DEF Tick
  <1>14. CASE UNCHANGED vars
    BY <1>3, <1>14 DEF vars
  <1> QED
    BY <1>4, <1>5, <1>6, <1>7, <1>8, <1>9, <1>10, <1>11, <1>12, <1>13, <1>14 DEF Next, MainLoop

LEMMA InWindowCorrect ==
  ASSUME PacketTime < Timeout, CarrierTime <= Slot
  PROVE  Spec => []InWindow
  <1>1. Init => InWindow
    BY DEF Init, InWindow
  <1>2. TypeOK /\ Waited /\ InWindow /\ [Next]_vars => InWindow'
    BY InWindowStep
  <1> QED
    BY <1>1, <1>2, TypeCorrect, WaitedCorrect, PTL DEF Spec

\* What InWindow says of every label with the carrier on.
LEMMA StillInWindow ==
  ASSUME CarrierTime <= Slot, TypeOK, Waited, InWindow, pc \in {"send", "test", "stop"}
  PROVE  /\ utc \in Nat /\ Base \in Nat /\ Base <= utc /\ utc < Base + Slot
         /\ utc \div Slot = second \div SlotSeconds /\ utc % Slot = utc - Base
  <1>1. /\ utc \in Nat /\ wait \in Nat /\ elapsed \in Nat
        /\ Base \in Nat /\ Base + Slot <= Minute /\ second \div SlotSeconds \in Nat
    BY BaseFits, MinuteTypes, ConstantTypes DEF TypeOK
  <1>2. /\ Second \in Nat /\ Lead \in Nat /\ Late \in Nat /\ Tail \in Nat \ {0} /\ PacketTime \in Nat
        /\ Slot \in Nat \ {0} /\ CarrierTime = Second + Lead + PacketTime + Tail + 2 * Late
    BY ConstantTypes, MinuteTypes, Times DEF CarrierTime
  <1>3. pc = "test" => elapsed <= PacketTime
    BY WaitedBound
  <1>4. Base <= utc /\ utc < Base + Slot
    BY <1>1, <1>2, <1>3 DEF InWindow
  <1>5. utc \div Slot = second \div SlotSeconds /\ utc % Slot = utc - Base
    <2> DEFINE w == second \div SlotSeconds
    <2>1. w \in Nat /\ Base = w * Slot
      BY <1>1 DEF Base
    <2> HIDE DEF w
    <2>2. utc \div Slot = w /\ utc % Slot = utc - w * Slot
      BY <1>1, <1>2, <1>4, <2>1, Unique
    <2> QED
      BY <2>1, <2>2 DEF w
  <1> QED
    BY <1>1, <1>4, <1>5

(***************************************************************************)
(* The carrier is off before its slot ends, for any durations that add up  *)
(* to no more than a slot.                                                 *)
(***************************************************************************)
THEOREM CarrierKeepsToItsWindow ==
  ASSUME PacketTime < Timeout, CarrierTime <= Slot
  PROVE  Spec => []CarrierInOwnWindow
  <1>1. CarrierOnlyInTx /\ TypeOK /\ Waited /\ InWindow => CarrierInOwnWindow
    BY StillInWindow DEF CarrierOnlyInTx, CarrierInOwnWindow
  <1> QED
    BY <1>1, CarrierStops, TypeCorrect, WaitedCorrect, InWindowCorrect, PTL

(***************************************************************************)
(* The first symbol is keyed in the slot's first two seconds if the lead,  *)
(* its lateness and one symbol period take no more than a second.          *)
(***************************************************************************)
THEOREM FirstSymbolIsInTime ==
  ASSUME PacketTime < Timeout, CarrierTime <= Slot, Lead + Late + Period <= Second
  PROVE  Spec => []FirstSymbolInTime
  <1>1. TypeOK /\ Waited /\ InWindow => FirstSymbolInTime
    <2> SUFFICES ASSUME TypeOK, Waited, InWindow, pc = "test", pending = SymbolCount
                 PROVE  utc % Slot < 2 * Second
      BY DEF FirstSymbolInTime
    <2>1. utc \in Nat /\ Base \in Nat /\ Base <= utc /\ utc % Slot = utc - Base
      BY StillInWindow
    <2> DEFINE all == SymbolCount * Period
    <2>2. all \in Nat /\ elapsed + isr + all <= all + Period
      BY ConstantTypes, Times DEF Waited
    <2>3. utc < Base + Second + Lead + Late + elapsed
      BY DEF InWindow
    <2> HIDE DEF all, Base
    <2>4. /\ elapsed \in Nat /\ isr \in Nat /\ Lead \in Nat /\ Late \in Nat /\ Period \in Nat /\ Second \in Nat
      BY ConstantTypes DEF TypeOK
    <2> QED
      BY <2>1, <2>2, <2>3, <2>4
  <1> QED
    BY <1>1, TypeCorrect, WaitedCorrect, InWindowCorrect, PTL

-----------------------------------------------------------------------------
\* Each symbol has taken a period, but for the first, whose interrupt may
\* have been due at once.
Keyed ==
  /\ pc = "test" /\ pending > 0 => SymbolCount * Period <= elapsed + isr + pending * Period
  /\ pc = "test" /\ pending = 0 => SymbolCount * Period <= elapsed + Period

LEMMA KeyedStep ==
  ASSUME PacketTime < Timeout, TypeOK, Waited, Keyed, [Next]_vars
  PROVE  Keyed'
  <1> DEFINE all == SymbolCount * Period
             due == pending * Period
             dueNext == pending' * Period
  <1>1. /\ Period \in Nat \ {0} /\ SymbolCount \in Nat \ {0} /\ Timeout \in Nat /\ PacketTime \in Nat
        /\ elapsed \in Nat /\ isr \in Nat /\ pending \in Nat /\ all \in Nat /\ due \in Nat
    BY ConstantTypes, Times DEF TypeOK
  <1>2. /\ pc = "test" /\ pending > 0 => all <= elapsed + isr + due
        /\ pc = "test" /\ pending = 0 => all <= elapsed + Period
    BY DEF Keyed
  <1>3. SUFFICES /\ pc' = "test" /\ pending' > 0 => all <= elapsed' + isr' + dueNext
                 /\ pc' = "test" /\ pending' = 0 => all <= elapsed' + Period
    BY DEF Keyed
  <1>4. /\ UNCHANGED pending => dueNext = due
        /\ pending' = SymbolCount => dueNext = all
        /\ pending > 0 /\ pending' = pending - 1 => dueNext \in Nat /\ dueNext + Period = due
        /\ pending = 1 => due = Period
    BY <1>1, OneFewer
  <1> HIDE DEF all, due, dueNext
  <1> USE DEF Sleep, Awake, start
  <1>5. CASE Trigger
    BY <1>5 DEF Trigger
  <1>6. CASE NoTrigger
    BY <1>6 DEF NoTrigger
  <1>7. CASE SendPacket
    BY <1>1, <1>4, <1>7 DEF SendPacket
  <1>8. CASE AwaitEmpty
    BY <1>2, <1>4, <1>8 DEF AwaitEmpty
  <1>9. CASE Complete
    BY <1>9 DEF Complete
  <1>10. CASE ForceStop
    BY <1>10 DEF ForceStop
  <1>11. CASE ExitLoop
    BY <1>11 DEF ExitLoop
  <1>12. CASE Bottom
    BY <1>12 DEF Bottom
  <1>13. CASE TxChannelISR
    <2>1. CASE pending = 0
      BY <1>1, <1>2, <1>13, <2>1 DEF TxChannelISR
    <2>2. CASE pending = 1
      BY <1>1, <1>2, <1>4, <1>13, <2>2 DEF TxChannelISR
    <2>3. CASE pending > 1
      BY <1>1, <1>2, <1>4, <1>13, <2>3 DEF TxChannelISR
    <2> QED
      BY <1>1, <2>1, <2>2, <2>3
  <1>14. CASE Tick
    <2>1. pc = "test" => elapsed' = elapsed + 1
      <3>1. pc = "test" => elapsed < PacketTime
        BY <1>14, WaitedBound DEF Tick
      <3> QED
        BY <1>1, <1>14, <3>1 DEF Tick, Minimum
    <2> QED
      BY <1>1, <1>2, <1>4, <1>14, <2>1 DEF Tick
  <1>15. CASE UNCHANGED vars
    BY <1>2, <1>4, <1>15 DEF vars
  <1> QED
    BY <1>5, <1>6, <1>7, <1>8, <1>9, <1>10, <1>11, <1>12, <1>13, <1>14, <1>15 DEF Next, MainLoop

\* When a packet has been sent, the loop comes back to its top only after
\* the second of the slot in which it may be triggered.
OneSent ==
  epoch = 0 =>
    /\ sends <= 1
    /\ pc = "send" => sends = 0
    /\ pc = "stop" => Base + SymbolCount * Period <= utc + Period
    /\ pc \in {"top", "exit", "bottom"} => sends = 0 \/ Second <= utc % Slot

LEMMA NextOffset ==
  ASSUME NEW u \in Nat, NEW d \in Nat \ {0}
  PROVE  (u + 1) % d = 0 \/ (u + 1) % d = (u % d) + 1
  <1> DEFINE q == u \div d
             r == u % d
  <1>1. q \in Nat /\ r \in 0..(d - 1) /\ u = q * d + r
    BY Quot
  <1> HIDE DEF q, r
  <1>2. q * d \in Nat /\ (q + 1) * d = q * d + d
    BY <1>1
  <1>3. CASE r + 1 < d
    <2>1. q * d <= u + 1 /\ u + 1 < q * d + d /\ u + 1 \in Nat
      BY <1>1, <1>2, <1>3
    <2>2. (u + 1) % d = (u + 1) - q * d
      BY <1>1, <2>1, Unique
    <2>3. (u + 1) % d = r + 1
      BY <1>1, <1>2, <2>2
    <2> QED
      BY <2>3 DEF r
  <1>4. CASE r + 1 = d
    <2>1. (q + 1) * d <= u + 1 /\ u + 1 < (q + 1) * d + d /\ u + 1 \in Nat /\ q + 1 \in Nat
      BY <1>1, <1>2, <1>4
    <2>2. (u + 1) % d = (u + 1) - (q + 1) * d
      BY <1>1, <2>1, Unique
    <2> QED
      BY <1>1, <1>2, <1>4, <2>2
  <1> QED
    BY <1>1, <1>3, <1>4

LEMMA OneSentStep ==
  ASSUME PacketTime < Timeout, CarrierTime <= Slot, Second + Period <= SymbolCount * Period,
         TypeOK, Waited, Spent, InWindow, Keyed, OneSent, [Next]_vars
  PROVE  OneSent'
  <1> SUFFICES ASSUME epoch' = 0
               PROVE  /\ sends' <= 1
                      /\ pc' = "send" => sends' = 0
                      /\ pc' = "stop" => Base' + SymbolCount * Period <= utc' + Period
                      /\ pc' \in {"top", "exit", "bottom"} => sends' = 0 \/ Second <= utc' % Slot
    BY DEF OneSent
  <1> DEFINE all == SymbolCount * Period
  <1>1. /\ all \in Nat /\ Period \in Nat /\ Second \in Nat /\ Slot \in Nat \ {0} /\ Second + Period <= all
        /\ utc \in Nat /\ elapsed \in Nat /\ Base \in Nat /\ Base + Slot <= Minute /\ Minute \in Nat
    BY ConstantTypes, Times, MinuteTypes, BaseFits DEF TypeOK
  <1>2. sends \in 0..2
    BY DEF TypeOK
  <1>3. epoch = 0
    <2>1. epoch \in 0..MaxEpoch /\ MaxEpoch \in 0..1
      BY ConstantTypes DEF TypeOK
    <2>2. CASE Tick
      BY <2>1, <2>2 DEF Tick
    <2>3. CASE ~Tick
      BY <2>3, Zenon DEF Next, MainLoop, Trigger, NoTrigger, SendPacket, AwaitEmpty, Complete, ForceStop,
                         ExitLoop, Bottom, TxChannelISR, clock, vars
    <2> QED
      BY <2>2, <2>3
  <1>4. /\ sends <= 1
        /\ pc = "send" => sends = 0
        /\ pc = "stop" => Base + all <= utc + Period
        /\ pc \in {"top", "exit", "bottom"} => sends = 0 \/ Second <= utc % Slot
    BY <1>3 DEF OneSent
  <1>5. UNCHANGED second => UNCHANGED Base
    BY DEF Base
  <1>6. CASE Trigger
    <2> DEFINE w == CurrentSecond \div SlotSeconds
    <2>1. w * Slot \in Nat /\ w * Slot <= utc /\ utc < w * Slot + Second
      BY <1>6, SlotBegins DEF Trigger
    <2>2. w \in Nat
      <3>1. CurrentSecond \in Nat
        BY SecondTypes
      <3> QED
        BY <3>1, ConstantTypes, Quot
    <2>3. Second <= Slot
      BY <1>1, ConstantTypes, Times DEF CarrierTime
    <2> HIDE DEF w
    <2>4. utc < w * Slot + Slot
      BY <1>1, <2>1, <2>3
    <2>5. utc % Slot = utc - w * Slot
      BY <1>1, <2>1, <2>2, <2>4, Unique
    <2>6. sends = 0
      BY <1>1, <1>4, <1>6, <2>1, <2>5 DEF Trigger, Awake
    <2> QED
      BY <1>6, <2>6 DEF Trigger, Sleep
  <1> HIDE DEF all, Base
  <1>7. SUFFICES /\ sends' <= 1
                 /\ pc' = "send" => sends' = 0
                 /\ pc' = "stop" => Base' + all <= utc' + Period
                 /\ pc' \in {"top", "exit", "bottom"} => sends' = 0 \/ Second <= utc' % Slot
    BY DEF all
  <1> USE DEF Sleep, Awake, clock, loop, start
  <1>8. CASE NoTrigger
    BY <1>4, <1>8 DEF NoTrigger
  <1>9. CASE SendPacket
    BY <1>2, <1>4, <1>9 DEF SendPacket, Minimum
  <1>10. CASE AwaitEmpty
    <2>1. Base + elapsed <= utc
      BY <1>10 DEF AwaitEmpty, InWindow
    <2>2. pending = 0 => all <= elapsed + Period
      BY <1>10 DEF AwaitEmpty, Keyed, all
    <2> QED
      BY <1>1, <1>4, <1>5, <1>10, <2>1, <2>2 DEF AwaitEmpty
  <1>11. CASE Complete
    <2>1. utc % Slot = utc - Base
      BY <1>11, StillInWindow DEF Complete
    <2> QED
      BY <1>1, <1>4, <1>11, <2>1 DEF Complete
  <1>12. CASE ForceStop
    BY <1>3, <1>12, NoForceStop
  <1>13. CASE ExitLoop
    BY <1>4, <1>13 DEF ExitLoop
  <1>14. CASE Bottom
    BY <1>4, <1>14 DEF Bottom
  <1>15. CASE TxChannelISR
    BY <1>4, <1>5, <1>15 DEF TxChannelISR
  <1>16. CASE Tick
    <2>1. sends' \in {0, sends} /\ (utc' % Slot = 0 => sends' = 0)
      BY <1>16 DEF Tick
    <2>2. pc = "stop" => utc' = utc + 1
      <3>1. pc = "stop" => utc + 1 < Minute
        BY <1>1, <1>16, ConstantTypes, Times DEF Tick, InWindow, CarrierTime, TypeOK
      <3> QED
        BY <1>16, <3>1, TickUtc
    <2>3. utc' % Slot = 0 \/ utc' % Slot = (utc % Slot) + 1
      <3>1. CASE utc + 1 < Minute
        BY <1>1, <1>16, <3>1, TickUtc, NextOffset
      <3>2. CASE utc + 1 = Minute
        <4>1. utc' = 0
          BY <1>16, <3>2, TickUtc
        <4>2. 0 % Slot = 0 - 0 * Slot
          BY <1>1, Unique
        <4> QED
          BY <1>1, <4>1, <4>2
      <3> QED
        BY <1>1, <1>16, <3>1, <3>2, TickUtc
    <2>4. Second <= utc % Slot => utc' % Slot = 0 \/ Second <= utc' % Slot
      <3>1. utc % Slot \in Nat
        BY <1>1, Quot
      <3> QED
        BY <1>1, <2>3, <3>1
    <2>5. sends' <= 1 /\ (sends = 0 => sends' = 0)
      BY <1>2, <1>4, <2>1
    <2>6. pc' = pc /\ UNCHANGED Base
      BY <1>5, <1>16 DEF Tick
    <2> QED
      BY <1>1, <1>4, <2>1, <2>2, <2>4, <2>5, <2>6
  <1>17. CASE UNCHANGED vars
    <2>1. pc' = pc /\ utc' = utc /\ sends' = sends /\ UNCHANGED Base
      BY <1>5, <1>17 DEF vars
    <2> QED
      BY <1>4, <2>1
  <1> QED
    BY <1>6, <1>8, <1>9, <1>10, <1>11, <1>12, <1>13, <1>14, <1>15, <1>16, <1>17 DEF Next, MainLoop, all

(***************************************************************************)
(* In the first 2^32 ms a slot gets at most one packet, although the flag  *)
(* meant to ensure it is reset at once: a packet outlasts the second in    *)
(* which a slot may be triggered.                                          *)
(***************************************************************************)
THEOREM OnePacket ==
  ASSUME PacketTime < Timeout, CarrierTime <= Slot, Second + Period <= SymbolCount * Period
  PROVE  Spec => []OnePacketPerWindow
  <1>1. Init => Spent /\ Keyed /\ OneSent
    BY DEF Init, Spent, Keyed, OneSent
  <1>2. TypeOK /\ Waited /\ InWindow /\ (Spent /\ Keyed /\ OneSent) /\ [Next]_vars
          => (Spent /\ Keyed /\ OneSent)'
    BY SpentStep, KeyedStep, OneSentStep
  <1>3. OneSent => OnePacketPerWindow
    BY DEF OneSent, OnePacketPerWindow
  <1> QED
    BY <1>1, <1>2, <1>3, TypeCorrect, WaitedCorrect, InWindowCorrect, PTL DEF Spec

-----------------------------------------------------------------------------
\* The slot of the minute, the time since it began, the slot that the loop
\* read the clock in, and the longest sleep of the loop outside a packet.
Window == utc \div Slot
Offset == utc % Slot
Asked  == second \div SlotSeconds
Turn   == Poll + Late

LEMMA WindowTypes ==
  ASSUME TypeOK
  PROVE  /\ utc \in Nat /\ Window \in Nat /\ Offset \in 0..(Slot - 1) /\ Asked \in Nat
         /\ utc = Window * Slot + Offset /\ Turn \in Nat /\ wait \in Nat
  <1>1. utc \in Nat /\ Slot \in Nat \ {0} /\ wait \in Nat
    BY MinuteTypes DEF TypeOK
  <1>2. /\ utc \div Slot \in Nat /\ utc % Slot \in 0..(Slot - 1)
        /\ utc = (utc \div Slot) * Slot + (utc % Slot)
    BY <1>1, Quot
  <1>3. Asked \in Nat
    BY BaseFits DEF Asked
  <1> QED
    BY <1>1, <1>2, <1>3, ConstantTypes DEF Window, Offset, Turn

LEMMA TickWindow ==
  ASSUME Windows > 1, TypeOK, Tick
  PROVE  \/ Offset + 1 < Slot /\ Offset' = Offset + 1 /\ Window' = Window
         \/ Offset + 1 = Slot /\ Offset' = 0 /\ Window' # Window
  <1> DEFINE w == Window
             o == Offset
  <1>1. /\ utc \in Nat /\ w \in Nat /\ o \in 0..(Slot - 1) /\ utc = w * Slot + o
        /\ Slot \in Nat \ {0} /\ Windows \in Nat \ {0}
    BY WindowTypes, MinuteTypes, ConstantTypes
  <1>2. Window' = utc' \div Slot /\ Offset' = utc' % Slot
    BY DEF Window, Offset
  <1> HIDE DEF w, o
  <1>3. w * Slot \in Nat /\ (w + 1) * Slot = w * Slot + Slot
    BY <1>1
  <1>4. CASE utc + 1 < Minute /\ o + 1 < Slot
    <2>1. utc + 1 \in Nat /\ w * Slot <= utc + 1 /\ utc + 1 < w * Slot + Slot
      BY <1>1, <1>3, <1>4
    <2>2. (utc + 1) \div Slot = w /\ (utc + 1) % Slot = (utc + 1) - w * Slot
      BY <1>1, <2>1, Unique
    <2>3. utc' = utc + 1
      BY <1>4, TickUtc
    <2>4. Window' = w /\ Offset' = o + 1
      BY <1>1, <1>2, <1>3, <2>2, <2>3
    <2> QED
      BY <1>4, <2>4 DEF w, o
  <1>5. CASE utc + 1 < Minute /\ o + 1 = Slot
    <2>1. utc + 1 \in Nat /\ w + 1 \in Nat /\ (w + 1) * Slot <= utc + 1 /\ utc + 1 < (w + 1) * Slot + Slot
      BY <1>1, <1>3, <1>5
    <2>2. (utc + 1) \div Slot = w + 1 /\ (utc + 1) % Slot = (utc + 1) - (w + 1) * Slot
      BY <1>1, <2>1, Unique
    <2>3. utc' = utc + 1
      BY <1>5, TickUtc
    <2>4. Window' = w + 1 /\ Offset' = 0
      BY <1>1, <1>2, <1>3, <1>5, <2>2, <2>3
    <2> QED
      BY <1>1, <1>5, <2>4 DEF w, o
  <1>6. CASE utc + 1 = Minute
    <2> DEFINE v == Windows - 1
    <2>1. v \in Nat /\ v > 0 /\ v + 1 = Windows
      BY <1>1
    <2> HIDE DEF v
    <2>2. v * Slot \in Nat /\ (v + 1) * Slot = v * Slot + Slot
      BY <1>1, <2>1
    <2>3. Minute = v * Slot + Slot
      BY <2>1, <2>2 DEF Minute
    <2>4. v * Slot <= utc /\ utc < v * Slot + Slot /\ utc = v * Slot + Slot - 1
      BY <1>1, <1>6, <2>2, <2>3
    <2>5. utc \div Slot = v /\ utc % Slot = utc - v * Slot
      BY <1>1, <2>1, <2>4, Unique
    <2>6. w = v /\ o + 1 = Slot
      BY <1>1, <2>2, <2>4, <2>5 DEF w, o, Window, Offset
    <2>7. 0 \div Slot = 0 /\ 0 % Slot = 0 - 0 * Slot
      BY <1>1, Unique
    <2>8. utc' = 0
      BY <1>6, TickUtc
    <2>9. Window' = 0 /\ Offset' = 0
      BY <1>1, <1>2, <2>7, <2>8
    <2> QED
      BY <2>1, <2>6, <2>9 DEF w, o
  <1>7. utc + 1 <= Minute /\ o + 1 <= Slot
    BY <1>1, TickUtc
  <1> QED
    BY <1>1, <1>4, <1>5, <1>6, <1>7, MinuteTypes

\* The slot of the current second is the slot of the time, and its first
\* second is the one in which the loop may be triggered.
LEMMA FirstSecond ==
  ASSUME TypeOK
  PROVE  /\ CurrentSecond \div SlotSeconds = Window
         /\ Offset < Second => IsSlotTime
  <1> DEFINE c == utc \div Second
             r == utc % Second
             w == c \div SlotSeconds
             k == c % SlotSeconds
  <1>1. /\ utc \in Nat /\ Second \in Nat \ {0} /\ SlotSeconds \in Nat \ {0} /\ Slot \in Nat \ {0}
        /\ Slot = SlotSeconds * Second
    BY ConstantTypes, MinuteTypes DEF TypeOK, Slot
  <1>2. c \in Nat /\ r \in 0..(Second - 1) /\ utc = c * Second + r
    BY <1>1, Quot
  <1> HIDE DEF c, r
  <1>3. w \in Nat /\ k \in 0..(SlotSeconds - 1) /\ c = w * SlotSeconds + k
    BY <1>1, <1>2, Quot
  <1> HIDE DEF w, k
  <1>4. c * Second = w * Slot + k * Second
    <2>1. (w * SlotSeconds + k) * Second = w * (SlotSeconds * Second) + k * Second
      BY <1>1, <1>3
    <2> QED
      BY <1>1, <1>3, <2>1
  <1>5. k * Second \in Nat /\ k * Second + Second <= Slot /\ w * Slot \in Nat
    BY <1>1, <1>3, Less
  <1>6. w * Slot <= utc /\ utc < w * Slot + Slot /\ utc = w * Slot + k * Second + r
    BY <1>1, <1>2, <1>4, <1>5
  <1>7. utc \div Slot = w /\ utc % Slot = utc - w * Slot
    BY <1>1, <1>3, <1>6, Unique
  <1>8. Window = w
    BY <1>7 DEF Window
  <1>9. ASSUME Offset < Second PROVE k = 0
    <2>1. k * Second + r < Second
      BY <1>1, <1>2, <1>5, <1>6, <1>7, <1>9 DEF Offset
    <2>2. k # 0 => 0 * Second + Second <= k * Second
      BY <1>1, <1>3, Less
    <2> QED
      BY <1>1, <1>2, <1>3, <1>5, <2>1, <2>2
  <1> QED
    BY <1>8, <1>9 DEF CurrentSecond, IsSlotTime, c, w, k

\* Between two packets the loop reads the clock again after one turn, and
\* before the stop of a packet it has been sent.
Passes ==
  /\ pc = "top" => wait = 0
  /\ pc \in {"exit", "bottom"} => wait <= Turn
  /\ pc = "exit" /\ Window # Asked => Offset + wait <= Turn
  /\ pc = "bottom" /\ Window # Asked => Offset + wait <= 2 * Turn
  /\ pc \in {"test", "stop"} => sends >= 1

\* A slot without a packet has just begun: the loop has yet to read the
\* clock, or it has found the flag of the slot before and is about to reset
\* it, or it stands before the trigger.
Due ==
  whole /\ sends = 0 =>
    /\ pc = "exit" => Window # Asked
    /\ pc = "bottom" =>
         \/ Window # Asked
         \/ Offset + wait <= 3 * Turn /\ ~(triggered /\ lastWindow = Asked)
    /\ pc = "top" =>
         /\ Offset <= 3 * Turn
         /\ triggered => lastWindow # Window /\ Offset <= 2 * Turn

LEMMA SlotOutlastsTurns ==
  ASSUME CarrierTime <= Slot, 3 * Turn < Second
  PROVE  /\ Turn \in Nat /\ Poll..(Poll + Late) \subseteq 0..Turn
         /\ Second \in Nat /\ Slot \in Nat /\ Second + 1 < Slot
         /\ 3 * Turn < Second /\ 2 * Turn = Turn + Turn /\ 3 * Turn = 2 * Turn + Turn
  BY ConstantTypes, MinuteTypes, Times DEF CarrierTime, Turn

LEMMA OneMore ==
  ASSUME NEW a \in Nat, NEW b \in Nat, NEW t \in Nat, b <= t
  PROVE  /\ a <= t => a + b <= 2 * t
         /\ a <= 2 * t => a + b <= 3 * t
  OBVIOUS

LEMMA PassesStep ==
  ASSUME PacketTime < Timeout, CarrierTime <= Slot, 3 * Turn < Second, Windows > 1,
         TypeOK, Waited, InWindow, Passes, [Next]_vars
  PROVE  Passes'
  <1>1. /\ Turn \in Nat /\ Poll..(Poll + Late) \subseteq 0..Turn
        /\ Second \in Nat /\ Slot \in Nat /\ Second + 1 < Slot
        /\ 3 * Turn < Second /\ 2 * Turn = Turn + Turn /\ 3 * Turn = 2 * Turn + Turn
    BY SlotOutlastsTurns
  <1>2. /\ Window \in Nat /\ Offset \in 0..(Slot - 1) /\ Asked \in Nat /\ wait \in Nat /\ sends \in 0..2
    BY WindowTypes DEF TypeOK
  <1>3. /\ UNCHANGED utc => UNCHANGED Window /\ UNCHANGED Offset
        /\ UNCHANGED second => UNCHANGED Asked
    BY DEF Window, Offset, Asked
  <1>4. pc \in {"send", "test", "stop"} => Window = Asked
    BY StillInWindow DEF Window, Asked
  <1>5. Turn' = Turn
    BY DEF Turn
  <1>6. CASE NoTrigger
    <2>1. Asked' = Window'
      BY <1>6, FirstSecond, <1>3 DEF NoTrigger, clock, Asked
    <2> HIDE DEF Window, Offset, Asked, Turn
    <2> QED
      BY <1>1, <1>2, <1>5, <1>6, <2>1 DEF NoTrigger, Sleep, Passes
  <1> HIDE DEF Window, Offset, Asked, Turn
  <1> USE DEF Sleep, Awake, clock, loop, start, Passes
  <1>7. CASE Trigger
    BY <1>7 DEF Trigger
  <1>8. CASE SendPacket
    BY <1>2, <1>8 DEF SendPacket, Minimum
  <1>9. CASE AwaitEmpty
    BY <1>9 DEF AwaitEmpty
  <1>10. CASE Complete
    BY <1>1, <1>2, <1>3, <1>4, <1>5, <1>10 DEF Complete
  <1>11. CASE ForceStop
    BY <1>1, <1>2, <1>3, <1>4, <1>5, <1>11 DEF ForceStop
  <1>12. CASE ExitLoop
    <2>1. /\ pc = "exit" /\ wait = 0 /\ pc' = "bottom" /\ wait' \in 0..Turn
          /\ Window' = Window /\ Asked' = Asked /\ Offset' = Offset
      BY <1>1, <1>3, <1>12 DEF ExitLoop
    <2>2. Window # Asked => Offset + wait <= Turn
      BY <2>1
    <2>3. ASSUME Window # Asked PROVE Offset + wait' <= 2 * Turn
      <3>1. Offset \in Nat /\ Offset <= Turn /\ wait' \in Nat /\ wait' <= Turn /\ Turn \in Nat
        BY <1>1, <1>2, <2>1, <2>2, <2>3
      <3> QED
        BY <3>1, OneMore
    <2> QED
      BY <1>1, <1>5, <2>1, <2>3
  <1>13. CASE Bottom
    BY <1>13 DEF Bottom
  <1>14. CASE TxChannelISR
    BY <1>1, <1>2, <1>3, <1>5, <1>14 DEF TxChannelISR
  <1>15. CASE Tick
    <2>1. \/ Offset + 1 < Slot /\ Offset' = Offset + 1 /\ Window' = Window
          \/ Offset + 1 = Slot /\ Offset' = 0 /\ Window' # Window
      BY <1>15, TickWindow
    <2>2. /\ pc' = pc /\ wait > 0 /\ wait' = wait - 1 /\ Asked' = Asked
          /\ sends' = IF utc' % Slot = 0 THEN 0 ELSE sends
      BY <1>3, <1>15 DEF Tick
    <2>3. pc \in {"test", "stop"} => sends' >= 1
      <3>1. ASSUME pc \in {"test", "stop"} PROVE Window' = Window
        <4>1. utc \in Nat /\ Base \in Nat /\ Offset = utc - Base
          BY <3>1, StillInWindow DEF Offset
        <4>2. pc = "test" => elapsed < PacketTime
          BY <1>15, WaitedBound DEF Tick
        <4>3. /\ PacketTime \in Nat /\ Lead \in Nat /\ Late \in Nat /\ Tail \in Nat /\ elapsed \in Nat
              /\ CarrierTime = Second + Lead + PacketTime + Tail + 2 * Late
          BY ConstantTypes, Times DEF CarrierTime, TypeOK
        <4>4. utc + 1 < Base + Slot
          BY <1>1, <1>2, <2>2, <3>1, <4>1, <4>2, <4>3 DEF InWindow
        <4> QED
          BY <1>1, <2>1, <4>1, <4>4
      <3>2. Slot' = Slot /\ Offset' = utc' % Slot
        BY DEF Offset, Slot
      <3> QED
        BY <1>2, <2>1, <2>2, <3>1, <3>2
    <2>4. CASE Offset + 1 < Slot /\ Offset' = Offset + 1 /\ Window' = Window
      BY <1>1, <1>2, <1>5, <2>2, <2>3, <2>4
    <2>5. CASE Offset + 1 = Slot /\ Offset' = 0 /\ Window' # Window
      BY <1>1, <1>2, <1>5, <2>2, <2>3, <2>5
    <2> QED
      BY <2>1, <2>4, <2>5
  <1>16. CASE UNCHANGED vars
    BY <1>3, <1>5, <1>16 DEF vars
  <1> QED
    BY <1>6, <1>7, <1>8, <1>9, <1>10, <1>11, <1>12, <1>13, <1>14, <1>15, <1>16 DEF Next, MainLoop

LEMMA DueStep ==
  ASSUME PacketTime < Timeout, CarrierTime <= Slot, 3 * Turn < Second, Windows > 1,
         TypeOK, Waited, InWindow, Passes, Due, [Next]_vars
  PROVE  Due'
  <1>1. /\ Turn \in Nat /\ Poll..(Poll + Late) \subseteq 0..Turn
        /\ Second \in Nat /\ Slot \in Nat /\ Second + 1 < Slot
        /\ 3 * Turn < Second /\ 2 * Turn = Turn + Turn /\ 3 * Turn = 2 * Turn + Turn
    BY SlotOutlastsTurns
  <1>2. /\ Window \in Nat /\ Offset \in 0..(Slot - 1) /\ Asked \in Nat /\ wait \in Nat /\ sends \in 0..2
    BY WindowTypes DEF TypeOK
  <1>3. /\ UNCHANGED utc => UNCHANGED Window /\ UNCHANGED Offset
        /\ UNCHANGED second => UNCHANGED Asked
    BY DEF Window, Offset, Asked
  <1>4. pc \in {"send", "test", "stop"} => Window = Asked
    BY StillInWindow DEF Window, Asked
  <1>5. Turn' = Turn
    BY DEF Turn
  <1>6. CASE NoTrigger
    <2>1. /\ Asked' = Window /\ Window' = Window /\ Offset' = Offset /\ pc = "top"
          /\ pc' = "bottom" /\ wait' \in 0..Turn /\ whole' = whole /\ sends' = sends
          /\ UNCHANGED <<triggered, lastWindow>>
      BY <1>1, <1>3, <1>6, FirstSecond DEF NoTrigger, Sleep, Awake, clock, Asked
    <2>2. ~(IsSlotTime /\ ~triggered)
      BY <1>6 DEF NoTrigger
    <2>3. Offset < Second => triggered
      BY <2>2, FirstSecond
    <2> HIDE DEF Window, Offset, Asked, Turn
    <2>4. ASSUME whole, sends = 0 PROVE triggered /\ lastWindow # Window /\ Offset <= 2 * Turn
      BY <1>1, <1>2, <2>1, <2>3, <2>4 DEF Due
    <2>5. ASSUME whole, sends = 0 PROVE Offset + wait' <= 3 * Turn
      <3>1. Offset \in Nat /\ Offset <= 2 * Turn /\ wait' \in Nat /\ wait' <= Turn /\ Turn \in Nat
        BY <1>1, <1>2, <2>1, <2>4, <2>5
      <3> QED
        BY <3>1, OneMore
    <2> QED
      BY <1>5, <2>1, <2>4, <2>5 DEF Due
  <1> HIDE DEF Window, Offset, Asked, Turn
  <1> USE DEF Sleep, Awake, clock, loop, start, Due
  <1>7. CASE Trigger
    BY <1>7 DEF Trigger
  <1>8. CASE SendPacket
    BY <1>2, <1>8 DEF SendPacket, Minimum
  <1>9. CASE AwaitEmpty
    BY <1>9 DEF AwaitEmpty
  <1>10. CASE Complete
    BY <1>2, <1>10 DEF Complete, Passes
  <1>11. CASE ForceStop
    BY <1>2, <1>11 DEF ForceStop, Passes
  <1>12. CASE ExitLoop
    BY <1>3, <1>12 DEF ExitLoop
  <1>13. CASE Bottom
    <2>1. /\ pc = "bottom" /\ wait = 0 /\ pc' = "top" /\ Window' = Window /\ Offset' = Offset
          /\ lastWindow' = Asked /\ whole' = whole /\ sends' = sends
      BY <1>3, <1>13 DEF Bottom, Asked
    <2>2. triggered' => triggered /\ Asked = lastWindow
      BY <1>13 DEF Bottom, Asked
    <2>3. CASE Window # Asked
      <3>1. Offset <= 2 * Turn
        BY <1>2, <2>1, <2>3 DEF Passes
      <3> QED
        BY <1>1, <1>2, <1>5, <2>1, <2>3, <3>1
    <2>4. CASE Window = Asked
      BY <1>1, <1>2, <1>5, <2>1, <2>2, <2>4
    <2> QED
      BY <2>3, <2>4
  <1>14. CASE TxChannelISR
    BY <1>3, <1>5, <1>14 DEF TxChannelISR
  <1>15. CASE Tick
    <2>1. \/ Offset + 1 < Slot /\ Offset' = Offset + 1 /\ Window' = Window
          \/ Offset + 1 = Slot /\ Offset' = 0 /\ Window' # Window
      BY <1>15, TickWindow
    <2>2. /\ pc' = pc /\ wait > 0 /\ wait' = wait - 1 /\ Asked' = Asked
          /\ UNCHANGED <<triggered, lastWindow>> /\ pc # "top"
          /\ sends' = IF Offset' = 0 THEN 0 ELSE sends
      <3>1. Slot' = Slot /\ Offset' = utc' % Slot
        BY DEF Offset, Slot
      <3> QED
        BY <1>3, <1>15, <3>1 DEF Tick, Passes
    <2>3. CASE Offset + 1 < Slot /\ Offset' = Offset + 1 /\ Window' = Window
      <3>1. sends' = sends /\ (whole' => whole)
        <4>1. Offset' # 0
          BY <1>2, <2>3
        <4>2. whole' = (whole \/ Offset' = 0)
          BY <1>15, Zenon DEF Tick, Offset, Slot
        <4> QED
          BY <2>2, <4>1, <4>2
      <3>2. Offset' + wait' = Offset + wait
        BY <1>2, <2>2, <2>3
      <3> QED
        BY <1>5, <2>2, <2>3, <3>1, <3>2
    <2>4. CASE Offset + 1 = Slot /\ Offset' = 0 /\ Window' # Window
      <3>1. pc \in {"exit", "bottom"} => Window = Asked
        BY <1>1, <1>2, <2>2, <2>4 DEF Passes
      <3> QED
        BY <2>2, <2>4, <3>1
    <2> QED
      BY <2>1, <2>3, <2>4
  <1>16. CASE UNCHANGED vars
    BY <1>3, <1>5, <1>16 DEF vars
  <1> QED
    BY <1>6, <1>7, <1>8, <1>9, <1>10, <1>11, <1>12, <1>13, <1>14, <1>15, <1>16 DEF Next, MainLoop

(***************************************************************************)
(* No slot is skipped: the loop finds its flag reset, and has sent the     *)
(* slot's packet before the slot ends, for any durations for which three   *)
(* turns of the loop without a packet fit in the second of the trigger.    *)
(* That is more than the two a slot would take if the flag were reset when *)
(* the slot changes and not when the loop gets there.                      *)
(***************************************************************************)
THEOREM NoSlotIsSkipped ==
  ASSUME PacketTime < Timeout, CarrierTime <= Slot, 3 * Turn < Second, Windows > 1
  PROVE  Spec => []NoWindowSkipped
  <1>1. Init => Passes /\ Due
    BY DEF Init, Passes, Due
  <1>2. TypeOK /\ Waited /\ InWindow /\ (Passes /\ Due) /\ [Next]_vars => (Passes /\ Due)'
    BY PassesStep, DueStep
  <1>3. TypeOK /\ Waited /\ InWindow /\ Passes /\ Due => NoWindowSkipped
    <2> SUFFICES ASSUME TypeOK, Waited, InWindow, Passes, Due, whole, Offset = Slot - 1, sends = 0
                 PROVE  FALSE
      BY DEF NoWindowSkipped, Offset, TypeOK
    <2>1. /\ Turn \in Nat /\ Second \in Nat /\ Slot \in Nat /\ Second + 1 < Slot
          /\ 3 * Turn < Second /\ 2 * Turn = Turn + Turn /\ 3 * Turn = 2 * Turn + Turn /\ wait \in Nat
      BY SlotOutlastsTurns, WindowTypes
    <2>2. pc # "send"
      <3>1. ASSUME pc = "send" PROVE FALSE
        <4>1. utc \in Nat /\ Base \in Nat /\ Offset = utc - Base
          BY <3>1, StillInWindow DEF Offset
        <4>2. /\ PacketTime \in Nat /\ Lead \in Nat /\ Late \in Nat /\ Tail \in Nat \ {0}
              /\ CarrierTime = Second + Lead + PacketTime + Tail + 2 * Late
          BY ConstantTypes, Times DEF CarrierTime
        <4> QED
          BY <2>1, <3>1, <4>1, <4>2 DEF InWindow
      <3> QED
        BY <3>1
    <2>3. pc \notin {"test", "stop"}
      BY DEF Passes
    <2>4. pc \notin {"exit", "bottom"}
      BY <2>1 DEF Passes, Due
    <2>5. pc # "top"
      BY <2>1 DEF Due
    <2> QED
      BY <2>2, <2>3, <2>4, <2>5 DEF TypeOK
  <1> QED
    BY <1>1, <1>2, <1>3, TypeCorrect, WaitedCorrect, InWindowCorrect, PTL DEF Spec
=============================================================================
