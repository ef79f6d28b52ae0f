--------------------------- MODULE NtpSync_proofs ---------------------------
(***************************************************************************)
(* Proofs about the time fetch, for every length of a second, a sleep, an  *)
(* alarm and an era of the server, and every lateness.                     *)
(***************************************************************************)
EXTENDS NtpSync, TLAPS

\* The constants one by one.
LEMMA ConstantTypes ==
  /\ Second \in Nat \ {0} /\ Window \in Nat \ {0} /\ Resend \in Nat \ {0}
  /\ Delta \in Nat \ {0} /\ Era \in Nat \ {0} /\ MaxTime \in Nat \ {0}
  /\ Late \in Nat /\ MaxTime < Second * Era
  BY NtpSyncAssumption

-----------------------------------------------------------------------------
\* Division and remainder by a positive number.
LEMMA ModRange ==
  ASSUME NEW a \in Int, NEW m \in Nat \ {0}
  PROVE  a % m \in 0..(m - 1)
  BY SMT

LEMMA DivRest ==
  ASSUME NEW a \in Int, NEW m \in Nat \ {0}
  PROVE  /\ a \div m \in Int
         /\ a = m * (a \div m) + (a % m)
         /\ a - m * (a \div m) \in 0..(m - 1)
  BY SMT

LEMMA DivBound ==
  ASSUME NEW a \in Nat, NEW s \in Nat \ {0}, NEW e \in Nat \ {0}, a < s * e
  PROVE  a \div s \in 0..(e - 1)
  BY SMT

\* Two remainders that differ by a multiple of the modulus are the same.
LEMMA SameRemainder ==
  ASSUME NEW m \in Nat \ {0}, NEW x \in 0..(m - 1), NEW y \in 0..(m - 1),
         NEW k \in Int, x - y = m * k
  PROVE  x = y
  BY SMT

\* Taking the difference of the two epochs after the server's seconds have
\* wrapped gives the seconds since 1970 all the same.
LEMMA WrapUndone ==
  ASSUME NEW x \in 0..(Era - 1)
  PROVE  Since1970((x + Delta) % Era) = x
  <1> DEFINE p == x + Delta
             r == p % Era
             q == p \div Era
             t == r - Delta
             k == t \div Era
             y == t % Era
  <1>1. Era \in Nat \ {0} /\ Delta \in Int /\ x \in Int /\ p \in Int
    BY ConstantTypes
  <1>2. r \in 0..(Era - 1) /\ q \in Int /\ p = Era * q + r
    <2> HIDE DEF p
    <2> QED
      BY <1>1, ModRange, DivRest
  <1>3. t \in Int
    BY <1>1, <1>2
  <1>4. y \in 0..(Era - 1) /\ k \in Int /\ t = Era * k + y
    <2> HIDE DEF t
    <2> QED
      BY <1>1, <1>3, ModRange, DivRest
  <1>5. y - x = Era * (- q - k)
    <2> HIDE DEF r, q, k, y
    <2> QED
      BY <1>1, <1>2, <1>4
  <1>6. y = x
    <2> HIDE DEF r, q, k, y
    <2> QED
      BY <1>1, <1>2, <1>4, <1>5, SameRemainder
  <1> QED
    BY <1>6 DEF Since1970

-----------------------------------------------------------------------------
(***************************************************************************)
(* The inductive invariant.  The network is left before the loop starts,   *)
(* so no answer comes after the first read of the clock (JoinInv), and all *)
(* answers come within the sleep (WakeInv).  The memory of the fetch       *)
(* changes hands in one direction (BlockInv).  A request is sent when the  *)
(* resolver has called back, if it had to (AskInv), so an answer that was  *)
(* accepted in time leaves no callback behind (SafeInv).  Each answer was  *)
(* true when it was given (AnswerInv), and the one in use was accepted     *)
(* while the fetch waited (HaveInv).                                       *)
(***************************************************************************)
PhaseInv  == phase + MaxTime < Second * Era
JoinInv   == pc \in {"beacon", "read", "compute"} => ~joined
WakeInv   ==
  /\ pc \in {"init", "lookup"} => now = 0
  /\ pc = "sleep" => wake = Window
  /\ pc \notin {"read", "compute"} => now <= Window + Late
BlockInv  ==
  /\ pc = "init" => block = "none"
  /\ pc \in {"lookup", "sleep"} => block = "ntp"
  /\ block = "tx" => pc \in {"read", "compute"}
  /\ stray => block = "tx"
AskInv    ==
  /\ pc \in {"init", "lookup"} => ~asked /\ ~dns
  /\ asked => ~dns
  /\ answers # {} => asked
SafeInv   == inTime => alarm = 0 /\ asked /\ ~stray
ClockInv  == powman_sync_ms <= now /\ ElapsedNonNegative
TrueSecond(n)   == (phase + n) \div Second
AnswerInv == \A s \in answers : \E n \in 0..now : s = (TrueSecond(n) + Delta) % Era
HaveInv   ==
  have => /\ powman_sync_ms <= Window + Late
          /\ \E n \in 0..powman_sync_ms : ntp_time = TrueSecond(n)
TimeInv   == pc \notin {"read", "compute"} => time = -1

IInv ==
  /\ TypeOK /\ PhaseInv /\ JoinInv /\ WakeInv /\ BlockInv /\ AskInv
  /\ SafeInv /\ ClockInv /\ AnswerInv /\ HaveInv /\ TimeInv /\ LagBounded
-----------------------------------------------------------------------------
\* The initial states satisfy the inductive invariant.
LEMMA InitIInv == Init => IInv
  <1> SUFFICES ASSUME Init PROVE IInv
    OBVIOUS
  <1> USE ConstantTypes DEF Init
  <1>1. TypeOK /\ PhaseInv
    <2>1. Second * Era \in Nat
      OBVIOUS
    <2>2. phase \in 0..(Second * Era) /\ phase + MaxTime < Second * Era
      BY <2>1
    <2>3. /\ now \in 0..MaxTime /\ wake \in 0..(MaxTime + Window)
          /\ alarm \in 0..(MaxTime + Resend) /\ powman_sync_ms \in 0..MaxTime
          /\ cur \in 0..MaxTime /\ time \in Int
      OBVIOUS
    <2>4. ntp_time \in 0..(Era - 1) /\ answers \subseteq 0..(Era - 1)
      OBVIOUS
    <2> QED
      BY <2>2, <2>3, <2>4 DEF TypeOK, PhaseInv
  <1>2. JoinInv /\ WakeInv /\ BlockInv /\ AskInv /\ SafeInv
    BY DEF JoinInv, WakeInv, BlockInv, AskInv, SafeInv
  <1>3. ClockInv /\ AnswerInv /\ HaveInv /\ TimeInv /\ LagBounded
    BY DEF ClockInv, ElapsedNonNegative, AnswerInv, HaveInv, TimeInv, LagBounded
  <1> QED
    BY <1>1, <1>2, <1>3 DEF IInv

\* Who may write where, and when.
LEMMA MemoryStep ==
  ASSUME IInv, [Next]_vars
  PROVE  JoinInv' /\ WakeInv' /\ BlockInv' /\ AskInv' /\ SafeInv'
  <1> USE ConstantTypes DEF IInv, TypeOK, JoinInv, WakeInv, BlockInv, AskInv, SafeInv, netw, sync, loop
  <1>1. CASE NtpInitFails
    BY <1>1 DEF NtpInitFails
  <1>2. CASE NtpInit
    BY <1>2 DEF NtpInit
  <1>3. CASE Lookup
    BY <1>3 DEF Lookup, ntp_result_failed, ntp_result_ends
  <1>4. CASE Free
    BY <1>4 DEF Free
  <1>5. CASE Leave
    BY <1>5 DEF Leave
  <1>6. CASE BeaconInit
    BY <1>6 DEF BeaconInit
  <1>7. CASE ReadClock
    BY <1>7 DEF ReadClock
  <1>8. CASE Compute
    BY <1>8 DEF Compute
  <1>9. CASE DnsFound
    BY <1>9 DEF DnsFound
  <1>10. CASE DnsFailed
    BY <1>10 DEF DnsFailed, ntp_result_failed, ntp_result_ends
  <1>11. CASE ServerAnswers
    BY <1>11 DEF ServerAnswers
  <1>12. CASE Recv
    BY <1>12 DEF Recv, ntp_result_ok, ntp_result_ends
  <1>13. CASE RecvInvalid
    BY <1>13 DEF RecvInvalid, ntp_result_failed, ntp_result_ends
  <1>14. CASE AlarmFires
    BY <1>14 DEF AlarmFires
  <1>15. CASE Tick
    BY <1>15 DEF Tick
  <1>16. CASE UNCHANGED vars
    BY <1>16 DEF vars
  <1> QED
    BY <1>1, <1>2, <1>3, <1>4, <1>5, <1>6, <1>7, <1>8, <1>9, <1>10, <1>11, <1>12, <1>13, <1>14, <1>15, <1>16 DEF Next

\* Clocks.
LEMMA ClockStep ==
  ASSUME IInv, [Next]_vars
  PROVE  PhaseInv' /\ ClockInv' /\ TimeInv'
  <1> USE ConstantTypes DEF IInv, TypeOK, PhaseInv, JoinInv, ClockInv, ElapsedNonNegative, TimeInv, netw, sync, loop
  <1>1. CASE NtpInitFails
    BY <1>1 DEF NtpInitFails
  <1>2. CASE NtpInit
    BY <1>2 DEF NtpInit
  <1>3. CASE Lookup
    BY <1>3 DEF Lookup, ntp_result_failed, ntp_result_ends
  <1>4. CASE Free
    BY <1>4 DEF Free
  <1>5. CASE Leave
    BY <1>5 DEF Leave
  <1>6. CASE BeaconInit
    BY <1>6 DEF BeaconInit
  <1>7. CASE ReadClock
    BY <1>7 DEF ReadClock
  <1>8. CASE Compute
    BY <1>8 DEF Compute
  <1>9. CASE DnsFound
    BY <1>9 DEF DnsFound
  <1>10. CASE DnsFailed
    BY <1>10 DEF DnsFailed, ntp_result_failed, ntp_result_ends
  <1>11. CASE ServerAnswers
    BY <1>11 DEF ServerAnswers
  <1>12. CASE Recv
    BY <1>12 DEF Recv, ntp_result_ok, ntp_result_ends
  <1>13. CASE RecvInvalid
    BY <1>13 DEF RecvInvalid, ntp_result_failed, ntp_result_ends
  <1>14. CASE AlarmFires
    BY <1>14 DEF AlarmFires
  <1>15. CASE Tick
    BY <1>15 DEF Tick
  <1>16. CASE UNCHANGED vars
    BY <1>16 DEF vars
  <1> QED
    BY <1>1, <1>2, <1>3, <1>4, <1>5, <1>6, <1>7, <1>8, <1>9, <1>10, <1>11, <1>12, <1>13, <1>14, <1>15, <1>16 DEF Next

\* Types.
LEMMA TypeStep ==
  ASSUME IInv, [Next]_vars
  PROVE  TypeOK'
  <1> USE ConstantTypes DEF IInv, TypeOK, WakeInv, netw, sync, loop
  <1>1. CASE NtpInitFails
    BY <1>1 DEF NtpInitFails
  <1>2. CASE NtpInit
    BY <1>2 DEF NtpInit
  <1>3. CASE Lookup
    <2>1. /\ dns' \in BOOLEAN /\ asked' \in BOOLEAN
          /\ alarm' = 0 \/ alarm' = alarm
          /\ stray' = stray \/ stray' = (stray \/ block = "tx")
      BY <1>3 DEF Lookup, ntp_result_failed, ntp_result_ends
    <2>4. stray' \in BOOLEAN
      BY <2>1, Zenon
    <2>5. alarm' \in 0..(MaxTime + Resend)
      BY <2>1
    <2>2. UNCHANGED <<phase, now, block, joined, answers, loop, missed, sync, inTime>>
      BY <1>3 DEF Lookup, ntp_result_failed
    <2>3. wake' \in 0..(MaxTime + Window) /\ pc' = "sleep"
      BY <1>3 DEF Lookup
    <2> QED
      BY <2>1, <2>2, <2>3, <2>4, <2>5
  <1>4. CASE Free
    BY <1>4 DEF Free
  <1>5. CASE Leave
    BY <1>5 DEF Leave
  <1>6. CASE BeaconInit
    BY <1>6 DEF BeaconInit
  <1>7. CASE ReadClock
    BY <1>7 DEF ReadClock
  <1>8. CASE Compute
    BY <1>8 DEF Compute
  <1>9. CASE DnsFound
    BY <1>9 DEF DnsFound
  <1>10. CASE DnsFailed
    <2>1. /\ dns' = FALSE
          /\ alarm' = 0 \/ alarm' = alarm
          /\ stray' = (stray \/ block = "tx")
      BY <1>10 DEF DnsFailed, ntp_result_failed, ntp_result_ends
    <2>3. stray' \in BOOLEAN
      BY <2>1, Zenon
    <2>4. alarm' \in 0..(MaxTime + Resend)
      BY <2>1
    <2>2. UNCHANGED <<phase, now, pc, wake, block, joined, asked, answers, loop, missed,
                      sync, inTime>>
      BY <1>10 DEF DnsFailed, ntp_result_failed
    <2> QED
      BY <2>1, <2>2, <2>3, <2>4
  <1>11. CASE ServerAnswers
    <2>1. (phase + now) \div Second + Delta \in Int
      BY DivRest
    <2>2. ((phase + now) \div Second + Delta) % Era \in 0..(Era - 1)
      BY <2>1, ModRange
    <2> QED
      BY <1>11, <2>2 DEF ServerAnswers
  <1>12. CASE Recv
    <2>1. PICK s \in answers : ntp_result_ok(Since1970(s))
      BY <1>12 DEF Recv
    <2>2. Since1970(s) \in 0..(Era - 1)
      BY ModRange DEF Since1970
    <2>3. /\ ntp_time' \in 0..(Era - 1) /\ powman_sync_ms' \in 0..MaxTime /\ have' \in BOOLEAN
          /\ inTime' \in BOOLEAN /\ stray' \in BOOLEAN /\ alarm' \in 0..(MaxTime + Resend)
      BY <2>1, <2>2 DEF ntp_result_ok, ntp_result_ends
    <2> QED
      BY <1>12, <2>3 DEF Recv
  <1>13. CASE RecvInvalid
    BY <1>13 DEF RecvInvalid, ntp_result_failed, ntp_result_ends
  <1>14. CASE AlarmFires
    BY <1>14 DEF AlarmFires
  <1>15. CASE Tick
    BY <1>15 DEF Tick
  <1>16. CASE UNCHANGED vars
    BY <1>16 DEF vars
  <1> QED
    BY <1>1, <1>2, <1>3, <1>4, <1>5, <1>6, <1>7, <1>8, <1>9, <1>10, <1>11, <1>12, <1>13, <1>14, <1>15, <1>16 DEF Next

\* A second of the true time fits in the server's era.
LEMMA TrueSecondRange ==
  ASSUME TypeOK, PhaseInv, NEW n \in 0..MaxTime
  PROVE  TrueSecond(n) \in 0..(Era - 1)
  <1>1. phase + n \in Nat /\ phase + n < Second * Era
    <2>1. Second * Era \in Nat
      BY ConstantTypes
    <2> QED
      BY <2>1, ConstantTypes DEF TypeOK, PhaseInv
  <1> QED
    BY <1>1, ConstantTypes, DivBound DEF TrueSecond

\* Answers stay true, and a new one is.
LEMMA AnswerStep ==
  ASSUME IInv, [Next]_vars
  PROVE  AnswerInv'
  <1> USE ConstantTypes DEF IInv, TypeOK
  <1>1. ASSUME UNCHANGED <<answers, phase>>, now' \in {now, now + 1}
        PROVE  AnswerInv'
    <2> SUFFICES ASSUME NEW s \in answers
                 PROVE  \E n \in 0..now' : s = (TrueSecond(n) + Delta) % Era
      BY <1>1 DEF AnswerInv, TrueSecond
    <2>1. PICK n \in 0..now : s = (TrueSecond(n) + Delta) % Era
      BY DEF AnswerInv
    <2>2. n \in 0..now'
      BY <1>1
    <2> QED
      BY <2>1, <2>2
  <1>2. CASE ServerAnswers
    <2>1. now \in 0..now
      OBVIOUS
    <2>2. ASSUME NEW s \in answers'
          PROVE  \E n \in 0..now : s = (TrueSecond(n) + Delta) % Era
      BY <1>2, <2>1, <2>2 DEF ServerAnswers, AnswerInv, TrueSecond
    <2> QED
      BY <1>2, <2>2 DEF ServerAnswers, AnswerInv, TrueSecond
  <1>3. CASE Tick
    BY <1>1, <1>3 DEF Tick, netw
  <1>4. ASSUME ~ServerAnswers, ~Tick
        PROVE  UNCHANGED <<answers, phase, now>>
    <2> USE DEF netw
    <2>1. ASSUME NtpInitFails \/ NtpInit \/ Lookup \/ Free \/ Leave \/ BeaconInit
          PROVE  UNCHANGED <<answers, phase, now>>
      BY <2>1 DEF NtpInitFails, NtpInit, Lookup, Free, Leave, BeaconInit
    <2>2. ASSUME ReadClock \/ Compute \/ DnsFound \/ DnsFailed \/ Recv \/ RecvInvalid \/ AlarmFires
          PROVE  UNCHANGED <<answers, phase, now>>
      BY <2>2 DEF ReadClock, Compute, DnsFound, DnsFailed, Recv, RecvInvalid, AlarmFires
    <2> QED
      BY <1>4, <2>1, <2>2 DEF Next, vars
  <1> QED
    BY <1>1, <1>2, <1>3, <1>4

\* The answer that was accepted last gives a true second, of a moment before
\* it was accepted, which was during the sleep.
LEMMA HaveStep ==
  ASSUME IInv, [Next]_vars
  PROVE  HaveInv'
  <1> USE ConstantTypes DEF IInv, TypeOK
  <1>1. ASSUME UNCHANGED <<sync, phase>>
        PROVE  HaveInv'
    BY <1>1 DEF HaveInv, TrueSecond, sync
  <1>2. CASE Recv
    <2>1. PICK s \in answers : ntp_result_ok(Since1970(s))
      BY <1>2 DEF Recv
    <2>2. PICK n \in 0..now : s = (TrueSecond(n) + Delta) % Era
      BY DEF AnswerInv
    <2>3. TrueSecond(n) \in 0..(Era - 1)
      BY TrueSecondRange
    <2>4. ntp_time' = TrueSecond(n)
      BY <2>1, <2>2, <2>3, WrapUndone DEF ntp_result_ok
    <2>5. powman_sync_ms' = now /\ now <= Window + Late
      BY <1>2, <2>1 DEF ntp_result_ok, Recv, JoinInv, WakeInv
    <2>6. phase' = phase
      BY <1>2 DEF Recv
    <2> QED
      BY <2>4, <2>5, <2>6 DEF HaveInv, TrueSecond
  <1>3. ASSUME ~Recv
        PROVE  UNCHANGED <<sync, phase>>
    <2> USE DEF netw, ntp_result_failed
    <2>1. ASSUME NtpInitFails \/ NtpInit \/ Lookup \/ Free \/ Leave \/ BeaconInit \/ Tick
          PROVE  UNCHANGED <<sync, phase>>
      BY <2>1 DEF NtpInitFails, NtpInit, Lookup, Free, Leave, BeaconInit, Tick, sync
    <2>2. ASSUME ReadClock \/ Compute \/ DnsFound \/ DnsFailed \/ ServerAnswers \/ RecvInvalid
                   \/ AlarmFires
          PROVE  UNCHANGED <<sync, phase>>
      BY <2>2 DEF ReadClock, Compute, DnsFound, DnsFailed, ServerAnswers, RecvInvalid,
                  AlarmFires, sync
    <2> QED
      BY <1>3, <2>1, <2>2 DEF Next, vars
  <1> QED
    BY <1>1, <1>2, <1>3

\* Each of the two divisions drops less than a second, and the answer was at
\* most one sleep old.
LEMMA LagStep ==
  ASSUME IInv, [Next]_vars
  PROVE  LagBounded'
  <1> USE ConstantTypes DEF IInv, TypeOK
  <1>1. ASSUME UNCHANGED <<have, pc, time, phase, cur>>
        PROVE  LagBounded'
    BY <1>1 DEF LagBounded
  <1>2. CASE Compute
    <2> SUFFICES ASSUME have
                 PROVE  phase + cur - Second * time' \in 0..MaxLag
      BY <1>2 DEF Compute, LagBounded, sync
    <2> DEFINE d == cur - powman_sync_ms
    <2>1. PICK n \in 0..powman_sync_ms : ntp_time = TrueSecond(n)
      BY DEF HaveInv
    <2>2. powman_sync_ms <= Window + Late /\ d \in Nat
      BY <1>2 DEF HaveInv, ClockInv, ElapsedNonNegative, Compute
    <2>3. /\ TrueSecond(n) \in Int
          /\ (phase + n) - Second * TrueSecond(n) \in 0..(Second - 1)
      BY DivRest DEF TrueSecond
    <2>4. /\ d \div Second \in Int
          /\ d - Second * (d \div Second) \in 0..(Second - 1)
      BY <2>2, DivRest
    <2>5. time' = TrueSecond(n) + d \div Second
      BY <1>2, <2>1 DEF Compute
    <2> DEFINE x == TrueSecond(n)
               y == d \div Second
    <2>6. phase + cur - Second * time'
            = ((phase + n) - Second * x) + (d - Second * y) + (powman_sync_ms - n)
      <3>1. Second * time' = Second * x + Second * y
        <4> HIDE DEF x, y
        <4> QED
          BY <2>3, <2>4, <2>5 DEF x, y
      <3>2. Second * x \in Int /\ Second * y \in Int
        BY <2>3, <2>4
      <3> HIDE DEF x, y
      <3> QED
        BY <3>1, <3>2
    <2> QED
      BY <2>2, <2>3, <2>4, <2>6 DEF MaxLag
  <1>3. CASE Recv
    BY <1>3 DEF Recv, JoinInv, LagBounded
  <1>4. CASE BeaconInit
    BY <1>4 DEF BeaconInit, TimeInv, LagBounded, loop
  <1>5. ASSUME pc' # "read"
        PROVE  LagBounded'
    BY <1>5 DEF LagBounded
  <1>6. ASSUME NtpInitFails \/ NtpInit \/ Lookup \/ Free \/ Leave \/ ReadClock
        PROVE  LagBounded'
    BY <1>5, <1>6 DEF NtpInitFails, NtpInit, Lookup, Free, Leave, ReadClock
  <1>7. ASSUME DnsFound \/ DnsFailed \/ ServerAnswers \/ RecvInvalid \/ AlarmFires \/ Tick
        PROVE  LagBounded'
    BY <1>1, <1>7 DEF DnsFound, DnsFailed, ServerAnswers, RecvInvalid, AlarmFires, Tick,
                      ntp_result_failed, sync, loop
  <1> QED
    BY <1>1, <1>2, <1>3, <1>4, <1>6, <1>7 DEF Next, vars, sync, loop

-----------------------------------------------------------------------------
\* The inductive invariant holds throughout.
THEOREM Invariance == Spec => []IInv
  <1>1. IInv /\ [Next]_vars => IInv'
    BY MemoryStep, ClockStep, TypeStep, AnswerStep, HaveStep, LagStep DEF IInv
  <1> QED
    BY <1>1, InitIInv, PTL DEF Spec

\* The variables of the fetch and of main.c 126-129 keep their types; in
\* particular the seconds stay within 32 bits.
THEOREM TypeCorrect == Spec => []TypeOK
  BY Invariance, PTL DEF IInv

\* The time that main.c 467-470 computes is never ahead of the true time and
\* lags by less than two seconds and the sleep, whatever answers came.
THEOREM LagIsBounded == Spec => []LagBounded
  BY Invariance, PTL DEF IInv

\* The unsigned difference of main.c 468 does not wrap, although ntp_result
\* runs as an interrupt.
THEOREM ElapsedIsExact == Spec => []ElapsedNonNegative
  <1>1. IInv => ElapsedNonNegative
    BY DEF IInv, ClockInv
  <1> QED
    BY <1>1, Invariance, PTL

\* After an answer in time no callback writes to the freed NTP_T once
\* WSPRbeaconInit has been given its memory.
THEOREM AnsweredMakesSafe == Spec => []AnsweredIsSafe
  <1>1. IInv => AnsweredIsSafe
    BY DEF IInv, SafeInv, AnsweredIsSafe
  <1> QED
    BY <1>1, Invariance, PTL
=============================================================================
