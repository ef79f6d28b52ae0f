--------------------------- MODULE Ft8Packet_proofs ---------------------------
(***************************************************************************)
(* Proofs about the packet: for any callsigns, locators and hashes, and    *)
(* whatever the payload holds.                                             *)
(***************************************************************************)
EXTENDS Ft8Packet, SequenceTheorems, FiniteSetTheorems, WellFoundedInduction, TLAPS

\* The smallest of some numbers is one of them, and no other is smaller.
LEMMA LeastNumber ==
  ASSUME NEW S \in SUBSET Nat, S # {}
  PROVE  Min(S) \in S /\ \A y \in S : Min(S) <= y
  <1> DEFINE R == {p \in Nat \X Nat : p[1] < p[2]}
  <1>1. IsWellFoundedOn(R, Nat)
    BY NatLessThanWellFounded DEF OpToRel
  <1>2. PICK x \in S : \A y \in S : ~(<<y, x>> \in R)
    BY <1>1, WFMin
  <1>3. ASSUME NEW y \in S PROVE x <= y
    <2>1. <<y, x>> \in Nat \X Nat /\ y \in Nat /\ x \in Nat
      OBVIOUS
    <2>2. ~(y < x)
      BY <1>2, <2>1
    <2> QED
      BY <2>1, <2>2
  <1> QED
    BY <1>3 DEF Min

\* What holds of 0, and of i when it holds of i - 1, holds up to n.
LEMMA Upwards ==
  ASSUME NEW n \in Nat, NEW Good, 0 \in Good, \A i \in 1..n : i - 1 \in Good => i \in Good
  PROVE  \A i \in 0..n : i \in Good
  <1> DEFINE Bad == {i \in 0..n : i \notin Good}
  <1> SUFFICES ASSUME Bad # {} PROVE FALSE
    OBVIOUS
  <1>1. Bad \in SUBSET Nat
    OBVIOUS
  <1>2. PICK k \in Bad : \A y \in Bad : k <= y
    BY <1>1, LeastNumber
  <1>3. k \in 1..n /\ k - 1 \in 0..n /\ ~(k <= k - 1)
    BY <1>2
  <1>4. k - 1 \in Good
    BY <1>2, <1>3
  <1> QED
    BY <1>2, <1>3, <1>4

-----------------------------------------------------------------------------
\* The rounds of a loop, up to round n.
Rounds(f, step, start, n) ==
  f = [i \in 0..n |-> IF i = 0 THEN start ELSE step[i][f[i - 1]]]

\* A loop of n rounds has a value after each of them.
LEMMA RoundsExist ==
  ASSUME NEW n \in Nat, NEW start, NEW step
  PROVE  \E f : Rounds(f, step, start, n)
  <1> DEFINE Good == {k \in Nat : \E f : Rounds(f, step, start, k)}
  <1>1. 0 \in Good
    <2>1. Rounds([i \in 0..0 |-> start], step, start, 0)
      BY DEF Rounds
    <2> QED
      BY <2>1
  <1>2. ASSUME NEW k \in 1..n, k - 1 \in Good
        PROVE  k \in Good
    <2>1. PICK e : Rounds(e, step, start, k - 1)
      BY <1>2
    <2>2. e = [i \in 0..(k - 1) |-> IF i = 0 THEN start ELSE step[i][e[i - 1]]]
      BY <2>1 DEF Rounds
    <2> DEFINE f == [i \in 0..k |-> IF i = k THEN step[k][e[k - 1]] ELSE e[i]]
    <2>3. ASSUME NEW i \in 0..k
          PROVE  f[i] = IF i = 0 THEN start ELSE step[i][f[i - 1]]
      <3>1. CASE i = 0
        <4>1. i \in 0..(k - 1) /\ i # k
          BY <3>1
        <4> QED
          BY <2>2, <3>1, <4>1
      <3>2. CASE i # 0 /\ i # k
        <4>1. i \in 0..(k - 1) /\ i - 1 \in 0..k /\ i - 1 # k
          BY <3>2
        <4>2. e[i] = step[i][e[i - 1]]
          BY <2>2, <3>2, <4>1
        <4> QED
          BY <3>2, <4>1, <4>2
      <3>3. CASE i = k
        <4>1. k - 1 \in 0..k /\ k - 1 # k /\ i # 0
          BY <3>3
        <4> QED
          BY <3>3, <4>1
      <3> QED
        BY <3>1, <3>2, <3>3
    <2>4. Rounds(f, step, start, k)
      BY <2>3 DEF Rounds
    <2> QED
      BY <2>4
  <1> HIDE DEF Good
  <1>3. n \in Good
    BY <1>1, <1>2, Upwards
  <1> QED
    BY <1>3 DEF Good

\* A loop that stays in S, round by round.
Stays(step, n, S) == \A i \in 1..n, s \in S : step[i][s] \in S

\* What is known of a loop: its start, its rounds, and that it stays in a set
\* that each round stays in.
LEMMA LoopRounds ==
  ASSUME NEW n, NEW S, NEW start, NEW step, n \in Nat, start \in S, Stays(step, n, S)
  PROVE  /\ Loop(step, start, n)[0] = start
         /\ \A i \in 0..n : Loop(step, start, n)[i] \in S
         /\ \A i \in 1..n : Loop(step, start, n)[i] = step[i][Loop(step, start, n)[i - 1]]
  <1> DEFINE f == Loop(step, start, n)
  <1>1. f = CHOOSE g : Rounds(g, step, start, n)
    BY Zenon DEF Loop, Rounds
  <1>2. Rounds(f, step, start, n)
    BY <1>1, RoundsExist, Zenon
  <1> HIDE DEF f
  <1>3. \A i \in 0..n : f[i] = IF i = 0 THEN start ELSE step[i][f[i - 1]]
    BY <1>2, Zenon DEF Rounds
  <1>4. f[0] = start
    BY <1>3
  <1>5. \A i \in 1..n : f[i] = step[i][f[i - 1]]
    BY <1>3
  <1> DEFINE Good == {i \in 0..n : f[i] \in S}
  <1>6. \A i \in 1..n : i - 1 \in Good => i \in Good
    BY <1>5 DEF Stays
  <1>7. 0 \in Good
    BY <1>4
  <1>8. \A i \in 0..n : i \in Good
    <2> HIDE DEF Good
    <2> QED
      BY <1>6, <1>7, Upwards
  <1> QED
    BY <1>4, <1>5, <1>8 DEF f
-----------------------------------------------------------------------------
\* Tuples of a known length, what is cut out of them and put behind them.
Tuple(n, S) == [1..n -> S]

LEMMA TupleItems ==
  ASSUME NEW n \in Nat, NEW S, NEW s \in Tuple(n, S)
  PROVE  /\ s \in Seq(S) /\ Len(s) = n /\ DOMAIN s = 1..n
         /\ \A i \in 1..n : s[i] \in S
  BY SeqDef DEF Tuple

LEMMA TupleMade ==
  ASSUME NEW n, NEW S, NEW s, n \in Nat, s \in Seq(S), Len(s) = n
  PROVE  s \in Tuple(n, S)
  BY DEF Tuple

LEMMA SameTuples ==
  ASSUME NEW n, NEW S, NEW s, NEW t, n \in Nat, s \in Tuple(n, S), t \in Tuple(n, S),
         \A i \in 1..n : s[i] = t[i]
  PROVE  s = t
  BY DEF Tuple

Slice(s, a, m) == SubSeq(s, a, a + m - 1)
Joined(s, t)   == s \o t

\* What is cut out of a tuple.
LEMMA Cut ==
  ASSUME NEW n, NEW S, NEW s \in Tuple(n, S), NEW a, NEW m,
         n \in Nat, a \in Nat, m \in Nat, a >= 1, a + m <= n + 1
  PROVE  /\ Slice(s, a, m) \in Tuple(m, S)
         /\ \A i \in 1..m : Slice(s, a, m)[i] = s[a + i - 1]
  <1>1. s \in Seq(S) /\ Len(s) = n /\ \A i \in 1..n : s[i] \in S
    BY TupleItems
  <1>2. Slice(s, a, m) = [i \in 1..m |-> s[a + i - 1]]
    BY <1>1 DEF Slice
  <1>3. ASSUME NEW i \in 1..m
        PROVE  s[a + i - 1] \in S
    <2>1. a + i - 1 \in 1..n
      OBVIOUS
    <2> QED
      BY <1>1, <2>1
  <1>4. Slice(s, a, m) \in Tuple(m, S)
    BY <1>2, <1>3 DEF Tuple
  <1> QED
    BY <1>2, <1>4

\* One tuple behind another.
LEMMA Behind ==
  ASSUME NEW m \in Nat, NEW n \in Nat, NEW S, NEW s \in Tuple(m, S), NEW t \in Tuple(n, S)
  PROVE  /\ Joined(s, t) \in Tuple(m + n, S)
         /\ \A i \in 1..m : Joined(s, t)[i] = s[i]
         /\ \A i \in 1..n : Joined(s, t)[m + i] = t[i]
         /\ \A i \in (m + 1)..(m + n) : Joined(s, t)[i] = t[i - m]
  <1>1. /\ s \in Seq(S) /\ Len(s) = m
        /\ t \in Seq(S) /\ Len(t) = n
    BY TupleItems
  <1> DEFINE u == s \o t
  <1>2. u \in Seq(S) /\ Len(u) = m + n /\ \A i \in 1..(m + n) : u[i] = IF i <= m THEN s[i] ELSE t[i - m]
    BY <1>1, ConcatProperties
  <1> HIDE DEF u
  <1>3. ASSUME NEW i \in 1..n PROVE u[m + i] = t[i]
    <2>1. m + i \in 1..(m + n) /\ ~(m + i <= m) /\ m + i - m = i
      OBVIOUS
    <2> QED
      BY <1>2, <2>1
  <1>4. u \in Tuple(m + n, S)
    BY <1>2, TupleMade
  <1>5. \A i \in 1..m : u[i] = s[i]
    BY <1>2
  <1>6. \A i \in (m + 1)..(m + n) : u[i] = t[i - m]
    BY <1>2
  <1> QED
    BY <1>3, <1>4, <1>5, <1>6 DEF u, Joined

Moved(r, b) == Append(Tail(r), b)

\* The first item leaves and one comes in at the end.
LEMMA MovedIs ==
  ASSUME NEW n, NEW S, NEW r, NEW b, n \in Nat, r \in Tuple(n, S), b \in S, n > 0
  PROVE  /\ Moved(r, b) \in Tuple(n, S)
         /\ \A k \in 1..(n - 1) : Moved(r, b)[k] = r[k + 1]
         /\ Moved(r, b)[n] = b
  <1>1. r \in Seq(S) /\ Len(r) = n
    BY TupleItems
  <1>2. r # <<>>
    <2>1. Len(<<>>) = 0 /\ n # 0
      OBVIOUS
    <2> QED
      BY <1>1, <2>1, Zenon
  <1>3. Tail(r) \in Seq(S) /\ Len(Tail(r)) = n - 1 /\ \A i \in 1..(n - 1) : Tail(r)[i] = r[i + 1]
    BY <1>1, <1>2, HeadTailProperties
  <1> DEFINE t == Tail(r)
  <1> HIDE DEF t
  <1>4. t \in Seq(S) /\ Len(t) = n - 1 /\ \A i \in 1..(n - 1) : t[i] = r[i + 1]
    BY <1>3 DEF t
  <1> DEFINE u == Append(t, b)
  <1>5. u \in Seq(S) /\ Len(u) = n /\ u[n] = b /\ \A k \in 1..(n - 1) : u[k] = r[k + 1]
    BY <1>4, AppendProperties
  <1> HIDE DEF u
  <1>6. u \in Tuple(n, S)
    BY <1>5, TupleMade
  <1> QED
    BY <1>5, <1>6 DEF t, u, Moved

Bit == {0, 1}

LEMMA ZerosAre ==
  ASSUME NEW n \in Nat
  PROVE  Zeros(n) \in Tuple(n, Bit) /\ \A i \in 1..n : Zeros(n)[i] = 0
  BY DEF Zeros, Bit, Tuple

-----------------------------------------------------------------------------
\* The CRC: bits of the remainder.
LEMMA XorIs ==
  ASSUME NEW n, NEW s, NEW t, n \in Nat, s \in Tuple(n, Bit), t \in Tuple(n, Bit)
  PROVE  /\ Xor(s, t) \in Tuple(n, Bit)
         /\ \A i \in 1..n : Xor(s, t)[i] = (s[i] + t[i]) % 2
  <1>1. DOMAIN s = 1..n /\ \A i \in 1..n : s[i] \in Bit /\ t[i] \in Bit
    BY TupleItems
  <1>2. ASSUME NEW i \in 1..n PROVE (s[i] + t[i]) % 2 \in Bit
    <2>1. s[i] \in {0, 1} /\ t[i] \in {0, 1}
      BY <1>1 DEF Bit
    <2> QED
      BY <2>1 DEF Bit
  <1> QED
    BY <1>1, <1>2 DEF Xor, Tuple

LEMMA PolynomialType == FT8_CRC_POLYNOMIAL \in Tuple(14, Bit)
  BY DEF FT8_CRC_POLYNOMIAL, Bit, Tuple

\* One step of the division, bit by bit.
LEMMA ShiftedIs ==
  ASSUME NEW r, NEW b, r \in Tuple(14, Bit), b \in Bit
  PROVE  /\ Shifted(r, b) \in Tuple(14, Bit)
         /\ \A k \in 1..13 : Shifted(r, b)[k]
              = IF r[1] = 1 THEN (r[k + 1] + FT8_CRC_POLYNOMIAL[k]) % 2 ELSE r[k + 1]
         /\ Shifted(r, b)[14] = IF r[1] = 1 THEN (b + FT8_CRC_POLYNOMIAL[14]) % 2 ELSE b
  <1> DEFINE next == Moved(r, b)
  <1>1. next \in Tuple(14, Bit) /\ next[14] = b /\ \A k \in 1..13 : next[k] = r[k + 1]
    BY MovedIs
  <1>2. Shifted(r, b) = IF r[1] = 1 THEN Xor(next, FT8_CRC_POLYNOMIAL) ELSE next
    BY Zenon DEF Shifted, Moved
  <1> HIDE DEF next
  <1>3. CASE r[1] = 1
    <2>1. /\ Xor(next, FT8_CRC_POLYNOMIAL) \in Tuple(14, Bit)
          /\ \A i \in 1..14 : Xor(next, FT8_CRC_POLYNOMIAL)[i] = (next[i] + FT8_CRC_POLYNOMIAL[i]) % 2
      BY <1>1, XorIs, PolynomialType
    <2> QED
      BY <1>1, <1>2, <1>3, <2>1
  <1>4. CASE r[1] # 1
    BY <1>1, <1>2, <1>4
  <1> QED
    BY <1>3, <1>4

\* A byte of a message of eleven added to the remainder.
Fetched(message, remainder, i) ==
  IF i % 8 = 1 THEN Xor(remainder, SubSeq(message, i, i + 7) \o Zeros(6)) ELSE remainder

\* A byte of the message is added to the remainder at its first bit.
LEMMA FetchedIs ==
  ASSUME NEW message, NEW i, NEW r, message \in Tuple(88, Bit), i \in 1..82, r \in Tuple(14, Bit)
  PROVE  /\ Fetched(message, r, i) \in Tuple(14, Bit)
         /\ \A k \in 1..14 : Fetched(message, r, i)[k]
              = IF i % 8 = 1 /\ k <= 8 THEN (r[k] + message[i + k - 1]) % 2 ELSE r[k]
  <1>1. CASE i % 8 # 1
    BY <1>1 DEF Fetched
  <1>2. CASE i % 8 = 1
    <2>1. i >= 1 /\ i + 8 <= 88 + 1 /\ i + 8 - 1 = i + 7
      BY <1>2
    <2> DEFINE byte == Slice(message, i, 8)
               wide == Joined(byte, Zeros(6))
    <2>2. byte \in Tuple(8, Bit) /\ \A k \in 1..8 : byte[k] = message[i + k - 1]
      BY <2>1, Cut
    <2> HIDE DEF byte
    <2>3. Zeros(6) \in Tuple(6, Bit) /\ \A k \in 1..6 : Zeros(6)[k] = 0
      BY ZerosAre
    <2>4. /\ wide \in Tuple(8 + 6, Bit)
          /\ \A k \in 1..8 : wide[k] = byte[k]
          /\ \A k \in (8 + 1)..(8 + 6) : wide[k] = Zeros(6)[k - 8]
      BY <2>2, <2>3, Behind
    <2>5. Fetched(message, r, i) = Xor(r, wide)
      BY <1>2, <2>1, Zenon DEF Fetched, Slice, Joined, byte
    <2> HIDE DEF wide
    <2>6. wide \in Tuple(14, Bit)
      BY <2>4
    <2>7. /\ Xor(r, wide) \in Tuple(14, Bit)
          /\ \A k \in 1..14 : Xor(r, wide)[k] = (r[k] + wide[k]) % 2
      BY <2>6, XorIs
    <2>8. ASSUME NEW k \in 1..14
          PROVE  Xor(r, wide)[k] = IF k <= 8 THEN (r[k] + message[i + k - 1]) % 2 ELSE r[k]
      <3>1. CASE k <= 8
        BY <2>2, <2>4, <2>7, <3>1
      <3>2. CASE k > 8
        <4>1. k \in (8 + 1)..(8 + 6) /\ k - 8 \in 1..6
          BY <3>2
        <4>2. wide[k] = 0
          BY <2>3, <2>4, <4>1
        <4>3. r[k] \in {0, 1}
          BY TupleItems DEF Bit
        <4> QED
          BY <2>7, <3>2, <4>2, <4>3
      <3> QED
        BY <3>1, <3>2
    <2> QED
      BY <1>2, <2>5, <2>7, <2>8
  <1> QED
    BY <1>1, <1>2

\* The remainder after each of the 82 rounds.
Remainders(message) ==
  Loop([i \in 1..82 |-> [r \in [1..14 -> {0, 1}] |-> Shifted(Fetched(message, r, i), 0)]],
       Zeros(14), 82)

\* The remainder of ftx_compute_crc after each bit.
LEMMA RemaindersAre ==
  ASSUME NEW message \in Tuple(88, Bit)
  PROVE  /\ ftx_compute_crc(message, 82) = Remainders(message)[82]
         /\ Remainders(message)[0] = Zeros(14)
         /\ \A i \in 0..82 : Remainders(message)[i] \in Tuple(14, Bit)
         /\ \A i \in 1..82 : Remainders(message)[i]
              = Shifted(Fetched(message, Remainders(message)[i - 1], i), 0)
  <1> DEFINE step == [i \in 1..82 |-> [r \in [1..14 -> {0, 1}] |-> Shifted(Fetched(message, r, i), 0)]]
  <1>1. ftx_compute_crc(message, 82) = Remainders(message)[82]
    BY Zenon DEF ftx_compute_crc, Remainders, Fetched
  <1>2. \A i \in 1..82, r \in Tuple(14, Bit) : step[i][r] = Shifted(Fetched(message, r, i), 0)
    BY DEF Tuple, Bit
  <1>3. Zeros(14) \in Tuple(14, Bit)
    BY ZerosAre
  <1>4. Remainders(message) = Loop(step, Zeros(14), 82)
    BY Zenon DEF Remainders
  <1> HIDE DEF step
  <1>5. Stays(step, 82, Tuple(14, Bit))
    <2> SUFFICES ASSUME NEW i \in 1..82, NEW r \in Tuple(14, Bit)
                 PROVE  Shifted(Fetched(message, r, i), 0) \in Tuple(14, Bit)
      BY <1>2 DEF Stays
    <2>1. PICK b \in Bit : b = 0
      BY DEF Bit
    <2>2. Fetched(message, r, i) \in Tuple(14, Bit)
      BY FetchedIs
    <2> QED
      BY <2>1, <2>2, ShiftedIs
  <1>6. /\ Loop(step, Zeros(14), 82)[0] = Zeros(14)
        /\ \A i \in 0..82 : Loop(step, Zeros(14), 82)[i] \in Tuple(14, Bit)
        /\ \A i \in 1..82 : Loop(step, Zeros(14), 82)[i] = step[i][Loop(step, Zeros(14), 82)[i - 1]]
    BY <1>3, <1>5, LoopRounds
  <1> DEFINE f == Loop(step, Zeros(14), 82)
  <1> HIDE DEF f
  <1>7. ASSUME NEW i \in 1..82
        PROVE  f[i] = Shifted(Fetched(message, f[i - 1], i), 0)
    <2>1. i - 1 \in 0..82
      OBVIOUS
    <2>2. f[i - 1] \in Tuple(14, Bit) /\ f[i] = step[i][f[i - 1]]
      BY <1>6, <2>1 DEF f
    <2> QED
      BY <1>2, <2>2
  <1>8. Remainders(message) = f
    BY <1>4 DEF f
  <1>9. f[0] = Zeros(14) /\ \A i \in 0..82 : f[i] \in Tuple(14, Bit)
    BY <1>6 DEF f
  <1> QED
    BY <1>1, <1>7, <1>8, <1>9

\* The window after each of the 82 steps of the division of 96 terms.
Windows(dividend) ==
  Loop([i \in 1..82 |-> [w \in [1..14 -> {0, 1}] |-> Shifted(w, dividend[i + 14])]],
       SubSeq(dividend, 1, 14), 82)

\* The window of the long division after each term.
LEMMA WindowsAre ==
  ASSUME NEW dividend \in Tuple(96, Bit)
  PROVE  /\ PolynomialRemainder(dividend) = Windows(dividend)[82]
         /\ Windows(dividend)[0] \in Tuple(14, Bit)
         /\ \A k \in 1..14 : Windows(dividend)[0][k] = dividend[k]
         /\ \A i \in 0..82 : Windows(dividend)[i] \in Tuple(14, Bit)
         /\ \A i \in 1..82 : Windows(dividend)[i] = Shifted(Windows(dividend)[i - 1], dividend[i + 14])
  <1> DEFINE step == [i \in 1..82 |-> [w \in [1..14 -> {0, 1}] |-> Shifted(w, dividend[i + 14])]]
             start == Slice(dividend, 1, 14)
  <1>1. Len(dividend) - 14 = 82 /\ 1 + 14 - 1 = 14 /\ \A i \in 1..96 : dividend[i] \in Bit
    <2>1. Len(dividend) = 96 /\ \A i \in 1..96 : dividend[i] \in Bit
      BY TupleItems
    <2> QED
      BY <2>1
  <1>2. PolynomialRemainder(dividend) = Windows(dividend)[82]
    BY <1>1, Zenon DEF PolynomialRemainder, Windows
  <1>3. \A i \in 1..82, w \in Tuple(14, Bit) : step[i][w] = Shifted(w, dividend[i + 14])
    BY DEF Tuple, Bit
  <1>4. Windows(dividend) = Loop(step, start, 82)
    BY <1>1, Zenon DEF Windows, Slice
  <1>5. start \in Tuple(14, Bit) /\ \A k \in 1..14 : start[k] = dividend[k]
    <2>1. PICK a \in Nat : a = 1
      OBVIOUS
    <2> DEFINE u == Slice(dividend, a, 14)
    <2>2. u \in Tuple(14, Bit) /\ \A k \in 1..14 : u[k] = dividend[a + k - 1]
      BY <2>1, Cut
    <2>3. start = u
      BY <2>1
    <2> HIDE DEF start, u
    <2> QED
      BY <2>1, <2>2, <2>3
  <1> HIDE DEF step, start
  <1>6. Stays(step, 82, Tuple(14, Bit))
    <2> SUFFICES ASSUME NEW i \in 1..82, NEW w \in Tuple(14, Bit)
                 PROVE  Shifted(w, dividend[i + 14]) \in Tuple(14, Bit)
      BY <1>3 DEF Stays
    <2>1. dividend[i + 14] \in Bit
      BY <1>1
    <2> QED
      BY <2>1, ShiftedIs
  <1> DEFINE f == Loop(step, start, 82)
  <1>7. /\ f[0] = start
        /\ \A i \in 0..82 : f[i] \in Tuple(14, Bit)
        /\ \A i \in 1..82 : f[i] = step[i][f[i - 1]]
    BY <1>5, <1>6, LoopRounds
  <1> HIDE DEF f
  <1>8. ASSUME NEW i \in 1..82
        PROVE  f[i] = Shifted(f[i - 1], dividend[i + 14])
    <2>1. i - 1 \in 0..82
      OBVIOUS
    <2>2. f[i - 1] \in Tuple(14, Bit) /\ f[i] = step[i][f[i - 1]]
      BY <1>7, <2>1
    <2> QED
      BY <1>3, <2>2
  <1>9. Windows(dividend) = f
    BY <1>4 DEF f
  <1> QED
    BY <1>2, <1>5, <1>7, <1>8, <1>9

\* Bytes are fetched ahead: how many bits are, in round i, and what such a
\* bit still has to say.
Ahead(i) == 8 * ((i + 7) \div 8)
Fed(message, j, e) == IF j <= e THEN message[j] ELSE 0

LEMMA AheadIs ==
  ASSUME NEW i \in 1..82
  PROVE  /\ Ahead(i) \in Nat /\ i <= Ahead(i) /\ Ahead(i) <= i + 7 /\ Ahead(i) <= 88
         /\ i % 8 = 1 => Ahead(i - 1) = i - 1 /\ Ahead(i) = i + 7
         /\ i % 8 # 1 => Ahead(i - 1) = Ahead(i)
  BY DEF Ahead

\* The window w is the remainder r, but for what has not been fetched yet.
Agrees(w, r, dividend, message, i, e) ==
  \A k \in 1..14 : w[k] = (r[k] + dividend[i + k] + Fed(message, i + k, e)) % 2

\* Both take the same steps.
LEMMA SameStep ==
  ASSUME NEW i \in 1..82, NEW e \in Nat, i <= e, e <= i + 7, e <= 88,
         NEW message \in Tuple(88, Bit), NEW dividend \in Tuple(96, Bit),
         dividend[i] = message[i],
         NEW r \in Tuple(14, Bit), NEW w \in Tuple(14, Bit),
         Agrees(w, r, dividend, message, i - 1, e)
  PROVE  Agrees(Shifted(w, dividend[i + 14]), Shifted(r, 0), dividend, message, i, e)
  <1> DEFINE poly == FT8_CRC_POLYNOMIAL
  <1>1. /\ \A j \in 1..96 : dividend[j] \in {0, 1}
        /\ \A j \in 1..88 : message[j] \in {0, 1}
        /\ \A k \in 1..14 : r[k] \in {0, 1} /\ w[k] \in {0, 1} /\ poly[k] \in {0, 1}
    BY TupleItems, PolynomialType DEF Bit
  <1>2. 0 \in Bit /\ dividend[i + 14] \in Bit
    <2>1. i + 14 \in 1..96
      OBVIOUS
    <2> QED
      BY <1>1, <2>1 DEF Bit
  <1>3. /\ \A k \in 1..13 : Shifted(w, dividend[i + 14])[k]
             = IF w[1] = 1 THEN (w[k + 1] + poly[k]) % 2 ELSE w[k + 1]
        /\ Shifted(w, dividend[i + 14])[14]
             = IF w[1] = 1 THEN (dividend[i + 14] + poly[14]) % 2 ELSE dividend[i + 14]
    BY <1>2, ShiftedIs
  <1>4. /\ \A k \in 1..13 : Shifted(r, 0)[k] = IF r[1] = 1 THEN (r[k + 1] + poly[k]) % 2 ELSE r[k + 1]
        /\ Shifted(r, 0)[14] = IF r[1] = 1 THEN (0 + poly[14]) % 2 ELSE 0
    <2>1. PICK b \in Bit : b = 0
      BY <1>2
    <2> QED
      BY <2>1, ShiftedIs
  <1>5. w[1] = r[1]
    <2>1. w[1] = (r[1] + dividend[i] + message[i]) % 2
      BY DEF Fed, Agrees
    <2>2. r[1] \in {0, 1} /\ message[i] \in {0, 1}
      BY <1>1
    <2> QED
      BY <2>1, <2>2
  <1>6. ASSUME NEW k \in 1..13
        PROVE  Shifted(w, dividend[i + 14])[k]
                 = (Shifted(r, 0)[k] + dividend[i + k] + Fed(message, i + k, e)) % 2
    <2>1. k + 1 \in 1..14 /\ i - 1 + (k + 1) = i + k /\ i + k \in 1..96
      OBVIOUS
    <2>2. w[k + 1] = (r[k + 1] + dividend[i + k] + Fed(message, i + k, e)) % 2
      BY <2>1 DEF Agrees
    <2>3. Fed(message, i + k, e) \in {0, 1}
      BY <1>1 DEF Fed
    <2>4. dividend[i + k] \in {0, 1} /\ r[k + 1] \in {0, 1} /\ poly[k] \in {0, 1}
      BY <1>1, <2>1
    <2> HIDE DEF poly
    <2> QED
      BY <1>3, <1>4, <1>5, <2>2, <2>3, <2>4
  <1>7. Shifted(w, dividend[i + 14])[14]
          = (Shifted(r, 0)[14] + dividend[i + 14] + Fed(message, i + 14, e)) % 2
    <2>1. Fed(message, i + 14, e) = 0
      BY DEF Fed
    <2>2. dividend[i + 14] \in {0, 1} /\ poly[14] \in {0, 1}
      BY <1>1, <1>2 DEF Bit
    <2> HIDE DEF poly
    <2> QED
      BY <1>3, <1>4, <1>5, <2>1, <2>2
  <1>8. \A k \in 1..14 : k \in 1..13 \/ k = 14
    OBVIOUS
  <1> QED
    BY <1>6, <1>7, <1>8 DEF Agrees

\* A message and its CRC leave no remainder: after each round the window is
\* the remainder, but for what has not been fetched yet.
LEMMA CrcDivides ==
  ASSUME NEW message \in Tuple(88, Bit), NEW dividend \in Tuple(96, Bit),
         \A i \in 1..82 : dividend[i] = message[i],
         \A j \in 83..88 : message[j] = 0,
         \A k \in 1..14 : dividend[82 + k] = ftx_compute_crc(message, 82)[k]
  PROVE  PolynomialRemainder(dividend) = Zeros(14)
  <1> DEFINE r == Remainders(message)
             w == Windows(dividend)
             Agree(i) == Agrees(w[i], r[i], dividend, message, i, Ahead(i))
  <1>1. /\ ftx_compute_crc(message, 82) = r[82] /\ r[0] = Zeros(14)
        /\ \A i \in 0..82 : r[i] \in Tuple(14, Bit)
        /\ \A i \in 1..82 : r[i] = Shifted(Fetched(message, r[i - 1], i), 0)
    BY RemaindersAre
  <1>2. /\ PolynomialRemainder(dividend) = w[82]
        /\ \A k \in 1..14 : w[0][k] = dividend[k]
        /\ \A i \in 0..82 : w[i] \in Tuple(14, Bit)
        /\ \A i \in 1..82 : w[i] = Shifted(w[i - 1], dividend[i + 14])
    BY WindowsAre
  <1> HIDE DEF r, w
  <1>3. (\A j \in 1..96 : dividend[j] \in Bit) /\ \A j \in 1..88 : message[j] \in Bit
    <2>1. \A j \in 1..96 : dividend[j] \in Bit
      BY DEF Tuple
    <2>2. \A j \in 1..88 : message[j] \in Bit
      BY DEF Tuple
    <2> QED
      BY <2>1, <2>2
  <1>9. ASSUME NEW i \in 0..82
        PROVE  r[i] \in Tuple(14, Bit) /\ \A k \in 1..14 : r[i][k] \in Bit
    BY <1>1, TupleItems
  <1>4. Agree(0)
    <2> SUFFICES ASSUME NEW k \in 1..14
                 PROVE  w[0][k] = (r[0][k] + dividend[0 + k] + Fed(message, 0 + k, Ahead(0))) % 2
      BY DEF Agrees
    <2>1. Fed(message, 0 + k, Ahead(0)) = 0
      BY DEF Fed, Ahead
    <2>2. r[0][k] = 0
      BY <1>1, ZerosAre
    <2>3. dividend[k] \in Bit
      BY <1>3
    <2>4. w[0][k] = dividend[k]
      BY <1>2
    <2>5. dividend[0 + k] = dividend[k]
      OBVIOUS
    <2> QED
      BY <2>1, <2>2, <2>3, <2>4, <2>5 DEF Bit
  <1>5. ASSUME NEW i \in 1..82, Agree(i - 1)
        PROVE  Agree(i)
    <2> DEFINE f == Fetched(message, r[i - 1], i)
               e == Ahead(i)
    <2>1. /\ e \in Nat /\ i <= e /\ e <= i + 7 /\ e <= 88
          /\ i % 8 = 1 => Ahead(i - 1) = i - 1 /\ e = i + 7
          /\ i % 8 # 1 => Ahead(i - 1) = e
      BY AheadIs
    <2>2. i - 1 \in 0..82
      OBVIOUS
    <2>3. /\ f \in Tuple(14, Bit)
          /\ \A k \in 1..14 : f[k] = IF i % 8 = 1 /\ k <= 8 THEN (r[i - 1][k] + message[i + k - 1]) % 2
                                     ELSE r[i - 1][k]
      <3>1. PICK q : q = r[i - 1] /\ q \in Tuple(14, Bit)
        BY <1>9, <2>2
      <3> QED
        BY <3>1, FetchedIs
    <2> HIDE DEF f, e
    <2>4. ASSUME NEW k \in 1..14
          PROVE  w[i - 1][k] = (f[k] + dividend[i - 1 + k] + Fed(message, i - 1 + k, e)) % 2
      <3>1. w[i - 1][k] = (r[i - 1][k] + dividend[i - 1 + k] + Fed(message, i - 1 + k, Ahead(i - 1))) % 2
        BY <1>5 DEF Agrees
      <3>2. dividend[i - 1 + k] \in {0, 1} /\ r[i - 1][k] \in {0, 1}
        <4>1. dividend[i - 1 + k] \in Bit
          <5>1. i - 1 + k \in 1..96
            OBVIOUS
          <5> QED
            BY <1>3, <5>1
        <4>2. r[i - 1][k] \in Bit
          BY <1>9, <2>2
        <4> QED
          BY <4>1, <4>2 DEF Bit
      <3>3. CASE i % 8 = 1 /\ k <= 8
        <4>1. i - 1 + k <= e /\ ~(i - 1 + k <= Ahead(i - 1)) /\ i - 1 + k \in 1..88
          BY <2>1, <3>3
        <4>2. Fed(message, i - 1 + k, e) = message[i - 1 + k] /\ Fed(message, i - 1 + k, Ahead(i - 1)) = 0
          BY <4>1 DEF Fed
        <4>3. message[i - 1 + k] \in {0, 1}
          <5>1. message[i - 1 + k] \in Bit
            BY <1>3, <4>1
          <5> QED
            BY <5>1 DEF Bit
        <4>4. f[k] = (r[i - 1][k] + message[i - 1 + k]) % 2
          <5>1. i + k - 1 = i - 1 + k
            OBVIOUS
          <5> QED
            BY <2>3, <3>3, <5>1
        <4> QED
          BY <3>1, <3>2, <4>2, <4>3, <4>4
      <3>4. CASE ~(i % 8 = 1 /\ k <= 8)
        <4>1. f[k] = r[i - 1][k]
          BY <2>3, <3>4
        <4>2. Fed(message, i - 1 + k, e) = Fed(message, i - 1 + k, Ahead(i - 1))
          <5>1. CASE i % 8 # 1
            BY <2>1, <5>1
          <5>2. CASE i % 8 = 1 /\ k > 8
            <6>1. ~(i - 1 + k <= e) /\ ~(i - 1 + k <= Ahead(i - 1))
              BY <2>1, <5>2
            <6> QED
              BY <6>1 DEF Fed
          <5> QED
            BY <3>4, <5>1, <5>2
        <4> QED
          BY <3>1, <4>1, <4>2
      <3> QED
        BY <3>3, <3>4
    <2>5. w[i - 1] \in Tuple(14, Bit) /\ w[i] = Shifted(w[i - 1], dividend[i + 14]) /\ r[i] = Shifted(f, 0)
      BY <1>1, <1>2, <2>2 DEF f
    <2>6. Agrees(Shifted(w[i - 1], dividend[i + 14]), Shifted(f, 0), dividend, message, i, e)
      <3>1. dividend[i] = message[i]
        OBVIOUS
      <3>2. PICK q : q = w[i - 1] /\ q \in Tuple(14, Bit)
        BY <2>5
      <3>3. Agrees(q, f, dividend, message, i - 1, e)
        BY <2>4, <3>2 DEF Agrees
      <3> HIDE DEF Agree
      <3>4. Agrees(Shifted(q, dividend[i + 14]), Shifted(f, 0), dividend, message, i, e)
        BY <2>1, <2>3, <3>1, <3>2, <3>3, SameStep
      <3> QED
        BY <3>2, <3>4
    <2> QED
      BY <2>5, <2>6 DEF e
  <1>6. Agree(82)
    <2> DEFINE Good == {i \in 0..82 : Agree(i)}
    <2> HIDE DEF Agree
    <2>1. 0 \in Good /\ \A i \in 1..82 : i - 1 \in Good => i \in Good
      BY <1>4, <1>5
    <2> HIDE DEF Good
    <2>2. \A i \in 0..82 : i \in Good
      BY <2>1, Upwards
    <2> QED
      BY <2>2 DEF Good
  <1>7. ASSUME NEW k \in 1..14
        PROVE  w[82][k] = 0
    <2>1. w[82][k] = (r[82][k] + dividend[82 + k] + Fed(message, 82 + k, Ahead(82))) % 2
      BY <1>6 DEF Agrees
    <2>2. Fed(message, 82 + k, Ahead(82)) = 0
      <3>1. Ahead(82) = 88
        BY DEF Ahead
      <3>2. 82 + k <= 88 => 82 + k \in 83..88
        OBVIOUS
      <3> QED
        BY <3>1, <3>2 DEF Fed
    <2>3. dividend[82 + k] = r[82][k]
      BY <1>1
    <2>4. r[82][k] \in Bit
      BY <1>9
    <2> HIDE DEF Agree
    <2> QED
      BY <2>1, <2>2, <2>3, <2>4 DEF Bit
  <1>8. w[82] \in Tuple(14, Bit) /\ Zeros(14) \in Tuple(14, Bit) /\ \A k \in 1..14 : w[82][k] = Zeros(14)[k]
    BY <1>2, <1>7, ZerosAre
  <1>10. w[82] = Zeros(14)
    <2>1. PICK q : q = w[82]
      OBVIOUS
    <2> QED
      BY <1>8, <2>1, SameTuples
  <1> QED
    BY <1>2, <1>10

-----------------------------------------------------------------------------
\* The parity checks.  What is in one of two sets, but not in both, is even
\* in number when both sets are.
LEMMA EvenDifference ==
  ASSUME NEW A, NEW T, IsFiniteSet(A), IsFiniteSet(T), Cardinality(T) % 2 = 0,
         Cardinality(A) % 2 = 0
  PROVE  Cardinality((A \ T) \cup (T \ A)) % 2 = 0
  <1> DEFINE L == A \ T
             R == T \ A
             B == A \cap T
  <1>1. IsFiniteSet(B) /\ Cardinality(B) \in Nat /\ Cardinality(A) \in Nat /\ Cardinality(T) \in Nat
    BY FS_Intersection, FS_CardinalityType
  <1>2. IsFiniteSet(L) /\ Cardinality(L) = Cardinality(A) - Cardinality(B)
    BY FS_Difference
  <1>3. IsFiniteSet(R) /\ Cardinality(R) = Cardinality(T) - Cardinality(B)
    <2>1. T \cap A = B
      OBVIOUS
    <2>2. IsFiniteSet(T \ A) /\ Cardinality(T \ A) = Cardinality(T) - Cardinality(T \cap A)
      BY FS_Difference
    <2> HIDE DEF B
    <2> QED
      BY <2>1, <2>2
  <1>4. L \cap R = {}
    OBVIOUS
  <1>5. Cardinality(L \cup R) = Cardinality(L) + Cardinality(R)
    <2>1. Cardinality(L \cup R) = Cardinality(L) + Cardinality(R) - Cardinality(L \cap R)
      BY <1>2, <1>3, FS_Union
    <2>2. Cardinality(L \cap R) = 0
      BY <1>4, FS_EmptySet
    <2>3. Cardinality(L) \in Nat /\ Cardinality(R) \in Nat
      BY <1>2, <1>3, FS_CardinalityType
    <2> HIDE DEF L, R
    <2> QED
      BY <2>1, <2>2, <2>3
  <1> HIDE DEF L, R, B
  <1>6. PICK a \in Nat, t \in Nat, b \in Nat :
          a = Cardinality(A) /\ t = Cardinality(T) /\ b = Cardinality(B)
    BY <1>1
  <1>7. Cardinality(L \cup R) = a + t - 2 * b
    BY <1>2, <1>3, <1>5, <1>6
  <1>8. (a + t - 2 * b) % 2 = 0
    BY <1>6
  <1> QED
    BY <1>7, <1>8 DEF L, R

\* The bits of a codeword that are set, when the first k bits of the message
\* are all that is.
FirstOnes(m, k) == {b \in 1..k : m[b] = 1}
Ones(m, k) == {j \in 1..174 : Cardinality(Term(j) \cap FirstOnes(m, k)) % 2 = 1}

LEMMA TableSizes == FTX_LDPC_K = 91 /\ FTX_LDPC_M = 83 /\ FTX_LDPC_K + FTX_LDPC_M = 174
  BY DEF FTX_LDPC_K, FTX_LDPC_M

\* The assumption about the tables, with their sizes.
LEMMA TablesAre ==
  /\ \A i \in 1..83 : kFTX_LDPC_generator[i] \subseteq 1..91
  /\ \A i \in 1..83 : kFTX_LDPC_Nm[i] \subseteq 1..174
  <1> DEFINE k == FTX_LDPC_K
             m == FTX_LDPC_M
             n == FTX_LDPC_K + FTX_LDPC_M
  <1>1. \A i \in 1..m : kFTX_LDPC_generator[i] \subseteq 1..k /\ kFTX_LDPC_Nm[i] \subseteq 1..n
    BY TablesFit, Zenon
  <1>2. k = 91 /\ m = 83 /\ n = 174
    BY TableSizes
  <1> HIDE DEF k, m, n
  <1> QED
    BY <1>1, <1>2

\* The bits of a check that bit b of the message is a term of.
Involved(i, b) == {j \in kFTX_LDPC_Nm[i] : b \in Term(j)}

\* Each bit of the message takes part in each check an even number of times.
LEMMA InvolvedIsEven ==
  ASSUME NEW i \in 1..83, NEW b \in 1..91
  PROVE  Cardinality(Involved(i, b)) % 2 = 0
  <1>1. \A c \in 1..FTX_LDPC_M, d \in 1..FTX_LDPC_K : Cardinality(Involved(c, d)) % 2 = 0
    BY TablesFit, Zenon DEF Involved
  <1> QED
    BY <1>1, TableSizes

LEMMA SmallFinite ==
  ASSUME NEW n \in Nat, NEW S, S \subseteq 1..n
  PROVE  IsFiniteSet(S)
  <1>1. IsFiniteSet(1..n)
    <2>1. PICK one \in Int : one = 1
      OBVIOUS
    <2> QED
      BY <2>1, FS_Interval
  <1> QED
    BY <1>1, FS_Subset

\* The bits of the message that a bit of the codeword sums up.
LEMMA TermsAre ==
  ASSUME NEW j \in 1..174
  PROVE  Term(j) \subseteq 1..91 /\ IsFiniteSet(Term(j))
  <1>1. Term(j) \subseteq 1..91
    <2>1. CASE j <= 91
      BY <2>1, TableSizes DEF Term
    <2>2. CASE ~(j <= 91)
      <3>1. j - 91 \in 1..83
        BY <2>2
      <3>2. kFTX_LDPC_generator[j - 91] \subseteq 1..91
        BY <3>1, TablesAre
      <3>3. Term(j) = kFTX_LDPC_generator[j - 91]
        BY <2>2, TableSizes, Zenon DEF Term
      <3> QED
        BY <3>2, <3>3
    <2> QED
      BY <2>1, <2>2
  <1>2. PICK n \in Nat : n = 91
    OBVIOUS
  <1> QED
    BY <1>1, <1>2, SmallFinite

\* One more bit of the message changes the bits that it is a term of.
LEMMA NextOne ==
  ASSUME NEW m, NEW k \in 1..91
  PROVE  /\ m[k] # 1 => Ones(m, k) = Ones(m, k - 1)
         /\ m[k] = 1 => \A j \in 1..174 :
              j \in Ones(m, k) <=> ~(j \in Ones(m, k - 1) <=> k \in Term(j))
  <1>1. CASE m[k] # 1
    <2>1. FirstOnes(m, k) = FirstOnes(m, k - 1)
      BY <1>1 DEF FirstOnes
    <2> QED
      BY <1>1, <2>1 DEF Ones
  <1>2. CASE m[k] = 1
    <2>1. FirstOnes(m, k) = FirstOnes(m, k - 1) \cup {k} /\ k \notin FirstOnes(m, k - 1)
      BY <1>2 DEF FirstOnes
    <2> SUFFICES ASSUME NEW j \in 1..174
                 PROVE  j \in Ones(m, k) <=> ~(j \in Ones(m, k - 1) <=> k \in Term(j))
      BY <1>2
    <2> DEFINE before == Term(j) \cap FirstOnes(m, k - 1)
               after  == Term(j) \cap FirstOnes(m, k)
    <2>2. IsFiniteSet(before) /\ Cardinality(before) \in Nat
      <3>1. IsFiniteSet(Term(j))
        BY TermsAre
      <3>2. IsFiniteSet(before)
        BY <3>1, FS_Subset
      <3> HIDE DEF before
      <3> QED
        BY <3>2, FS_CardinalityType
    <2>3. CASE k \in Term(j)
      <3>1. after = before \cup {k} /\ k \notin before
        BY <2>1, <2>3
      <3>2. Cardinality(after) = Cardinality(before) + 1
        BY <2>2, <3>1, FS_AddElement
      <3>3. PICK n \in Nat : n = Cardinality(before)
        BY <2>2
      <3> HIDE DEF before, after
      <3>4. Cardinality(after) % 2 = 1 <=> ~(Cardinality(before) % 2 = 1)
        BY <3>2, <3>3
      <3> QED
        BY <2>3, <3>4 DEF Ones, before, after
    <2>4. CASE k \notin Term(j)
      <3>1. after = before
        BY <2>1, <2>4
      <3> QED
        BY <2>4, <3>1 DEF Ones
    <2> QED
      BY <2>3, <2>4
  <1> QED
    BY <1>1, <1>2

\* Bit by bit of the message, every check stays even.
LEMMA EvenChecks ==
  ASSUME NEW m, NEW i \in 1..83
  PROVE  Cardinality({j \in kFTX_LDPC_Nm[i] : j \in Ones(m, 91)}) % 2 = 0
  <1> DEFINE Check(k) == {j \in kFTX_LDPC_Nm[i] : j \in Ones(m, k)}
             Good == {k \in 0..91 : Cardinality(Check(k)) % 2 = 0}
  <1>1. kFTX_LDPC_Nm[i] \subseteq 1..174 /\ IsFiniteSet(kFTX_LDPC_Nm[i])
    <2>1. kFTX_LDPC_Nm[i] \subseteq 1..174
      BY TablesAre
    <2>2. PICK n \in Nat : n = 174
      OBVIOUS
    <2>3. PICK q : q = kFTX_LDPC_Nm[i] /\ q \subseteq 1..n
      BY <2>1, <2>2
    <2>4. IsFiniteSet(q)
      BY <2>3, SmallFinite
    <2> QED
      BY <2>1, <2>3, <2>4
  <1>2. 0 \in Good
    <2>1. ASSUME NEW j \in 1..174 PROVE j \notin Ones(m, 0)
      <3>1. Term(j) \cap FirstOnes(m, 0) = {}
        BY DEF FirstOnes
      <3>2. Cardinality(Term(j) \cap FirstOnes(m, 0)) = 0
        BY <3>1, FS_EmptySet
      <3> QED
        BY <3>2 DEF Ones
    <2>2. Check(0) = {}
      BY <1>1, <2>1
    <2>3. Cardinality(Check(0)) = 0
      BY <2>2, FS_EmptySet
    <2> HIDE DEF Check
    <2> QED
      BY <2>3
  <1>3. ASSUME NEW k \in 1..91, k - 1 \in Good
        PROVE  k \in Good
    <2>1. CASE m[k] # 1
      <3>1. Ones(m, k) = Ones(m, k - 1)
        BY <2>1, NextOne
      <3>2. Check(k) = Check(k - 1)
        BY <3>1
      <3> HIDE DEF Check
      <3> QED
        BY <1>3, <3>2
    <2>2. CASE m[k] = 1
      <3> DEFINE T == {j \in kFTX_LDPC_Nm[i] : k \in Term(j)}
                 A == Check(k - 1)
      <3>1. \A j \in 1..174 : j \in Ones(m, k) <=> ~(j \in Ones(m, k - 1) <=> k \in Term(j))
        BY <2>2, NextOne
      <3>2. Check(k) = (A \ T) \cup (T \ A)
        BY <1>1, <3>1
      <3>3. IsFiniteSet(A) /\ IsFiniteSet(T)
        BY <1>1, FS_Subset
      <3>4. Cardinality(T) % 2 = 0
        <4>1. T = Involved(i, k)
          BY DEF Involved
        <4> QED
          BY <4>1, InvolvedIsEven
      <3>5. Cardinality(A) % 2 = 0
        BY <1>3
      <3> HIDE DEF A, T
      <3>6. Cardinality((A \ T) \cup (T \ A)) % 2 = 0
        BY <3>3, <3>4, <3>5, EvenDifference
      <3>7. Cardinality(Check(k)) % 2 = 0
        BY <3>2, <3>6
      <3> HIDE DEF Check
      <3> QED
        BY <3>7
    <2> QED
      BY <2>1, <2>2
  <1>4. \A k \in 0..91 : k \in Good
    <2> HIDE DEF Good
    <2> QED
      BY <1>2, <1>3, Upwards
  <1> HIDE DEF Check
  <1>5. Cardinality(Check(91)) % 2 = 0
    BY <1>4
  <1> QED
    BY <1>5 DEF Check

\* The bits that are set in a codeword are those with an odd number of terms.
ParityBit(m, i) == Cardinality({j \in kFTX_LDPC_generator[i] : m[j] = 1}) % 2

\* A check bit of encode174 is the parity of its row of the generator.
LEMMA ParityBitIs ==
  ASSUME NEW m, NEW i \in 1..83
  PROVE  ParityBit(m, i) \in Bit /\ (ParityBit(m, i) = 1 <=> i + 91 \in Ones(m, 91))
  <1> DEFINE S == {j \in kFTX_LDPC_generator[i] : m[j] = 1}
  <1>1. kFTX_LDPC_generator[i] \subseteq 1..91
    BY TablesAre
  <1>2. Term(i + 91) = kFTX_LDPC_generator[i]
    <2>1. PICK j : j = i + 91 /\ ~(j <= 91) /\ j - 91 = i
      OBVIOUS
    <2>2. Term(j) = kFTX_LDPC_generator[j - 91]
      BY <2>1, TableSizes, Zenon DEF Term
    <2> QED
      BY <2>1, <2>2
  <1>3. S = Term(i + 91) \cap FirstOnes(m, 91)
    BY <1>1, <1>2 DEF FirstOnes
  <1>4. Cardinality(S) \in Nat
    <2>1. PICK n \in Nat : n = 91 /\ S \subseteq 1..n
      BY <1>1
    <2> HIDE DEF S
    <2>2. IsFiniteSet(S)
      BY <2>1, SmallFinite
    <2> QED
      BY <2>2, FS_CardinalityType
  <1>5. ParityBit(m, i) = Cardinality(S) % 2
    BY Zenon DEF ParityBit
  <1> HIDE DEF S
  <1>6. i + 91 \in 1..174
    OBVIOUS
  <1>7. i + 91 \in Ones(m, 91) <=> Cardinality(S) % 2 = 1
    BY <1>3, <1>6 DEF Ones
  <1>8. PICK c \in Nat : c = Cardinality(S)
    BY <1>4
  <1>9. c % 2 \in {0, 1}
    OBVIOUS
  <1> QED
    BY <1>5, <1>7, <1>8, <1>9 DEF Bit

\* A bit of the message is the parity of itself.
LEMMA MessageBitIs ==
  ASSUME NEW m, NEW j \in 1..91
  PROVE  m[j] = 1 <=> j \in Ones(m, 91)
  <1>1. Term(j) = {j}
    BY TableSizes DEF Term
  <1>2. CASE m[j] = 1
    <2>1. Term(j) \cap FirstOnes(m, 91) = {j}
      BY <1>1, <1>2 DEF FirstOnes
    <2>2. Cardinality({j}) = 1
      BY FS_Singleton
    <2>3. Cardinality(Term(j) \cap FirstOnes(m, 91)) = 1
      BY <2>1, <2>2
    <2> QED
      BY <1>2, <2>3 DEF Ones
  <1>3. CASE m[j] # 1
    <2>1. Term(j) \cap FirstOnes(m, 91) = {}
      BY <1>1, <1>3 DEF FirstOnes
    <2>2. Cardinality(Term(j) \cap FirstOnes(m, 91)) = 0
      BY <2>1, FS_EmptySet
    <2> QED
      BY <1>3, <2>2 DEF Ones
  <1> QED
    BY <1>2, <1>3

\* encode174 makes a codeword: the message and its check bits, with which
\* each check of the receiver comes out even.
LEMMA Encode174Is ==
  ASSUME NEW m \in Tuple(91, Bit)
  PROVE  /\ encode174(m) \in Tuple(174, Bit)
         /\ \A j \in 1..91 : encode174(m)[j] = m[j]
         /\ ParityOK(encode174(m))
  <1> DEFINE checks == [i \in 1..83 |-> ParityBit(m, i)]
             codeword == Joined(m, checks)
  <1>1. checks \in Tuple(83, Bit)
    BY ParityBitIs DEF Tuple
  <1>2. encode174(m) = codeword
    <2>1. encode174(m) = m \o [i \in 1..FTX_LDPC_M |-> ParityBit(m, i)]
      BY Zenon DEF encode174, ParityBit
    <2> QED
      BY <2>1, TableSizes, Zenon DEF Joined
  <1>3. \A i \in 1..83 : checks[i] = ParityBit(m, i)
    OBVIOUS
  <1> HIDE DEF checks
  <1>4. /\ codeword \in Tuple(91 + 83, Bit)
        /\ \A i \in 1..91 : codeword[i] = m[i]
        /\ \A i \in 1..83 : codeword[91 + i] = checks[i]
    <2>1. PICK k \in Nat, n \in Nat : k = 91 /\ n = 83
      OBVIOUS
    <2>2. m \in Tuple(k, Bit) /\ checks \in Tuple(n, Bit)
      BY <1>1, <2>1
    <2>3. Joined(m, checks) \in Tuple(k + n, Bit)
      BY <2>2, Behind
    <2>4. \A i \in 1..k : Joined(m, checks)[i] = m[i]
      BY <2>2, Behind
    <2>5. \A i \in 1..n : Joined(m, checks)[k + i] = checks[i]
      BY <2>2, Behind
    <2> QED
      BY <2>1, <2>3, <2>4, <2>5
  <1> HIDE DEF codeword
  <1>5. ASSUME NEW j \in 1..174
        PROVE  codeword[j] = 1 <=> j \in Ones(m, 91)
    <2>1. CASE j <= 91
      BY <1>4, <2>1, MessageBitIs
    <2>2. CASE ~(j <= 91)
      <3>1. PICK i \in 1..83 : j = 91 + i
        <4>1. j - 91 \in 1..83 /\ j = 91 + (j - 91)
          BY <2>2
        <4> QED
          BY <4>1
      <3>2. codeword[j] = ParityBit(m, i)
        BY <1>3, <1>4, <3>1
      <3>3. i + 91 = j
        BY <3>1
      <3> QED
        BY <3>2, <3>3, ParityBitIs
    <2> QED
      BY <2>1, <2>2
  <1>6. ASSUME NEW i \in 1..FTX_LDPC_M
        PROVE  Cardinality({j \in kFTX_LDPC_Nm[i] : codeword[j] = 1}) % 2 = 0
    <2>1. i \in 1..83
      BY TableSizes
    <2>2. kFTX_LDPC_Nm[i] \subseteq 1..174
      BY <2>1, TablesAre
    <2>3. {j \in kFTX_LDPC_Nm[i] : codeword[j] = 1} = {j \in kFTX_LDPC_Nm[i] : j \in Ones(m, 91)}
      BY <1>5, <2>2
    <2>4. Cardinality({j \in kFTX_LDPC_Nm[i] : j \in Ones(m, 91)}) % 2 = 0
      BY <2>1, EvenChecks
    <2> QED
      BY <2>3, <2>4, Zenon
  <1>7. ParityOK(codeword)
    BY <1>6, Zenon DEF ParityOK
  <1>8. codeword \in Tuple(174, Bit)
    <2>1. 91 + 83 = 174
      OBVIOUS
    <2> QED
      BY <1>4, <2>1, Zenon
  <1> QED
    BY <1>2, <1>4, <1>7, <1>8

-----------------------------------------------------------------------------
\* What is cut out of two tuples put together.
LEMMA CutLeft ==
  ASSUME NEW k, NEW n, NEW S, NEW s, NEW t, NEW a, NEW m, k \in Nat, n \in Nat, a \in Nat, m \in Nat,
         s \in Tuple(k, S), t \in Tuple(n, S), a >= 1, a + m <= k + 1
  PROVE  Slice(Joined(s, t), a, m) = Slice(s, a, m)
  <1>1. Joined(s, t) \in Tuple(k + n, S)
    BY Behind
  <1>2. \A i \in 1..k : Joined(s, t)[i] = s[i]
    BY Behind
  <1> DEFINE u == Joined(s, t)
  <1> HIDE DEF u
  <1>3. u \in Tuple(k + n, S) /\ \A i \in 1..k : u[i] = s[i]
    BY <1>1, <1>2 DEF u
  <1>4. k + n \in Nat /\ a + m <= k + n + 1
    OBVIOUS
  <1>5. Slice(u, a, m) \in Tuple(m, S) /\ \A i \in 1..m : Slice(u, a, m)[i] = u[a + i - 1]
    BY <1>3, <1>4, Cut
  <1>6. Slice(s, a, m) \in Tuple(m, S) /\ \A i \in 1..m : Slice(s, a, m)[i] = s[a + i - 1]
    BY Cut
  <1>7. ASSUME NEW i \in 1..m PROVE Slice(u, a, m)[i] = Slice(s, a, m)[i]
    <2>1. a + i - 1 \in 1..k
      OBVIOUS
    <2> QED
      BY <1>3, <1>5, <1>6, <2>1
  <1>8. Slice(u, a, m) = Slice(s, a, m)
    BY <1>5, <1>6, <1>7, SameTuples
  <1> QED
    BY <1>8 DEF u

\* The right part of a joined tuple is cut out of it again.
LEMMA CutRight ==
  ASSUME NEW k, NEW n, NEW S, NEW s, NEW t, NEW a, k \in Nat, n \in Nat, a \in Nat,
         k + 1 <= a, a <= k + 1,
         s \in Tuple(k, S), t \in Tuple(n, S)
  PROVE  Slice(Joined(s, t), a, n) = t
  <1>1. Joined(s, t) \in Tuple(k + n, S)
    BY Behind
  <1>2. \A i \in 1..n : Joined(s, t)[k + i] = t[i]
    BY Behind
  <1> DEFINE u == Joined(s, t)
  <1> HIDE DEF u
  <1>3. u \in Tuple(k + n, S) /\ \A i \in 1..n : u[k + i] = t[i]
    BY <1>1, <1>2 DEF u
  <1>0. a = k + 1
    OBVIOUS
  <1>4. PICK l \in Nat : l = k + n /\ u \in Tuple(l, S) /\ a \in Nat /\ a >= 1 /\ a + n <= l + 1
    BY <1>0, <1>3
  <1>8. Slice(u, a, n) \in Tuple(n, S)
    BY <1>4, Cut
  <1>9. \A i \in 1..n : Slice(u, a, n)[i] = u[a + i - 1]
    <2>1. PICK b \in Nat : b = a
      BY <1>4
    <2>2. b >= 1 /\ b + n <= l + 1
      BY <1>4, <2>1
    <2>3. \A i \in 1..n : Slice(u, b, n)[i] = u[b + i - 1]
      BY <1>4, <2>2, Cut
    <2> QED
      BY <2>1, <2>3
  <1>5. Slice(u, a, n) \in Tuple(n, S) /\ \A i \in 1..n : Slice(u, a, n)[i] = u[a + i - 1]
    BY <1>8, <1>9
  <1>6. ASSUME NEW i \in 1..n PROVE Slice(u, a, n)[i] = t[i]
    <2>1. a + i - 1 = k + i
      BY <1>0
    <2> QED
      BY <1>3, <1>5, <2>1
  <1>7. Slice(u, a, n) = t
    BY <1>5, <1>6, SameTuples
  <1> QED
    BY <1>7 DEF u

\* All of a tuple is cut out of it.
LEMMA CutWhole ==
  ASSUME NEW n, NEW S, NEW s, n \in Nat, s \in Tuple(n, S)
  PROVE  Slice(s, 1, n) = s
  <1>1. PICK a \in Nat : a = 1
    OBVIOUS
  <1>2. Slice(s, a, n) \in Tuple(n, S) /\ \A i \in 1..n : Slice(s, a, n)[i] = s[a + i - 1]
    BY <1>1, Cut
  <1>3. ASSUME NEW i \in 1..n PROVE Slice(s, a, n)[i] = s[i]
    BY <1>1, <1>2
  <1>4. Slice(s, a, n) = s
    BY <1>2, <1>3, SameTuples
  <1> QED
    BY <1>1, <1>4

\* Behind, for lengths that are known.
Adds(k, n, l) == k + n = l

LEMMA JoinedType ==
  ASSUME NEW k, NEW n, NEW l, NEW S, NEW s, NEW t, k \in Nat, n \in Nat, Adds(k, n, l),
         s \in Tuple(k, S), t \in Tuple(n, S)
  PROVE  Joined(s, t) \in Tuple(l, S)
  <1>1. l = k + n
    BY DEF Adds
  <1>2. Joined(s, t) \in Tuple(k + n, S)
    BY Behind
  <1> QED
    BY <1>1, <1>2, Zenon

LEMMA JoinedItems ==
  ASSUME NEW k, NEW n, NEW S, NEW s, NEW t, k \in Nat, n \in Nat, s \in Tuple(k, S), t \in Tuple(n, S)
  PROVE  /\ \A i \in 1..k : Joined(s, t)[i] = s[i]
         /\ \A i \in 1..n : Joined(s, t)[k + i] = t[i]
  <1>1. \A i \in 1..k : Joined(s, t)[i] = s[i]
    BY Behind
  <1>2. \A i \in 1..n : Joined(s, t)[k + i] = t[i]
    BY Behind
  <1> QED
    BY <1>1, <1>2

LEMMA NothingBefore ==
  ASSUME NEW n, NEW S, NEW s, n \in Nat, s \in Tuple(n, S)
  PROVE  <<>> \o s = s
  <1>1. s \in Seq(S)
    BY TupleItems
  <1> QED
    BY <1>1, ConcatEmptySeq

-----------------------------------------------------------------------------
\* From the codeword to the tones and back.
Tone == 0..7
Word(c, q) == 4 * c[3 * q - 2] + 2 * c[3 * q - 1] + c[3 * q]
Data(c)    == [q \in 1..58 |-> MapTone(Word(c, q))]
Costas     == kFT8_Costas_pattern
Tones(d)   == Joined(Joined(Joined(Joined(Costas, Slice(d, 1, 29)), Costas), Slice(d, 30, 29)), Costas)

\* Each tone stands for one word of three bits.
LEMMA GrayIs ==
  ASSUME NEW v \in 0..7
  PROVE  /\ MapTone(v) \in Tone
         /\ (CHOOSE b \in 1..8 : <<0, 1, 3, 2, 5, 6, 4, 7>>[b] = MapTone(v)) = v + 1
  <1> DEFINE g == <<0, 1, 3, 2, 5, 6, 4, 7>>
  <1>1. MapTone(v) = g[v + 1]
    BY Zenon DEF MapTone, kFT8_Gray_map
  <1>2. \A b \in 1..8 : g[b] = g[v + 1] => b = v + 1
    OBVIOUS
  <1>3. v + 1 \in 1..8 /\ g[v + 1] \in Tone
    BY DEF Tone
  <1> HIDE DEF g
  <1>4. (CHOOSE b \in 1..8 : g[b] = g[v + 1]) = v + 1
    BY <1>2, <1>3
  <1> QED
    BY <1>1, <1>3, <1>4, Zenon DEF g

\* The three bits of a tone are found again in their number.
LEMMA WordIs ==
  ASSUME NEW c \in Tuple(174, Bit), NEW q \in 1..58
  PROVE  /\ Word(c, q) \in 0..7
         /\ (Word(c, q) \div 4) % 2 = c[3 * q - 2]
         /\ (Word(c, q) \div 2) % 2 = c[3 * q - 1]
         /\ (Word(c, q) \div 1) % 2 = c[3 * q]
  <1>1. \A i \in 1..174 : c[i] \in Bit
    BY DEF Tuple
  <1>2a. PICK i \in 1..174 : i = 3 * q - 2
    <2>1. 3 * q - 2 \in 1..174
      OBVIOUS
    <2> QED
      BY <2>1
  <1>2b. PICK j \in 1..174 : j = 3 * q - 1
    <2>1. 3 * q - 1 \in 1..174
      OBVIOUS
    <2> QED
      BY <2>1
  <1>2c. PICK k \in 1..174 : k = 3 * q
    <2>1. 3 * q \in 1..174
      OBVIOUS
    <2> QED
      BY <2>1
  <1>3. PICK x \in {0, 1}, y \in {0, 1}, z \in {0, 1} : x = c[i] /\ y = c[j] /\ z = c[k]
    <2>1. c[i] \in Bit /\ c[j] \in Bit /\ c[k] \in Bit
      BY <1>1
    <2> QED
      BY <2>1 DEF Bit
  <1>4. Word(c, q) = 4 * x + 2 * y + z
    BY <1>2a, <1>2b, <1>2c, <1>3 DEF Word
  <1>5. /\ 4 * x + 2 * y + z \in 0..7
        /\ ((4 * x + 2 * y + z) \div 4) % 2 = x
        /\ ((4 * x + 2 * y + z) \div 2) % 2 = y
        /\ ((4 * x + 2 * y + z) \div 1) % 2 = z
    OBVIOUS
  <1> QED
    BY <1>2a, <1>2b, <1>2c, <1>3, <1>4, <1>5

LEMMA DataType ==
  ASSUME NEW c \in Tuple(174, Bit)
  PROVE  Data(c) \in Tuple(58, Tone)
  <1>1. \A q \in 1..58 : MapTone(Word(c, q)) \in Tone
    BY WordIs, GrayIs
  <1> QED
    BY <1>1 DEF Data, Tuple

\* The three patterns and the data are found where they were put.
LEMMA TonesAre ==
  ASSUME NEW d \in Tuple(58, Tone)
  PROVE  /\ Tones(d) \in Tuple(79, Tone)
         /\ Slice(Tones(d), 1, 7) = Costas /\ Slice(Tones(d), 37, 7) = Costas /\ Slice(Tones(d), 73, 7) = Costas
         /\ Joined(Slice(Tones(d), 8, 29), Slice(Tones(d), 44, 29)) = d
  <1> DEFINE d1 == Slice(d, 1, 29)
             d2 == Slice(d, 30, 29)
             j1 == Joined(Costas, d1)
             j2 == Joined(j1, Costas)
             j3 == Joined(j2, d2)
             j4 == Joined(j3, Costas)
  <1>1. Costas \in Tuple(7, Tone)
    BY DEF Costas, kFT8_Costas_pattern, Tone, Tuple
  <1>2. d1 \in Tuple(29, Tone) /\ \A i \in 1..29 : d1[i] = d[1 + i - 1]
    <2>1. d1 \in Tuple(29, Tone)
      BY Cut
    <2>2. \A i \in 1..29 : d1[i] = d[1 + i - 1]
      BY Cut
    <2> QED
      BY <2>1, <2>2
  <1>3. d2 \in Tuple(29, Tone) /\ \A i \in 1..29 : d2[i] = d[30 + i - 1]
    <2>1. d2 \in Tuple(29, Tone)
      BY Cut
    <2>2. \A i \in 1..29 : d2[i] = d[30 + i - 1]
      BY Cut
    <2> QED
      BY <2>1, <2>2
  <1>4. Tones(d) = j4
    BY Zenon DEF Tones
  <1> HIDE DEF d1, d2
  <1>24. Adds(7, 29, 36) /\ Adds(36, 7, 43) /\ Adds(43, 29, 72) /\ Adds(72, 7, 79) /\ Adds(29, 29, 58)
    BY DEF Adds
  <1>5. j1 \in Tuple(36, Tone)
    BY <1>1, <1>2, <1>24, JoinedType
  <1>6. Slice(j1, 1, 7) = Costas
    <2>1. Slice(j1, 1, 7) = Slice(Costas, 1, 7)
      BY <1>1, <1>2, CutLeft
    <2> QED
      BY <1>1, <2>1, CutWhole
  <1>7. Slice(j1, 8, 29) = d1
    BY <1>1, <1>2, CutRight
  <1> HIDE DEF j1
  <1>8. j2 \in Tuple(43, Tone)
    BY <1>1, <1>5, <1>24, JoinedType
  <1>9. Slice(j2, 1, 7) = Slice(j1, 1, 7)
    BY <1>1, <1>5, CutLeft
  <1>10. Slice(j2, 8, 29) = Slice(j1, 8, 29)
    BY <1>1, <1>5, CutLeft
  <1>11. Slice(j2, 37, 7) = Costas
    BY <1>1, <1>5, CutRight
  <1> HIDE DEF j2
  <1>12. j3 \in Tuple(72, Tone)
    BY <1>3, <1>8, <1>24, JoinedType
  <1>13. Slice(j3, 1, 7) = Slice(j2, 1, 7)
    BY <1>3, <1>8, CutLeft
  <1>14. Slice(j3, 8, 29) = Slice(j2, 8, 29)
    BY <1>3, <1>8, CutLeft
  <1>15. Slice(j3, 37, 7) = Slice(j2, 37, 7)
    BY <1>3, <1>8, CutLeft
  <1>16. Slice(j3, 44, 29) = d2
    BY <1>3, <1>8, CutRight
  <1> HIDE DEF j3
  <1>17. j4 \in Tuple(79, Tone)
    BY <1>1, <1>12, <1>24, JoinedType
  <1>18. Slice(j4, 1, 7) = Slice(j3, 1, 7)
    BY <1>1, <1>12, CutLeft
  <1>19. Slice(j4, 8, 29) = Slice(j3, 8, 29)
    BY <1>1, <1>12, CutLeft
  <1>20. Slice(j4, 37, 7) = Slice(j3, 37, 7)
    BY <1>1, <1>12, CutLeft
  <1>21. Slice(j4, 44, 29) = Slice(j3, 44, 29)
    BY <1>1, <1>12, CutLeft
  <1>22. Slice(j4, 73, 7) = Costas
    BY <1>1, <1>12, CutRight
  <1> HIDE DEF j4
  <1>23. Joined(d1, d2) = d
    <2>1. Joined(d1, d2) \in Tuple(58, Tone)
      BY <1>2, <1>3, <1>24, JoinedType
    <2>3. \A i \in 1..29 : Joined(d1, d2)[i] = d1[i]
      BY <1>2, <1>3, JoinedItems
    <2>4. \A i \in 1..29 : Joined(d1, d2)[29 + i] = d2[i]
      BY <1>2, <1>3, JoinedItems
    <2>5. ASSUME NEW i \in 1..58 PROVE Joined(d1, d2)[i] = d[i]
      <3>1. CASE i <= 29
        BY <1>2, <2>3, <3>1
      <3>2. CASE ~(i <= 29)
        <4>1. PICK j \in 1..29 : i = 29 + j
          <5>1. i - 29 \in 1..29 /\ i = 29 + (i - 29)
            BY <3>2
          <5> QED
            BY <5>1
        <4> QED
          BY <1>3, <2>4, <4>1
      <3> QED
        BY <3>1, <3>2
    <2>6. PICK m \in Nat : m = 58
      OBVIOUS
    <2> QED
      BY <2>1, <2>5, <2>6, SameTuples
  <1> QED
    BY <1>4, <1>6, <1>7, <1>9, <1>10, <1>11, <1>13, <1>14, <1>15, <1>16, <1>17, <1>18, <1>19, <1>20,
       <1>21, <1>22, <1>23, Zenon

\* The synchronisation patterns stand where a receiver looks for them.
LEMMA TonesInSync ==
  ASSUME NEW d \in Tuple(58, Tone)
  PROVE  InSync(Tones(d))
  <1> DEFINE t == Tones(d)
  <1>1. Slice(t, 1, 7) = Costas /\ Slice(t, 37, 7) = Costas /\ Slice(t, 73, 7) = Costas
    BY TonesAre
  <1> HIDE DEF t
  <1>2. /\ SubSeq(t, 0 + 1, 0 + 7) = Costas
        /\ SubSeq(t, 36 + 1, 36 + 7) = Costas
        /\ SubSeq(t, 72 + 1, 72 + 7) = Costas
    <2>1. /\ 0 + 1 = 1 /\ 0 + 7 = 1 + 7 - 1
          /\ 36 + 1 = 37 /\ 36 + 7 = 37 + 7 - 1
          /\ 72 + 1 = 73 /\ 72 + 7 = 73 + 7 - 1
      OBVIOUS
    <2> QED
      BY <1>1, <2>1, Zenon DEF Slice
  <1>3. Costas = <<3, 1, 4, 0, 6, 5, 2>>
    BY Zenon DEF Costas, kFT8_Costas_pattern
  <1>4. InSync(t)
    <2> SUFFICES ASSUME NEW k \in {0, 36, 72}
                 PROVE  SubSeq(t, k + 1, k + 7) = Costas
      BY <1>3, Zenon DEF InSync
    <2> QED
      BY <1>2, Zenon
  <1> QED
    BY <1>4 DEF t

\* A receiver finds the codeword that was sent.
LEMMA ReceivedIs ==
  ASSUME NEW c \in Tuple(174, Bit)
  PROVE  ReceivedCodeword(Tones(Data(c))) = c
  <1> DEFINE t == Tones(Data(c))
             g == <<0, 1, 3, 2, 5, 6, 4, 7>>
             data == SubSeq(t, 8, 36) \o SubSeq(t, 44, 72)
             bits3 == [i \in 1..58 |-> (CHOOSE b \in 1..8 : g[b] = data[i]) - 1]
             f == [i \in 1..174 |-> (bits3[(i + 2) \div 3] \div <<4, 2, 1>>[((i - 1) % 3) + 1]) % 2]
  <1>1. ReceivedCodeword(t) = <<>> \o f
    BY Zenon DEF ReceivedCodeword
  <1>2. data = Data(c)
    <2>1. Joined(Slice(t, 8, 29), Slice(t, 44, 29)) = Data(c)
      BY DataType, TonesAre
    <2>2. 8 + 29 - 1 = 36 /\ 44 + 29 - 1 = 72
      OBVIOUS
    <2> HIDE DEF t
    <2> QED
      BY <2>1, <2>2, Zenon DEF Joined, Slice
  <1> HIDE DEF t, data
  <1>3. ASSUME NEW q \in 1..58 PROVE bits3[q] = Word(c, q)
    <2>1. data[q] = MapTone(Word(c, q))
      BY <1>2 DEF Data
    <2>2. Word(c, q) \in 0..7
      BY WordIs
    <2>3. (CHOOSE b \in 1..8 : g[b] = MapTone(Word(c, q))) = Word(c, q) + 1
      BY <2>2, GrayIs, Zenon
    <2>4. bits3[q] = (CHOOSE b \in 1..8 : g[b] = MapTone(Word(c, q))) - 1
      BY <2>1, Zenon
    <2> HIDE DEF bits3
    <2>5. PICK w \in 0..7 : w = Word(c, q)
      BY <2>2
    <2> DEFINE x == CHOOSE b \in 1..8 : g[b] = MapTone(Word(c, q))
    <2>6. bits3[q] = x - 1 /\ x = Word(c, q) + 1
      BY <2>3, <2>4
    <2> HIDE DEF x
    <2> QED
      BY <2>5, <2>6
  <1>4. ASSUME NEW i \in 1..174 PROVE f[i] = c[i]
    <2>1. PICK q \in 1..58, r \in {0, 1, 2} : i = 3 * q - 2 + r
      <3>1. PICK q \in 1..58 : q = (i + 2) \div 3
        OBVIOUS
      <3>2. i = 3 * q - 2 \/ i = 3 * q - 1 \/ i = 3 * q
        BY <3>1
      <3> QED
        BY <3>2
    <2>2. (i + 2) \div 3 = q /\ (i - 1) % 3 = r
      BY <2>1
    <2>3. f[i] = (Word(c, q) \div <<4, 2, 1>>[r + 1]) % 2
      <3> HIDE DEF bits3
      <3> QED
        BY <1>3, <2>2
    <2>4. /\ (Word(c, q) \div 4) % 2 = c[3 * q - 2]
          /\ (Word(c, q) \div 2) % 2 = c[3 * q - 1]
          /\ (Word(c, q) \div 1) % 2 = c[3 * q]
      BY WordIs
    <2> HIDE DEF f
    <2>5. CASE r = 0
      BY <2>1, <2>3, <2>4, <2>5
    <2>6. CASE r = 1
      BY <2>1, <2>3, <2>4, <2>6
    <2>7. CASE r = 2
      BY <2>1, <2>3, <2>4, <2>7
    <2> QED
      BY <2>5, <2>6, <2>7
  <1>5. f = [i \in 1..174 |-> f[i]]
    OBVIOUS
  <1> HIDE DEF f
  <1>6. f = c
    BY <1>4, <1>5 DEF Tuple
  <1>7. <<>> \o c = c
    BY NothingBefore
  <1> QED
    BY <1>1, <1>6, <1>7 DEF t

-----------------------------------------------------------------------------
\* Whatever 77 bits are put in, the tones make a packet: the message and its
\* CRC, the check bits, and the three patterns.
IsPacketOf(t, p) ==
  /\ InSync(t)
  /\ ParityOK(ReceivedCodeword(t))
  /\ CrcOK(ReceivedCodeword(t))
  /\ SubSeq(ReceivedCodeword(t), 1, 77) = p

\* The CRC is fourteen bits.
LEMMA CrcType ==
  ASSUME NEW message \in Tuple(88, Bit)
  PROVE  ftx_compute_crc(message, 82) \in Tuple(14, Bit)
  <1>1. 82 \in 0..82
    OBVIOUS
  <1>2. \A i \in 0..82 : Remainders(message)[i] \in Tuple(14, Bit)
    BY RemaindersAre
  <1>3. ftx_compute_crc(message, 82) = Remainders(message)[82]
    BY RemaindersAre
  <1> QED
    BY <1>1, <1>2, <1>3

\* Whatever the payload, its tones are a packet, and the payload is found in
\* it.
LEMMA EncodedIs ==
  ASSUME NEW p \in Tuple(77, Bit)
  PROVE  IsPacketOf(ft8_encode(p), p)
  <1> DEFINE message == Joined(p, Zeros(11))
             crc == ftx_compute_crc(message, 82)
             a91 == Joined(p, crc)
             c == encode174(a91)
             t == ft8_encode(p)
  <1>1. Slice(p, 1, 77) = p
    BY CutWhole
  <1>2. Adds(77, 11, 88) /\ Adds(77, 14, 91) /\ Adds(77, 5, 82) /\ Adds(82, 14, 96)
    BY DEF Adds
  <1>3. Zeros(11) \in Tuple(11, Bit) /\ \A i \in 1..11 : Zeros(11)[i] = 0
    BY ZerosAre
  <1>4. message \in Tuple(88, Bit)
    BY <1>2, <1>3, JoinedType
  <1>5. /\ \A i \in 1..77 : message[i] = p[i]
        /\ \A i \in 1..11 : message[77 + i] = Zeros(11)[i]
    BY <1>3, JoinedItems
  <1> HIDE DEF message
  <1>6. crc \in Tuple(14, Bit)
    BY <1>4, CrcType
  <1> HIDE DEF crc
  <1>7. a91 \in Tuple(91, Bit)
    BY <1>2, <1>6, JoinedType
  <1>8. /\ \A i \in 1..77 : a91[i] = p[i]
        /\ \A i \in 1..14 : a91[77 + i] = crc[i]
    BY <1>6, JoinedItems
  <1>9. ftx_add_crc(p) = a91
    <2>1. 1 + 77 - 1 = 77 /\ 96 - 14 = 82
      OBVIOUS
    <2>2. SubSeq(p, 1, 77) = p
      BY <1>1, <2>1, Zenon DEF Slice
    <2> QED
      BY <2>1, <2>2, Zenon DEF ftx_add_crc, Joined, message, crc
  <1> HIDE DEF a91
  <1>10. c \in Tuple(174, Bit)
    BY <1>7, Encode174Is
  <1>11. \A j \in 1..91 : c[j] = a91[j]
    BY <1>7, Encode174Is
  <1>12. ParityOK(c)
    BY <1>7, Encode174Is
  <1>13. t = Tones(Data(c))
    <2>1. 1 + 29 - 1 = 29 /\ 30 + 29 - 1 = 58
      OBVIOUS
    <2> QED
      BY <1>9, <2>1, Zenon DEF ft8_encode, Tones, Data, Word, Costas, Joined, Slice
  <1> HIDE DEF c, t
  <1>14. ReceivedCodeword(t) = c
    BY <1>10, <1>13, ReceivedIs
  <1>15. InSync(t)
    BY <1>10, <1>13, DataType, TonesInSync
  <1>16. SubSeq(c, 1, 77) = p
    <2>1. Slice(c, 1, 77) \in Tuple(77, Bit)
      BY <1>10, Cut
    <2>2. \A i \in 1..77 : Slice(c, 1, 77)[i] = c[1 + i - 1]
      BY <1>10, Cut
    <2>3. ASSUME NEW i \in 1..77 PROVE Slice(c, 1, 77)[i] = p[i]
      <3>1. i \in 1..91 /\ 1 + i - 1 = i
        OBVIOUS
      <3> QED
        BY <1>8, <1>11, <2>2, <3>1
    <2>4. Slice(c, 1, 77) = p
      BY <2>1, <2>3, SameTuples
    <2>5. 1 + 77 - 1 = 77
      OBVIOUS
    <2> QED
      BY <2>4, <2>5, Zenon DEF Slice
  <1>17. CrcOK(c)
    <2> DEFINE z == Zeros(5)
               tail == Slice(c, 78, 14)
               front == Joined(p, z)
               dividend == Joined(front, tail)
    <2>1. z \in Tuple(5, Bit) /\ \A i \in 1..5 : z[i] = 0
      BY ZerosAre
    <2> HIDE DEF z
    <2>2. tail \in Tuple(14, Bit)
      BY <1>10, Cut
    <2>3. \A i \in 1..14 : tail[i] = c[78 + i - 1]
      BY <1>10, Cut
    <2>4. ASSUME NEW i \in 1..14 PROVE tail[i] = crc[i]
      <3>1. 78 + i - 1 = 77 + i /\ 77 + i \in 1..91
        OBVIOUS
      <3> QED
        BY <1>8, <1>11, <2>3, <3>1
    <2> HIDE DEF tail
    <2>5. front \in Tuple(82, Bit)
      BY <1>2, <2>1, JoinedType
    <2>6. /\ \A i \in 1..77 : front[i] = p[i]
          /\ \A i \in 1..5 : front[77 + i] = z[i]
      BY <2>1, JoinedItems
    <2> HIDE DEF front
    <2>7. dividend \in Tuple(96, Bit)
      BY <1>2, <2>2, <2>5, JoinedType
    <2>8. /\ \A i \in 1..82 : dividend[i] = front[i]
          /\ \A i \in 1..14 : dividend[82 + i] = tail[i]
      BY <2>2, <2>5, JoinedItems
    <2>9. CrcOK(c) <=> PolynomialRemainder(dividend) = Zeros(14)
      <3>1. 78 + 14 - 1 = 91
        OBVIOUS
      <3> QED
        BY <1>16, <3>1, Zenon DEF CrcOK, Joined, Slice, dividend, front, tail, z
    <2> HIDE DEF dividend
    <2>10. ASSUME NEW i \in 1..82 PROVE dividend[i] = message[i]
      <3>1. CASE i <= 77
        BY <1>5, <2>6, <2>8, <3>1
      <3>2. CASE ~(i <= 77)
        <4>1. PICK j \in 1..5 : i = 77 + j
          <5>1. PICK j \in Int : j = i - 77
            OBVIOUS
          <5> QED
            BY <3>2, <5>1
        <4>2. front[77 + j] = 0 /\ message[77 + j] = 0
          BY <1>3, <1>5, <2>1, <2>6
        <4> QED
          BY <2>8, <4>1, <4>2
      <3> QED
        BY <3>1, <3>2
    <2>11. ASSUME NEW j \in 83..88 PROVE message[j] = 0
      <3>1. PICK i \in 1..11 : j = 77 + i
        <4>1. PICK i \in Int : i = j - 77
          OBVIOUS
        <4> QED
          BY <4>1
      <3> QED
        BY <1>3, <1>5, <3>1
    <2>12. \A k \in 1..14 : dividend[82 + k] = ftx_compute_crc(message, 82)[k]
      BY <2>4, <2>8 DEF crc
    <2>13. PolynomialRemainder(dividend) = Zeros(14)
      BY <1>4, <2>7, <2>10, <2>11, <2>12, CrcDivides
    <2> QED
      BY <2>9, <2>13
  <1>18. IsPacketOf(t, p)
    BY <1>12, <1>14, <1>15, <1>16, <1>17, Zenon DEF IsPacketOf
  <1> QED
    BY <1>18 DEF t

-----------------------------------------------------------------------------
\* The fields of a message are bits, whatever the number in them.
LEMMA NumberType ==
  ASSUME NEW n \in Nat, NEW digits \in Tuple(n, Int), NEW base \in Int
  PROVE  Number(digits, base) \in Int
  <1> DEFINE step == [i \in 1..n |-> [v \in Int |-> base * v + digits[i]]]
  <1>1. Len(digits) = n /\ \A i \in 1..n : digits[i] \in Int
    BY TupleItems
  <1>2. \A i \in 1..n, v \in Int : step[i][v] = base * v + digits[i]
    OBVIOUS
  <1>3. \A i \in 1..n, v \in Int : base * v + digits[i] \in Int
    BY <1>1
  <1>4. Number(digits, base) = Loop(step, 0, n)[n]
    BY <1>1, Zenon DEF Number
  <1> HIDE DEF step
  <1>5. Stays(step, n, Int)
    BY <1>2, <1>3 DEF Stays
  <1>6. \A i \in 0..n : Loop(step, 0, n)[i] \in Int
    <2>1. PICK z \in Int : z = 0
      OBVIOUS
    <2> QED
      BY <1>5, <2>1, LoopRounds
  <1> QED
    BY <1>4, <1>6

\* What the conversions return.
LEMMA BitsType ==
  ASSUME NEW n \in Int, NEW width \in Nat
  PROVE  Bits(n, width) \in Tuple(width, Bit)
  <1> DEFINE step == [i \in 1..width |-> [m \in Int |-> m \div 2]]
             half == Loop(step, n, width)
  <1>1. \A i \in 1..width, m \in Int : step[i][m] = m \div 2
    OBVIOUS
  <1>2. Bits(n, width) = [i \in 1..width |-> half[width - i] % 2]
    BY Zenon DEF Bits
  <1> HIDE DEF step
  <1>3. Stays(step, width, Int)
    BY <1>1 DEF Stays
  <1>4. \A i \in 0..width : half[i] \in Int
    BY <1>3, LoopRounds
  <1> HIDE DEF half
  <1>5. ASSUME NEW i \in 1..width PROVE half[width - i] % 2 \in Bit
    <2>1. width - i \in 0..width
      OBVIOUS
    <2>2. PICK h \in Int : h = half[width - i]
      BY <1>4, <2>1
    <2>3. h % 2 \in {0, 1}
      OBVIOUS
    <2> QED
      BY <2>2, <2>3 DEF Bit
  <1> QED
    BY <1>2, <1>5 DEF Tuple

Byte == 0..255

LEMMA MulAddType ==
  ASSUME NEW n \in Nat, NEW bytes \in Tuple(n, Byte), NEW m \in Int, NEW a \in Int
  PROVE  MulAdd(bytes, m, a) \in Tuple(n, Byte)
  <1> DEFINE step == [k \in 1..n |-> [c \in Int |-> (bytes[n + 1 - k] * m + c) \div 256]]
             carry == Loop(step, a, n)
  <1>1. Len(bytes) = n /\ \A i \in 1..n : bytes[i] \in Byte
    BY TupleItems
  <1>2. \A k \in 1..n, c \in Int : step[k][c] = (bytes[n + 1 - k] * m + c) \div 256
    OBVIOUS
  <1>3. MulAdd(bytes, m, a) = [i \in 1..n |-> (bytes[i] * m + carry[n - i]) % 256]
    BY <1>1, Zenon DEF MulAdd
  <1> HIDE DEF step
  <1>4. Stays(step, n, Int)
    <2> SUFFICES ASSUME NEW k \in 1..n, NEW c \in Int
                 PROVE  (bytes[n + 1 - k] * m + c) \div 256 \in Int
      BY <1>2 DEF Stays
    <2>1. n + 1 - k \in 1..n
      OBVIOUS
    <2>2. PICK b \in Int : b = bytes[n + 1 - k]
      BY <1>1, <2>1 DEF Byte
    <2>3. PICK x \in Int : x = b * m
      OBVIOUS
    <2> QED
      BY <2>2, <2>3
  <1>5. \A i \in 0..n : carry[i] \in Int
    BY <1>4, LoopRounds
  <1> HIDE DEF carry
  <1>6. ASSUME NEW i \in 1..n PROVE (bytes[i] * m + carry[n - i]) % 256 \in Byte
    <2>1. n - i \in 0..n
      OBVIOUS
    <2>2. PICK b \in Int : b = bytes[i]
      BY <1>1 DEF Byte
    <2>5. PICK c \in Int : c = carry[n - i]
      BY <1>5, <2>1
    <2>3. PICK x \in Int : x = b * m
      OBVIOUS
    <2>4. (x + c) % 256 \in 0..255
      OBVIOUS
    <2> QED
      BY <2>2, <2>3, <2>4, <2>5 DEF Byte
  <1> QED
    BY <1>3, <1>6 DEF Tuple

LEMMA PackedType ==
  ASSUME NEW l \in Nat, NEW digits \in Tuple(l, Int), NEW base \in Int, NEW n \in Nat
  PROVE  Packed(digits, base, n) \in Tuple(n, Byte)
  <1> DEFINE step == [i \in 1..l |-> [bytes \in [1..n -> 0..255] |-> MulAdd(bytes, base, digits[i])]]
  <1>1. Len(digits) = l /\ \A i \in 1..l : digits[i] \in Int
    BY TupleItems
  <1>2. \A i \in 1..l, bytes \in Tuple(n, Byte) : step[i][bytes] = MulAdd(bytes, base, digits[i])
    BY DEF Tuple, Byte
  <1>3. Packed(digits, base, n) = Loop(step, Zeros(n), l)[l]
    BY <1>1, Zenon DEF Packed
  <1> HIDE DEF step
  <1>4. Zeros(n) \in Tuple(n, Byte)
    BY DEF Zeros, Tuple, Byte
  <1>5. Stays(step, l, Tuple(n, Byte))
    <2> SUFFICES ASSUME NEW i \in 1..l, NEW bytes \in Tuple(n, Byte)
                 PROVE  MulAdd(bytes, base, digits[i]) \in Tuple(n, Byte)
      BY <1>2 DEF Stays
    <2>1. PICK d \in Int : d = digits[i]
      BY <1>1
    <2> QED
      BY <2>1, MulAddType
  <1>6. \A i \in 0..l : Loop(step, Zeros(n), l)[i] \in Tuple(n, Byte)
    BY <1>4, <1>5, LoopRounds
  <1> QED
    BY <1>3, <1>6

LEMMA BitsOfType ==
  ASSUME NEW n \in Nat, NEW bytes \in Tuple(n, Byte), NEW l \in Nat, l = 8 * n
  PROVE  BitsOf(bytes) \in Tuple(l, Bit)
  <1>1. Len(bytes) = n /\ \A i \in 1..n : bytes[i] \in Byte
    BY TupleItems
  <1>2. BitsOf(bytes) = [i \in 1..l |-> Bits(bytes[(i + 7) \div 8], 8)[((i - 1) % 8) + 1]]
    BY <1>1, Zenon DEF BitsOf
  <1>3. ASSUME NEW i \in 1..l
        PROVE  Bits(bytes[(i + 7) \div 8], 8)[((i - 1) % 8) + 1] \in Bit
    <2>1. PICK q \in 1..n : q = (i + 7) \div 8
      OBVIOUS
    <2>2. PICK r \in 1..8 : r = ((i - 1) % 8) + 1
      OBVIOUS
    <2>3. PICK b \in Int, w \in Nat : b = bytes[q] /\ w = 8
      BY <1>1 DEF Byte
    <2>4. Bits(b, w) \in Tuple(w, Bit)
      BY BitsType
    <2>5. \A j \in 1..8 : Bits(b, w)[j] \in Bit
      BY <2>3, <2>4 DEF Tuple
    <2> QED
      BY <2>1, <2>2, <2>3, <2>5
  <1> QED
    BY <1>2, <1>3 DEF Tuple

-----------------------------------------------------------------------------
\* The tables of characters.
Glyph == {Digits[i] : i \in 1..10} \cup {Letters[i] : i \in 1..26} \cup {"space", "+", "-", ".", "/", "?"}

IsTable(t, n) == t \in Tuple(n, Glyph) /\ \A i, j \in 1..n : t[i] = t[j] => i = j

\* A character is in a table when it has a number there, and the number
\* leads back to it.
LEMMA NcharIs ==
  ASSUME NEW n \in Nat, NEW t, Len(t) = n, DOMAIN t = 1..n, NEW c
  PROVE  /\ nchar(c, t) \in -1..(n - 1)
         /\ Contains(t, c) <=> nchar(c, t) >= 0
         /\ Contains(t, c) => charn(nchar(c, t), t) = c
  <1>1. CASE Contains(t, c)
    <2>1. PICK k \in 1..n : t[k] = c
      BY <1>1 DEF Contains
    <2> DEFINE x == CHOOSE i \in DOMAIN t : t[i] = c
    <2>2. x \in 1..n /\ t[x] = c
      BY <2>1
    <2>3. nchar(c, t) = x - 1
      BY <1>1, Zenon DEF nchar
    <2> HIDE DEF x
    <2>4. PICK y \in 1..n : y = x
      BY <2>2
    <2>5. nchar(c, t) = y - 1 /\ y - 1 + 1 = y
      BY <2>3, <2>4
    <2>6. charn(nchar(c, t), t) = c
      BY <2>2, <2>4, <2>5 DEF charn
    <2> QED
      BY <1>1, <2>5, <2>6
  <1>2. CASE ~Contains(t, c)
    <2>1. nchar(c, t) = -1
      BY <1>2, Zenon DEF nchar
    <2> QED
      BY <1>2, <2>1
  <1> QED
    BY <1>1, <1>2

LEMMA TableIs ==
  ASSUME NEW n \in Nat, NEW t, IsTable(t, n)
  PROVE  t \in Tuple(n, Glyph) /\ Len(t) = n /\ DOMAIN t = 1..n
  <1>1. t \in Tuple(n, Glyph)
    BY Zenon DEF IsTable
  <1> QED
    BY <1>1, TupleItems

\* Two tables without a common character make a table.
LEMMA TableJoined ==
  ASSUME NEW k, NEW n, NEW l, NEW s, NEW t, k \in Nat, n \in Nat, Adds(k, n, l),
         IsTable(s, k), IsTable(t, n), \A i \in 1..k, j \in 1..n : s[i] # t[j]
  PROVE  IsTable(Joined(s, t), l)
  <1>1. s \in Tuple(k, Glyph) /\ t \in Tuple(n, Glyph)
    BY Zenon DEF IsTable
  <1>2. Joined(s, t) \in Tuple(l, Glyph)
    BY <1>1, JoinedType
  <1>3. l = k + n /\ l \in Nat
    BY DEF Adds
  <1> DEFINE u == Joined(s, t)
  <1>4. /\ \A i \in 1..k : u[i] = s[i]
        /\ \A i \in 1..n : u[k + i] = t[i]
    BY <1>1, JoinedItems
  <1> HIDE DEF u
  <1>5. ASSUME NEW i \in 1..l PROVE i \in 1..k \/ \E x \in 1..n : i = k + x
    <2>1. CASE i <= k
      BY <2>1
    <2>2. CASE ~(i <= k)
      <3>1. i - k \in 1..n /\ i = k + (i - k)
        BY <1>3, <2>2
      <3> QED
        BY <3>1
    <2> QED
      BY <2>1, <2>2
  <1>6. /\ \A i, j \in 1..k : s[i] = s[j] => i = j
        /\ \A i, j \in 1..n : t[i] = t[j] => i = j
    BY Zenon DEF IsTable
  <1>7. ASSUME NEW i \in 1..l, NEW j \in 1..l, u[i] = u[j] PROVE i = j
    <2>1. CASE i \in 1..k /\ j \in 1..k
      BY <1>4, <1>6, <1>7, <2>1
    <2>2. CASE i \in 1..k /\ \E x \in 1..n : j = k + x
      BY <1>4, <1>7, <2>2
    <2>3. CASE j \in 1..k /\ \E x \in 1..n : i = k + x
      BY <1>4, <1>7, <2>3
    <2>4. CASE (\E x \in 1..n : i = k + x) /\ \E x \in 1..n : j = k + x
      BY <1>4, <1>6, <1>7, <2>4
    <2> QED
      BY <1>5, <2>1, <2>2, <2>3, <2>4
  <1>10. IsTable(u, l)
    BY <1>2, <1>7 DEF IsTable, u
  <1> QED
    BY <1>10 DEF u

\* It has the characters of both.
LEMMA JoinedContains ==
  ASSUME NEW k, NEW n, NEW s, NEW t, k \in Nat, n \in Nat, IsTable(s, k), IsTable(t, n)
  PROVE  \A c : Contains(Joined(s, t), c) <=> Contains(s, c) \/ Contains(t, c)
  <1>1. s \in Tuple(k, Glyph) /\ t \in Tuple(n, Glyph)
    BY Zenon DEF IsTable
  <1>2. PICK l \in Nat : l = k + n /\ Adds(k, n, l)
    BY DEF Adds
  <1> DEFINE u == Joined(s, t)
  <1>3. u \in Tuple(l, Glyph)
    BY <1>1, <1>2, JoinedType
  <1>4. /\ \A i \in 1..k : u[i] = s[i]
        /\ \A i \in 1..n : u[k + i] = t[i]
    BY <1>1, JoinedItems
  <1> HIDE DEF u
  <1>5. Len(s) = k /\ Len(t) = n /\ Len(u) = l
    BY <1>1, <1>3, TupleItems
  <1>6. ASSUME NEW c PROVE Contains(u, c) <=> Contains(s, c) \/ Contains(t, c)
    <2>1. ASSUME Contains(u, c) PROVE Contains(s, c) \/ Contains(t, c)
      <3>1. PICK i \in 1..l : u[i] = c
        BY <1>5, <2>1 DEF Contains
      <3>2. CASE i <= k
        BY <1>4, <1>5, <3>1, <3>2 DEF Contains
      <3>3. CASE ~(i <= k)
        <4>1. PICK x \in 1..n : i = k + x
          <5>1. i - k \in 1..n /\ i = k + (i - k)
            BY <1>2, <3>3
          <5> QED
            BY <5>1
        <4> QED
          BY <1>4, <1>5, <3>1, <4>1 DEF Contains
      <3> QED
        BY <3>2, <3>3
    <2>2. ASSUME Contains(s, c) PROVE Contains(u, c)
      <3>1. PICK i \in 1..k : s[i] = c
        BY <1>5, <2>2 DEF Contains
      <3>2. i \in 1..l
        BY <1>2
      <3> QED
        BY <1>4, <1>5, <3>1, <3>2 DEF Contains
    <2>3. ASSUME Contains(t, c) PROVE Contains(u, c)
      <3>1. PICK i \in 1..n : t[i] = c
        BY <1>5, <2>3 DEF Contains
      <3>2. k + i \in 1..l
        BY <1>2
      <3> QED
        BY <1>4, <1>5, <3>1, <3>2 DEF Contains
    <2> QED
      BY <2>1, <2>2, <2>3
  <1> QED
    BY <1>6 DEF u

\* Every table of text.c lists each of its characters once.
LEMMA DigitsAre == IsTable(Digits, 10)
  <1>1. \A i, j \in 1..10 : Digits[i] = Digits[j] => i = j
    BY DEF Digits
  <1>2. Digits \in Tuple(10, Glyph)
    BY DEF Digits, Tuple, Glyph
  <1> QED
    BY <1>1, <1>2, Zenon DEF IsTable

LEMMA LettersAre == IsTable(Letters, 26)
  <1>1. \A i, j \in 1..26 : Letters[i] = Letters[j] => i = j
    BY DEF Letters
  <1>2. Letters \in Tuple(26, Glyph)
    BY DEF Letters, Tuple, Glyph
  <1> QED
    BY <1>1, <1>2, Zenon DEF IsTable

\* A table of one character, which may be put in front of another.
LEMMA SingleAre ==
  ASSUME NEW c \in Glyph
  PROVE  IsTable(<<c>>, 1) /\ \A x : Contains(<<c>>, x) <=> x = c
  <1>1. \A i, j \in 1..1 : <<c>>[i] = <<c>>[j] => i = j
    OBVIOUS
  <1>2. <<c>> \in Tuple(1, Glyph)
    BY DEF Tuple
  <1>3. \A x : Contains(<<c>>, x) <=> x = c
    BY DEF Contains
  <1> QED
    BY <1>1, <1>2, <1>3, Zenon DEF IsTable

Marks == <<"+", "-", ".", "/", "?">>

LEMMA MarksAre == IsTable(Marks, 5)
  <1>1. \A i, j \in 1..5 : Marks[i] = Marks[j] => i = j
    BY DEF Marks
  <1>2. Marks \in Tuple(5, Glyph)
    BY DEF Marks, Tuple, Glyph
  <1> QED
    BY <1>1, <1>2, Zenon DEF IsTable

\* The six signs are neither digits nor letters.
LEMMA NotAlphaNum ==
  ASSUME NEW c \in {"space", "+", "-", ".", "/", "?"}
  PROVE  ~is_digit(c) /\ ~is_letter(c)
  <1>1. Len(Digits) = 10 /\ Len(Letters) = 26
    BY DEF Digits, Letters
  <1>2. \A i \in 1..10 : Digits[i] # c
    BY DEF Digits
  <1>3. \A i \in 1..26 : Letters[i] # c
    BY DEF Letters
  <1> QED
    BY <1>1, <1>2, <1>3 DEF is_digit, is_letter, Contains

\* No digit is a letter.
LEMMA DigitOrLetter ==
  ASSUME NEW c
  PROVE  ~(is_digit(c) /\ is_letter(c))
  <1>1. Len(Digits) = 10 /\ Len(Letters) = 26
    BY DEF Digits, Letters
  <1>2. \A i \in 1..10, j \in 1..26 : Digits[i] # Letters[j]
    BY DEF Digits, Letters
  <1> QED
    BY <1>1, <1>2 DEF is_digit, is_letter, Contains

LEMMA AlphaNumIs ==
  IsTable(AlphaNum, 36) /\ \A c : Contains(AlphaNum, c) <=> is_digit(c) \/ is_letter(c)
  <1>1. Adds(10, 26, 36)
    BY DEF Adds
  <1>2. \A i \in 1..10, j \in 1..26 : Digits[i] # Letters[j]
    BY DEF Digits, Letters
  <1>3. IsTable(Joined(Digits, Letters), 36)
    BY <1>1, <1>2, DigitsAre, LettersAre, TableJoined
  <1>4. \A c : Contains(Joined(Digits, Letters), c) <=> Contains(Digits, c) \/ Contains(Letters, c)
    BY DigitsAre, LettersAre, JoinedContains
  <1> QED
    BY <1>3, <1>4, Zenon DEF AlphaNum, Joined, is_digit, is_letter

\* A table does not hold what is in none of its places.
LEMMA Lacks ==
  ASSUME NEW t, NEW n \in Nat, Len(t) = n, NEW c, ~Contains(t, c)
  PROVE  \A i \in 1..n : t[i] # c
  BY DEF Contains

\* A table with another character put in front.
LEMMA InFront ==
  ASSUME NEW n, NEW l, NEW t, NEW c, n \in Nat, Adds(1, n, l), IsTable(t, n), c \in Glyph, ~Contains(t, c)
  PROVE  IsTable(Joined(<<c>>, t), l)
  <1>1. IsTable(<<c>>, 1) /\ \A x : Contains(<<c>>, x) <=> x = c
    BY SingleAre
  <1>2. Len(t) = n
    BY TableIs
  <1>3. \A i \in 1..n : t[i] # c
    BY <1>2, Lacks
  <1>4. \A i \in 1..1, j \in 1..n : <<c>>[i] # t[j]
    BY <1>3
  <1> DEFINE s == <<c>>
  <1> HIDE DEF s
  <1>5. IsTable(s, 1) /\ \A i \in 1..1, j \in 1..n : s[i] # t[j]
    BY <1>1, <1>4 DEF s
  <1>6. IsTable(Joined(s, t), l)
    BY <1>5, TableJoined
  <1> QED
    BY <1>6 DEF s

LEMMA InFrontContains ==
  ASSUME NEW n, NEW t, NEW c, n \in Nat, IsTable(t, n), c \in Glyph
  PROVE  \A x : Contains(Joined(<<c>>, t), x) <=> x = c \/ Contains(t, x)
  <1> DEFINE s == <<c>>
  <1>1. IsTable(s, 1)
    BY SingleAre
  <1>2. \A x : Contains(s, x) <=> x = c
    BY SingleAre
  <1> HIDE DEF s
  <1>3. \A x : Contains(Joined(s, t), x) <=> Contains(s, x) \/ Contains(t, x)
    BY <1>1, JoinedContains
  <1> QED
    BY <1>2, <1>3, Zenon DEF s

LEMMA AlphaNumSpaceIs ==
  /\ IsTable(AlphaNumSpace, 37)
  /\ \A c : Contains(AlphaNumSpace, c) <=> c = "space" \/ is_digit(c) \/ is_letter(c)
  <1>1. Adds(1, 36, 37) /\ "space" \in Glyph
    BY DEF Adds, Glyph
  <1>2. ~Contains(AlphaNum, "space")
    BY NotAlphaNum, AlphaNumIs
  <1>3. IsTable(Joined(<<"space">>, AlphaNum), 37)
    BY <1>1, <1>2, AlphaNumIs, InFront
  <1>4. \A x : Contains(Joined(<<"space">>, AlphaNum), x) <=> x = "space" \/ Contains(AlphaNum, x)
    BY <1>1, AlphaNumIs, InFrontContains
  <1>5. AlphaNumSpace = Joined(<<"space">>, AlphaNum)
    BY Zenon DEF AlphaNumSpace, Joined
  <1> QED
    BY <1>3, <1>4, <1>5, AlphaNumIs, Zenon

LEMMA LettersSpaceIs ==
  /\ IsTable(LettersSpace, 27)
  /\ \A c : Contains(LettersSpace, c) <=> c = "space" \/ is_letter(c)
  <1>1. Adds(1, 26, 27) /\ "space" \in Glyph
    BY DEF Adds, Glyph
  <1>2. ~Contains(Letters, "space")
    BY NotAlphaNum DEF is_letter
  <1>3. IsTable(Joined(<<"space">>, Letters), 27)
    BY <1>1, <1>2, LettersAre, InFront
  <1>4. \A x : Contains(Joined(<<"space">>, Letters), x) <=> x = "space" \/ Contains(Letters, x)
    BY <1>1, LettersAre, InFrontContains
  <1> QED
    BY <1>3, <1>4, Zenon DEF LettersSpace, Joined, is_letter

LEMMA AlphaNumSpaceSlashIs ==
  /\ IsTable(AlphaNumSpaceSlash, 38)
  /\ \A c : Contains(AlphaNumSpaceSlash, c) <=> c = "space" \/ is_digit(c) \/ is_letter(c) \/ c = "/"
  <1>1. Adds(37, 1, 38) /\ "/" \in Glyph /\ "/" # "space"
    BY DEF Adds, Glyph
  <1>2. ~Contains(AlphaNumSpace, "/")
    BY <1>1, NotAlphaNum, AlphaNumSpaceIs
  <1> DEFINE s == <<"/">>
  <1>3. IsTable(s, 1)
    BY <1>1, SingleAre
  <1>4. \A x : Contains(s, x) <=> x = "/"
    BY <1>1, SingleAre
  <1>5. \A i \in 1..37, j \in 1..1 : AlphaNumSpace[i] # s[j]
    <2>1. Len(AlphaNumSpace) = 37
      BY AlphaNumSpaceIs, TableIs
    <2>2. \A i \in 1..37 : AlphaNumSpace[i] # "/"
      BY <1>2, <2>1, Lacks
    <2> QED
      BY <2>2
  <1> HIDE DEF s
  <1>6. IsTable(Joined(AlphaNumSpace, s), 38)
    BY <1>1, <1>3, <1>5, AlphaNumSpaceIs, TableJoined
  <1>7. \A x : Contains(Joined(AlphaNumSpace, s), x) <=> Contains(AlphaNumSpace, x) \/ Contains(s, x)
    BY <1>3, AlphaNumSpaceIs, JoinedContains
  <1>8. AlphaNumSpaceSlash = Joined(AlphaNumSpace, s)
    BY Zenon DEF AlphaNumSpaceSlash, Joined, s
  <1> QED
    BY <1>4, <1>6, <1>7, <1>8, AlphaNumSpaceIs, Zenon

LEMMA FullTableIs == IsTable(FullTable, 42)
  <1>1. Adds(37, 5, 42)
    BY DEF Adds
  <1>2. \A i \in 1..37, j \in 1..5 : AlphaNumSpace[i] # Marks[j]
    <2> SUFFICES ASSUME NEW j \in 1..5 PROVE \A i \in 1..37 : AlphaNumSpace[i] # Marks[j]
      OBVIOUS
    <2>1. Marks[j] \in {"space", "+", "-", ".", "/", "?"} /\ Marks[j] # "space"
      BY DEF Marks
    <2>2. ~Contains(AlphaNumSpace, Marks[j])
      BY <2>1, NotAlphaNum, AlphaNumSpaceIs
    <2>3. Len(AlphaNumSpace) = 37
      BY AlphaNumSpaceIs, TableIs
    <2> QED
      BY <2>2, <2>3, Lacks
  <1>3. IsTable(Joined(AlphaNumSpace, Marks), 42)
    BY <1>1, <1>2, AlphaNumSpaceIs, MarksAre, TableJoined
  <1> QED
    BY <1>3, Zenon DEF FullTable, Joined, Marks

LEMMA NcharType ==
  ASSUME NEW n \in Nat, NEW t, IsTable(t, n), NEW c
  PROVE  nchar(c, t) \in -1..(n - 1) /\ nchar(c, t) \in Int
  <1>1. Len(t) = n /\ DOMAIN t = 1..n
    BY TableIs
  <1>2. nchar(c, t) \in -1..(n - 1)
    BY <1>1, NcharIs
  <1> QED
    BY <1>2

\* The texts of the fields, and the parts that they are cut into.
Text == Seq(Characters)

\* A part of a text.
LEMMA PartIs ==
  ASSUME NEW s, NEW a, NEW b, s \in Text, a \in Int, b \in Int, a >= 1, b <= Len(s)
  PROVE  /\ SubSeq(s, a, b) \in Text
         /\ Len(SubSeq(s, a, b)) = IF a <= b THEN b - a + 1 ELSE 0
         /\ \A i \in 1..(b - a + 1) : SubSeq(s, a, b)[i] = s[a + i - 1]
  <1>1. \A i \in a..b : s[i] \in Characters
    <2> SUFFICES ASSUME NEW i \in a..b PROVE s[i] \in Characters
      OBVIOUS
    <2>1. i \in 1..Len(s)
      BY DEF Text
    <2> QED
      BY <2>1 DEF Text
  <1>2. SubSeq(s, a, b) \in Seq(Characters)
    BY <1>1, SubSeqProperties
  <1>3. Len(SubSeq(s, a, b)) = IF a <= b THEN b - a + 1 ELSE 0
    BY <1>1, SubSeqProperties
  <1>4. \A i \in 1..(b - a + 1) : SubSeq(s, a, b)[i] = s[a + i - 1]
    BY <1>1, SubSeqProperties
  <1> QED
    BY <1>2, <1>3, <1>4, Zenon DEF Text

LEMMA LenType ==
  ASSUME NEW s \in Text
  PROVE  Len(s) \in Nat /\ DOMAIN s = 1..Len(s) /\ \A i \in 1..Len(s) : s[i] \in Characters
  BY DEF Text

\* Tokens of a text are texts, no longer than it.
LEMMA FirstTokenType ==
  ASSUME NEW s \in Text
  PROVE  FirstToken(s) \in Text /\ Len(FirstToken(s)) <= Len(s)
  <1> DEFINE ends == {i \in DOMAIN s : s[i] = "space"}
  <1>1. FirstToken(s) = IF ends = {} THEN s ELSE SubSeq(s, 1, Min(ends) - 1)
    BY Zenon DEF FirstToken
  <1>2. ends \in SUBSET Nat /\ ends \subseteq 1..Len(s) /\ Len(s) \in Nat
    BY LenType
  <1>3. CASE ends = {}
    BY <1>1, <1>2, <1>3
  <1>4. CASE ends # {}
    <2>1. Min(ends) \in ends
      BY <1>2, <1>4, LeastNumber
    <2>2. PICK m \in 1..Len(s) : m = Min(ends)
      BY <1>2, <2>1
    <2> HIDE DEF ends
    <2>3. PICK b \in Int : b = m - 1 /\ b <= Len(s) /\ b - 1 + 1 <= Len(s)
      BY <1>2
    <2>4. FirstToken(s) = SubSeq(s, 1, b)
      BY <1>1, <1>4, <2>2, <2>3
    <2>5. PICK a \in Int : a = 1 /\ a >= 1
      OBVIOUS
    <2>6. SubSeq(s, a, b) \in Text /\ Len(SubSeq(s, a, b)) = IF a <= b THEN b - a + 1 ELSE 0
      BY <2>3, <2>5, PartIs, Zenon
    <2>7. FirstToken(s) = SubSeq(s, a, b)
      BY <2>4, <2>5, Zenon
    <2> DEFINE f == FirstToken(s)
    <2>8. f \in Text /\ Len(f) = IF a <= b THEN b - a + 1 ELSE 0
      BY <2>6, <2>7, Zenon
    <2> HIDE DEF f
    <2>9. Len(f) <= Len(s)
      BY <1>2, <2>3, <2>5, <2>8
    <2> QED
      BY <2>8, <2>9 DEF f
  <1> QED
    BY <1>3, <1>4

LEMMA AfterTokenType ==
  ASSUME NEW s \in Text
  PROVE  AfterToken(s) \in Text
  <1> DEFINE rest == {i \in DOMAIN s : i > Len(FirstToken(s)) /\ s[i] # "space"}
  <1>1. AfterToken(s) = IF rest = {} THEN <<>> ELSE SubSeq(s, Min(rest), Len(s))
    BY Zenon DEF AfterToken
  <1>2. rest \in SUBSET Nat /\ rest \subseteq 1..Len(s) /\ Len(s) \in Nat
    BY LenType
  <1>3. CASE rest = {}
    BY <1>1, <1>3 DEF Text
  <1>4. CASE rest # {}
    <2>1. Min(rest) \in rest
      BY <1>2, <1>4, LeastNumber
    <2>2. PICK m \in 1..Len(s) : m = Min(rest)
      BY <1>2, <2>1
    <2> HIDE DEF rest
    <2>3. m \in Int /\ m >= 1 /\ Len(s) \in Int /\ Len(s) <= Len(s)
      BY <1>2
    <2>4. SubSeq(s, m, Len(s)) \in Text
      BY <2>3, PartIs, Zenon
    <2> QED
      BY <1>1, <1>4, <2>2, <2>4, Zenon
  <1> QED
    BY <1>3, <1>4

\* A report is a number.
LEMMA ReportType ==
  ASSUME NEW s \in Text, NEW length \in Nat
  PROVE  dd_to_int(s, length) \in Int
  <1> DEFINE signed == s # <<>> /\ s[1] \in {"+", "-"}
             base   == IF signed THEN Tail(s) ELSE s
             m      == Min({Len(s), length})
             used   == m - (IF signed THEN 1 ELSE 0)
             body   == SubSeq(base, 1, used)
             S      == {i \in DOMAIN body : ~is_digit(body[i])} \cup {Len(body) + 1}
             stop   == Min(S)
             digits == [i \in 1..(stop - 1) |-> nchar(body[i], Digits)]
             value  == Number(digits, 10)
  <1>1. dd_to_int(s, length) = IF signed /\ s[1] = "-" THEN -value ELSE value
    BY Zenon DEF dd_to_int
  <1>2. used \in Int
    <2>1. Len(s) \in Nat
      BY LenType
    <2>2. {Len(s), length} \in SUBSET Nat /\ {Len(s), length} # {}
      BY <2>1
    <2>3. m \in {Len(s), length}
      BY <2>2, LeastNumber
    <2>4. m \in Int
      BY <2>1, <2>3
    <2> HIDE DEF m, signed
    <2> QED
      BY <2>4
  <1> HIDE DEF used, base, signed
  <1>3. Len(body) \in Nat /\ DOMAIN body = 1..Len(body)
    BY <1>2
  <1> HIDE DEF body
  <1>4. S \in SUBSET Nat /\ S # {} /\ S \subseteq 1..(Len(body) + 1)
    BY <1>3
  <1>5. stop \in S
    BY <1>4, LeastNumber
  <1>6. stop - 1 \in Nat
    BY <1>4, <1>5
  <1> HIDE DEF S, stop
  <1>7. \A i \in 1..(stop - 1) : nchar(body[i], Digits) \in Int
    <2>1. PICK n \in Nat : n = 10 /\ IsTable(Digits, n)
      BY DigitsAre
    <2> QED
      BY <2>1, NcharType
  <1>8. digits \in Tuple(stop - 1, Int)
    BY <1>7 DEF Tuple
  <1> HIDE DEF digits
  <1>9. value \in Int
    <2>1. PICK n \in Nat, b \in Int : n = stop - 1 /\ b = 10
      BY <1>6
    <2>2. digits \in Tuple(n, Int)
      BY <1>8, <2>1
    <2>3. Number(digits, b) \in Int
      BY <2>2, NumberType
    <2> QED
      BY <2>1, <2>3
  <1> HIDE DEF value
  <1> QED
    BY <1>1, <1>9

LEMMA SpecialsAre == Len(Specials) = 4 /\ DOMAIN Specials = 1..4 /\ Specials[1] = <<>>
  BY DEF Specials

\* Whatever the text in its place, a locator's field is a number.
LEMMA PackgridType ==
  ASSUME NEW g \in Text
  PROVE  packgrid(g) \in Int
  <1>1. MAXGRID4 \in Int
    BY DEF MAXGRID4
  <1>2. packgrid(g) = IF Contains(Specials, g) THEN MAXGRID4 + 1 + nchar(g, Specials)
                      ELSE IF IsGrid(g)        THEN GridNumber(g)
                      ELSE IF g[1] = "R"       THEN 32768 + ((MAXGRID4 + 35 + dd_to_int(Tail(g), 3)) % 32768)
                      ELSE MAXGRID4 + 35 + dd_to_int(g, 3)
    BY DEF packgrid
  <1>3. PICK four \in Nat, three \in Nat : four = 4 /\ three = 3
    OBVIOUS
  <1>4. CASE Contains(Specials, g)
    <2>1. Len(Specials) = four /\ DOMAIN Specials = 1..four
      BY <1>3, SpecialsAre
    <2>2. nchar(g, Specials) \in -1..(four - 1)
      BY <2>1, NcharIs
    <2>3. PICK x \in Int : x = nchar(g, Specials)
      BY <1>3, <2>2
    <2>4. packgrid(g) = MAXGRID4 + 1 + x
      BY <1>2, <1>4, <2>3
    <2> QED
      BY <1>1, <2>4
  <1>5. CASE ~Contains(Specials, g) /\ IsGrid(g)
    <2>1. PICK n \in Nat, m \in Nat : n = 26 /\ m = 10
      OBVIOUS
    <2>2. IsTable(Letters, n) /\ IsTable(Digits, m)
      BY <2>1, LettersAre, DigitsAre
    <2>3. PICK a \in Int : a = nchar(g[1], Letters)
      BY <2>2, NcharType
    <2>4. PICK b \in Int : b = nchar(g[2], Letters)
      BY <2>2, NcharType
    <2>5. PICK c \in Int : c = nchar(g[3], Digits)
      BY <2>2, NcharType
    <2>6. PICK d \in Int : d = nchar(g[4], Digits)
      BY <2>2, NcharType
    <2>7. GridNumber(g) = (a * 18 + b) * 100 + c * 10 + d
      BY <2>3, <2>4, <2>5, <2>6, Zenon DEF GridNumber
    <2>8. packgrid(g) = GridNumber(g)
      BY <1>2, <1>5
    <2> QED
      BY <2>7, <2>8
  <1>6. CASE ~Contains(Specials, g) /\ ~IsGrid(g) /\ g[1] = "R"
    <2>1. g # <<>>
      <3>1. Contains(Specials, <<>>)
        BY SpecialsAre DEF Contains
      <3> QED
        BY <1>6, <3>1
    <2>2. Tail(g) \in Text
      BY <2>1, HeadTailProperties DEF Text
    <2>3. PICK x \in Int : x = dd_to_int(Tail(g), three)
      BY <2>2, ReportType
    <2>4. packgrid(g) = 32768 + ((MAXGRID4 + 35 + x) % 32768)
      BY <1>2, <1>3, <1>6, <2>3
    <2> QED
      BY <1>1, <2>4
  <1>7. CASE ~Contains(Specials, g) /\ ~IsGrid(g) /\ g[1] # "R"
    <2>1. PICK x \in Int : x = dd_to_int(g, three)
      BY ReportType
    <2>2. packgrid(g) = MAXGRID4 + 35 + x
      BY <1>2, <1>3, <1>7, <2>1
    <2> QED
      BY <1>1, <2>2
  <1> QED
    BY <1>4, <1>5, <1>6, <1>7

\* The six digits of a callsign, the number that they make, and the digits
\* that it stands for again.
Mixed(d) == ((((d[1] * 36 + d[2]) * 10 + d[3]) * 27 + d[4]) * 27 + d[5]) * 27 + d[6]
Radix    == <<37, 36, 10, 27, 27, 27>>
Padded(six)    == six \o [i \in 1..(6 - Len(six)) |-> "space"]
SixDigits(c6)  == [i \in 1..6 |-> nchar(c6[i], SixTables[i])]

\* The six tables of a callsign, and what a digit in each may be.
LEMMA SixTablesAre ==
  ASSUME NEW i \in 1..6
  PROVE  Radix[i] \in Nat /\ IsTable(SixTables[i], Radix[i])
  <1>1. /\ SixTables[1] = AlphaNumSpace /\ SixTables[2] = AlphaNum /\ SixTables[3] = Digits
        /\ SixTables[4] = LettersSpace /\ SixTables[5] = LettersSpace /\ SixTables[6] = LettersSpace
    BY DEF SixTables
  <1>2. Radix[1] = 37 /\ Radix[2] = 36 /\ Radix[3] = 10 /\ Radix[4] = 27 /\ Radix[5] = 27 /\ Radix[6] = 27
    BY DEF Radix
  <1>3. /\ IsTable(SixTables[1], Radix[1]) /\ IsTable(SixTables[2], Radix[2]) /\ IsTable(SixTables[3], Radix[3])
        /\ IsTable(SixTables[4], Radix[4]) /\ IsTable(SixTables[5], Radix[5]) /\ IsTable(SixTables[6], Radix[6])
    BY <1>1, <1>2, AlphaNumSpaceIs, AlphaNumIs, DigitsAre, LettersSpaceIs, Zenon
  <1>4. i = 1 \/ i = 2 \/ i = 3 \/ i = 4 \/ i = 5 \/ i = 6
    OBVIOUS
  <1>5. Radix[i] \in Nat
    BY DEF Radix
  <1> QED
    BY <1>3, <1>4, <1>5, Zenon

LEMMA SixDigitsType ==
  ASSUME NEW c6
  PROVE  \A i \in 1..6 : SixDigits(c6)[i] \in -1..(Radix[i] - 1) /\ SixDigits(c6)[i] \in Int
  <1> SUFFICES ASSUME NEW i \in 1..6
               PROVE  nchar(c6[i], SixTables[i]) \in -1..(Radix[i] - 1) /\ nchar(c6[i], SixTables[i]) \in Int
    BY DEF SixDigits
  <1>1. PICK n, t : n \in Nat /\ n = Radix[i] /\ t = SixTables[i] /\ IsTable(t, n)
    BY SixTablesAre
  <1>2. nchar(c6[i], t) \in -1..(n - 1) /\ nchar(c6[i], t) \in Int
    BY <1>1, NcharType
  <1> QED
    BY <1>1, <1>2

\* The number of a callsign, with the digits in mixed radix.
LEMMA BasecallIs ==
  ASSUME NEW call_, NEW length
  PROVE  pack_basecall(call_, length)
           = IF length <= 2 THEN -1
             ELSE IF \E i \in 1..6 : SixDigits(Padded(SixChars(call_, length)))[i] < 0 THEN -1
             ELSE Mixed(SixDigits(Padded(SixChars(call_, length))))
  BY Zenon DEF pack_basecall, SixDigits, Padded, Mixed

LEMMA BasecallType ==
  ASSUME NEW call_, NEW length
  PROVE  pack_basecall(call_, length) \in Int
  <1> DEFINE d == SixDigits(Padded(SixChars(call_, length)))
  <1>1. pack_basecall(call_, length) = -1 \/ pack_basecall(call_, length) = Mixed(d)
    BY BasecallIs, Zenon
  <1>2. \A i \in 1..6 : d[i] \in Int
    BY SixDigitsType
  <1> HIDE DEF d
  <1>3. Mixed(d) \in Int
    BY <1>2 DEF Mixed
  <1> QED
    BY <1>1, <1>3

\* The field of a callsign is a number and a flag.
LEMMA Pack28Type ==
  ASSUME NEW call_, NEW n22 \in Int
  PROVE  pack28(call_, n22).n28 \in Int /\ pack28(call_, n22).ip \in {0, 1}
  <1> DEFINE p == pack28(call_, n22)
             n28 == pack_basecall(call_, Len(call_) - (IF HasSuffix(call_) THEN 2 ELSE 0))
             token == [n28 |-> nchar(call_, Tokens), ip |-> 0]
             std == [n28 |-> NTOKENS + MAX22 + n28, ip |-> IF HasSuffix(call_) THEN 1 ELSE 0]
             hash == [n28 |-> NTOKENS + n22, ip |-> 0]
  <1>1. n28 \in Int
    BY BasecallType
  <1>2. p \in {token, NoPack, std, hash}
    BY Zenon DEF pack28
  <1> HIDE DEF n28, p
  <1>3. nchar(call_, Tokens) \in Int
    <2>1. PICK n \in Nat : n = 3
      OBVIOUS
    <2>2. Len(Tokens) = n /\ DOMAIN Tokens = 1..n
      BY <2>1 DEF Tokens
    <2>3. nchar(call_, Tokens) \in -1..(n - 1)
      BY <2>2, NcharIs
    <2> QED
      BY <2>1, <2>3
  <1>4. NTOKENS \in Int /\ MAX22 \in Int
    BY DEF NTOKENS, MAX22
  <1>5. token.n28 \in Int /\ token.ip \in {0, 1}
    BY <1>3
  <1>6. std.n28 \in Int /\ std.ip \in {0, 1}
    BY <1>1, <1>4
  <1>7. hash.n28 \in Int /\ hash.ip \in {0, 1}
    BY <1>4
  <1>8. NoPack.n28 \in Int /\ NoPack.ip \in {0, 1}
    BY DEF NoPack
  <1> HIDE DEF token, std, hash
  <1>9. p.n28 \in Int /\ p.ip \in {0, 1}
    BY <1>2, <1>5, <1>6, <1>7, <1>8
  <1> QED
    BY <1>9 DEF p

\* The 77 bits of a standard message, field by field.
StdBits(a, b, grid, i3) == Joined(Joined(Joined(Bits(2 * a.n28 + a.ip, 29), Bits(2 * b.n28 + b.ip, 29)),
                                         Bits(grid, 16)), Bits(i3, 3))

Portable(to, de) == \E c \in {to, de} : IsSuffix(<<"/", "P">>, c)
Rover(to, de)    == \E c \in {to, de} : IsSuffix(<<"/", "R">>, c)

\* A standard message is its two callsigns, its locator and its type.
LEMMA EncodeStdIs ==
  ASSUME NEW to, NEW de, NEW extra, NEW n22
  PROVE  /\ ftx_message_encode_std(to, de, extra, n22).ok
              <=> ~(pack28(to, n22).n28 < 0 \/ pack28(de, n22).n28 < 0 \/ (Portable(to, de) /\ Rover(to, de)))
         /\ ftx_message_encode_std(to, de, extra, n22).ok
              => ftx_message_encode_std(to, de, extra, n22).bits
                   = StdBits(pack28(to, n22), pack28(de, n22), packgrid(extra), IF Portable(to, de) THEN 2 ELSE 1)
  <1> DEFINE e == ftx_message_encode_std(to, de, extra, n22)
             bad == pack28(to, n22).n28 < 0 \/ pack28(de, n22).n28 < 0 \/ (Portable(to, de) /\ Rover(to, de))
             bits == StdBits(pack28(to, n22), pack28(de, n22), packgrid(extra), IF Portable(to, de) THEN 2 ELSE 1)
  <1>1. e = IF bad THEN Failed ELSE [ok |-> TRUE, bits |-> bits]
    BY Zenon DEF ftx_message_encode_std, StdBits, Joined, Portable, Rover
  <1>2. Failed.ok = FALSE
    BY DEF Failed
  <1> HIDE DEF e, bad, bits
  <1>3. (e.ok <=> ~bad) /\ (e.ok => e.bits = bits)
    BY <1>1, <1>2, Zenon
  <1> QED
    BY <1>3 DEF e, bad, bits

LEMMA StdBitsType ==
  ASSUME NEW a, NEW b, NEW grid \in Int, NEW i3 \in Int,
         a.n28 \in Int, a.ip \in {0, 1}, b.n28 \in Int, b.ip \in {0, 1}
  PROVE  StdBits(a, b, grid, i3) \in Tuple(77, Bit)
  <1>1. PICK x \in Int, y \in Int : x = 2 * a.n28 + a.ip /\ y = 2 * b.n28 + b.ip
    OBVIOUS
  <1>2. PICK w29 \in Nat, w16 \in Nat, w3 \in Nat : w29 = 29 /\ w16 = 16 /\ w3 = 3
    OBVIOUS
  <1>3. Bits(x, w29) \in Tuple(w29, Bit) /\ Bits(y, w29) \in Tuple(w29, Bit)
    BY BitsType
  <1>4. Bits(grid, w16) \in Tuple(w16, Bit) /\ Bits(i3, w3) \in Tuple(w3, Bit)
    BY BitsType
  <1>5. Adds(29, 29, 58) /\ Adds(58, 16, 74) /\ Adds(74, 3, 77)
    BY DEF Adds
  <1> DEFINE f1 == Bits(x, 29)
             f2 == Bits(y, 29)
             f3 == Bits(grid, 16)
             f4 == Bits(i3, 3)
             j1 == Joined(f1, f2)
             j2 == Joined(j1, f3)
  <1>6. f1 \in Tuple(29, Bit) /\ f2 \in Tuple(29, Bit) /\ f3 \in Tuple(16, Bit) /\ f4 \in Tuple(3, Bit)
    BY <1>2, <1>3, <1>4, Zenon
  <1>7. StdBits(a, b, grid, i3) = Joined(j2, f4)
    BY <1>1, Zenon DEF StdBits
  <1> HIDE DEF f1, f2, f3, f4
  <1>8. j1 \in Tuple(58, Bit)
    BY <1>5, <1>6, JoinedType
  <1> HIDE DEF j1
  <1>9. j2 \in Tuple(74, Bit)
    BY <1>5, <1>6, <1>8, JoinedType
  <1> HIDE DEF j2
  <1>10. Joined(j2, f4) \in Tuple(77, Bit)
    BY <1>5, <1>6, <1>9, JoinedType
  <1> QED
    BY <1>7, <1>10

\* A message with a nonstandard callsign has 77 bits.
LEMMA NonstdType ==
  ASSUME NEW to, NEW de \in Text, ftx_message_encode_nonstd(to, de).ok
  PROVE  ftx_message_encode_nonstd(to, de).bits \in Tuple(77, Bit)
  <1> DEFINE open == IF IsPrefix(<<"<">>, de) THEN Tail(de) ELSE de
             S == {i \in DOMAIN open : open[i] = "<"} \cup {Len(open) + 1}
             stop == Min(S)
             last == Min({stop - 1, 11})
             c11  == SubSeq(open, 1, last)
             digits == [i \in 1..Len(c11) |-> nchar(c11[i], AlphaNumSpaceSlash)]
             n58  == Packed(digits, 38, 8)
             bits == Joined(Joined(Joined(Joined(Zeros(12), Slice(BitsOf(n58), 7, 58)), Zeros(3)), Bits(1, 1)), Bits(4, 3))
  <1>1. ftx_message_encode_nonstd(to, de).bits = bits
    <2>1. 7 + 58 - 1 = 64
      OBVIOUS
    <2>2. ftx_message_encode_nonstd(to, de)
            = IF to # <<"C", "Q">> \/ Len(de) < 3 \/ ~Hashable(c11) THEN Failed
              ELSE [ok |-> TRUE, bits |-> bits]
      BY <2>1, Zenon DEF ftx_message_encode_nonstd, Joined, Slice
    <2>3. Failed.ok = FALSE
      BY DEF Failed
    <2> DEFINE e == ftx_message_encode_nonstd(to, de)
               bad == to # <<"C", "Q">> \/ Len(de) < 3 \/ ~Hashable(c11)
    <2>4. e.ok /\ e = IF bad THEN Failed ELSE [ok |-> TRUE, bits |-> bits]
      BY <2>2, Zenon
    <2> HIDE DEF bits, e, bad
    <2>5. ~bad
      BY <2>3, <2>4, Zenon
    <2>6. e.bits = bits
      BY <2>4, <2>5, Zenon
    <2> QED
      BY <2>6 DEF e
  <1>2. open \in Text
    <2>1. CASE IsPrefix(<<"<">>, de)
      <3>1. de # <<>>
        BY <2>1 DEF IsPrefix
      <3>2. Tail(de) \in Text
        BY <3>1, HeadTailProperties DEF Text
      <3> QED
        BY <2>1, <3>2
    <2> QED
      BY <2>1
  <1> HIDE DEF open
  <1>3. Len(open) \in Nat /\ DOMAIN open = 1..Len(open)
    BY <1>2, LenType
  <1>4. S \in SUBSET Nat /\ S # {} /\ S \subseteq 1..(Len(open) + 1)
    BY <1>3
  <1>5. stop \in S
    BY <1>4, LeastNumber
  <1>6. stop - 1 \in Nat /\ stop - 1 <= Len(open)
    BY <1>3, <1>4, <1>5
  <1> HIDE DEF S, stop
  <1>7. last \in {stop - 1, 11}
    <2>1. {stop - 1, 11} \in SUBSET Nat /\ {stop - 1, 11} # {}
      BY <1>6
    <2> QED
      BY <2>1, LeastNumber
  <1>8. last \in Nat
    BY <1>6, <1>7
  <1> HIDE DEF last
  <1>9. Len(c11) \in Nat
    BY <1>8
  <1> HIDE DEF c11
  <1>10. \A i \in 1..Len(c11) : nchar(c11[i], AlphaNumSpaceSlash) \in Int
    <2>1. PICK n \in Nat : n = 38 /\ IsTable(AlphaNumSpaceSlash, n)
      BY AlphaNumSpaceSlashIs
    <2> QED
      BY <2>1, NcharType
  <1>11. digits \in Tuple(Len(c11), Int)
    BY <1>10 DEF Tuple
  <1> HIDE DEF digits
  <1>12. n58 \in Tuple(8, Byte)
    <2>1. PICK l \in Nat, base \in Int, n \in Nat : l = Len(c11) /\ base = 38 /\ n = 8
      BY <1>9
    <2>2. digits \in Tuple(l, Int)
      BY <1>11, <2>1
    <2>3. Packed(digits, base, n) \in Tuple(n, Byte)
      BY <2>2, PackedType
    <2> QED
      BY <2>1, <2>3
  <1> HIDE DEF n58
  <1>13. BitsOf(n58) \in Tuple(64, Bit)
    <2>1. PICK n \in Nat, l \in Nat : n = 8 /\ l = 64 /\ l = 8 * n
      OBVIOUS
    <2>2. n58 \in Tuple(n, Byte)
      BY <1>12, <2>1
    <2>3. BitsOf(n58) \in Tuple(l, Bit)
      BY <2>1, <2>2, BitsOfType
    <2> QED
      BY <2>1, <2>3
  <1>14. Slice(BitsOf(n58), 7, 58) \in Tuple(58, Bit)
    BY <1>13, Cut
  <1>15. Zeros(12) \in Tuple(12, Bit) /\ Zeros(3) \in Tuple(3, Bit)
    BY ZerosAre
  <1>16. Bits(1, 1) \in Tuple(1, Bit) /\ Bits(4, 3) \in Tuple(3, Bit)
    <2>1. PICK one \in Nat, three \in Nat, four \in Int : one = 1 /\ three = 3 /\ four = 4
      OBVIOUS
    <2>2. one \in Int
      OBVIOUS
    <2>3. Bits(one, one) \in Tuple(one, Bit) /\ Bits(four, three) \in Tuple(three, Bit)
      BY <2>2, BitsType
    <2> QED
      BY <2>1, <2>3
  <1>17. Adds(12, 58, 70) /\ Adds(70, 3, 73) /\ Adds(73, 1, 74) /\ Adds(74, 3, 77)
    BY DEF Adds
  <1> DEFINE j1 == Joined(Zeros(12), Slice(BitsOf(n58), 7, 58))
             j2 == Joined(j1, Zeros(3))
             j3 == Joined(j2, Bits(1, 1))
  <1>18. j1 \in Tuple(70, Bit)
    BY <1>14, <1>15, <1>17, JoinedType
  <1> HIDE DEF j1
  <1>19. j2 \in Tuple(73, Bit)
    BY <1>15, <1>17, <1>18, JoinedType
  <1> HIDE DEF j2
  <1>20. j3 \in Tuple(74, Bit)
    BY <1>16, <1>17, <1>19, JoinedType
  <1> HIDE DEF j3
  <1>21. Joined(j3, Bits(4, 3)) \in Tuple(77, Bit)
    BY <1>16, <1>17, <1>20, JoinedType
  <1>22. bits = Joined(j3, Bits(4, 3))
    BY Zenon DEF j1, j2, j3
  <1> HIDE DEF bits
  <1> QED
    BY <1>1, <1>21, <1>22

\* All but the first item.
LEMMA TailIs ==
  ASSUME NEW n, NEW m, NEW S, NEW s, n \in Nat, m \in Nat, Adds(m, 1, n), s \in Tuple(n, S)
  PROVE  /\ Tail(s) \in Tuple(m, S)
         /\ \A i \in 1..m : Tail(s)[i] = s[i + 1]
  <1>1. s \in Seq(S) /\ Len(s) = n /\ n = m + 1
    BY TupleItems DEF Adds
  <1>2. s # <<>>
    <2>1. Len(<<>>) = 0 /\ n # 0
      BY <1>1
    <2> QED
      BY <1>1, <2>1, Zenon
  <1>3. Tail(s) \in Seq(S) /\ Len(Tail(s)) = m /\ \A i \in 1..m : Tail(s)[i] = s[i + 1]
    BY <1>1, <1>2, HeadTailProperties
  <1> DEFINE t == Tail(s)
  <1> HIDE DEF t
  <1>4. t \in Seq(S) /\ Len(t) = m /\ \A i \in 1..m : t[i] = s[i + 1]
    BY <1>3 DEF t
  <1>5. t \in Tuple(m, S)
    BY <1>4, TupleMade
  <1> QED
    BY <1>4, <1>5 DEF t

\* The digits of a free text, in nine bytes.
TextDigits(text) ==
  LET body == SubSeq(Trim(text) \o [i \in 1..13 |-> "space"], 1, 13)
      Index(c) == IF Contains(FullTable, c) THEN nchar(c, FullTable) ELSE 0
  IN  [i \in 1..13 |-> Index(body[i])]

LEMMA TextDigitsType ==
  ASSUME NEW text
  PROVE  TextDigits(text) \in Tuple(13, Int) /\ \A i \in 1..13 : TextDigits(text)[i] \in 0..41
  <1> DEFINE body == SubSeq(Trim(text) \o [i \in 1..13 |-> "space"], 1, 13)
             Index(c) == IF Contains(FullTable, c) THEN nchar(c, FullTable) ELSE 0
  <1>1. ASSUME NEW c PROVE Index(c) \in 0..41
    <2>1. PICK n \in Nat : n = 42 /\ IsTable(FullTable, n)
      BY FullTableIs
    <2>2. Len(FullTable) = n /\ DOMAIN FullTable = 1..n
      BY <2>1, TableIs
    <2>3. nchar(c, FullTable) \in -1..(n - 1)
      BY <2>2, NcharIs
    <2>4. Contains(FullTable, c) => nchar(c, FullTable) >= 0
      BY <2>2, NcharIs
    <2> QED
      BY <2>1, <2>3, <2>4
  <1> HIDE DEF Index
  <1>2. TextDigits(text) = [i \in 1..13 |-> Index(body[i])]
    BY Zenon DEF TextDigits, Index
  <1> HIDE DEF body
  <1>3. \A i \in 1..13 : TextDigits(text)[i] \in 0..41
    BY <1>1, <1>2
  <1>4. \A i \in 1..13 : Index(body[i]) \in Int
    BY <1>1
  <1> QED
    BY <1>2, <1>3, <1>4 DEF Tuple

TextBits(bytes) == Joined(Tail(BitsOf(bytes)), Zeros(6))

LEMMA PacktextIs ==
  ASSUME NEW text
  PROVE  /\ packtext77(text) = TextBits(Packed(TextDigits(text), 42, 9))
         /\ Packed(TextDigits(text), 42, 9) \in Tuple(9, Byte)
  <1>1. packtext77(text) = TextBits(Packed(TextDigits(text), 42, 9))
    BY Zenon DEF packtext77, TextBits, TextDigits, Joined
  <1>2. PICK l \in Nat, base \in Int, n \in Nat : l = 13 /\ base = 42 /\ n = 9
    OBVIOUS
  <1>3. TextDigits(text) \in Tuple(l, Int)
    BY <1>2, TextDigitsType
  <1>4. Packed(TextDigits(text), base, n) \in Tuple(n, Byte)
    BY <1>3, PackedType
  <1> QED
    BY <1>1, <1>2, <1>4

LEMMA TextBitsType ==
  ASSUME NEW bytes \in Tuple(9, Byte)
  PROVE  TextBits(bytes) \in Tuple(77, Bit)
  <1> DEFINE b == BitsOf(bytes)
             t == Tail(b)
  <1>1. b \in Tuple(72, Bit)
    <2>1. PICK n \in Nat, l \in Nat : n = 9 /\ l = 72 /\ l = 8 * n
      OBVIOUS
    <2>2. bytes \in Tuple(n, Byte)
      BY <2>1
    <2>3. BitsOf(bytes) \in Tuple(l, Bit)
      BY <2>1, <2>2, BitsOfType
    <2> QED
      BY <2>1, <2>3
  <1> HIDE DEF b
  <1>2. Adds(71, 1, 72) /\ Adds(71, 6, 77)
    BY DEF Adds
  <1>3. t \in Tuple(71, Bit)
    BY <1>1, <1>2, TailIs
  <1> HIDE DEF t
  <1>4. Zeros(6) \in Tuple(6, Bit)
    BY ZerosAre
  <1>5. Joined(t, Zeros(6)) \in Tuple(77, Bit)
    BY <1>2, <1>3, <1>4, JoinedType
  <1> QED
    BY <1>5, Zenon DEF TextBits, t, b

\* Every message that is encoded has 77 bits.
LEMMA EncodeType ==
  ASSUME NEW text \in Text, NEW n22 \in Int, ftx_message_encode(text, n22).ok
  PROVE  ftx_message_encode(text, n22).bits \in Tuple(77, Bit)
  <1> DEFINE to    == FirstToken(text)
             de    == FirstToken(AfterToken(text))
             extra == FirstToken(AfterToken(AfterToken(text)))
             std   == ftx_message_encode_std(to, de, extra, n22)
             non   == ftx_message_encode_nonstd(to, de)
             e     == ftx_message_encode(text, n22)
             long  == Len(to) > 11 \/ Len(de) > 11 \/ Len(extra) > 19
  <1>1. de \in Text /\ extra \in Text
    BY FirstTokenType, AfterTokenType
  <1>2. e = IF long THEN Failed ELSE IF std.ok THEN std ELSE non
    BY Zenon DEF ftx_message_encode
  <1>3. e.ok /\ Failed.ok = FALSE
    BY DEF Failed
  <1> HIDE DEF e, long, to, de, extra
  <1>4. CASE std.ok
    <2>1. e = std
      <3> HIDE DEF std
      <3> QED
        BY <1>2, <1>3, <1>4, Zenon
    <2>2. PICK i3 \in Int : i3 = IF Portable(to, de) THEN 2 ELSE 1
      OBVIOUS
    <2>3. std.bits = StdBits(pack28(to, n22), pack28(de, n22), packgrid(extra), i3)
      BY <1>4, <2>2, EncodeStdIs, Zenon
    <2>9. PICK grid \in Int : grid = packgrid(extra)
      BY <1>1, PackgridType
    <2>4. PICK a, b : a = pack28(to, n22) /\ b = pack28(de, n22)
      OBVIOUS
    <2>5. a.n28 \in Int /\ a.ip \in {0, 1}
      BY <2>4, Pack28Type
    <2>6. b.n28 \in Int /\ b.ip \in {0, 1}
      BY <2>4, Pack28Type
    <2>7. StdBits(a, b, grid, i3) \in Tuple(77, Bit)
      BY <2>5, <2>6, StdBitsType
    <2> HIDE DEF std
    <2>8. e.bits \in Tuple(77, Bit)
      BY <2>1, <2>3, <2>4, <2>7, <2>9, Zenon
    <2> QED
      BY <2>8 DEF e
  <1>5. CASE ~std.ok
    <2>1. e = non
      <3> HIDE DEF std, non
      <3> QED
        BY <1>2, <1>3, <1>5, Zenon
    <2>2. non.ok
      <3> HIDE DEF non
      <3> QED
        BY <1>3, <2>1, Zenon
    <2>3. non.bits \in Tuple(77, Bit)
      BY <1>1, <2>2, NonstdType
    <2> HIDE DEF non
    <2>4. e.bits \in Tuple(77, Bit)
      BY <2>1, <2>3, Zenon
    <2> QED
      BY <2>4 DEF e
  <1> QED
    BY <1>4, <1>5

-----------------------------------------------------------------------------
\* What is made of a callsign and a locator.
Buffer(c, l) == <<"C", "Q", "space">> \o c \o <<"space">> \o l

Made(c, l, n22) ==
  LET std == ftx_message_encode(Buffer(c, l), n22) IN
  IF std.ok THEN {std.bits}
  ELSE IF Len(Buffer(c, l)) <= 13 THEN {packtext77(Buffer(c, l))}
  ELSE Residue

\* Once a packet is sent, its payload is one made of the stored callsign and
\* locator, and the tones are those of this payload.
PacketInv ==
  /\ call \in Callsigns /\ loc \in Locators
  /\ Sent => \E n22 \in Hashes : payload \in Made(call, loc, n22) /\ tones = ft8_encode(payload)

\* Every payload that the beacon sends has 77 bits.
LEMMA MadeType ==
  ASSUME NEW c \in Callsigns, NEW l \in Locators, NEW n22 \in Hashes, NEW p \in Made(c, l, n22)
  PROVE  p \in Tuple(77, Bit)
  <1> DEFINE text == Buffer(c, l)
             std == ftx_message_encode(text, n22)
  <1>1. /\ "C" \in Characters /\ "Q" \in Characters /\ "space" \in Characters
        /\ c \in Seq(Characters) /\ l \in Seq(Characters) /\ n22 \in Int
    <2>1. n22 \in 0..(MAX22 - 1)
      BY Ft8PacketAssumption, Zenon
    <2>2. n22 \in Int
      BY <2>1
    <2>3. c \in Seq(Characters) /\ l \in Seq(Characters) /\ {"C", "Q", "space"} \subseteq Characters
      BY Ft8PacketAssumption, Zenon
    <2> QED
      BY <2>2, <2>3
  <1>2. text \in Text
    BY <1>1 DEF Buffer, Text
  <1>3. p \in IF std.ok THEN {std.bits}
              ELSE IF Len(text) <= 13 THEN {packtext77(text)}
              ELSE Residue
    BY Zenon DEF Made
  <1> HIDE DEF text
  <1>4. CASE std.ok
    <2>1. std.bits \in Tuple(77, Bit)
      BY <1>1, <1>2, <1>4, EncodeType
    <2> HIDE DEF std
    <2> QED
      BY <1>3, <1>4, <2>1
  <1>5. CASE p = packtext77(text)
    <2>1. PICK bytes \in Tuple(9, Byte) : p = TextBits(bytes)
      BY <1>5, PacktextIs
    <2> QED
      BY <2>1, TextBitsType
  <1>6. CASE p \in Residue
    BY <1>6, Ft8PacketAssumption, Zenon DEF Tuple, Bit
  <1> HIDE DEF std
  <1> QED
    BY <1>3, <1>4, <1>5, <1>6

\* The payloads of the action are those of the stored texts.
LEMMA PayloadsIs == \A n22 : Payloads(n22) = Made(call, loc, n22)
  BY Zenon DEF Payloads, Made, Buffer, message_buffer

(***************************************************************************)
(* What WSPRbeaconCreatePacket leaves in msg.payload and _pu8_outbuf: the  *)
(* payload of a standard message, of a nonstandard one or of a free text,  *)
(* whichever ft8_encode_top came to, or what was in memory before; and its *)
(* tones.                                                                  *)
(***************************************************************************)
THEOREM PacketInvariant == Spec => []PacketInv
  <1>1. Init => PacketInv
    BY DEF Init, PacketInv, Sent
  <1>2. PacketInv /\ [Next]_vars => PacketInv'
    <2> SUFFICES ASSUME PacketInv, [Next]_vars
                 PROVE  PacketInv'
      OBVIOUS
    <2>1. CASE WSPRbeaconCreatePacket
      <3>4. PICK p \in UNION {Payloads(n22) : n22 \in Hashes} : payload' = p /\ tones' = ft8_encode(p)
        BY <2>1, Zenon DEF WSPRbeaconCreatePacket
      <3>1. PICK n22 \in Hashes : p \in Payloads(n22)
        BY Zenon
      <3>2. call' = call /\ loc' = loc
        BY <2>1 DEF WSPRbeaconCreatePacket
      <3>3. p \in Made(call, loc, n22)
        BY <3>1, PayloadsIs, Zenon
      <3> QED
        BY <3>2, <3>3, <3>4, Zenon DEF PacketInv
    <2>2. CASE UNCHANGED vars
      BY <2>2 DEF vars, PacketInv, Sent
    <2> QED
      BY <2>1, <2>2 DEF Next
  <1> QED
    BY <1>1, <1>2, PTL DEF Spec

(***************************************************************************)
(* Whatever the payload, ft8_encode makes tones of it that every receiver  *)
(* takes for a packet, and in which it finds this payload.  The CRC of the *)
(* shift register is the remainder of the long division; each check of the *)
(* receiver is even, as the tables fit (TablesFit) and parity is linear.   *)
(***************************************************************************)
THEOREM PacketSentIsPacket == Spec => []SentIsPacket
  <1>1. PacketInv => SentIsPacket
    <2> SUFFICES ASSUME PacketInv, Sent PROVE IsPacketOf(tones, payload)
      BY Zenon DEF SentIsPacket, IsPacketOf
    <2>1. PICK n22 \in Hashes : payload \in Made(call, loc, n22) /\ tones = ft8_encode(payload)
      BY Zenon DEF PacketInv
    <2>2. PICK p : p = payload
      OBVIOUS
    <2>3. p \in Tuple(77, Bit)
      BY <2>1, <2>2, MadeType DEF PacketInv
    <2>4. IsPacketOf(ft8_encode(p), p)
      BY <2>3, EncodedIs
    <2> QED
      BY <2>1, <2>2, <2>4, Zenon
  <1> QED
    BY <1>1, PacketInvariant, PTL

-----------------------------------------------------------------------------
\* A number that is halved w times, and read again from its bits.
Halves(n, w) == Loop([i \in 1..w |-> [m \in Int |-> m \div 2]], n, w)

LEMMA HalvesAre ==
  ASSUME NEW n \in Int, NEW w \in Nat
  PROVE  /\ Halves(n, w)[0] = n
         /\ \A i \in 0..w : Halves(n, w)[i] \in Int
         /\ \A i \in 1..w : Halves(n, w)[i] = Halves(n, w)[i - 1] \div 2
         /\ \A i \in 1..w : Bits(n, w)[i] = Halves(n, w)[w - i] % 2
  <1> DEFINE step == [i \in 1..w |-> [m \in Int |-> m \div 2]]
             h == Halves(n, w)
  <1>1. \A i \in 1..w, m \in Int : step[i][m] = m \div 2
    OBVIOUS
  <1>2. h = Loop(step, n, w) /\ Bits(n, w) = [i \in 1..w |-> h[w - i] % 2]
    BY Zenon DEF Bits, Halves
  <1> HIDE DEF step
  <1>3. Stays(step, w, Int)
    BY <1>1 DEF Stays
  <1> HIDE DEF h
  <1>4. h[0] = n
    BY <1>2, <1>3, LoopRounds
  <1>5. \A i \in 0..w : h[i] \in Int
    BY <1>2, <1>3, LoopRounds
  <1>6. \A i \in 1..w : h[i] = step[i][h[i - 1]]
    BY <1>2, <1>3, LoopRounds
  <1>7. ASSUME NEW i \in 1..w PROVE h[i] = h[i - 1] \div 2
    <2>1. i - 1 \in 0..w
      OBVIOUS
    <2>2. h[i - 1] \in Int
      BY <1>5, <2>1
    <2> QED
      BY <1>1, <1>6, <2>2
  <1>8. \A i \in 1..w : Bits(n, w)[i] = h[w - i] % 2
    BY <1>2
  <1> QED
    BY <1>4, <1>5, <1>7, <1>8 DEF h

\* A number below 2^w is 0 when it has been halved w times.
Powers == <<1, 2, 4, 8, 16, 32, 64, 128, 256, 512, 1024, 2048, 4096,
            8192, 16384, 32768, 65536, 131072, 262144, 524288, 1048576,
            2097152, 4194304, 8388608, 16777216, 33554432, 67108864, 134217728, 268435456, 536870912>>

\* Numbers that are each half of the one before, and of which nothing is left
\* at the end.
Halved(h, w)   == (\A i \in 0..w : h[i] \in Int) /\ (\A i \in 1..w : h[i] = h[i - 1] \div 2)
Halvings(h, w) == Halved(h, w) /\ h[w] = 0

\* A number below 2^w is gone when it was halved w times.
LEMMA HalvedAway ==
  ASSUME NEW w \in 0..29, NEW h, Halved(h, w), h[0] \in Nat, h[0] < Powers[w + 1]
  PROVE  Halvings(h, w)
  <1>1. \A i \in 1..29 : Powers[i + 1] = 2 * Powers[i]
    BY DEF Powers
  <1>2. Powers[1] = 1 /\ \A i \in 1..30 : Powers[i] \in Nat
    BY DEF Powers
  <1> DEFINE Good == {i \in 0..w : h[i] >= 0 /\ h[i] < Powers[w - i + 1]}
  <1>3. w \in Nat
    OBVIOUS
  <1>5. \A i \in 0..w : h[i] \in Int
    BY DEF Halved
  <1>6. \A i \in 1..w : h[i] = h[i - 1] \div 2
    BY DEF Halved
  <1>7. 0 \in Good
    OBVIOUS
  <1>8. ASSUME NEW i \in 1..w, i - 1 \in Good PROVE i \in Good
    <2>1. PICK k \in 1..29 : k = w - i + 1
      OBVIOUS
    <2>2. w - (i - 1) + 1 = k + 1 /\ i - 1 \in 0..w
      BY <2>1
    <2>3. PICK x \in Int : x = h[i - 1]
      BY <1>5, <2>2
    <2>4. PICK m \in Nat : m = Powers[k]
      BY <1>2
    <2>5. x >= 0 /\ x < 2 * m
      BY <1>1, <1>8, <2>2, <2>3, <2>4
    <2>6. x \div 2 >= 0 /\ x \div 2 < m
      BY <2>5
    <2> QED
      BY <1>6, <2>1, <2>3, <2>4, <2>6
  <1>9. \A i \in 0..w : i \in Good
    <2> HIDE DEF Good
    <2> QED
      BY <1>3, <1>7, <1>8, Upwards
  <1>10. h[w] >= 0 /\ h[w] < 1
    <2>1. w \in Good /\ w - w + 1 = 1
      BY <1>9
    <2> QED
      BY <1>2, <2>1
  <1>11. h[w] \in Int
    BY <1>5
  <1>12. h[w] = 0
    BY <1>10, <1>11
  <1> QED
    BY <1>12 DEF Halvings

\* What a number is after each round of reading its digits.
Read(digits, base, n) == Loop([i \in 1..n |-> [v \in Int |-> base * v + digits[i]]], 0, n)

\* A number is read digit by digit.
LEMMA ReadIs ==
  ASSUME NEW n \in Nat, NEW digits \in Tuple(n, Int), NEW base \in Int
  PROVE  /\ Number(digits, base) = Read(digits, base, n)[n]
         /\ Read(digits, base, n)[0] = 0
         /\ \A i \in 0..n : Read(digits, base, n)[i] \in Int
         /\ \A i \in 1..n : Read(digits, base, n)[i] = base * Read(digits, base, n)[i - 1] + digits[i]
  <1> DEFINE step == [i \in 1..n |-> [v \in Int |-> base * v + digits[i]]]
             f == Loop(step, 0, n)
  <1>1. Len(digits) = n /\ \A i \in 1..n : digits[i] \in Int
    BY TupleItems
  <1>2. \A i \in 1..n, v \in Int : step[i][v] = base * v + digits[i]
    OBVIOUS
  <1>3. \A i \in 1..n, v \in Int : base * v + digits[i] \in Int
    BY <1>1
  <1>4. Number(digits, base) = f[n]
    BY <1>1, Zenon DEF Number
  <1>5. Read(digits, base, n) = f
    BY Zenon DEF Read
  <1> HIDE DEF step
  <1>6. Stays(step, n, Int)
    BY <1>2, <1>3 DEF Stays
  <1>7. PICK z \in Int : z = 0
    OBVIOUS
  <1>8. f[0] = 0
    BY <1>6, <1>7, LoopRounds
  <1>9. \A i \in 0..n : f[i] \in Int
    BY <1>6, <1>7, LoopRounds
  <1>10. \A i \in 1..n : f[i] = step[i][f[i - 1]]
    BY <1>6, <1>7, LoopRounds
  <1> HIDE DEF f
  <1>11. ASSUME NEW i \in 1..n PROVE f[i] = base * f[i - 1] + digits[i]
    <2>1. i - 1 \in 0..n
      OBVIOUS
    <2>2. f[i - 1] \in Int
      BY <1>9, <2>1
    <2> QED
      BY <1>2, <1>10, <2>2
  <1> QED
    BY <1>4, <1>5, <1>8, <1>9, <1>11

\* A number is read from the bits that its halves end in.
LEMMA ValueIs ==
  ASSUME NEW w \in Nat, NEW h, Halvings(h, w), NEW d \in Tuple(w, Bit), \A i \in 1..w : d[i] = h[w - i] % 2
  PROVE  Value(d) = h[0]
  <1>1. d \in Tuple(w, Int)
    BY DEF Tuple, Bit
  <1> DEFINE r == Read(d, 2, w)
             Good == {i \in 0..w : r[i] = h[w - i]}
  <1>2. PICK two \in Int : two = 2
    OBVIOUS
  <1>3. Value(d) = r[w]
    <2>1. Number(d, two) = Read(d, two, w)[w]
      BY <1>1, ReadIs
    <2> QED
      BY <1>2, <2>1 DEF Value
  <1>4. r[0] = 0
    BY <1>1, <1>2, ReadIs
  <1>5. \A i \in 1..w : r[i] = 2 * r[i - 1] + d[i]
    <2>1. \A i \in 1..w : Read(d, two, w)[i] = two * Read(d, two, w)[i - 1] + d[i]
      BY <1>1, ReadIs
    <2> QED
      BY <1>2, <2>1, Zenon
  <1> HIDE DEF r
  <1>6. /\ \A i \in 0..w : h[i] \in Int
        /\ \A i \in 1..w : h[i] = h[i - 1] \div 2
        /\ h[w] = 0
    BY DEF Halvings, Halved
  <1>7. 0 \in Good
    BY <1>4, <1>6
  <1>8. ASSUME NEW i \in 1..w, i - 1 \in Good PROVE i \in Good
    <2>1. PICK k \in 0..w : k = w - i
      OBVIOUS
    <2>2. w - (i - 1) = k + 1 /\ k + 1 \in 1..w /\ k + 1 - 1 = k
      BY <2>1
    <2>3. PICK x \in Int : x = h[k]
      BY <1>6
    <2>4. h[k + 1] = x \div 2
      BY <1>6, <2>2, <2>3
    <2>5. r[i - 1] = x \div 2
      BY <1>8, <2>2, <2>4
    <2>6. d[i] = x % 2
      BY <2>1, <2>3
    <2>7. r[i] = 2 * (x \div 2) + (x % 2)
      BY <1>5, <2>5, <2>6
    <2>8. 2 * (x \div 2) + (x % 2) = x
      OBVIOUS
    <2> QED
      BY <2>1, <2>3, <2>7, <2>8
  <1>9. \A i \in 0..w : i \in Good
    <2> HIDE DEF Good
    <2> QED
      BY <1>7, <1>8, Upwards
  <1>10. w \in Good /\ w - w = 0
    BY <1>9
  <1> QED
    BY <1>3, <1>10

\* A field of w bits behind the first k of a message.
LEMMA Field ==
  ASSUME NEW n \in Nat, NEW p \in Tuple(n, Bit), NEW k \in Nat, NEW w \in Nat, k + w <= n,
         NEW h, Halvings(h, w), \A i \in 1..w : p[k + i] = h[w - i] % 2
  PROVE  Value(Slice(p, k + 1, w)) = h[0]
  <1>1. PICK a \in Nat : a = k + 1 /\ a >= 1 /\ a + w <= n + 1
    OBVIOUS
  <1> DEFINE d == Slice(p, a, w)
  <1>2. d \in Tuple(w, Bit)
    BY <1>1, Cut
  <1>3. \A i \in 1..w : d[i] = p[a + i - 1]
    BY <1>1, Cut, SMTT(30)
  <1> HIDE DEF d
  <1>4. ASSUME NEW i \in 1..w PROVE d[i] = h[w - i] % 2
    <2>1. a + i - 1 = k + i
      BY <1>1
    <2> QED
      BY <1>3, <2>1
  <1>5. Value(d) = h[0]
    BY <1>2, <1>4, ValueIs
  <1> QED
    BY <1>1, <1>5 DEF d

\* A callsign's number and the bit behind it.
LEMMA Field28 ==
  ASSUME NEW p \in Tuple(77, Bit), NEW k \in 0..29, NEW m \in Nat, NEW ip \in {0, 1}, m < Powers[29],
         \A i \in 1..29 : p[k + i] = Bits(2 * m + ip, 29)[i]
  PROVE  Value(Slice(p, k + 1, 28)) = m /\ p[k + 29] = ip
  <1>1. PICK v \in Nat, w \in Nat : v = 2 * m + ip /\ w = 29
    OBVIOUS
  <1>2. v \in Int /\ w \in 0..29
    BY <1>1
  <1> DEFINE h == Halves(v, w)
             g == [j \in 0..28 |-> h[j + 1]]
  <1>3. h[0] = v
    BY <1>2, HalvesAre
  <1>4. \A i \in 0..w : h[i] \in Int
    BY <1>2, HalvesAre
  <1>5. \A i \in 1..w : h[i] = h[i - 1] \div 2
    BY <1>2, HalvesAre
  <1>6. \A i \in 1..w : Bits(v, w)[i] = h[w - i] % 2
    BY <1>2, HalvesAre
  <1>7. h[w] = 0
    <2>1. v < Powers[w + 1]
      <3>1. Powers[30] = 2 * Powers[29] /\ Powers[29] \in Int
        BY DEF Powers
      <3>2. w + 1 = 30
        BY <1>1
      <3> QED
        BY <1>1, <3>1, <3>2
    <2>2. Halved(h, w) /\ h[0] \in Nat /\ h[0] < Powers[w + 1]
      BY <1>1, <1>3, <1>4, <1>5, <2>1 DEF Halved
    <2>3. Halvings(h, w)
      <3> HIDE DEF h
      <3> QED
        BY <1>2, <2>2, HalvedAway
    <2> QED
      BY <2>3 DEF Halvings
  <1> HIDE DEF h
  <1>8. Halvings(g, 28)
    <2>1. ASSUME NEW i \in 0..28 PROVE g[i] \in Int
      <3>1. i + 1 \in 0..w
        BY <1>1
      <3> QED
        BY <1>4, <3>1
    <2>2. ASSUME NEW i \in 1..28 PROVE g[i] = g[i - 1] \div 2
      <3>1. i + 1 \in 1..w /\ i + 1 - 1 = i - 1 + 1 /\ i - 1 \in 0..28
        BY <1>1
      <3>2. h[i + 1] = h[i + 1 - 1] \div 2
        BY <1>5, <3>1
      <3> QED
        BY <3>1, <3>2
    <2>3. g[28] = 0
      BY <1>1, <1>7
    <2> HIDE DEF g
    <2> QED
      BY <2>1, <2>2, <2>3 DEF Halvings, Halved
  <1>9. ASSUME NEW i \in 1..28 PROVE p[k + i] = g[28 - i] % 2
    <2>1. i \in 1..29 /\ i \in 1..w /\ 28 - i \in 0..28 /\ w - i = 28 - i + 1
      BY <1>1
    <2>2. p[k + i] = Bits(v, w)[i]
      BY <1>1, <2>1
    <2>3. Bits(v, w)[i] = h[w - i] % 2
      BY <1>6, <2>1
    <2> QED
      BY <2>1, <2>2, <2>3
  <1>10. g[0] = m
    <2>1. 1 \in 1..w /\ 1 - 1 = 0 /\ 0 + 1 = 1
      BY <1>1
    <2>2. h[1] = h[0] \div 2
      BY <1>5, <2>1
    <2>3. (2 * m + ip) \div 2 = m
      OBVIOUS
    <2> QED
      BY <1>1, <1>3, <2>1, <2>2, <2>3
  <1> HIDE DEF g
  <1>11. Value(Slice(p, k + 1, 28)) = m
    <2>1. PICK n \in Nat, u \in Nat : n = 77 /\ u = 28
      OBVIOUS
    <2>2. p \in Tuple(n, Bit) /\ k \in Nat /\ k + u <= n /\ Halvings(g, u) /\ \A i \in 1..u : p[k + i] = g[u - i] % 2
      BY <1>8, <1>9, <2>1
    <2>3. Value(Slice(p, k + 1, u)) = g[0]
      BY <2>2, Field
    <2> QED
      BY <1>10, <2>1, <2>3
  <1>12. p[k + 29] = ip
    <2>1. 29 \in 1..29 /\ w \in 1..w /\ w - w = 0
      BY <1>1
    <2>2. p[k + 29] = Bits(v, w)[w]
      BY <1>1, <2>1
    <2>3. Bits(v, w)[w] = h[0] % 2
      BY <1>6, <2>1
    <2>4. (2 * m + ip) % 2 = ip
      OBVIOUS
    <2> QED
      BY <1>1, <1>3, <2>2, <2>3, <2>4
  <1> QED
    BY <1>11, <1>12

\* Where the fields of a standard message are.
LEMMA StdBitsAre ==
  ASSUME NEW a, NEW b, NEW grid \in Int, NEW i3 \in Int,
         a.n28 \in Int, a.ip \in {0, 1}, b.n28 \in Int, b.ip \in {0, 1}
  PROVE  /\ \A i \in 1..29 : StdBits(a, b, grid, i3)[i] = Bits(2 * a.n28 + a.ip, 29)[i]
         /\ \A i \in 1..29 : StdBits(a, b, grid, i3)[29 + i] = Bits(2 * b.n28 + b.ip, 29)[i]
         /\ \A i \in 1..16 : StdBits(a, b, grid, i3)[58 + i] = Bits(grid, 16)[i]
         /\ \A i \in 1..3 : StdBits(a, b, grid, i3)[74 + i] = Bits(i3, 3)[i]
  <1>1. PICK x \in Int, y \in Int : x = 2 * a.n28 + a.ip /\ y = 2 * b.n28 + b.ip
    OBVIOUS
  <1>2. PICK w29 \in Nat, w16 \in Nat, w3 \in Nat : w29 = 29 /\ w16 = 16 /\ w3 = 3
    OBVIOUS
  <1>3. Bits(x, w29) \in Tuple(w29, Bit) /\ Bits(y, w29) \in Tuple(w29, Bit)
    BY BitsType
  <1>4. Bits(grid, w16) \in Tuple(w16, Bit) /\ Bits(i3, w3) \in Tuple(w3, Bit)
    BY BitsType
  <1>5. Adds(29, 29, 58) /\ Adds(58, 16, 74) /\ Adds(74, 3, 77)
    BY DEF Adds
  <1> DEFINE f1 == Bits(x, 29)
             f2 == Bits(y, 29)
             f3 == Bits(grid, 16)
             f4 == Bits(i3, 3)
             j1 == Joined(f1, f2)
             j2 == Joined(j1, f3)
             j3 == Joined(j2, f4)
  <1>6. f1 \in Tuple(29, Bit) /\ f2 \in Tuple(29, Bit) /\ f3 \in Tuple(16, Bit) /\ f4 \in Tuple(3, Bit)
    BY <1>2, <1>3, <1>4, Zenon
  <1>7. StdBits(a, b, grid, i3) = j3
    BY <1>1, Zenon DEF StdBits
  <1> HIDE DEF f1, f2, f3, f4
  <1>8. j1 \in Tuple(58, Bit)
    BY <1>5, <1>6, JoinedType
  <1>9. /\ \A i \in 1..29 : j1[i] = f1[i]
        /\ \A i \in 1..29 : j1[29 + i] = f2[i]
    BY <1>6, JoinedItems
  <1> HIDE DEF j1
  <1>10. j2 \in Tuple(74, Bit)
    BY <1>5, <1>6, <1>8, JoinedType
  <1>11. /\ \A i \in 1..58 : j2[i] = j1[i]
         /\ \A i \in 1..16 : j2[58 + i] = f3[i]
    BY <1>6, <1>8, JoinedItems
  <1> HIDE DEF j2
  <1>12. /\ \A i \in 1..74 : j3[i] = j2[i]
         /\ \A i \in 1..3 : j3[74 + i] = f4[i]
    BY <1>6, <1>10, JoinedItems
  <1> HIDE DEF j3
  <1>13. \A i \in 1..29 : j3[i] = f1[i] /\ j3[29 + i] = f2[i]
    <2> SUFFICES ASSUME NEW i \in 1..29 PROVE j3[i] = f1[i] /\ j3[29 + i] = f2[i]
      OBVIOUS
    <2>1. i \in 1..58 /\ i \in 1..74 /\ 29 + i \in 1..58 /\ 29 + i \in 1..74
      OBVIOUS
    <2> QED
      BY <1>9, <1>11, <1>12, <2>1
  <1>14. \A i \in 1..16 : j3[58 + i] = f3[i]
    <2> SUFFICES ASSUME NEW i \in 1..16 PROVE j3[58 + i] = f3[i]
      OBVIOUS
    <2>1. 58 + i \in 1..74
      OBVIOUS
    <2> QED
      BY <1>11, <1>12, <2>1
  <1>15. /\ \A i \in 1..29 : j3[i] = f1[i]
         /\ \A i \in 1..29 : j3[29 + i] = f2[i]
    BY <1>13
  <1> QED
    BY <1>1, <1>7, <1>12, <1>14, <1>15, Zenon DEF f1, f2, f3, f4

\* A field holds the number that was put in it, if it is wide enough.
LEMMA FieldIs ==
  ASSUME NEW p \in Tuple(77, Bit), NEW k \in Nat, NEW w \in 0..29, k + w <= 77, NEW n \in Nat, n < Powers[w + 1],
         \A i \in 1..w : p[k + i] = Bits(n, w)[i]
  PROVE  Value(Slice(p, k + 1, w)) = n
  <1> DEFINE h == Halves(n, w)
  <1>1. n \in Int /\ w \in Nat
    OBVIOUS
  <1>2. h[0] = n
    BY <1>1, HalvesAre
  <1>3. \A i \in 0..w : h[i] \in Int
    BY <1>1, HalvesAre
  <1>4. \A i \in 1..w : h[i] = h[i - 1] \div 2
    BY <1>1, HalvesAre
  <1>5. \A i \in 1..w : Bits(n, w)[i] = h[w - i] % 2
    BY <1>1, HalvesAre
  <1> HIDE DEF h
  <1>6. Halved(h, w) /\ h[0] \in Nat /\ h[0] < Powers[w + 1]
    BY <1>2, <1>3, <1>4 DEF Halved
  <1>7. Halvings(h, w)
    BY <1>6, HalvedAway
  <1>8. PICK m \in Nat : m = 77
    OBVIOUS
  <1>9. p \in Tuple(m, Bit) /\ k + w <= m /\ \A i \in 1..w : p[k + i] = h[w - i] % 2
    BY <1>5, <1>8
  <1>10. Value(Slice(p, k + 1, w)) = h[0]
    BY <1>1, <1>7, <1>9, Field
  <1> QED
    BY <1>2, <1>10

\* A locator that is sent without a report leaves the flag in front of it 0.
LEMMA GridField ==
  ASSUME NEW p \in Tuple(77, Bit), NEW n \in Nat, n < Powers[16], \A i \in 1..16 : p[58 + i] = Bits(n, 16)[i]
  PROVE  p[59] = 0 /\ Value(Slice(p, 60, 15)) = n
  <1>1. PICK w \in Nat : w = 16
    OBVIOUS
  <1>14. n \in Int
    OBVIOUS
  <1> DEFINE h == Halves(n, w)
  <1>2. h[0] = n
    BY <1>14, HalvesAre
  <1>3. \A i \in 0..w : h[i] \in Int
    BY <1>14, HalvesAre
  <1>4. \A i \in 1..w : h[i] = h[i - 1] \div 2
    BY <1>14, HalvesAre
  <1>5. \A i \in 1..w : Bits(n, w)[i] = h[w - i] % 2
    BY <1>14, HalvesAre
  <1> HIDE DEF h
  <1>6. PICK v \in 0..29 : v = 15
    OBVIOUS
  <1>7. Halved(h, v) /\ h[0] \in Nat /\ h[0] < Powers[v + 1]
    <2>1. Halved(h, v)
      BY <1>1, <1>3, <1>4, <1>6 DEF Halved
    <2>2. v + 1 = 16
      BY <1>6
    <2> QED
      BY <1>2, <2>1, <2>2
  <1>8. Halvings(h, v)
    BY <1>7, HalvedAway
  <1>9. p[59] = 0
    <2>1. 1 \in 1..16 /\ 1 \in 1..w /\ w - 1 = v /\ 58 + 1 = 59
      BY <1>1, <1>6
    <2>2. p[59] = Bits(n, w)[1]
      BY <1>1, <2>1
    <2>3. Bits(n, w)[1] = h[v] % 2
      BY <1>5, <2>1
    <2>4. h[v] = 0
      BY <1>8 DEF Halvings
    <2> QED
      BY <2>2, <2>3, <2>4
  <1>10. PICK m \in Nat, k \in Nat : m = 77 /\ k = 59
    OBVIOUS
  <1>11. ASSUME NEW i \in 1..v PROVE p[k + i] = h[v - i] % 2
    <2>1. PICK j \in 1..16 : j = i + 1
      BY <1>6
    <2>2. 58 + j = k + i /\ j \in 1..w /\ w - j = v - i
      BY <1>1, <1>6, <1>10, <2>1
    <2>3. p[58 + j] = Bits(n, w)[j]
      BY <1>1
    <2>4. Bits(n, w)[j] = h[w - j] % 2
      BY <1>5, <2>2
    <2> QED
      BY <2>2, <2>3, <2>4
  <1>12. Value(Slice(p, k + 1, v)) = h[0]
    <2>1. p \in Tuple(m, Bit) /\ k + v <= m /\ v \in Nat
      BY <1>6, <1>10
    <2> QED
      BY <1>8, <1>11, <2>1, Field
  <1>13. k + 1 = 60
    BY <1>10
  <1> QED
    BY <1>2, <1>6, <1>9, <1>12, <1>13

\* A receiver finds the fields of a standard message where they were put.
LEMMA StdDecodes ==
  ASSUME NEW a, NEW b, NEW grid \in Int, NEW i3 \in {1, 2},
         a.n28 \in Nat, a.n28 < Powers[29], a.ip \in {0, 1}, b.n28 \in Nat, b.n28 < Powers[29], b.ip \in {0, 1}
  PROVE  ftx_message_decode(StdBits(a, b, grid, i3))
           = <<unpack28(a.n28, a.ip, i3), unpack28(b.n28, b.ip, i3),
               unpackgrid(Value(Slice(StdBits(a, b, grid, i3), 60, 15)), StdBits(a, b, grid, i3)[59])>>
  <1> DEFINE p == StdBits(a, b, grid, i3)
  <1>1. i3 \in Int /\ a.n28 \in Int /\ b.n28 \in Int
    OBVIOUS
  <1>2. p \in Tuple(77, Bit)
    BY <1>1, StdBitsType
  <1>3. \A i \in 1..29 : p[i] = Bits(2 * a.n28 + a.ip, 29)[i]
    BY <1>1, StdBitsAre
  <1>4. \A i \in 1..29 : p[29 + i] = Bits(2 * b.n28 + b.ip, 29)[i]
    BY <1>1, StdBitsAre
  <1>5. \A i \in 1..3 : p[74 + i] = Bits(i3, 3)[i]
    BY <1>1, StdBitsAre
  <1> HIDE DEF p
  <1>6. Value(Slice(p, 1, 28)) = a.n28 /\ p[29] = a.ip
    <2>1. PICK k \in 0..29 : k = 0
      OBVIOUS
    <2>2. PICK m \in Nat : m = a.n28
      OBVIOUS
    <2>3. PICK ip \in {0, 1} : ip = a.ip
      OBVIOUS
    <2>5. m < Powers[29] /\ \A i \in 1..29 : p[k + i] = Bits(2 * m + ip, 29)[i]
      <3>1. \A i \in 1..29 : k + i = i
        BY <2>1
      <3> QED
        BY <1>3, <2>2, <2>3, <3>1
    <2>6. Value(Slice(p, k + 1, 28)) = m
      BY <1>2, <2>5, Field28
    <2>7. p[k + 29] = ip
      BY <1>2, <2>5, Field28
    <2>8. k + 1 = 1 /\ k + 29 = 29
      BY <2>1
    <2> QED
      BY <2>2, <2>3, <2>6, <2>7, <2>8
  <1>7. Value(Slice(p, 30, 28)) = b.n28 /\ p[58] = b.ip
    <2>1. PICK k \in 0..29 : k = 29
      OBVIOUS
    <2>2. PICK m \in Nat : m = b.n28
      OBVIOUS
    <2>3. PICK ip \in {0, 1} : ip = b.ip
      OBVIOUS
    <2>5. m < Powers[29] /\ \A i \in 1..29 : p[k + i] = Bits(2 * m + ip, 29)[i]
      BY <1>4, <2>1, <2>2, <2>3
    <2>6. Value(Slice(p, k + 1, 28)) = m
      BY <1>2, <2>5, Field28
    <2>7. p[k + 29] = ip
      BY <1>2, <2>5, Field28
    <2>8. k + 1 = 30 /\ k + 29 = 58
      BY <2>1
    <2> QED
      BY <2>2, <2>3, <2>6, <2>7, <2>8
  <1>8. Value(Slice(p, 75, 3)) = i3
    <2>1. PICK k \in Nat : k = 74
      OBVIOUS
    <2>2. PICK w \in 0..29 : w = 3
      OBVIOUS
    <2>3. PICK n \in Nat : n = i3
      OBVIOUS
    <2>4. Powers[w + 1] = 8
      BY <2>2 DEF Powers
    <2>5. k + w <= 77 /\ n < Powers[w + 1] /\ \A i \in 1..w : p[k + i] = Bits(n, w)[i]
      BY <1>5, <2>1, <2>2, <2>3, <2>4
    <2>6. Value(Slice(p, k + 1, w)) = n
      BY <1>2, <2>5, FieldIs
    <2>7. k + 1 = 75
      BY <2>1
    <2> QED
      BY <2>2, <2>3, <2>6, <2>7
  <1>9. /\ SubSeq(p, 1, 28) = Slice(p, 1, 28) /\ SubSeq(p, 30, 57) = Slice(p, 30, 28)
        /\ SubSeq(p, 60, 74) = Slice(p, 60, 15) /\ SubSeq(p, 75, 77) = Slice(p, 75, 3)
    <2>1. 1 + 28 - 1 = 28 /\ 30 + 28 - 1 = 57 /\ 60 + 15 - 1 = 74 /\ 75 + 3 - 1 = 77
      OBVIOUS
    <2> QED
      BY <2>1, Zenon DEF Slice
  <1>10. Value(SubSeq(p, 75, 77)) \in {1, 2}
    BY <1>8, <1>9, Zenon
  <1>11. ftx_message_decode(p)
           = <<unpack28(Value(SubSeq(p, 1, 28)), p[29], Value(SubSeq(p, 75, 77))),
               unpack28(Value(SubSeq(p, 30, 57)), p[58], Value(SubSeq(p, 75, 77))),
               unpackgrid(Value(SubSeq(p, 60, 74)), p[59])>>
    BY <1>10, Zenon DEF ftx_message_decode
  <1> QED
    BY <1>6, <1>7, <1>8, <1>9, <1>11, Zenon DEF p

\* The six digits are found again, the last one first.
LEMMA DigitBack ==
  ASSUME NEW q \in Nat, NEW r \in 0..26
  PROVE  (q * 27 + r) \div 27 = q /\ (q * 27 + r) % 27 = r
  OBVIOUS

\* The six characters of a callsign come back from its number by divisions.
LEMMA MixedIs ==
  ASSUME NEW d, \A i \in 1..6 : d[i] \in 0..(Radix[i] - 1)
  PROVE  /\ Mixed(d) \in Nat
         /\ NTOKENS + MAX22 + Mixed(d) < Powers[29]
         /\ SixOf(Mixed(d)) = <<charn(d[1], AlphaNumSpace), charn(d[2], AlphaNum), charn(d[3], Digits),
                                charn(d[4], LettersSpace), charn(d[5], LettersSpace), charn(d[6], LettersSpace)>>
  <1>1. Radix[1] = 37 /\ Radix[2] = 36 /\ Radix[3] = 10 /\ Radix[4] = 27 /\ Radix[5] = 27 /\ Radix[6] = 27
    BY DEF Radix
  <1>2. PICK d1 \in 0..36 : d1 = d[1]
    BY <1>1
  <1>3. PICK d2 \in 0..35 : d2 = d[2]
    BY <1>1
  <1>4. PICK d3 \in 0..9 : d3 = d[3]
    BY <1>1
  <1>5. PICK d4 \in 0..26 : d4 = d[4]
    BY <1>1
  <1>6. PICK d5 \in 0..26 : d5 = d[5]
    BY <1>1
  <1>7. PICK d6 \in 0..26 : d6 = d[6]
    BY <1>1
  <1>8. PICK n2 \in Nat : n2 = d1 * 36 + d2
    OBVIOUS
  <1>9. PICK n3 \in Nat : n3 = n2 * 10 + d3
    OBVIOUS
  <1>10. PICK n4 \in Nat : n4 = n3 * 27 + d4
    OBVIOUS
  <1>11. PICK n5 \in Nat : n5 = n4 * 27 + d5
    OBVIOUS
  <1>12. PICK n \in Nat : n = n5 * 27 + d6
    OBVIOUS
  <1>13. Mixed(d) = n
    BY <1>2, <1>3, <1>4, <1>5, <1>6, <1>7, <1>8, <1>9, <1>10, <1>11, <1>12, Zenon DEF Mixed
  <1>14. n \div 27 = n5 /\ n % 27 = d6
    BY <1>12, DigitBack
  <1>15. n5 \div 27 = n4 /\ n5 % 27 = d5
    BY <1>11, DigitBack
  <1>16. n4 \div 27 = n3 /\ n4 % 27 = d4
    BY <1>10, DigitBack
  <1>17. n3 \div 10 = n2 /\ n3 % 10 = d3
    BY <1>9
  <1>18. n2 \div 36 = d1 /\ n2 % 36 = d2 /\ d1 % 37 = d1
    BY <1>8
  <1>19. SixOf(n) = <<charn(d1, AlphaNumSpace), charn(d2, AlphaNum), charn(d3, Digits),
                      charn(d4, LettersSpace), charn(d5, LettersSpace), charn(d6, LettersSpace)>>
    BY <1>14, <1>15, <1>16, <1>17, <1>18, Zenon DEF SixOf
  <1>20. NTOKENS + MAX22 + n < Powers[29]
    <2>1. n2 <= 1331
      BY <1>8
    <2>2. n3 <= 13319
      BY <1>9, <2>1
    <2>3. n4 <= 359639
      BY <1>10, <2>2
    <2>4. n5 <= 9710279
      BY <1>11, <2>3
    <2>5. NTOKENS + MAX22 + 9710279 * 27 + 26 < Powers[29]
      BY DEF NTOKENS, MAX22, Powers
    <2>6. NTOKENS \in Int /\ MAX22 \in Int /\ Powers[29] \in Int
      BY DEF NTOKENS, MAX22, Powers
    <2> QED
      BY <1>12, <2>4, <2>5, <2>6
  <1> QED
    BY <1>2, <1>3, <1>4, <1>5, <1>6, <1>7, <1>13, <1>19, <1>20, Zenon

\* Six characters that have digits are read again as they were.
LEMMA SixBack ==
  ASSUME NEW c6, \A i \in 1..6 : ~(SixDigits(c6)[i] < 0)
  PROVE  /\ Mixed(SixDigits(c6)) \in Nat
         /\ NTOKENS + MAX22 + Mixed(SixDigits(c6)) < Powers[29]
         /\ SixOf(Mixed(SixDigits(c6))) = <<c6[1], c6[2], c6[3], c6[4], c6[5], c6[6]>>
  <1> DEFINE d == SixDigits(c6)
  <1>1. ASSUME NEW i \in 1..6 PROVE d[i] \in 0..(Radix[i] - 1)
    <2>1. d[i] \in -1..(Radix[i] - 1) /\ d[i] \in Int
      BY SixDigitsType
    <2>2. Radix[i] \in Nat
      BY SixTablesAre
    <2>3. ~(d[i] < 0)
      OBVIOUS
    <2> HIDE DEF d
    <2> QED
      BY <2>1, <2>2, <2>3
  <1>2. ASSUME NEW i \in 1..6 PROVE charn(d[i], SixTables[i]) = c6[i]
    <2>1. PICK n, t : n \in Nat /\ n = Radix[i] /\ t = SixTables[i] /\ IsTable(t, n)
      BY SixTablesAre
    <2>2. Len(t) = n /\ DOMAIN t = 1..n
      BY <2>1, TableIs
    <2>3. d[i] = nchar(c6[i], t)
      BY <2>1 DEF SixDigits
    <2>4. d[i] >= 0
      BY <1>1, SixTablesAre
    <2> HIDE DEF d
    <2>5. nchar(c6[i], t) >= 0
      BY <2>3, <2>4
    <2>6. Contains(t, c6[i]) <=> nchar(c6[i], t) >= 0
      BY <2>2, NcharIs
    <2>7. Contains(t, c6[i])
      BY <2>5, <2>6
    <2>8. charn(nchar(c6[i], t), t) = c6[i]
      BY <2>2, <2>7, NcharIs
    <2> QED
      BY <2>1, <2>3, <2>8
  <1> HIDE DEF d
  <1>3. Mixed(d) \in Nat
    BY <1>1, MixedIs
  <1>4. NTOKENS + MAX22 + Mixed(d) < Powers[29]
    BY <1>1, MixedIs
  <1>5. SixOf(Mixed(d)) = <<charn(d[1], AlphaNumSpace), charn(d[2], AlphaNum), charn(d[3], Digits),
                            charn(d[4], LettersSpace), charn(d[5], LettersSpace), charn(d[6], LettersSpace)>>
    BY <1>1, MixedIs
  <1>6. /\ SixTables[1] = AlphaNumSpace /\ SixTables[2] = AlphaNum /\ SixTables[3] = Digits
        /\ SixTables[4] = LettersSpace /\ SixTables[5] = LettersSpace /\ SixTables[6] = LettersSpace
    BY DEF SixTables
  <1>7. 1 \in 1..6 /\ 2 \in 1..6 /\ 3 \in 1..6 /\ 4 \in 1..6 /\ 5 \in 1..6 /\ 6 \in 1..6
    OBVIOUS
  <1>8. SixOf(Mixed(d)) = <<c6[1], c6[2], c6[3], c6[4], c6[5], c6[6]>>
    BY <1>2, <1>5, <1>6, <1>7, Zenon
  <1> QED
    BY <1>3, <1>4, <1>8 DEF d

\* Where the only number is that is not above, or below, any other.
LEMMA MinMaxAre ==
  ASSUME NEW S, S \subseteq Int, NEW a \in S, \A y \in S : a <= y, NEW b \in S, \A y \in S : b >= y
  PROVE  Min(S) = a /\ Max(S) = b
  <1>1. \A x \in S : (\A y \in S : x <= y) => x = a
    OBVIOUS
  <1>2. \A x \in S : (\A y \in S : x >= y) => x = b
    OBVIOUS
  <1>3. Min(S) = a
    BY <1>1, Zenon DEF Min
  <1>4. Max(S) = b
    BY <1>2, Zenon DEF Max
  <1> QED
    BY <1>3, <1>4

\* A text with nothing but spaces around it.
Blank(s, i) == s[i] = "space"

\* It is what is left when they are trimmed.
LEMMA TrimIs ==
  ASSUME NEW n \in Nat, NEW S, NEW s \in Tuple(n, S), NEW k \in Nat, NEW m \in Nat, m >= 1, k + m <= n,
         NEW t \in Tuple(m, S), \A i \in 1..m : s[k + i] = t[i],
         ~Blank(t, 1), ~Blank(t, m),
         \A i \in 1..n : i <= k \/ i > k + m => Blank(s, i)
  PROVE  Trim(s) = t
  <1> DEFINE used == {i \in DOMAIN s : s[i] # "space"}
  <1>1. DOMAIN s = 1..n
    BY TupleItems
  <1>2. PICK a \in Nat : a = k + 1
    OBVIOUS
  <1>3. PICK b \in Nat : b = k + m
    OBVIOUS
  <1>4. a \in used /\ b \in used
    <2>1. 1 \in 1..m /\ m \in 1..m
      OBVIOUS
    <2>2. s[a] = t[1] /\ s[b] = t[m] /\ a \in 1..n /\ b \in 1..n
      BY <1>2, <1>3, <2>1
    <2> QED
      BY <1>1, <2>2 DEF Blank
  <1>5. \A y \in used : a <= y /\ b >= y
    <2> SUFFICES ASSUME NEW y \in used PROVE a <= y /\ b >= y
      OBVIOUS
    <2>1. y \in 1..n /\ ~Blank(s, y)
      BY <1>1 DEF Blank
    <2>2. ~(y <= k \/ y > k + m)
      BY <2>1
    <2> QED
      BY <1>2, <1>3, <2>1, <2>2
  <1>6. used \subseteq Int
    BY <1>1
  <1>7. Trim(s) = IF used = {} THEN <<>> ELSE SubSeq(s, Min(used), Max(used))
    BY Zenon DEF Trim
  <1> HIDE DEF used
  <1>8. Min(used) = a /\ Max(used) = b
    <2>1. Min(used) = a
      BY <1>4, <1>5, <1>6, MinMaxAre
    <2>2. Max(used) = b
      BY <1>4, <1>5, <1>6, MinMaxAre
    <2> QED
      BY <2>1, <2>2
  <1>9. Trim(s) = SubSeq(s, a, b)
    BY <1>4, <1>7, <1>8, Zenon
  <1>10. a + m - 1 = b /\ a >= 1 /\ a + m <= n + 1
    BY <1>2, <1>3
  <1>11. Slice(s, a, m) = SubSeq(s, a, b)
    BY <1>10, Zenon DEF Slice
  <1>12. Slice(s, a, m) \in Tuple(m, S)
    BY <1>10, Cut
  <1>13. \A i \in 1..m : Slice(s, a, m)[i] = s[a + i - 1]
    BY <1>10, Cut
  <1>14. ASSUME NEW i \in 1..m PROVE Slice(s, a, m)[i] = t[i]
    <2>1. a + i - 1 = k + i
      BY <1>2
    <2> QED
      BY <1>13, <2>1
  <1>15. Slice(s, a, m) = t
    BY <1>12, <1>14, SameTuples
  <1> QED
    BY <1>9, <1>11, <1>15

\* What a text begins with, and what it ends in.
LEMMA WiderTuple ==
  ASSUME NEW n \in Nat, NEW S, NEW T, NEW s \in Tuple(n, S), S \subseteq T
  PROVE  s \in Tuple(n, T)
  BY DEF Tuple

\* A prefix, character by character.
LEMMA PrefixIs ==
  ASSUME NEW k \in Nat, NEW m \in Nat, NEW S, NEW p \in Tuple(k, S), NEW c \in Tuple(m, S)
  PROVE  IsPrefix(p, c) <=> k <= m /\ \A i \in 1..k : c[i] = p[i]
  <1>1. Len(p) = k /\ Len(c) = m
    BY TupleItems
  <1>2. IsPrefix(p, c) <=> k <= m /\ SubSeq(p, 1, k) = SubSeq(c, 1, k)
    BY <1>1, Zenon DEF IsPrefix
  <1>3. CASE k <= m
    <2>1. SubSeq(p, 1, k) = Slice(p, 1, k) /\ SubSeq(c, 1, k) = Slice(c, 1, k)
      <3>1. 1 + k - 1 = k
        OBVIOUS
      <3> QED
        BY <3>1, Zenon DEF Slice
    <2>2. Slice(p, 1, k) = p
      BY CutWhole
    <2>3. PICK a \in Nat : a = 1
      OBVIOUS
    <2>4. a >= 1 /\ a + k <= m + 1
      BY <1>3, <2>3
    <2>5. Slice(c, a, k) \in Tuple(k, S)
      BY <2>4, Cut
    <2>6. \A i \in 1..k : Slice(c, a, k)[i] = c[a + i - 1]
      BY <2>4, Cut
    <2>7. \A i \in 1..k : a + i - 1 = i
      BY <2>3
    <2>8. \A i \in 1..k : Slice(c, 1, k)[i] = c[i]
      BY <2>3, <2>6, <2>7
    <2>9. Slice(c, 1, k) \in Tuple(k, S)
      BY <2>3, <2>5
    <2>10. p = Slice(c, 1, k) <=> \A i \in 1..k : c[i] = p[i]
      <3>1. ASSUME \A i \in 1..k : c[i] = p[i] PROVE p = Slice(c, 1, k)
        <4> DEFINE t == Slice(c, 1, k)
        <4>1. t \in Tuple(k, S) /\ \A i \in 1..k : p[i] = t[i]
          BY <2>8, <2>9, <3>1
        <4> HIDE DEF t
        <4>2. p = t
          BY <4>1, SameTuples
        <4> QED
          BY <4>2 DEF t
      <3>2. ASSUME p = Slice(c, 1, k) PROVE \A i \in 1..k : c[i] = p[i]
        BY <2>8, <3>2
      <3> QED
        BY <3>1, <3>2
    <2> QED
      BY <1>2, <1>3, <2>1, <2>2, <2>10
  <1>4. CASE ~(k <= m)
    BY <1>2, <1>4
  <1> QED
    BY <1>3, <1>4

LEMMA ReverseIs ==
  ASSUME NEW n \in Nat, NEW S, NEW s \in Tuple(n, S)
  PROVE  Reverse(s) \in Tuple(n, S) /\ \A i \in 1..n : Reverse(s)[i] = s[n - i + 1]
  <1>1. Len(s) = n /\ \A i \in 1..n : s[i] \in S
    BY TupleItems
  <1>2. Reverse(s) = [i \in 1..n |-> s[n - i + 1]]
    BY <1>1, Zenon DEF Reverse
  <1>3. \A i \in 1..n : n - i + 1 \in 1..n
    OBVIOUS
  <1> QED
    BY <1>1, <1>2, <1>3 DEF Tuple

\* A suffix, character by character.
LEMMA SuffixIs ==
  ASSUME NEW m \in Nat, NEW S, NEW x \in S, NEW c \in Tuple(m, S), "/" \in S
  PROVE  IsSuffix(<<"/", x>>, c) <=> m >= 2 /\ c[m - 1] = "/" /\ c[m] = x
  <1> DEFINE p == <<"/", x>>
  <1>1. PICK two \in Nat : two = 2
    OBVIOUS
  <1>2. p \in Tuple(two, S) /\ p[1] = "/" /\ p[2] = x
    BY <1>1 DEF Tuple
  <1>3. IsSuffix(<<"/", x>>, c) <=> IsPrefix(Reverse(p), Reverse(c))
    BY Zenon DEF IsSuffix
  <1> HIDE DEF p
  <1>4. Reverse(p) \in Tuple(two, S)
    BY <1>2, ReverseIs
  <1>5. \A i \in 1..two : Reverse(p)[i] = p[two - i + 1]
    BY <1>2, ReverseIs
  <1>6. Reverse(c) \in Tuple(m, S)
    BY ReverseIs
  <1>7. \A i \in 1..m : Reverse(c)[i] = c[m - i + 1]
    BY ReverseIs
  <1>8. IsPrefix(Reverse(p), Reverse(c)) <=> two <= m /\ \A i \in 1..two : Reverse(c)[i] = Reverse(p)[i]
    BY <1>4, <1>6, PrefixIs
  <1>9. Reverse(p)[1] = x /\ Reverse(p)[2] = "/"
    <2>1. 1 \in 1..two /\ 2 \in 1..two /\ two - 1 + 1 = 2 /\ two - 2 + 1 = 1
      BY <1>1
    <2> QED
      BY <1>2, <1>5, <2>1
  <1>10. two <= m => Reverse(c)[1] = c[m] /\ Reverse(c)[2] = c[m - 1]
    <2>1. two <= m => 1 \in 1..m /\ 2 \in 1..m /\ m - 1 + 1 = m /\ m - 2 + 1 = m - 1
      BY <1>1
    <2> QED
      BY <1>7, <2>1
  <1>11. (\A i \in 1..two : Reverse(c)[i] = Reverse(p)[i])
           <=> Reverse(c)[1] = Reverse(p)[1] /\ Reverse(c)[2] = Reverse(p)[2]
    <2>1. \A i : i \in 1..two <=> i = 1 \/ i = 2
      BY <1>1
    <2> QED
      BY <2>1
  <1>12. m >= 2 <=> two <= m
    BY <1>1
  <1> QED
    BY <1>3, <1>8, <1>9, <1>10, <1>11, <1>12

\* Six characters that begin with one for the area in front of it.
LEMMA PaddedIs ==
  ASSUME NEW k \in 0..6, NEW S, NEW six \in Tuple(k, S), "space" \in S
  PROVE  /\ Padded(six) \in Tuple(6, S)
         /\ \A i \in 1..k : Padded(six)[i] = six[i]
         /\ \A i \in 1..6 : i > k => Blank(Padded(six), i)
  <1>1. PICK n \in Nat : n = 6 - k
    OBVIOUS
  <1> DEFINE rest == [i \in 1..n |-> "space"]
  <1>2. k \in Nat /\ Adds(k, n, 6) /\ 6 \in Nat
    BY <1>1 DEF Adds
  <1>3. rest \in Tuple(n, S)
    BY DEF Tuple
  <1>4. \A i \in 1..n : rest[i] = "space"
    OBVIOUS
  <1>5. Len(six) = k
    BY <1>2, TupleItems
  <1>6. Padded(six) = Joined(six, rest)
    BY <1>1, <1>5, Zenon DEF Padded, Joined
  <1> HIDE DEF rest
  <1>7. Joined(six, rest) \in Tuple(6, S)
    BY <1>2, <1>3, JoinedType
  <1>8. \A i \in 1..k : Joined(six, rest)[i] = six[i]
    BY <1>2, <1>3, JoinedItems
  <1>9. \A i \in 1..n : Joined(six, rest)[k + i] = rest[i]
    BY <1>2, <1>3, JoinedItems
  <1>10. ASSUME NEW i \in 1..6, i > k PROVE Joined(six, rest)[i] = "space"
    <2>1. PICK j \in 1..n : j = i - k
      BY <1>1, <1>10
    <2>2. k + j = i
      BY <2>1
    <2> QED
      BY <1>4, <1>9, <2>2
  <1> QED
    BY <1>6, <1>7, <1>8, <1>10 DEF Blank

LEMMA ThreeAre ==
  ASSUME NEW S, NEW t \in Tuple(3, S), NEW x \in S, NEW y \in S, NEW z \in S
  PROVE  t = <<x, y, z>> <=> t[1] = x /\ t[2] = y /\ t[3] = z
  <1>1. t = <<x, y, z>> => t[1] = x /\ t[2] = y /\ t[3] = z
    OBVIOUS
  <1>2. ASSUME t[1] = x, t[2] = y, t[3] = z PROVE t = <<x, y, z>>
    <2> DEFINE u == <<x, y, z>>
    <2>1. PICK n \in Nat : n = 3
      OBVIOUS
    <2>2. u \in Tuple(n, S)
      BY <2>1 DEF Tuple
    <2>3. \A i \in 1..n : t[i] = u[i]
      <3>1. \A i : i \in 1..n => i = 1 \/ i = 2 \/ i = 3
        BY <2>1
      <3>2. u[1] = x /\ u[2] = y /\ u[3] = z
        OBVIOUS
      <3> QED
        BY <1>2, <3>1, <3>2
    <2> HIDE DEF u
    <2>4. t \in Tuple(n, S)
      BY <2>1
    <2>5. t = u
      BY <2>2, <2>3, <2>4, SameTuples
    <2> QED
      BY <2>5 DEF u
  <1> QED
    BY <1>1, <1>2

\* Callsigns of the plain form are read as their six characters, trimmed.
LEMMA SixCallIs ==
  ASSUME NEW S, NEW t \in Tuple(6, S), {"3", "D", "0"} \subseteq S
  PROVE  SixCall(t) = IF t[1] = "3" /\ t[2] = "D" /\ t[3] = "0" /\ ~Blank(t, 4)
                      THEN Joined(<<"3", "D", "A", "0">>, Trim(Slice(t, 4, 3)))
                      ELSE IF t[1] = "Q" /\ is_letter(t[2]) THEN Joined(<<"3", "X">>, Trim(Tail(t)))
                      ELSE Trim(t)
  <1>1. PICK n \in Nat : n = 6
    OBVIOUS
  <1>2. PICK a \in Nat : a = 1
    OBVIOUS
  <1>3. PICK m \in Nat : m = 3
    OBVIOUS
  <1>4. t \in Tuple(n, S) /\ a >= 1 /\ a + m <= n + 1
    BY <1>1, <1>2, <1>3
  <1>5. Slice(t, a, m) \in Tuple(m, S)
    BY <1>4, Cut
  <1>6. \A i \in 1..m : Slice(t, a, m)[i] = t[a + i - 1]
    BY <1>4, Cut
  <1>7. Slice(t, 1, 3)[1] = t[1] /\ Slice(t, 1, 3)[2] = t[2] /\ Slice(t, 1, 3)[3] = t[3]
    <2>1. 1 \in 1..m /\ 2 \in 1..m /\ 3 \in 1..m /\ a + 1 - 1 = 1 /\ a + 2 - 1 = 2 /\ a + 3 - 1 = 3
      BY <1>2, <1>3
    <2> QED
      BY <1>2, <1>3, <1>6, <2>1
  <1>8. Slice(t, 1, 3) \in Tuple(3, S)
    BY <1>2, <1>3, <1>5
  <1>9. Slice(t, 1, 3) = <<"3", "D", "0">> <=> t[1] = "3" /\ t[2] = "D" /\ t[3] = "0"
    <2> DEFINE u == Slice(t, 1, 3)
    <2>1. u \in Tuple(3, S) /\ u[1] = t[1] /\ u[2] = t[2] /\ u[3] = t[3]
      BY <1>7, <1>8
    <2> HIDE DEF u
    <2>2. "3" \in S /\ "D" \in S /\ "0" \in S
      OBVIOUS
    <2>3. u = <<"3", "D", "0">> <=> u[1] = "3" /\ u[2] = "D" /\ u[3] = "0"
      BY <2>1, <2>2, ThreeAre
    <2> QED
      BY <2>1, <2>3 DEF u
  <1>10. SubSeq(t, 1, 3) = Slice(t, 1, 3)
    <2>1. 1 + 3 - 1 = 3
      OBVIOUS
    <2> QED
      BY <2>1, Zenon DEF Slice
  <1>11. DropFirst(t, 3) = Slice(t, 4, 3)
    <2>1. Len(t) = 6
      BY <1>1, <1>4, TupleItems
    <2>2. 3 + 1 = 4 /\ 4 + 3 - 1 = 6
      OBVIOUS
    <2> QED
      BY <2>1, <2>2, Zenon DEF Slice, DropFirst
  <1> QED
    BY <1>9, <1>10, <1>11, Zenon DEF SixCall, Blank, Joined

\* How the four forms of a callsign come back: with the area digit in the
\* third place, in the second, and those of Guinea and Eswatini.
Blanks(c)  == \E i \in DOMAIN c : Blank(c, i)
Marked     == {"3", "D", "A", "0", "X", "Q", "space", "/", "P", "R", "C"}

\* The part of a callsign without its suffix.
LEMMA PartOf ==
  ASSUME NEW m \in Nat, NEW S, NEW c \in Tuple(m, S), ~Blanks(c), NEW k \in Nat, NEW n \in Nat, k + n <= m
  PROVE  /\ Slice(c, k + 1, n) \in Tuple(n, S)
         /\ \A i \in 1..n : Slice(c, k + 1, n)[i] = c[k + i]
         /\ \A i \in 1..n : ~Blank(Slice(c, k + 1, n), i)
  <1>1. PICK a \in Nat : a = k + 1
    OBVIOUS
  <1>2. a >= 1 /\ a + n <= m + 1
    BY <1>1
  <1>3. Slice(c, a, n) \in Tuple(n, S)
    BY <1>2, Cut
  <1>4. \A i \in 1..n : Slice(c, a, n)[i] = c[a + i - 1]
    BY <1>2, Cut
  <1>5. \A i \in 1..n : a + i - 1 = k + i /\ k + i \in 1..m
    BY <1>1
  <1>6. \A i \in 1..n : Slice(c, a, n)[i] = c[k + i]
    BY <1>4, <1>5
  <1>7. \A i \in 1..m : ~Blank(c, i)
    <2>1. DOMAIN c = 1..m
      BY TupleItems
    <2> QED
      BY <2>1, Zenon DEF Blanks
  <1>8. \A i \in 1..n : ~Blank(Slice(c, a, n), i)
    BY <1>5, <1>6, <1>7 DEF Blank
  <1> QED
    BY <1>1, <1>3, <1>6, <1>8

\* A text is what it begins with and the rest.
LEMMA Split ==
  ASSUME NEW l \in Nat, NEW m \in Nat, l <= m, NEW S, NEW c \in Tuple(m, S), NEW k \in Nat, NEW n \in Nat, Adds(k, n, l),
         NEW p \in Tuple(k, S), NEW t \in Tuple(n, S),
         \A i \in 1..k : p[i] = c[i], \A i \in 1..n : t[i] = c[k + i]
  PROVE  Joined(p, t) = Slice(c, 1, l)
  <1>1. Joined(p, t) \in Tuple(l, S)
    BY JoinedType
  <1>2. \A i \in 1..k : Joined(p, t)[i] = p[i]
    BY JoinedItems
  <1>3. \A i \in 1..n : Joined(p, t)[k + i] = t[i]
    BY JoinedItems
  <1>4. PICK a \in Nat : a = 1
    OBVIOUS
  <1>5. a >= 1 /\ a + l <= m + 1
    BY <1>4
  <1>6. Slice(c, a, l) \in Tuple(l, S)
    BY <1>5, Cut
  <1>7. \A i \in 1..l : Slice(c, a, l)[i] = c[a + i - 1]
    BY <1>5, Cut
  <1>8. \A i \in 1..l : a + i - 1 = i
    BY <1>4
  <1> DEFINE j == Joined(p, t)
             s == Slice(c, a, l)
  <1>9. ASSUME NEW i \in 1..l PROVE j[i] = s[i]
    <2>1. s[i] = c[i]
      BY <1>7, <1>8
    <2>2. CASE i <= k
      <3>1. i \in 1..k
        BY <2>2
      <3> QED
        BY <1>2, <2>1, <3>1
    <2>3. CASE i > k
      <3>1. PICK q \in 1..n : q = i - k
        BY <2>3 DEF Adds
      <3>2. k + q = i
        BY <3>1
      <3> QED
        BY <1>3, <2>1, <3>2
    <2> QED
      BY <2>2, <2>3
  <1> HIDE DEF j, s
  <1>10. j = s
    <2>1. j \in Tuple(l, S) /\ s \in Tuple(l, S)
      BY <1>1, <1>6 DEF j, s
    <2> QED
      BY <1>9, <2>1, SameTuples
  <1> QED
    BY <1>4, <1>10 DEF j, s

\* Callsigns with the area digit in the third place.
LEMMA ThirdBack ==
  ASSUME NEW m \in Nat, NEW S, Marked \subseteq S, NEW c \in Tuple(m, S), ~Blanks(c), NEW l \in 3..6, l <= m,
         ~(c[1] = "3" /\ c[2] = "D" /\ c[3] = "0"), ~(c[1] = "Q" /\ is_letter(c[2]))
  PROVE  /\ Padded(Slice(c, 1, l)) \in Tuple(6, S)
         /\ SixCall(Padded(Slice(c, 1, l))) = Slice(c, 1, l)
  <1> DEFINE t == Slice(c, 1, l)
             s == Padded(t)
  <1>1. PICK k \in Nat : k = 0
    OBVIOUS
  <1>2. k + l <= m /\ l \in Nat /\ k + 1 = 1
    BY <1>1
  <1>3. t \in Tuple(l, S)
    <2>1. Slice(c, k + 1, l) \in Tuple(l, S)
      BY <1>2, PartOf
    <2> QED
      BY <1>2, <2>1
  <1>4. \A i \in 1..l : t[i] = c[i]
    <2>1. \A i \in 1..l : Slice(c, k + 1, l)[i] = c[k + i]
      BY <1>2, PartOf
    <2>2. \A i \in 1..l : k + i = i
      BY <1>1
    <2> QED
      BY <1>2, <2>1, <2>2
  <1>5. \A i \in 1..l : ~Blank(t, i)
    <2>1. \A i \in 1..l : ~Blank(Slice(c, k + 1, l), i)
      BY <1>2, PartOf
    <2> QED
      BY <1>2, <2>1
  <1> HIDE DEF t
  <1>6. l \in 0..6 /\ "space" \in S
    BY DEF Marked
  <1>7. s \in Tuple(6, S)
    BY <1>3, <1>6, PaddedIs
  <1>8. \A i \in 1..l : s[i] = t[i]
    BY <1>3, <1>6, PaddedIs
  <1>9. \A i \in 1..6 : i > l => Blank(s, i)
    BY <1>3, <1>6, PaddedIs
  <1> HIDE DEF s
  <1>10. s[1] = c[1] /\ s[2] = c[2] /\ s[3] = c[3]
    <2>1. 1 \in 1..l /\ 2 \in 1..l /\ 3 \in 1..l
      OBVIOUS
    <2> QED
      BY <1>4, <1>8, <2>1
  <1>11. {"3", "D", "0"} \subseteq S
    BY DEF Marked
  <1>12. SixCall(s) = Trim(s)
    BY <1>7, <1>10, <1>11, SixCallIs
  <1>13. Trim(s) = t
    <2>1. PICK n \in Nat : n = 6
      OBVIOUS
    <2>2. \A i \in 1..l : s[k + i] = t[i]
      <3>1. \A i \in 1..l : k + i = i
        BY <1>1
      <3> QED
        BY <1>8, <3>1
    <2>3. \A i \in 1..n : i <= k \/ i > k + l => Blank(s, i)
      <3>1. \A i \in 1..n : ~(i <= k) /\ k + l = l
        BY <1>1
      <3> QED
        BY <1>9, <2>1, <3>1
    <2>4. ~Blank(t, 1) /\ ~Blank(t, l)
      <3>1. 1 \in 1..l /\ l \in 1..l
        OBVIOUS
      <3> QED
        BY <1>5, <3>1
    <2>5. s \in Tuple(n, S) /\ k + l <= n /\ l >= 1
      BY <1>1, <1>7, <2>1
    <2> QED
      BY <1>2, <1>3, <2>2, <2>3, <2>4, <2>5, TrimIs
  <1> QED
    BY <1>7, <1>12, <1>13 DEF s, t

\* Callsigns with the area digit in the second place, behind a space.
LEMMA SecondBack ==
  ASSUME NEW m \in Nat, NEW S, Marked \subseteq S, NEW c \in Tuple(m, S), ~Blanks(c), NEW l \in 3..5, l <= m
  PROVE  /\ Padded(Joined(<<"space">>, Slice(c, 1, l))) \in Tuple(6, S)
         /\ SixCall(Padded(Joined(<<"space">>, Slice(c, 1, l)))) = Slice(c, 1, l)
  <1> DEFINE t == Slice(c, 1, l)
             u == Joined(<<"space">>, t)
             s == Padded(u)
  <1>1. PICK k \in Nat : k = 0
    OBVIOUS
  <1>2. k + l <= m /\ l \in Nat /\ k + 1 = 1
    BY <1>1
  <1>3. t \in Tuple(l, S)
    <2>1. Slice(c, k + 1, l) \in Tuple(l, S)
      BY <1>2, PartOf
    <2> QED
      BY <1>2, <2>1
  <1>5. \A i \in 1..l : ~Blank(t, i)
    <2>1. \A i \in 1..l : ~Blank(Slice(c, k + 1, l), i)
      BY <1>2, PartOf
    <2> QED
      BY <1>2, <2>1
  <1> HIDE DEF t
  <1>6. "space" \in S
    BY DEF Marked
  <1>7. PICK one \in Nat : one = 1
    OBVIOUS
  <1>8. <<"space">> \in Tuple(one, S)
    BY <1>6, <1>7 DEF Tuple
  <1>9. PICK l1 \in 0..6 : l1 = l + 1
    OBVIOUS
  <1>10. Adds(one, l, l1) /\ l1 \in Nat
    BY <1>7, <1>9 DEF Adds
  <1>11. u \in Tuple(l1, S)
    BY <1>2, <1>3, <1>8, <1>10, JoinedType
  <1>12. \A i \in 1..l : u[one + i] = t[i]
    BY <1>2, <1>3, <1>8, JoinedItems
  <1>13. u[1] = "space"
    <2>1. \A i \in 1..one : u[i] = <<"space">>[i]
      BY <1>2, <1>3, <1>8, JoinedItems
    <2> HIDE DEF u
    <2> QED
      BY <1>7, <2>1
  <1> HIDE DEF u
  <1>14. s \in Tuple(6, S)
    BY <1>6, <1>11, PaddedIs
  <1>15. \A i \in 1..l1 : s[i] = u[i]
    BY <1>6, <1>11, PaddedIs
  <1>16. \A i \in 1..6 : i > l1 => Blank(s, i)
    BY <1>6, <1>11, PaddedIs
  <1> HIDE DEF s
  <1>17. s[1] = "space"
    BY <1>9, <1>13, <1>15
  <1>18. {"3", "D", "0"} \subseteq S
    BY DEF Marked
  <1>19. SixCall(s) = Trim(s)
    <2>1. s[1] # "3" /\ s[1] # "Q"
      BY <1>17
    <2> QED
      BY <1>14, <1>18, <2>1, SixCallIs
  <1>20. Trim(s) = t
    <2>1. PICK n \in Nat : n = 6
      OBVIOUS
    <2>2. ASSUME NEW i \in 1..l PROVE s[one + i] = t[i]
      <3>1. one + i \in 1..l1
        BY <1>7, <1>9
      <3> QED
        BY <1>12, <1>15, <3>1
    <2>3. ASSUME NEW i \in 1..n, i <= one \/ i > one + l PROVE Blank(s, i)
      <3>1. i \in 1..6 /\ (i = 1 \/ i > l1)
        BY <1>7, <1>9, <2>1, <2>3
      <3> QED
        BY <1>16, <1>17, <3>1 DEF Blank
    <2>4. ~Blank(t, 1) /\ ~Blank(t, l)
      <3>1. 1 \in 1..l /\ l \in 1..l
        OBVIOUS
      <3> QED
        BY <1>5, <3>1
    <2>5. s \in Tuple(n, S) /\ one + l <= n /\ l >= 1
      BY <1>7, <1>14, <2>1
    <2> QED
      BY <1>2, <1>3, <2>2, <2>3, <2>4, <2>5, TrimIs
  <1> QED
    BY <1>14, <1>19, <1>20 DEF s, u, t

\* Guinea: 3X and a letter.
LEMMA GuineaBack ==
  ASSUME NEW m \in Nat, NEW S, Marked \subseteq S, NEW c \in Tuple(m, S), ~Blanks(c), NEW l \in 3..7, l <= m,
         c[1] = "3", c[2] = "X", is_letter(c[3])
  PROVE  /\ Padded(Joined(<<"Q">>, Slice(c, 3, l - 2))) \in Tuple(6, S)
         /\ SixCall(Padded(Joined(<<"Q">>, Slice(c, 3, l - 2)))) = Slice(c, 1, l)
  <1>1. PICK two \in Nat : two = 2
    OBVIOUS
  <1>2. PICK n \in Nat : n = l - 2
    OBVIOUS
  <1> DEFINE t == Slice(c, 3, l - 2)
             u == Joined(<<"Q">>, t)
             s == Padded(u)
             r == Tail(s)
  <1>3. two + n <= m
    BY <1>1, <1>2
  <1>31. two + 1 = 3 /\ n >= 1
    BY <1>1, <1>2
  <1>4. t \in Tuple(n, S)
    <2>1. Slice(c, two + 1, n) \in Tuple(n, S)
      BY <1>3, PartOf
    <2> QED
      BY <1>2, <1>31, <2>1
  <1>5. \A i \in 1..n : t[i] = c[two + i]
    <2>1. \A i \in 1..n : Slice(c, two + 1, n)[i] = c[two + i]
      BY <1>3, PartOf
    <2> QED
      BY <1>2, <1>31, <2>1
  <1>6. \A i \in 1..n : ~Blank(t, i)
    <2>1. \A i \in 1..n : ~Blank(Slice(c, two + 1, n), i)
      BY <1>3, PartOf
    <2> QED
      BY <1>2, <1>31, <2>1
  <1> HIDE DEF t
  <1>7. "space" \in S /\ "Q" \in S /\ "3" \in S /\ "X" \in S
    BY DEF Marked
  <1>8. PICK one \in Nat : one = 1
    OBVIOUS
  <1>9. <<"Q">> \in Tuple(one, S)
    BY <1>7, <1>8 DEF Tuple
  <1>10. PICK l1 \in 0..6 : l1 = n + 1
    BY <1>2
  <1>11. Adds(one, n, l1) /\ l1 \in Nat
    BY <1>8, <1>10 DEF Adds
  <1>12. u \in Tuple(l1, S)
    BY <1>4, <1>9, <1>11, JoinedType
  <1>13. \A i \in 1..n : u[one + i] = t[i]
    BY <1>4, <1>9, JoinedItems
  <1>14. u[1] = "Q"
    <2>1. \A i \in 1..one : u[i] = <<"Q">>[i]
      BY <1>4, <1>9, JoinedItems
    <2> HIDE DEF u
    <2> QED
      BY <1>8, <2>1
  <1> HIDE DEF u
  <1>15. s \in Tuple(6, S)
    BY <1>7, <1>12, PaddedIs
  <1>16. \A i \in 1..l1 : s[i] = u[i]
    BY <1>7, <1>12, PaddedIs
  <1>17. \A i \in 1..6 : i > l1 => Blank(s, i)
    BY <1>7, <1>12, PaddedIs
  <1> HIDE DEF s
  <1>18. s[1] = "Q"
    BY <1>10, <1>14, <1>16
  <1>19. ASSUME NEW i \in 1..n PROVE s[i + 1] = t[i]
    <2>1. i + 1 \in 1..l1 /\ one + i = i + 1
      BY <1>8, <1>10
    <2> QED
      BY <1>13, <1>16, <2>1
  <1>20. s[2] = c[3]
    <2>1. 1 \in 1..n /\ 1 + 1 = 2 /\ two + 1 = 3
      BY <1>31
    <2> QED
      BY <1>5, <1>19, <2>1
  <1>21. {"3", "D", "0"} \subseteq S
    BY DEF Marked
  <1>22. SixCall(s) = Joined(<<"3", "X">>, Trim(r))
    <2>1. s[1] # "3" /\ s[1] = "Q"
      BY <1>18
    <2> QED
      BY <1>15, <1>20, <1>21, <2>1, SixCallIs
  <1>23. PICK q6 \in Nat : q6 = 6
    OBVIOUS
  <1>24. PICK q5 \in Nat : q5 = 5
    OBVIOUS
  <1>25. Adds(q5, 1, q6) /\ s \in Tuple(q6, S)
    BY <1>15, <1>23, <1>24 DEF Adds
  <1>26. r \in Tuple(q5, S)
    BY <1>25, TailIs
  <1>27. \A i \in 1..q5 : r[i] = s[i + 1]
    <2> SUFFICES ASSUME NEW i \in 1..q5 PROVE Tail(s)[i] = s[i + 1]
      BY Zenon
    <2>1. s \in Seq(S) /\ Len(s) = q6
      BY <1>25, TupleItems
    <2>2. s # <<>>
      <3>1. Len(<<>>) = 0 /\ q6 # 0
        BY <1>23
      <3> QED
        BY <2>1, <3>1, Zenon
    <2>3. i \in 1..(Len(s) - 1)
      BY <1>23, <1>24, <2>1
    <2> QED
      BY <2>1, <2>2, <2>3, HeadTailProperties
  <1> HIDE DEF r
  <1>28. PICK k \in Nat : k = 0
    OBVIOUS
  <1>29. Trim(r) = t
    <2>2. ASSUME NEW i \in 1..n PROVE r[k + i] = t[i]
      <3>1. k + i \in 1..q5 /\ k + i = i
        BY <1>2, <1>24, <1>28
      <3> QED
        BY <1>19, <1>27, <3>1
    <2>3. ASSUME NEW i \in 1..q5, i <= k \/ i > k + n PROVE Blank(r, i)
      <3>1. i + 1 \in 1..6 /\ i + 1 > l1
        BY <1>10, <1>24, <1>28, <2>3
      <3>2. Blank(s, i + 1)
        BY <1>17, <3>1
      <3> QED
        BY <1>27, <3>2 DEF Blank
    <2>4. ~Blank(t, 1) /\ ~Blank(t, n)
      <3>1. 1 \in 1..n /\ n \in 1..n
        BY <1>31
      <3> QED
        BY <1>6, <3>1
    <2>5. k + n <= q5 /\ n >= 1
      BY <1>2, <1>31, <1>24, <1>28
    <2> QED
      BY <1>4, <1>26, <2>2, <2>3, <2>4, <2>5, TrimIs
  <1>30. Joined(<<"3", "X">>, t) = Slice(c, 1, l)
    <2> DEFINE p == <<"3", "X">>
    <2>1. p \in Tuple(two, S) /\ p[1] = "3" /\ p[2] = "X"
      BY <1>1, <1>7 DEF Tuple
    <2> HIDE DEF p
    <2>2. \A i \in 1..two : p[i] = c[i]
      <3>1. \A i \in 1..two : i = 1 \/ i = 2
        BY <1>1
      <3> QED
        BY <2>1, <3>1
    <2>3. Adds(two, n, l) /\ l \in Nat
      BY <1>1, <1>2 DEF Adds
    <2>4. Joined(p, t) = Slice(c, 1, l)
      BY <1>4, <1>5, <2>1, <2>2, <2>3, Split
    <2> QED
      BY <2>4 DEF p
  <1> QED
    BY <1>15, <1>22, <1>29, <1>30 DEF s, u, t

\* Eswatini: 3DA0 and a letter or more.
LEMMA EswatiniBack ==
  ASSUME NEW m \in Nat, NEW S, Marked \subseteq S, NEW c \in Tuple(m, S), ~Blanks(c), NEW l \in 5..7, l <= m,
         c[1] = "3", c[2] = "D", c[3] = "A", c[4] = "0"
  PROVE  /\ Padded(Joined(<<"3", "D", "0">>, Slice(c, 5, l - 4))) \in Tuple(6, S)
         /\ SixCall(Padded(Joined(<<"3", "D", "0">>, Slice(c, 5, l - 4)))) = Slice(c, 1, l)
  <1>1. PICK four \in Nat : four = 4
    OBVIOUS
  <1>2. PICK n \in Nat : n = l - 4
    OBVIOUS
  <1> DEFINE v == <<"3", "D", "0">>
             t == Slice(c, 5, l - 4)
             u == Joined(v, t)
             s == Padded(u)
             r == Slice(s, 4, 3)
  <1>3. four + n <= m /\ four + 1 = 5 /\ n >= 1
    BY <1>1, <1>2
  <1>4. t \in Tuple(n, S)
    <2>1. Slice(c, four + 1, n) \in Tuple(n, S)
      BY <1>3, PartOf
    <2> QED
      BY <1>2, <1>3, <2>1
  <1>5. \A i \in 1..n : t[i] = c[four + i]
    <2>1. \A i \in 1..n : Slice(c, four + 1, n)[i] = c[four + i]
      BY <1>3, PartOf
    <2> QED
      BY <1>2, <1>3, <2>1
  <1>6. \A i \in 1..n : ~Blank(t, i)
    <2>1. \A i \in 1..n : ~Blank(Slice(c, four + 1, n), i)
      BY <1>3, PartOf
    <2> QED
      BY <1>2, <1>3, <2>1
  <1> HIDE DEF t
  <1>7. "space" \in S /\ "D" \in S /\ "3" \in S /\ "A" \in S /\ "0" \in S
    BY DEF Marked
  <1>8. PICK three \in Nat : three = 3
    OBVIOUS
  <1>9. v \in Tuple(three, S) /\ v[1] = "3" /\ v[2] = "D" /\ v[3] = "0"
    BY <1>7, <1>8 DEF Tuple
  <1> HIDE DEF v
  <1>10. PICK l1 \in 0..6 : l1 = n + 3
    BY <1>2
  <1>11. Adds(three, n, l1) /\ l1 \in Nat
    BY <1>8, <1>10 DEF Adds
  <1>12. u \in Tuple(l1, S)
    BY <1>4, <1>9, <1>11, JoinedType
  <1>13. \A i \in 1..n : u[three + i] = t[i]
    BY <1>4, <1>9, JoinedItems
  <1>14. u[1] = "3" /\ u[2] = "D" /\ u[3] = "0"
    <2>1. \A i \in 1..three : u[i] = v[i]
      BY <1>4, <1>9, JoinedItems
    <2> HIDE DEF u
    <2>2. 1 \in 1..three /\ 2 \in 1..three /\ 3 \in 1..three
      BY <1>8
    <2> QED
      BY <1>9, <2>1, <2>2
  <1> HIDE DEF u
  <1>15. s \in Tuple(6, S)
    BY <1>7, <1>12, PaddedIs
  <1>16. \A i \in 1..l1 : s[i] = u[i]
    BY <1>7, <1>12, PaddedIs
  <1>17. \A i \in 1..6 : i > l1 => Blank(s, i)
    BY <1>7, <1>12, PaddedIs
  <1> HIDE DEF s
  <1>18. s[1] = "3" /\ s[2] = "D" /\ s[3] = "0"
    <2>1. 1 \in 1..l1 /\ 2 \in 1..l1 /\ 3 \in 1..l1
      BY <1>10
    <2> QED
      BY <1>14, <1>16, <2>1
  <1>19. ASSUME NEW i \in 1..n PROVE s[three + i] = t[i]
    <2>1. three + i \in 1..l1
      BY <1>8, <1>10
    <2> QED
      BY <1>13, <1>16, <2>1
  <1>20. ~Blank(s, 4)
    <2>1. 1 \in 1..n /\ three + 1 = 4
      BY <1>3, <1>8
    <2>2. s[4] = t[1] /\ ~Blank(t, 1)
      BY <1>6, <1>19, <2>1
    <2> QED
      BY <2>2 DEF Blank
  <1>21. {"3", "D", "0"} \subseteq S
    BY DEF Marked
  <1>22. SixCall(s) = Joined(<<"3", "D", "A", "0">>, Trim(r))
    BY <1>15, <1>18, <1>20, <1>21, SixCallIs
  <1>23. PICK q6 \in Nat : q6 = 6
    OBVIOUS
  <1>24. PICK a \in Nat : a = 4
    OBVIOUS
  <1>25. a >= 1 /\ a + three <= q6 + 1 /\ s \in Tuple(q6, S)
    BY <1>8, <1>15, <1>23, <1>24
  <1>26. r \in Tuple(three, S)
    <2>1. Slice(s, a, three) \in Tuple(three, S)
      BY <1>25, Cut
    <2> QED
      BY <1>8, <1>24, <2>1
  <1>27. \A i \in 1..three : r[i] = s[three + i]
    <2>1. \A i \in 1..three : Slice(s, a, three)[i] = s[a + i - 1]
      BY <1>25, Cut
    <2>2. \A i \in 1..three : a + i - 1 = three + i
      BY <1>8, <1>24
    <2> QED
      BY <1>8, <1>24, <2>1, <2>2
  <1> HIDE DEF r
  <1>28. PICK k \in Nat : k = 0
    OBVIOUS
  <1>29. Trim(r) = t
    <2>2. ASSUME NEW i \in 1..n PROVE r[k + i] = t[i]
      <3>1. k + i \in 1..three /\ k + i = i
        BY <1>2, <1>8, <1>28
      <3> QED
        BY <1>19, <1>27, <3>1
    <2>3. ASSUME NEW i \in 1..three, i <= k \/ i > k + n PROVE Blank(r, i)
      <3>1. three + i \in 1..6 /\ three + i > l1
        BY <1>8, <1>10, <1>28, <2>3
      <3>2. Blank(s, three + i)
        BY <1>17, <3>1
      <3> QED
        BY <1>27, <3>2 DEF Blank
    <2>4. ~Blank(t, 1) /\ ~Blank(t, n)
      <3>1. 1 \in 1..n /\ n \in 1..n
        BY <1>3
      <3> QED
        BY <1>6, <3>1
    <2>5. k + n <= three /\ n >= 1
      BY <1>2, <1>3, <1>8, <1>28
    <2> QED
      BY <1>4, <1>26, <2>2, <2>3, <2>4, <2>5, TrimIs
  <1>30. Joined(<<"3", "D", "A", "0">>, t) = Slice(c, 1, l)
    <2> DEFINE p == <<"3", "D", "A", "0">>
    <2>1. p \in Tuple(four, S) /\ p[1] = "3" /\ p[2] = "D" /\ p[3] = "A" /\ p[4] = "0"
      BY <1>1, <1>7 DEF Tuple
    <2> HIDE DEF p
    <2>2. \A i \in 1..four : p[i] = c[i]
      <3>1. \A i \in 1..four : i = 1 \/ i = 2 \/ i = 3 \/ i = 4
        BY <1>1
      <3> QED
        BY <2>1, <3>1
    <2>3. Adds(four, n, l) /\ l \in Nat
      BY <1>1, <1>2 DEF Adds
    <2>4. Joined(p, t) = Slice(c, 1, l)
      BY <1>4, <1>5, <2>1, <2>2, <2>3, Split
    <2> QED
      BY <2>4 DEF p
  <1> QED
    BY <1>15, <1>22, <1>29, <1>30 DEF s, u, t, v

\* The form of a callsign decides on its six characters.
EswatiniForm(c, l) == c[1] = "3" /\ c[2] = "D" /\ c[3] = "A" /\ c[4] = "0" /\ l \in 5..7
GuineaForm(c, l)   == c[1] = "3" /\ c[2] = "X" /\ is_letter(c[3]) /\ l <= 7

\* Which of the four forms pack_basecall takes.
LEMMA SixCharsAre ==
  ASSUME NEW m \in Nat, NEW S, Marked \subseteq S, NEW c \in Tuple(m, S), NEW l \in Nat, 3 <= l, l <= m
  PROVE  SixChars(c, l) = IF EswatiniForm(c, l) THEN Joined(<<"3", "D", "0">>, Slice(c, 5, l - 4))
                          ELSE IF GuineaForm(c, l) THEN Joined(<<"Q">>, Slice(c, 3, l - 2))
                          ELSE IF is_digit(c[3]) /\ l <= 6 THEN Slice(c, 1, l)
                          ELSE IF is_digit(c[2]) /\ l <= 5 THEN Joined(<<"space">>, Slice(c, 1, l))
                          ELSE <<>>
  <1>1. PICK two \in Nat : two = 2
    OBVIOUS
  <1>2. PICK four \in Nat : four = 4
    OBVIOUS
  <1>3. "3" \in S /\ "D" \in S /\ "A" \in S /\ "0" \in S /\ "X" \in S
    BY DEF Marked
  <1>4. IsPrefix(<<"3", "D", "A", "0">>, c)
          <=> four <= m /\ c[1] = "3" /\ c[2] = "D" /\ c[3] = "A" /\ c[4] = "0"
    <2> DEFINE p == <<"3", "D", "A", "0">>
    <2>1. p \in Tuple(four, S) /\ p[1] = "3" /\ p[2] = "D" /\ p[3] = "A" /\ p[4] = "0"
      BY <1>2, <1>3 DEF Tuple
    <2> HIDE DEF p
    <2>2. IsPrefix(p, c) <=> four <= m /\ \A i \in 1..four : c[i] = p[i]
      BY <2>1, PrefixIs
    <2>3. \A i : i \in 1..four <=> i = 1 \/ i = 2 \/ i = 3 \/ i = 4
      BY <1>2
    <2>4. (\A i \in 1..four : c[i] = p[i]) <=> c[1] = p[1] /\ c[2] = p[2] /\ c[3] = p[3] /\ c[4] = p[4]
      BY <2>3
    <2>5. IsPrefix(p, c) <=> four <= m /\ c[1] = "3" /\ c[2] = "D" /\ c[3] = "A" /\ c[4] = "0"
      BY <2>1, <2>2, <2>4
    <2> QED
      BY <2>5 DEF p
  <1>5. IsPrefix(<<"3", "X">>, c) <=> c[1] = "3" /\ c[2] = "X"
    <2> DEFINE p == <<"3", "X">>
    <2>1. p \in Tuple(two, S) /\ p[1] = "3" /\ p[2] = "X"
      BY <1>1, <1>3 DEF Tuple
    <2> HIDE DEF p
    <2>2. IsPrefix(p, c) <=> two <= m /\ \A i \in 1..two : c[i] = p[i]
      BY <2>1, PrefixIs
    <2>3. \A i : i \in 1..two <=> i = 1 \/ i = 2
      BY <1>1
    <2>4. two <= m
      BY <1>1
    <2>5. IsPrefix(p, c) <=> c[1] = "3" /\ c[2] = "X"
      BY <2>1, <2>2, <2>3, <2>4
    <2> QED
      BY <2>5 DEF p
  <1>6. IsPrefix(<<"3", "D", "A", "0">>, c) /\ l \in 5..7 <=> EswatiniForm(c, l)
    <2>1. l \in 5..7 => four <= m
      BY <1>2
    <2> QED
      BY <1>4, <2>1 DEF EswatiniForm
  <1>7. IsPrefix(<<"3", "X">>, c) /\ is_letter(c[3]) /\ l <= 7 <=> GuineaForm(c, l)
    BY <1>5 DEF GuineaForm
  <1>8. SubSeq(c, 5, l) = Slice(c, 5, l - 4) /\ SubSeq(c, 3, l) = Slice(c, 3, l - 2) /\ SubSeq(c, 1, l) = Slice(c, 1, l)
    <2>1. 5 + (l - 4) - 1 = l /\ 3 + (l - 2) - 1 = l /\ 1 + l - 1 = l
      OBVIOUS
    <2> QED
      BY <2>1, Zenon DEF Slice
  <1> QED
    BY <1>6, <1>7, <1>8, Zenon DEF SixChars, Joined

\* A callsign without one of these forms has no digits.
LEMMA NoForm == \E i \in 1..6 : SixDigits(Padded(<<>>))[i] < 0
  <1> DEFINE s == Padded(<<>>)
  <1>1. PICK k \in 0..6 : k = 0
    OBVIOUS
  <1>2. <<>> \in Tuple(k, {"space"})
    BY <1>1 DEF Tuple
  <1>3. \A i \in 1..6 : i > k => Blank(s, i)
    BY <1>2, PaddedIs
  <1>4. Blank(s, 2)
    BY <1>1, <1>3
  <1> HIDE DEF s
  <1>5. s[2] = "space"
    BY <1>4 DEF Blank
  <1>6. PICK n \in Nat : n = 36
    OBVIOUS
  <1>7. Len(AlphaNum) = n /\ DOMAIN AlphaNum = 1..n
    BY <1>6, AlphaNumIs, TableIs
  <1>8. ~Contains(AlphaNum, "space")
    BY AlphaNumIs, NotAlphaNum
  <1>9. Contains(AlphaNum, "space") <=> nchar("space", AlphaNum) >= 0
    BY <1>7, NcharIs
  <1>10. nchar("space", AlphaNum) \in -1..(n - 1)
    BY <1>7, NcharIs
  <1>11. nchar("space", AlphaNum) < 0
    BY <1>6, <1>8, <1>9, <1>10
  <1>12. SixTables[2] = AlphaNum
    BY DEF SixTables
  <1>13. SixDigits(s)[2] = nchar("space", AlphaNum)
    BY <1>5, <1>12 DEF SixDigits
  <1>14. SixDigits(s)[2] < 0 /\ 2 \in 1..6
    BY <1>11, <1>13
  <1> QED
    BY <1>14 DEF s

\* The length of a standard callsign is in the range of its form, and its six
\* characters are read as the callsign again.
LEMMA FormBack ==
  ASSUME NEW m \in Nat, NEW S, Marked \subseteq S, NEW c \in Tuple(m, S), ~Blanks(c), NEW l \in Nat, 3 <= l, l <= m,
         ~(c[1] = "3" /\ c[2] = "D" /\ c[3] = "0"), ~(c[1] = "Q" /\ is_letter(c[2])), SixChars(c, l) # <<>>
  PROVE  /\ Padded(SixChars(c, l)) \in Tuple(6, S)
         /\ SixCall(Padded(SixChars(c, l))) = Slice(c, 1, l)
  <1> DEFINE six == SixChars(c, l)
             P(s) == Padded(s) \in Tuple(6, S) /\ SixCall(Padded(s)) = Slice(c, 1, l)
  <1>1. six = IF EswatiniForm(c, l) THEN Joined(<<"3", "D", "0">>, Slice(c, 5, l - 4))
              ELSE IF GuineaForm(c, l) THEN Joined(<<"Q">>, Slice(c, 3, l - 2))
              ELSE IF is_digit(c[3]) /\ l <= 6 THEN Slice(c, 1, l)
              ELSE IF is_digit(c[2]) /\ l <= 5 THEN Joined(<<"space">>, Slice(c, 1, l))
              ELSE <<>>
    BY SixCharsAre
  <1> HIDE DEF six
  <1>2. EswatiniForm(c, l) => P(Joined(<<"3", "D", "0">>, Slice(c, 5, l - 4)))
    <2> SUFFICES ASSUME EswatiniForm(c, l) PROVE P(Joined(<<"3", "D", "0">>, Slice(c, 5, l - 4)))
      BY Zenon
    <2>1. l \in 5..7 /\ c[1] = "3" /\ c[2] = "D" /\ c[3] = "A" /\ c[4] = "0"
      BY Zenon DEF EswatiniForm
    <2>2. Padded(Joined(<<"3", "D", "0">>, Slice(c, 5, l - 4))) \in Tuple(6, S)
      BY <2>1, EswatiniBack, Zenon
    <2>3. SixCall(Padded(Joined(<<"3", "D", "0">>, Slice(c, 5, l - 4)))) = Slice(c, 1, l)
      BY <2>1, EswatiniBack, Zenon
    <2> QED
      BY <2>2, <2>3, Zenon
  <1>3. GuineaForm(c, l) => P(Joined(<<"Q">>, Slice(c, 3, l - 2)))
    <2> SUFFICES ASSUME GuineaForm(c, l) PROVE P(Joined(<<"Q">>, Slice(c, 3, l - 2)))
      BY Zenon
    <2>1. c[1] = "3" /\ c[2] = "X" /\ is_letter(c[3]) /\ l <= 7
      BY Zenon DEF GuineaForm
    <2>2. l \in 3..7
      BY <2>1
    <2>3. Padded(Joined(<<"Q">>, Slice(c, 3, l - 2))) \in Tuple(6, S)
      BY <2>1, <2>2, GuineaBack, Zenon
    <2>4. SixCall(Padded(Joined(<<"Q">>, Slice(c, 3, l - 2)))) = Slice(c, 1, l)
      BY <2>1, <2>2, GuineaBack, Zenon
    <2> QED
      BY <2>3, <2>4, Zenon
  <1>4. l <= 6 => P(Slice(c, 1, l))
    <2> SUFFICES ASSUME l <= 6 PROVE P(Slice(c, 1, l))
      BY Zenon
    <2>1. l \in 3..6
      OBVIOUS
    <2>2. Padded(Slice(c, 1, l)) \in Tuple(6, S)
      BY <2>1, ThirdBack, Zenon
    <2>3. SixCall(Padded(Slice(c, 1, l))) = Slice(c, 1, l)
      BY <2>1, ThirdBack, Zenon
    <2> QED
      BY <2>2, <2>3, Zenon
  <1>5. l <= 5 => P(Joined(<<"space">>, Slice(c, 1, l)))
    <2> SUFFICES ASSUME l <= 5 PROVE P(Joined(<<"space">>, Slice(c, 1, l)))
      BY Zenon
    <2>1. l \in 3..5
      OBVIOUS
    <2>2. Padded(Joined(<<"space">>, Slice(c, 1, l))) \in Tuple(6, S)
      BY <2>1, SecondBack, Zenon
    <2>3. SixCall(Padded(Joined(<<"space">>, Slice(c, 1, l)))) = Slice(c, 1, l)
      BY <2>1, SecondBack, Zenon
    <2> QED
      BY <2>2, <2>3, Zenon
  <1> HIDE DEF P
  <1>6. six # <<>>
    BY DEF six
  <1>7. P(six)
    BY <1>1, <1>2, <1>3, <1>4, <1>5, <1>6, Zenon
  <1> QED
    BY <1>7, Zenon DEF P, six

\* What pack_basecall accepts is read again.
LEMMA BasecallBack ==
  ASSUME NEW m \in Nat, NEW S, Marked \subseteq S, NEW c \in Tuple(m, S), ~Blanks(c), NEW l \in Int, l <= m,
         ~(c[1] = "3" /\ c[2] = "D" /\ c[3] = "0"), ~(c[1] = "Q" /\ is_letter(c[2])), pack_basecall(c, l) >= 0
  PROVE  /\ l >= 3
         /\ pack_basecall(c, l) \in Nat
         /\ NTOKENS + MAX22 + pack_basecall(c, l) < Powers[29]
         /\ SixCall(SixOf(pack_basecall(c, l))) = Slice(c, 1, l)
  <1> DEFINE six == SixChars(c, l)
             c6  == Padded(six)
             bad == \E i \in 1..6 : SixDigits(c6)[i] < 0
  <1>1. pack_basecall(c, l) = IF l <= 2 THEN -1 ELSE IF bad THEN -1 ELSE Mixed(SixDigits(c6))
    BY BasecallIs
  <1>2. bad <=> \E i \in 1..6 : SixDigits(c6)[i] < 0
    OBVIOUS
  <1>3. six = <<>> => bad
    BY NoForm
  <1> HIDE DEF bad
  <1>4. ~(-1 >= 0)
    OBVIOUS
  <1>5. ~(l <= 2) /\ ~bad /\ pack_basecall(c, l) = Mixed(SixDigits(c6))
    BY <1>1, <1>4, Zenon
  <1>6. l \in Nat /\ 3 <= l
    BY <1>5
  <1>7. six # <<>>
    BY <1>3, <1>5
  <1>8. c6 \in Tuple(6, S)
    BY <1>6, <1>7, FormBack
  <1>9. SixCall(c6) = Slice(c, 1, l)
    BY <1>6, <1>7, FormBack
  <1>10. \A i \in 1..6 : ~(SixDigits(c6)[i] < 0)
    BY <1>2, <1>5, Zenon
  <1> HIDE DEF c6
  <1>11. Mixed(SixDigits(c6)) \in Nat
    BY <1>10, SixBack
  <1>12. NTOKENS + MAX22 + Mixed(SixDigits(c6)) < Powers[29]
    BY <1>10, SixBack
  <1>13. SixOf(Mixed(SixDigits(c6))) = <<c6[1], c6[2], c6[3], c6[4], c6[5], c6[6]>>
    BY <1>10, SixBack
  <1>14. <<c6[1], c6[2], c6[3], c6[4], c6[5], c6[6]>> = c6
    <2> DEFINE u == <<c6[1], c6[2], c6[3], c6[4], c6[5], c6[6]>>
    <2>1. PICK n \in Nat : n = 6
      OBVIOUS
    <2>2. \A i \in 1..n : i = 1 \/ i = 2 \/ i = 3 \/ i = 4 \/ i = 5 \/ i = 6
      BY <2>1
    <2>3. \A i \in 1..n : c6[i] \in S
      BY <1>8, <2>1 DEF Tuple
    <2>4. 1 \in 1..n /\ 2 \in 1..n /\ 3 \in 1..n /\ 4 \in 1..n /\ 5 \in 1..n /\ 6 \in 1..n
      BY <2>1
    <2>5. u \in Tuple(n, S)
      BY <2>1, <2>3, <2>4 DEF Tuple
    <2>6. u[1] = c6[1] /\ u[2] = c6[2] /\ u[3] = c6[3] /\ u[4] = c6[4] /\ u[5] = c6[5] /\ u[6] = c6[6]
      OBVIOUS
    <2> HIDE DEF u
    <2>7. \A i \in 1..n : u[i] = c6[i]
      BY <2>2, <2>6
    <2>8. c6 \in Tuple(n, S)
      BY <1>8, <2>1
    <2>9. u = c6
      BY <2>5, <2>7, <2>8, SameTuples
    <2> QED
      BY <2>9 DEF u
  <1> QED
    BY <1>5, <1>6, <1>9, <1>11, <1>12, <1>13, <1>14, Zenon

\* The first token of a text, and what follows it.
LEMMA LeastIs ==
  ASSUME NEW S, S \subseteq Int, NEW a \in S, \A y \in S : a <= y
  PROVE  Min(S) = a
  <1>1. \A x \in S : (\A y \in S : x <= y) => x = a
    OBVIOUS
  <1> QED
    BY <1>1, Zenon DEF Min

IsSpaced(s, l, m, n, S, t, r) ==
  /\ s \in Tuple(l, S)
  /\ \A i \in 1..m : s[i] = t[i]
  /\ Blank(s, m + 1)
  /\ \A i \in 1..n : s[m + 1 + i] = r[i]

\* Two texts with a space between them.
LEMMA SpacedIs ==
  ASSUME NEW m \in Nat, NEW n \in Nat, NEW l \in Nat, l >= m + n + 1, l <= m + n + 1,
         NEW S, "space" \in S, NEW t \in Tuple(m, S), NEW r \in Tuple(n, S)
  PROVE  IsSpaced(Joined(t, Joined(<<"space">>, r)), l, m, n, S, t, r)
  <1>1. PICK one \in Nat : one = 1
    OBVIOUS
  <1>2. PICK k \in Nat : k = n + 1
    OBVIOUS
  <1> DEFINE b == <<"space">>
             u == Joined(b, r)
             s == Joined(t, u)
  <1>3. Adds(one, n, k) /\ Adds(m, k, l)
    BY <1>1, <1>2 DEF Adds
  <1>4. b \in Tuple(one, S) /\ b[1] = "space"
    BY <1>1 DEF Tuple
  <1> HIDE DEF b
  <1>5. u \in Tuple(k, S)
    BY <1>3, <1>4, JoinedType
  <1>6. \A i \in 1..one : u[i] = b[i]
    BY <1>4, JoinedItems
  <1>7. \A i \in 1..n : u[one + i] = r[i]
    BY <1>4, JoinedItems
  <1> HIDE DEF u
  <1>8. s \in Tuple(l, S)
    BY <1>3, <1>5, JoinedType
  <1>9. \A i \in 1..m : s[i] = t[i]
    BY <1>5, JoinedItems
  <1>10. \A i \in 1..k : s[m + i] = u[i]
    BY <1>5, JoinedItems
  <1> HIDE DEF s
  <1>11. s[m + 1] = "space"
    <2>1. 1 \in 1..k /\ 1 \in 1..one
      BY <1>1, <1>2
    <2> QED
      BY <1>4, <1>6, <1>10, <2>1
  <1>12. ASSUME NEW i \in 1..n PROVE s[m + 1 + i] = r[i]
    <2>1. PICK j \in 1..k : j = one + i
      BY <1>1, <1>2
    <2>2. m + j = m + 1 + i
      BY <1>1, <2>1
    <2>3. s[m + j] = u[j]
      BY <1>10
    <2> QED
      BY <1>7, <2>1, <2>2, <2>3
  <1>13. Blank(s, m + 1)
    BY <1>11 DEF Blank
  <1> QED
    BY <1>8, <1>9, <1>12, <1>13 DEF IsSpaced, s, u, b

\* The first token ends at the space.
LEMMA TokenIs ==
  ASSUME NEW m \in Nat, NEW n \in Nat, NEW S, "space" \in S, NEW t \in Tuple(m, S), ~Blanks(t), NEW r \in Tuple(n, S)
  PROVE  FirstToken(Joined(t, Joined(<<"space">>, r))) = t
  <1> DEFINE s == Joined(t, Joined(<<"space">>, r))
             ends == {i \in DOMAIN s : s[i] = "space"}
  <1>1. PICK l \in Nat : l = m + n + 1
    OBVIOUS
  <1>2. l >= m + n + 1 /\ l <= m + n + 1
    BY <1>1
  <1> HIDE DEF s
  <1>22. IsSpaced(s, l, m, n, S, t, r)
    BY <1>2, SpacedIs DEF s
  <1>3. s \in Tuple(l, S)
    BY <1>22 DEF IsSpaced
  <1>4. \A i \in 1..m : s[i] = t[i]
    BY <1>22 DEF IsSpaced
  <1>5. Blank(s, m + 1)
    BY <1>22 DEF IsSpaced
  <1>6. DOMAIN s = 1..l
    BY <1>3, TupleItems
  <1>7. PICK a \in Nat : a = m + 1
    OBVIOUS
  <1>8. \A i \in 1..m : ~Blank(t, i)
    <2>1. DOMAIN t = 1..m
      BY TupleItems
    <2> QED
      BY <2>1, Zenon DEF Blanks
  <1>9. a \in ends
    <2>1. a \in 1..l
      BY <1>1, <1>7
    <2>2. s[a] = "space"
      BY <1>5, <1>7 DEF Blank
    <2> QED
      BY <1>6, <2>1, <2>2
  <1>10. \A y \in ends : a <= y
    <2> SUFFICES ASSUME NEW y \in 1..l, s[y] = "space", y < a PROVE FALSE
      BY <1>6, <1>7
    <2>1. y \in 1..m
      BY <1>7
    <2>2. Blank(t, y)
      BY <1>4, <2>1 DEF Blank
    <2> QED
      BY <1>8, <2>1, <2>2
  <1>11. ends \subseteq Int
    BY <1>6
  <1>12. FirstToken(s) = IF ends = {} THEN s ELSE SubSeq(s, 1, Min(ends) - 1)
    BY Zenon DEF FirstToken
  <1> HIDE DEF ends
  <1>13. Min(ends) = a
    BY <1>9, <1>10, <1>11, LeastIs
  <1>14. a - 1 = m /\ 1 + m - 1 = m
    BY <1>7
  <1>15. FirstToken(s) = Slice(s, 1, m)
    BY <1>9, <1>12, <1>13, <1>14, Zenon DEF Slice
  <1>16. PICK one \in Nat : one = 1
    OBVIOUS
  <1>17. one >= 1 /\ one + m <= l + 1
    BY <1>1, <1>16
  <1> DEFINE c == Slice(s, one, m)
  <1>18. c \in Tuple(m, S)
    BY <1>3, <1>17, Cut
  <1>19. \A i \in 1..m : c[i] = s[one + i - 1]
    BY <1>3, <1>17, Cut
  <1> HIDE DEF c
  <1>20. \A i \in 1..m : c[i] = t[i]
    <2>1. \A i \in 1..m : one + i - 1 = i
      BY <1>16
    <2> QED
      BY <1>4, <1>19, <2>1
  <1>21. c = t
    BY <1>18, <1>20, SameTuples
  <1> QED
    BY <1>15, <1>16, <1>21 DEF c, s

\* What follows it is the rest.
LEMMA RestIs ==
  ASSUME NEW m \in Nat, NEW n \in Nat, n >= 1, NEW S, "space" \in S, NEW t \in Tuple(m, S), ~Blanks(t),
         NEW r \in Tuple(n, S), ~Blank(r, 1)
  PROVE  AfterToken(Joined(t, Joined(<<"space">>, r))) = r
  <1> DEFINE s == Joined(t, Joined(<<"space">>, r))
             rest == {i \in DOMAIN s : i > Len(FirstToken(s)) /\ s[i] # "space"}
  <1>1. PICK l \in Nat : l = m + n + 1
    OBVIOUS
  <1>2. l >= m + n + 1 /\ l <= m + n + 1
    BY <1>1
  <1>6. FirstToken(s) = t
    BY TokenIs
  <1> HIDE DEF s
  <1>23. IsSpaced(s, l, m, n, S, t, r)
    BY <1>2, SpacedIs DEF s
  <1>3. s \in Tuple(l, S)
    BY <1>23 DEF IsSpaced
  <1>4. Blank(s, m + 1)
    BY <1>23 DEF IsSpaced
  <1>5. \A i \in 1..n : s[m + 1 + i] = r[i]
    BY <1>23 DEF IsSpaced
  <1>7. DOMAIN s = 1..l /\ Len(s) = l
    BY <1>3, TupleItems
  <1>8. Len(t) = m
    BY TupleItems
  <1>9. PICK a \in Nat : a = m + 2
    OBVIOUS
  <1>10. s[a] = r[1]
    <2>1. 1 \in 1..n /\ m + 1 + 1 = a
      BY <1>9
    <2> QED
      BY <1>5, <2>1
  <1>11. a \in rest
    <2>1. a \in 1..l /\ a > m
      BY <1>1, <1>9
    <2>2. s[a] # "space"
      BY <1>10 DEF Blank
    <2> QED
      BY <1>6, <1>7, <1>8, <2>1, <2>2
  <1>12. \A y \in rest : a <= y
    <2> SUFFICES ASSUME NEW y \in 1..l, y > m, s[y] # "space", y < a PROVE FALSE
      BY <1>6, <1>7, <1>8, <1>9
    <2>1. y = m + 1
      BY <1>9
    <2> QED
      BY <1>4, <2>1 DEF Blank
  <1>13. rest \subseteq Int
    BY <1>7
  <1>14. AfterToken(s) = IF rest = {} THEN <<>> ELSE SubSeq(s, Min(rest), Len(s))
    BY Zenon DEF AfterToken
  <1> HIDE DEF rest
  <1>15. Min(rest) = a
    BY <1>11, <1>12, <1>13, LeastIs
  <1>16. a + n - 1 = l
    BY <1>1, <1>9
  <1>17. AfterToken(s) = Slice(s, a, n)
    BY <1>7, <1>11, <1>14, <1>15, <1>16, Zenon DEF Slice
  <1>18. a >= 1 /\ a + n <= l + 1
    BY <1>1, <1>9
  <1> DEFINE c == Slice(s, a, n)
  <1>19. c \in Tuple(n, S)
    BY <1>3, <1>18, Cut
  <1>20. \A i \in 1..n : c[i] = s[a + i - 1]
    BY <1>3, <1>18, Cut
  <1> HIDE DEF c
  <1>21. \A i \in 1..n : c[i] = r[i]
    <2>1. \A i \in 1..n : a + i - 1 = m + 1 + i
      BY <1>9
    <2> QED
      BY <1>5, <1>20, <2>1
  <1>22. c = r
    BY <1>19, <1>21, SameTuples
  <1> QED
    BY <1>17, <1>22 DEF c, s

\* The tokens of the message that the beacon makes.
LEMMA JoinedTwice ==
  ASSUME NEW i \in Nat, NEW j \in Nat, NEW k \in Nat, NEW S,
         NEW a \in Tuple(i, S), NEW b \in Tuple(j, S), NEW c \in Tuple(k, S)
  PROVE  Joined(Joined(a, b), c) = Joined(a, Joined(b, c))
  <1>1. PICK ij \in Nat : ij = i + j
    OBVIOUS
  <1>2. PICK jk \in Nat : jk = j + k
    OBVIOUS
  <1>3. PICK n \in Nat : n = i + j + k
    OBVIOUS
  <1>4. Adds(i, j, ij) /\ Adds(j, k, jk) /\ Adds(ij, k, n) /\ Adds(i, jk, n)
    BY <1>1, <1>2, <1>3 DEF Adds
  <1> DEFINE ab == Joined(a, b)
             bc == Joined(b, c)
             x  == Joined(ab, c)
             y  == Joined(a, bc)
  <1>5. ab \in Tuple(ij, S)
    BY <1>4, JoinedType
  <1>6. \A q \in 1..i : ab[q] = a[q]
    BY JoinedItems
  <1>7. \A q \in 1..j : ab[i + q] = b[q]
    BY JoinedItems
  <1>8. bc \in Tuple(jk, S)
    BY <1>4, JoinedType
  <1>9. \A q \in 1..j : bc[q] = b[q]
    BY JoinedItems
  <1>10. \A q \in 1..k : bc[j + q] = c[q]
    BY JoinedItems
  <1> HIDE DEF ab, bc
  <1>11. x \in Tuple(n, S)
    BY <1>4, <1>5, JoinedType
  <1>12. \A q \in 1..ij : x[q] = ab[q]
    BY <1>5, JoinedItems
  <1>13. \A q \in 1..k : x[ij + q] = c[q]
    BY <1>5, JoinedItems
  <1>14. y \in Tuple(n, S)
    BY <1>4, <1>8, JoinedType
  <1>15. \A q \in 1..i : y[q] = a[q]
    BY <1>8, JoinedItems
  <1>16. \A q \in 1..jk : y[i + q] = bc[q]
    BY <1>8, JoinedItems
  <1> HIDE DEF x, y
  <1>17. ASSUME NEW q \in 1..n PROVE x[q] = y[q]
    <2>1. CASE q <= i
      <3>1. q \in 1..i /\ q \in 1..ij
        BY <1>1, <2>1
      <3> QED
        BY <1>6, <1>12, <1>15, <3>1
    <2>2. CASE q > i /\ q <= i + j
      <3>1. PICK p \in 1..j : p = q - i
        BY <2>2
      <3>2. i + p = q /\ q \in 1..ij /\ p \in 1..jk
        BY <1>1, <1>2, <2>2, <3>1
      <3>3. x[q] = ab[q]
        BY <1>12, <3>2
      <3>4. ab[i + p] = b[p] /\ y[i + p] = bc[p] /\ bc[p] = b[p]
        BY <1>7, <1>9, <1>16, <3>2
      <3> QED
        BY <3>2, <3>3, <3>4
    <2>3. CASE q > i + j
      <3>1. PICK p \in 1..k : p = q - i - j
        BY <1>3, <2>3
      <3>2. PICK r \in 1..jk : r = j + p
        BY <1>2
      <3>3. ij + p = q /\ i + r = q
        BY <1>1, <3>1, <3>2
      <3>4. x[ij + p] = c[p]
        BY <1>13
      <3>5. y[i + r] = bc[r]
        BY <1>16
      <3>6. bc[j + p] = c[p]
        BY <1>10
      <3> QED
        BY <3>2, <3>3, <3>4, <3>5, <3>6
    <2> QED
      BY <2>1, <2>2, <2>3
  <1>18. x = y
    BY <1>11, <1>14, <1>17, SameTuples
  <1> QED
    BY <1>18 DEF x, y, ab, bc

\* The message is "CQ", the callsign and the locator.
LEMMA BufferIs ==
  ASSUME NEW m \in Nat, NEW n \in Nat, NEW S, Marked \subseteq S, NEW c \in Tuple(m, S), NEW l \in Tuple(n, S)
  PROVE  Buffer(c, l) = Joined(<<"C", "Q">>, Joined(<<"space">>, Joined(c, Joined(<<"space">>, l))))
  <1> DEFINE cq  == <<"C", "Q">>
             b   == <<"space">>
             cqb == Joined(cq, b)
  <1>1. PICK one \in Nat : one = 1
    OBVIOUS
  <1>2. PICK two \in Nat : two = 2
    OBVIOUS
  <1>3. "C" \in S /\ "Q" \in S /\ "space" \in S
    BY DEF Marked
  <1>4. cq \in Tuple(two, S) /\ b \in Tuple(one, S)
    BY <1>1, <1>2, <1>3 DEF Tuple
  <1>5. Buffer(c, l) = Joined(Joined(Joined(cqb, c), b), l)
    <2>1. <<"C", "Q", "space">> = <<"C", "Q">> \o <<"space">>
      OBVIOUS
    <2> QED
      BY <2>1, Zenon DEF Buffer, Joined
  <1> HIDE DEF cq, b
  <1>6. PICK m1 \in Nat : m1 = m + 1
    OBVIOUS
  <1>7. PICK n1 \in Nat : n1 = n + 1
    OBVIOUS
  <1>8. PICK n2 \in Nat : n2 = m + n1
    OBVIOUS
  <1>9. PICK three \in Nat : three = 3
    OBVIOUS
  <1>10. PICK k \in Nat : k = 3 + m
    OBVIOUS
  <1>11. Adds(two, one, three) /\ Adds(three, m, k) /\ Adds(one, n, n1) /\ Adds(m, n1, n2)
    BY <1>1, <1>2, <1>7, <1>8, <1>9, <1>10 DEF Adds
  <1>12. cqb \in Tuple(three, S)
    BY <1>4, <1>11, JoinedType
  <1> DEFINE cb == Joined(cqb, c)
             bl == Joined(b, l)
             t  == Joined(c, bl)
  <1> HIDE DEF cqb
  <1>13. cb \in Tuple(k, S)
    BY <1>11, <1>12, JoinedType
  <1>14. bl \in Tuple(n1, S)
    BY <1>4, <1>11, JoinedType
  <1> HIDE DEF cb, bl
  <1>15. t \in Tuple(n2, S)
    BY <1>11, <1>14, JoinedType
  <1>16. Joined(Joined(cb, b), l) = Joined(cb, bl)
    BY <1>4, <1>13, JoinedTwice DEF bl
  <1>17. Joined(Joined(cqb, c), bl) = Joined(cqb, t)
    BY <1>12, <1>14, JoinedTwice
  <1> HIDE DEF t
  <1>18. Joined(Joined(cq, b), t) = Joined(cq, Joined(b, t))
    BY <1>4, <1>15, JoinedTwice
  <1> QED
    BY <1>5, <1>16, <1>17, <1>18, Zenon DEF cb, cqb, cq, b, t, bl

LEMMA AfterTokenLen ==
  ASSUME NEW s \in Text
  PROVE  Len(AfterToken(s)) <= Len(s)
  <1> DEFINE rest == {i \in DOMAIN s : i > Len(FirstToken(s)) /\ s[i] # "space"}
             r == AfterToken(s)
  <1>1. r = IF rest = {} THEN <<>> ELSE SubSeq(s, Min(rest), Len(s))
    BY Zenon DEF AfterToken
  <1>2. rest \in SUBSET Nat /\ rest \subseteq 1..Len(s) /\ Len(s) \in Nat
    BY LenType
  <1>3. CASE rest = {}
    <2>1. r = <<>>
      BY <1>1, <1>3, Zenon
    <2> HIDE DEF r
    <2>2. Len(r) <= Len(s)
      <3>1. Len(<<>>) = 0
        OBVIOUS
      <3> QED
        BY <1>2, <2>1, <3>1
    <2> QED
      BY <2>2 DEF r
  <1>4. CASE rest # {}
    <2>1. Min(rest) \in rest
      BY <1>2, <1>4, LeastNumber
    <2>2. PICK m \in 1..Len(s) : m = Min(rest)
      BY <1>2, <2>1
    <2> HIDE DEF rest
    <2>3. PICK b \in Int : b = Len(s)
      BY <1>2
    <2>4. m \in Int /\ m >= 1 /\ b <= Len(s)
      BY <2>3
    <2>5. Len(SubSeq(s, m, b)) = IF m <= b THEN b - m + 1 ELSE 0
      BY <2>4, PartIs, Zenon
    <2>6. r = SubSeq(s, m, b)
      BY <1>1, <1>4, <2>2, <2>3, Zenon
    <2> HIDE DEF r
    <2>7. Len(r) = IF m <= b THEN b - m + 1 ELSE 0
      BY <2>5, <2>6, Zenon
    <2>8. Len(r) <= Len(s)
      BY <2>3, <2>7
    <2> QED
      BY <2>8 DEF r
  <1> QED
    BY <1>3, <1>4

\* ftx_message_encode finds the callsign and the locator in it.
LEMMA BufferTokens ==
  ASSUME NEW m \in Nat, NEW n \in Nat, NEW S, Marked \subseteq S, NEW c \in Tuple(m, S), NEW l \in Tuple(n, S),
         m >= 1, ~Blanks(c)
  PROVE  /\ FirstToken(Buffer(c, l)) = <<"C", "Q">>
         /\ FirstToken(AfterToken(Buffer(c, l))) = c
         /\ n >= 1 /\ ~Blank(l, 1) => AfterToken(AfterToken(Buffer(c, l))) = l
  <1> DEFINE cq == <<"C", "Q">>
             bl == Joined(<<"space">>, l)
             t  == Joined(c, bl)
             s  == Joined(cq, Joined(<<"space">>, t))
  <1>1. Buffer(c, l) = s
    BY BufferIs
  <1>2. PICK one \in Nat : one = 1
    OBVIOUS
  <1>3. PICK two \in Nat : two = 2
    OBVIOUS
  <1>4. "C" \in S /\ "Q" \in S /\ "space" \in S
    BY DEF Marked
  <1>5. cq \in Tuple(two, S) /\ <<"space">> \in Tuple(one, S)
    BY <1>2, <1>3, <1>4 DEF Tuple
  <1>6. ~Blanks(cq)
    <2>1. DOMAIN cq = 1..2 /\ cq[1] = "C" /\ cq[2] = "Q"
      OBVIOUS
    <2> HIDE DEF cq
    <2>2. \A i \in 1..2 : i = 1 \/ i = 2
      OBVIOUS
    <2>3. "C" # "space" /\ "Q" # "space"
      OBVIOUS
    <2> QED
      BY <2>1, <2>2, <2>3 DEF Blanks, Blank
  <1>7. PICK n1 \in Nat : n1 = n + 1
    OBVIOUS
  <1>8. PICK n2 \in Nat : n2 = m + n1
    OBVIOUS
  <1>9. Adds(one, n, n1) /\ Adds(m, n1, n2) /\ n2 >= 1
    BY <1>2, <1>7, <1>8 DEF Adds
  <1>10. bl \in Tuple(n1, S)
    BY <1>5, <1>9, JoinedType
  <1>11. t \in Tuple(n2, S)
    <2> HIDE DEF bl
    <2> QED
      BY <1>9, <1>10, JoinedType
  <1>12. ~Blank(t, 1)
    <2> HIDE DEF bl
    <2>1. \A i \in 1..m : t[i] = c[i]
      BY <1>10, JoinedItems
    <2>2. DOMAIN c = 1..m /\ 1 \in 1..m
      BY TupleItems
    <2>3. ~Blank(c, 1)
      BY <2>2, Zenon DEF Blanks
    <2> HIDE DEF t
    <2> QED
      BY <2>1, <2>2, <2>3 DEF Blank
  <1>13. FirstToken(t) = c
    BY <1>4, TokenIs
  <1>14. n >= 1 /\ ~Blank(l, 1) => AfterToken(t) = l
    BY <1>4, RestIs
  <1> HIDE DEF t, cq
  <1>15. FirstToken(s) = cq
    BY <1>4, <1>5, <1>6, <1>11, TokenIs
  <1>16. AfterToken(s) = t
    BY <1>4, <1>5, <1>6, <1>9, <1>11, <1>12, RestIs
  <1> HIDE DEF s
  <1> QED
    BY <1>1, <1>13, <1>14, <1>15, <1>16, Zenon DEF cq

\* What pack28 makes of "CQ", and of a callsign, as a receiver reads it.
LEMMA TokensAre ==
  ASSUME NEW t
  PROVE  /\ nchar(t, Tokens) \in -1..2
         /\ Contains(Tokens, t) <=> nchar(t, Tokens) >= 0
         /\ Contains(Tokens, t) => Tokens[nchar(t, Tokens) + 1] = t
  <1>1. PICK n \in Nat : n = 3
    OBVIOUS
  <1>2. Len(Tokens) = n /\ DOMAIN Tokens = 1..n
    BY <1>1 DEF Tokens
  <1>3. nchar(t, Tokens) \in -1..(n - 1)
    BY <1>2, NcharIs
  <1>4. Contains(Tokens, t) <=> nchar(t, Tokens) >= 0
    BY <1>2, NcharIs
  <1>5. Contains(Tokens, t) => charn(nchar(t, Tokens), Tokens) = t
    BY <1>2, NcharIs
  <1>6. charn(nchar(t, Tokens), Tokens) = Tokens[nchar(t, Tokens) + 1]
    BY Zenon DEF charn
  <1> QED
    BY <1>1, <1>3, <1>4, <1>5, <1>6

\* "CQ" is packed as a token and read as it.
LEMMA CqBack ==
  ASSUME NEW n22, NEW i3
  PROVE  /\ pack28(<<"C", "Q">>, n22).n28 \in Nat
         /\ pack28(<<"C", "Q">>, n22).n28 < Powers[29]
         /\ pack28(<<"C", "Q">>, n22).ip \in {0, 1}
         /\ unpack28(pack28(<<"C", "Q">>, n22).n28, pack28(<<"C", "Q">>, n22).ip, i3) = <<"C", "Q">>
  <1> DEFINE cq == <<"C", "Q">>
             p  == pack28(cq, n22)
             n  == nchar(cq, Tokens)
             q  == [n28 |-> n, ip |-> 0]
  <1>1. Contains(Tokens, cq)
    <2>1. Tokens[3] = cq /\ Len(Tokens) = 3
      BY DEF Tokens
    <2>2. 3 \in 1..Len(Tokens)
      BY <2>1
    <2> QED
      BY <2>1, <2>2, Zenon DEF Contains
  <1>2. p = q
    BY <1>1, Zenon DEF pack28
  <1> HIDE DEF cq, p
  <1>3. n \in -1..2
    BY TokensAre
  <1>4. n >= 0
    BY <1>1, TokensAre
  <1>5. Tokens[n + 1] = cq
    BY <1>1, TokensAre
  <1> HIDE DEF n
  <1>6. p.n28 = n /\ p.ip = 0
    BY <1>2
  <1>7. n \in Nat /\ n <= 2 /\ n < Powers[29]
    BY <1>3, <1>4 DEF Powers
  <1>8. unpack28(n, 0, i3) = cq
    BY <1>5, <1>7, Zenon DEF unpack28
  <1> QED
    BY <1>6, <1>7, <1>8 DEF cq, p

\* The suffix of a callsign, and what stands before it.
Before(c, m) == m - (IF HasSuffix(c) THEN 2 ELSE 0)

\* A suffix is packed as a flag and the type of the message, and put back.
LEMMA SuffixBack ==
  ASSUME NEW m \in Nat, NEW S, Marked \subseteq S, NEW c \in Tuple(m, S), NEW i3 \in {1, 2},
         IsSuffix(<<"/", "P">>, c) => i3 = 2, IsSuffix(<<"/", "R">>, c) => i3 = 1
  PROVE  /\ Before(c, m) \in Nat /\ Before(c, m) <= m
         /\ Slice(c, 1, Before(c, m))
              \o (IF (IF HasSuffix(c) THEN 1 ELSE 0) = 0 THEN <<>> ELSE <<"/", IF i3 = 1 THEN "R" ELSE "P">>) = c
  <1>1. "/" \in S /\ "P" \in S /\ "R" \in S
    BY DEF Marked
  <1>2. IsSuffix(<<"/", "P">>, c) <=> m >= 2 /\ c[m - 1] = "/" /\ c[m] = "P"
    BY <1>1, SuffixIs
  <1>3. IsSuffix(<<"/", "R">>, c) <=> m >= 2 /\ c[m - 1] = "/" /\ c[m] = "R"
    BY <1>1, SuffixIs
  <1>4. HasSuffix(c) <=> IsSuffix(<<"/", "P">>, c) \/ IsSuffix(<<"/", "R">>, c)
    BY Zenon DEF HasSuffix
  <1>5. CASE HasSuffix(c)
    <2>1. PICK k \in Nat : k = m - 2
      BY <1>2, <1>3, <1>4, <1>5
    <2>2. PICK two \in Nat : two = 2
      OBVIOUS
    <2>3. PICK x \in {"P", "R"} : c[m] = x /\ c[m - 1] = "/" /\ x = IF i3 = 1 THEN "R" ELSE "P"
      BY <1>2, <1>3, <1>4, <1>5
    <2> DEFINE t == <<"/", x>>
               b == Slice(c, 1, k)
    <2>4. t \in Tuple(two, S) /\ t[1] = "/" /\ t[2] = x
      BY <1>1, <2>2 DEF Tuple
    <2> HIDE DEF t
    <2>5. k <= m /\ Adds(k, two, m)
      BY <2>1, <2>2 DEF Adds
    <2>6. PICK a \in Nat : a = 1
      OBVIOUS
    <2>7. a >= 1 /\ a + k <= m + 1
      BY <2>1, <2>6
    <2>8. b \in Tuple(k, S)
      <3>1. Slice(c, a, k) \in Tuple(k, S)
        BY <2>7, Cut
      <3> QED
        BY <2>6, <3>1
    <2>9. \A i \in 1..k : b[i] = c[i]
      <3>1. \A i \in 1..k : Slice(c, a, k)[i] = c[a + i - 1]
        BY <2>7, Cut
      <3>2. \A i \in 1..k : a + i - 1 = i
        BY <2>6
      <3> QED
        BY <2>6, <3>1, <3>2
    <2> HIDE DEF b
    <2>10. \A i \in 1..two : t[i] = c[k + i]
      <3>1. \A i \in 1..two : i = 1 \/ i = 2
        BY <2>2
      <3>2. k + 1 = m - 1 /\ k + 2 = m
        BY <2>1
      <3> QED
        BY <2>3, <2>4, <3>1, <3>2
    <2>11. Joined(b, t) = Slice(c, 1, m)
      <3>1. m <= m
        OBVIOUS
      <3> QED
        BY <2>4, <2>5, <2>8, <2>9, <2>10, <3>1, Split
    <2>12. Slice(c, 1, m) = c
      BY CutWhole
    <2>13. Before(c, m) = k
      BY <1>5, <2>1 DEF Before
    <2>14. (IF (IF HasSuffix(c) THEN 1 ELSE 0) = 0 THEN <<>> ELSE <<"/", IF i3 = 1 THEN "R" ELSE "P">>) = t
      <3>1. ~(1 = 0)
        OBVIOUS
      <3> QED
        BY <1>5, <2>3, <3>1, Zenon DEF t
    <2>15. b \o t = c
      BY <2>11, <2>12, Zenon DEF Joined
    <2> QED
      BY <2>5, <2>13, <2>14, <2>15, Zenon DEF b
  <1>6. CASE ~HasSuffix(c)
    <2>1. Before(c, m) = m
      BY <1>6 DEF Before
    <2>2. Slice(c, 1, m) = c
      BY CutWhole
    <2>3. (IF (IF HasSuffix(c) THEN 1 ELSE 0) = 0 THEN <<>> ELSE <<"/", IF i3 = 1 THEN "R" ELSE "P">>) = <<>>
      BY <1>6, Zenon
    <2>4. c \o <<>> = c
      <3>1. c \in Seq(S)
        BY TupleItems
      <3> QED
        BY <3>1, ConcatEmptySeq
    <2>5. m <= m
      OBVIOUS
    <2> QED
      BY <2>1, <2>2, <2>3, <2>4, <2>5, Zenon
  <1> QED
    BY <1>5, <1>6

LEMMA RangesAre ==
  /\ NTOKENS \in Nat /\ NTOKENS > 2 /\ MAX22 \in Nat
  /\ NTOKENS + MAX22 < Powers[29] /\ Powers[29] \in Int
  BY DEF NTOKENS, MAX22, Powers

\* A callsign that is no token and has no spaces is read as it is, or is known
\* to be unknown; with a number of its own it is read.
LEMMA CallBack ==
  ASSUME NEW m \in Nat, NEW S, Marked \subseteq S, NEW c \in Tuple(m, S), ~Blanks(c),
         ~(c[1] = "3" /\ c[2] = "D" /\ c[3] = "0"), ~(c[1] = "Q" /\ is_letter(c[2])), ~Contains(Tokens, c),
         NEW i3 \in {1, 2}, IsSuffix(<<"/", "P">>, c) => i3 = 2, IsSuffix(<<"/", "R">>, c) => i3 = 1,
         NEW n22 \in 0..(MAX22 - 1), pack28(c, n22).n28 >= 0
  PROVE  /\ pack28(c, n22).n28 \in Nat
         /\ pack28(c, n22).n28 < Powers[29]
         /\ pack28(c, n22).ip \in {0, 1}
         /\ unpack28(pack28(c, n22).n28, pack28(c, n22).ip, i3) \in {c, Unknown}
         /\ pack_basecall(c, Before(c, m)) >= 0
              => unpack28(pack28(c, n22).n28, pack28(c, n22).ip, i3) = c
  <1> DEFINE p  == pack28(c, n22)
             u  == unpack28(p.n28, p.ip, i3)
             n  == pack_basecall(c, Before(c, m))
             ip == IF HasSuffix(c) THEN 1 ELSE 0
             std  == [n28 |-> NTOKENS + MAX22 + n, ip |-> ip]
             hash == [n28 |-> NTOKENS + n22, ip |-> 0]
  <1>1. Len(c) = m
    BY TupleItems
  <1>2. /\ n >= 0 => p \in {NoPack, std}
        /\ ~(n >= 0) => p \in {NoPack, hash}
    BY <1>1, Zenon DEF pack28, Before
  <1>3. p # NoPack
    <2>1. NoPack.n28 = -1
      BY DEF NoPack
    <2> HIDE DEF p
    <2>2. p.n28 >= 0
      BY DEF p
    <2>3. ~(-1 >= 0)
      OBVIOUS
    <2> QED
      BY <2>1, <2>2, <2>3, Zenon
  <1>4. p.n28 \in Int /\ p.ip \in {0, 1}
    <2>1. n22 \in Int
      BY RangesAre
    <2> QED
      BY <2>1, Pack28Type
  <1>5. p.n28 >= 0
    OBVIOUS
  <1> HIDE DEF p
  <1>6. PICK a \in Nat : a = NTOKENS /\ a > 2
    BY RangesAre
  <1>7. PICK b \in Nat : b = MAX22
    BY RangesAre
  <1>8. a + b < Powers[29] /\ Powers[29] \in Int
    BY <1>6, <1>7, RangesAre
  <1>9. Before(c, m) \in Nat /\ Before(c, m) <= m
    BY SuffixBack
  <1>10. Slice(c, 1, Before(c, m)) \o (IF ip = 0 THEN <<>> ELSE <<"/", IF i3 = 1 THEN "R" ELSE "P">>) = c
    BY SuffixBack
  <1> HIDE DEF n, ip
  <1>11. CASE n >= 0
    <2>1. p = std
      BY <1>2, <1>3, <1>11, Zenon
    <2>2. Before(c, m) \in Int
      BY <1>9
    <2>3. n \in Nat
      BY <1>9, <1>11, <2>2, BasecallBack DEF n
    <2>4. NTOKENS + MAX22 + n < Powers[29]
      BY <1>9, <1>11, <2>2, BasecallBack DEF n
    <2>5. SixCall(SixOf(n)) = Slice(c, 1, Before(c, m))
      BY <1>9, <1>11, <2>2, BasecallBack DEF n
    <2>6. PICK q \in Nat : q = a + b + n
      BY <2>3
    <2>7. p.n28 = q /\ p.ip = ip
      BY <1>6, <1>7, <2>1, <2>6
    <2>8. q < Powers[29]
      BY <1>6, <1>7, <2>4, <2>6
    <2>9. ~(q <= 2) /\ ~(q < a) /\ ~(q < a + b) /\ q - a - b = n
      BY <1>6, <2>3, <2>6
    <2>10. unpack28(q, ip, i3) = SixCall(SixOf(n)) \o (IF ip = 0 THEN <<>> ELSE <<"/", IF i3 = 1 THEN "R" ELSE "P">>)
      BY <1>6, <1>7, <2>9, Zenon DEF unpack28
    <2>11. u = c
      BY <1>10, <2>5, <2>7, <2>10, Zenon
    <2> HIDE DEF u
    <2> QED
      BY <1>4, <2>6, <2>7, <2>8, <2>11 DEF p, u, n
  <1>12. CASE ~(n >= 0)
    <2>1. p = hash
      BY <1>2, <1>3, <1>12, Zenon
    <2>2. PICK q \in Nat : q = a + n22
      BY <1>6, <1>7
    <2>3. p.n28 = q /\ p.ip = 0
      BY <1>6, <2>1, <2>2
    <2>4. ~(q <= 2) /\ ~(q < a) /\ q < a + b
      BY <1>6, <1>7, <2>2
    <2>5. q < Powers[29]
      BY <1>8, <2>4
    <2>6. unpack28(q, 0, i3) = Unknown
      BY <1>6, <1>7, <2>4, Zenon DEF unpack28
    <2>7. u = Unknown
      BY <2>3, <2>6, Zenon
    <2> HIDE DEF u
    <2> QED
      BY <1>4, <1>12, <2>2, <2>3, <2>5, <2>7 DEF p, u, n
  <1> QED
    BY <1>11, <1>12

\* A callsign in the store, as a tuple of characters.
Written == Characters \cup Marked \cup {"underscore"}

\* What the store may hold.
LEMMA StoredAre ==
  ASSUME NEW c \in Callsigns, NEW l \in Locators
  PROVE  /\ Len(c) \in Nat /\ Len(c) <= 11 /\ c \in Text /\ c \in Tuple(Len(c), Written)
         /\ Len(l) \in Nat /\ Len(l) <= 6 /\ l \in Text /\ l \in Tuple(Len(l), Written)
         /\ Marked \subseteq Written
  <1>1. c \in Seq(Characters) /\ Len(c) <= 11
    BY Ft8PacketAssumption, Zenon
  <1>2. l \in Seq(Characters) /\ Len(l) <= 6
    BY Ft8PacketAssumption, Zenon
  <1>3. Len(c) \in Nat /\ Len(l) \in Nat
    BY <1>1, <1>2
  <1>4. c \in Seq(Written) /\ l \in Seq(Written)
    BY <1>1, <1>2 DEF Written
  <1>5. c \in Tuple(Len(c), Written) /\ l \in Tuple(Len(l), Written)
    BY <1>3, <1>4, TupleMade
  <1>6. Marked \subseteq Written
    BY DEF Written
  <1> QED
    BY <1>1, <1>2, <1>3, <1>5, <1>6, Zenon DEF Text

\* The tokens of the message, as ftx_message_encode takes them.
LEMMA TokensOfBuffer ==
  ASSUME NEW c \in Callsigns, NEW l \in Locators, Len(c) >= 1, ~Blanks(c)
  PROVE  /\ FirstToken(Buffer(c, l)) = <<"C", "Q">>
         /\ FirstToken(AfterToken(Buffer(c, l))) = c
         /\ Len(FirstToken(AfterToken(AfterToken(Buffer(c, l))))) <= 19
         /\ FirstToken(AfterToken(AfterToken(Buffer(c, l)))) \in Text
         /\ Len(l) >= 1 /\ ~Blank(l, 1) => AfterToken(AfterToken(Buffer(c, l))) = l
  <1>1. /\ Len(c) \in Nat /\ Len(c) <= 11 /\ c \in Text /\ c \in Tuple(Len(c), Written)
        /\ Len(l) \in Nat /\ Len(l) <= 6 /\ l \in Text /\ l \in Tuple(Len(l), Written)
        /\ Marked \subseteq Written
    BY StoredAre
  <1>2. PICK m \in Nat : m = Len(c)
    BY <1>1
  <1>3. PICK n \in Nat : n = Len(l)
    BY <1>1
  <1>4. c \in Tuple(m, Written) /\ l \in Tuple(n, Written) /\ m >= 1
    BY <1>1, <1>2, <1>3
  <1>5. FirstToken(Buffer(c, l)) = <<"C", "Q">>
    BY <1>1, <1>4, BufferTokens
  <1>6. FirstToken(AfterToken(Buffer(c, l))) = c
    BY <1>1, <1>4, BufferTokens
  <1>7. n >= 1 /\ ~Blank(l, 1) => AfterToken(AfterToken(Buffer(c, l))) = l
    BY <1>1, <1>4, BufferTokens
  <1> DEFINE text == Buffer(c, l)
  <1>8. text \in Text /\ Len(text) <= 21
    <2>1. {"C", "Q", "space"} \subseteq Characters
      BY Ft8PacketAssumption, Zenon
    <2>2. text \in Seq(Characters)
      BY <1>1, <2>1 DEF Buffer, Text
    <2>3. Len(text) = 3 + m + 1 + n
      BY <1>1, <1>2, <1>3 DEF Buffer, Text
    <2> HIDE DEF text
    <2>4. Len(text) <= 21
      BY <1>1, <1>2, <1>3, <2>3
    <2> QED
      BY <2>2, <2>4 DEF Text
  <1> HIDE DEF text
  <1> DEFINE rest  == AfterToken(text)
             rest2 == AfterToken(rest)
             extra == FirstToken(rest2)
  <1>9. rest \in Text
    BY <1>8, AfterTokenType
  <1>10. rest2 \in Text
    BY <1>9, AfterTokenType
  <1>11. extra \in Text
    BY <1>10, FirstTokenType
  <1>12. Len(extra) <= Len(rest2)
    BY <1>10, FirstTokenType
  <1>13. Len(rest2) <= Len(rest)
    BY <1>9, AfterTokenLen
  <1>14. Len(rest) <= 18
    <2> DEFINE t == Joined(c, Joined(<<"space">>, l))
               w == <<"C", "Q">>
    <2>1. PICK k \in Nat : k = m + n + 1
      OBVIOUS
    <2>2. "space" \in Written /\ "C" \in Written /\ "Q" \in Written
      BY DEF Written, Marked
    <2>3. k >= m + n + 1 /\ k <= m + n + 1
      BY <2>1
    <2>4. IsSpaced(t, k, m, n, Written, c, l)
      BY <1>4, <2>2, <2>3, SpacedIs
    <2> HIDE DEF t
    <2>5. t \in Tuple(k, Written) /\ \A i \in 1..m : t[i] = c[i]
      BY <2>4 DEF IsSpaced
    <2>6. ~Blank(t, 1)
      <3>1. DOMAIN c = 1..m /\ 1 \in 1..m
        BY <1>4, TupleItems
      <3>2. ~Blank(c, 1)
        BY <3>1, Zenon DEF Blanks
      <3> QED
        BY <2>5, <3>1, <3>2 DEF Blank
    <2>7. PICK two \in Nat : two = 2
      OBVIOUS
    <2>8. w \in Tuple(two, Written)
      BY <2>2, <2>7 DEF Tuple
    <2>9. ~Blanks(w)
      <3>1. DOMAIN w = 1..2 /\ w[1] = "C" /\ w[2] = "Q"
        OBVIOUS
      <3> HIDE DEF w
      <3>2. \A i \in 1..2 : i = 1 \/ i = 2
        OBVIOUS
      <3>3. "C" # "space" /\ "Q" # "space"
        OBVIOUS
      <3> QED
        BY <3>1, <3>2, <3>3 DEF Blanks, Blank
    <2> HIDE DEF w
    <2>10. k >= 1
      BY <1>4, <2>1
    <2>11. AfterToken(Joined(w, Joined(<<"space">>, t))) = t
      BY <2>2, <2>5, <2>6, <2>8, <2>9, <2>10, RestIs
    <2>12. text = Joined(w, Joined(<<"space">>, t))
      BY <1>1, <1>4, BufferIs DEF text, w, t
    <2>13. rest = t
      BY <2>11, <2>12, Zenon
    <2>14. Len(t) = k
      BY <2>5, TupleItems
    <2> QED
      BY <1>1, <1>2, <1>3, <2>1, <2>13, <2>14
  <1>15. Len(extra) <= 19
    <2>1. Len(extra) \in Nat /\ Len(rest2) \in Nat /\ Len(rest) \in Nat
      BY <1>9, <1>10, <1>11, LenType
    <2> QED
      BY <1>12, <1>13, <1>14, <2>1
  <1> QED
    BY <1>3, <1>5, <1>6, <1>7, <1>11, <1>15, Zenon DEF text

\* The locator's field is in its place.
GridIn(p, grid) == \A i \in 1..16 : p[58 + i] = Bits(grid, 16)[i]

\* The field of the locator.
LEMMA GridPut ==
  ASSUME NEW a, NEW b, NEW grid \in Int, NEW i3 \in Int,
         a.n28 \in Int, a.ip \in {0, 1}, b.n28 \in Int, b.ip \in {0, 1}
  PROVE  GridIn(StdBits(a, b, grid, i3), grid)
  <1>1. \A i \in 1..16 : StdBits(a, b, grid, i3)[58 + i] = Bits(grid, 16)[i]
    BY StdBitsAre
  <1> QED
    BY <1>1, Zenon DEF GridIn

\* What a receiver makes of the standard message "CQ <callsign> <locator>".
Extra(c, l) == FirstToken(AfterToken(AfterToken(Buffer(c, l))))

StandardHeard(c, l, p) ==
  \E heard :
    /\ ftx_message_decode(p) = <<<<"C", "Q">>, heard, unpackgrid(Value(Slice(p, 60, 15)), p[59])>>
    /\ heard \in {c, Unknown}
    /\ pack_basecall(c, Before(c, Len(c))) >= 0 => heard = c
    /\ GridIn(p, packgrid(Extra(c, l)))

\* A callsign that has a number or a hash goes out in a standard message, and
\* is heard as it is or as unknown.
LEMMA StandardMessage ==
  ASSUME NEW c \in Callsigns, NEW l \in Locators, NEW n22 \in Hashes, Len(c) >= 1, ~Blanks(c),
         ~(c[1] = "3" /\ c[2] = "D" /\ c[3] = "0"), ~(c[1] = "Q" /\ is_letter(c[2])), ~Contains(Tokens, c),
         pack28(c, n22).n28 >= 0, NEW p \in Made(c, l, n22)
  PROVE  p \in Tuple(77, Bit) /\ StandardHeard(c, l, p)
  <1>1. /\ Len(c) \in Nat /\ Len(c) <= 11 /\ c \in Tuple(Len(c), Written)
        /\ Marked \subseteq Written
    BY StoredAre
  <1>2. PICK m \in Nat : m = Len(c)
    BY <1>1
  <1>3. c \in Tuple(m, Written)
    BY <1>1, <1>2
  <1> DEFINE text == Buffer(c, l)
             to   == <<"C", "Q">>
             extra == Extra(c, l)
             a    == pack28(to, n22)
             b    == pack28(c, n22)
             std  == ftx_message_encode_std(to, c, extra, n22)
  <1>4. FirstToken(text) = to /\ FirstToken(AfterToken(text)) = c
    BY TokensOfBuffer
  <1>5. Len(extra) <= 19
    BY TokensOfBuffer DEF Extra
  <1>6. extra \in Text
    BY TokensOfBuffer DEF Extra
  <1>7. ftx_message_encode(text, n22)
          = IF Len(to) > 11 \/ Len(c) > 11 \/ Len(extra) > 19 THEN Failed
            ELSE IF std.ok THEN std
            ELSE ftx_message_encode_nonstd(to, c)
    BY <1>4, Zenon DEF ftx_message_encode, Extra
  <1> HIDE DEF text, extra
  <1>8. ~(Len(to) > 11) /\ ~(Len(c) > 11) /\ ~(Len(extra) > 19)
    <2>1. Len(to) = 2
      OBVIOUS
    <2>2. Len(extra) \in Nat
      BY <1>6, LenType
    <2> QED
      BY <1>1, <1>5, <2>1, <2>2
  <1>9. PICK i3 \in {1, 2} : i3 = IF Portable(to, c) THEN 2 ELSE 1
    OBVIOUS
  <1>10. ~IsSuffix(<<"/", "P">>, to) /\ ~IsSuffix(<<"/", "R">>, to)
    <2>1. PICK two \in Nat : two = 2
      OBVIOUS
    <2>2. "C" \in Written /\ "Q" \in Written /\ "/" \in Written /\ "P" \in Written /\ "R" \in Written
      BY DEF Written, Marked
    <2>3. to \in Tuple(two, Written) /\ to[1] = "C"
      BY <2>1, <2>2 DEF Tuple
    <2> HIDE DEF to
    <2>4. to[two - 1] # "/"
      <3>1. two - 1 = 1 /\ "C" # "/"
        BY <2>1
      <3> QED
        BY <2>3, <3>1
    <2>5. ~IsSuffix(<<"/", "P">>, to)
      BY <2>2, <2>3, <2>4, SuffixIs
    <2>6. ~IsSuffix(<<"/", "R">>, to)
      BY <2>2, <2>3, <2>4, SuffixIs
    <2> QED
      BY <2>5, <2>6
  <1>11. Portable(to, c) <=> IsSuffix(<<"/", "P">>, c)
    BY <1>10, Zenon DEF Portable
  <1>12. Rover(to, c) <=> IsSuffix(<<"/", "R">>, c)
    BY <1>10, Zenon DEF Rover
  <1>13. ~(IsSuffix(<<"/", "P">>, c) /\ IsSuffix(<<"/", "R">>, c))
    <2>1. "/" \in Written /\ "P" \in Written /\ "R" \in Written
      BY DEF Written, Marked
    <2>2. IsSuffix(<<"/", "P">>, c) <=> m >= 2 /\ c[m - 1] = "/" /\ c[m] = "P"
      BY <1>3, <2>1, SuffixIs
    <2>3. IsSuffix(<<"/", "R">>, c) <=> m >= 2 /\ c[m - 1] = "/" /\ c[m] = "R"
      BY <1>3, <2>1, SuffixIs
    <2>4. "P" # "R"
      OBVIOUS
    <2> QED
      BY <2>2, <2>3, <2>4
  <1>14. IsSuffix(<<"/", "P">>, c) => i3 = 2
    BY <1>9, <1>11
  <1>15. IsSuffix(<<"/", "R">>, c) => i3 = 1
    BY <1>9, <1>11, <1>13
  <1>16. n22 \in 0..(MAX22 - 1)
    BY Ft8PacketAssumption, Zenon
  <1>17. a.n28 \in Nat /\ a.n28 < Powers[29] /\ a.ip \in {0, 1}
    BY CqBack
  <1>18. unpack28(a.n28, a.ip, i3) = to
    BY CqBack
  <1>19. b.n28 \in Nat
    BY <1>1, <1>3, <1>14, <1>15, <1>16, CallBack
  <1>20. b.n28 < Powers[29]
    BY <1>1, <1>3, <1>14, <1>15, <1>16, CallBack
  <1>21. b.ip \in {0, 1}
    BY <1>1, <1>3, <1>14, <1>15, <1>16, CallBack
  <1> DEFINE heard == unpack28(b.n28, b.ip, i3)
  <1>22. heard \in {c, Unknown}
    BY <1>1, <1>3, <1>14, <1>15, <1>16, CallBack
  <1>23. pack_basecall(c, Before(c, m)) >= 0 => heard = c
    BY <1>1, <1>3, <1>14, <1>15, <1>16, CallBack
  <1>24. PICK grid \in Int : grid = packgrid(extra)
    BY <1>6, PackgridType
  <1> HIDE DEF to, a, b
  <1>25. std.ok
    <2>1. std.ok <=> ~(a.n28 < 0 \/ b.n28 < 0 \/ (Portable(to, c) /\ Rover(to, c)))
      BY EncodeStdIs, Zenon DEF a, b
    <2>2. ~(a.n28 < 0) /\ ~(b.n28 < 0)
      BY <1>17, <1>19
    <2> QED
      BY <1>11, <1>12, <1>13, <2>1, <2>2, Zenon
  <1>26. std.bits = StdBits(a, b, grid, i3)
    BY <1>9, <1>24, <1>25, EncodeStdIs, Zenon DEF a, b
  <1> HIDE DEF std
  <1>27. ftx_message_encode(text, n22) = std
    BY <1>7, <1>8, <1>25, Zenon
  <1>28. p = StdBits(a, b, grid, i3)
    <2>1. p \in {std.bits}
      BY <1>25, <1>27, Zenon DEF Made, text
    <2> QED
      BY <1>26, <2>1, Zenon
  <1>29. p \in Tuple(77, Bit)
    BY MadeType
  <1>30. ftx_message_decode(p) = <<unpack28(a.n28, a.ip, i3), unpack28(b.n28, b.ip, i3),
                                   unpackgrid(Value(Slice(p, 60, 15)), p[59])>>
    BY <1>17, <1>19, <1>20, <1>21, <1>28, StdDecodes
  <1>31. GridIn(StdBits(a, b, grid, i3), grid)
    <2>1. i3 \in Int
      OBVIOUS
    <2>2. PICK x, y : x = a /\ y = b
      OBVIOUS
    <2>3. x.n28 \in Int /\ x.ip \in {0, 1}
      BY <1>17, <2>2
    <2>4. y.n28 \in Int /\ y.ip \in {0, 1}
      BY <1>19, <1>21, <2>2
    <2>5. GridIn(StdBits(x, y, grid, i3), grid)
      BY <2>1, <2>3, <2>4, GridPut
    <2> QED
      BY <2>2, <2>5, Zenon
  <1>32. GridIn(p, packgrid(extra))
    BY <1>24, <1>28, <1>31, Zenon
  <1> HIDE DEF heard
  <1>33. ftx_message_decode(p) = <<to, heard, unpackgrid(Value(Slice(p, 60, 15)), p[59])>>
    BY <1>18, <1>30, Zenon DEF heard
  <1>34. StandardHeard(c, l, p)
    BY <1>2, <1>22, <1>23, <1>32, <1>33, Zenon DEF StandardHeard, to, extra
  <1> QED
    BY <1>29, <1>34

-----------------------------------------------------------------------------
\* No station is taken for another one.  A callsign of characters that
\* save_callsign accepts always gets a number: its own or that of its hash.
LEMMA Packable ==
  ASSUME NEW m \in 3..11, NEW c \in Tuple(m, Written), Hashable(c), ~Contains(Tokens, c), NEW n22 \in 0..(MAX22 - 1)
  PROVE  pack28(c, n22).n28 >= 0
  <1> DEFINE p  == pack28(c, n22)
             n  == pack_basecall(c, Before(c, m))
             ip == IF HasSuffix(c) THEN 1 ELSE 0
             std  == [n28 |-> NTOKENS + MAX22 + n, ip |-> ip]
             hash == [n28 |-> NTOKENS + n22, ip |-> 0]
  <1>1. m \in Nat
    OBVIOUS
  <1>2. Len(c) = m /\ DOMAIN c = 1..m
    BY <1>1, TupleItems
  <1>3. ~IsPrefix(<<"C", "Q", "underscore">>, c)
    <2> DEFINE q == <<"C", "Q", "underscore">>
    <2>1. PICK three \in Nat : three = 3
      OBVIOUS
    <2>2. q \in Tuple(three, Written) /\ q[3] = "underscore"
      BY <2>1 DEF Tuple, Written, Marked
    <2> HIDE DEF q
    <2>3. IsPrefix(q, c) <=> three <= m /\ \A i \in 1..three : c[i] = q[i]
      BY <1>1, <2>2, PrefixIs
    <2>4. c[3] # "underscore"
      <3>1. 3 \in DOMAIN c
        BY <1>2
      <3>2. Contains(AlphaNumSpaceSlash, c[3])
        BY <3>1, Zenon DEF Hashable
      <3>3. c[3] = "space" \/ is_digit(c[3]) \/ is_letter(c[3]) \/ c[3] = "/"
        BY <3>2, AlphaNumSpaceSlashIs
      <3>4. ~is_digit("underscore") /\ ~is_letter("underscore")
        <4>1. Len(Digits) = 10 /\ Len(Letters) = 26
          BY DEF Digits, Letters
        <4>2. \A i \in 1..10 : Digits[i] # "underscore"
          BY DEF Digits
        <4>3. \A i \in 1..26 : Letters[i] # "underscore"
          BY DEF Letters
        <4> QED
          BY <4>1, <4>2, <4>3 DEF is_digit, is_letter, Contains
      <3>5. "underscore" # "space" /\ "underscore" # "/"
        OBVIOUS
      <3> QED
        BY <3>3, <3>4, <3>5, Zenon
    <2>5. three \in 1..three /\ three = 3
      BY <2>1
    <2>6. ~IsPrefix(q, c)
      BY <2>2, <2>3, <2>4, <2>5
    <2> QED
      BY <2>6 DEF q
  <1>4. Len(c) \in 3..11
    BY <1>2
  <1>5. /\ n >= 0 => p = std
        /\ ~(n >= 0) => p = hash
    BY <1>2, <1>3, <1>4, Zenon DEF pack28, Before
  <1>6. n \in Int
    BY BasecallType
  <1>7. PICK a \in Nat : a = NTOKENS
    BY RangesAre
  <1>8. PICK b \in Nat : b = MAX22
    BY RangesAre
  <1> HIDE DEF n, p
  <1>9. CASE n >= 0
    BY <1>5, <1>6, <1>7, <1>8, <1>9 DEF p
  <1>10. CASE ~(n >= 0)
    <2>1. p = hash
      BY <1>5, <1>10, Zenon
    <2>2. p.n28 = a + n22 /\ n22 \in Nat
      BY <1>7, <1>8, <2>1
    <2> QED
      BY <2>2 DEF p
  <1> QED
    BY <1>9, <1>10

\* A receiver that has the tones reads the payload.
LEMMA HeardIs ==
  ASSUME PacketInv, Sent
  PROVE  \E n22 \in Hashes : payload \in Made(call, loc, n22) /\ Heard = ftx_message_decode(payload)
  <1>1. PICK n22 \in Hashes : payload \in Made(call, loc, n22) /\ tones = ft8_encode(payload)
    BY Zenon DEF PacketInv
  <1>2. PICK p : p = payload
    OBVIOUS
  <1>3. p \in Tuple(77, Bit)
    BY <1>1, <1>2, MadeType DEF PacketInv
  <1>4. IsPacketOf(ft8_encode(p), p)
    BY <1>3, EncodedIs
  <1>5. SubSeq(ReceivedCodeword(tones), 1, 77) = payload
    BY <1>1, <1>2, <1>4, Zenon DEF IsPacketOf
  <1> QED
    BY <1>1, <1>5, Zenon DEF Heard

\* The prefixes that are packed like 3DA0 and 3X, character by character.
LEMMA NotStandsFor ==
  ASSUME NEW m \in Nat, NEW c \in Tuple(m, Written), m >= 3, ~StandsForAnother(c)
  PROVE  ~(c[1] = "3" /\ c[2] = "D" /\ c[3] = "0") /\ ~(c[1] = "Q" /\ is_letter(c[2]))
  <1> DEFINE q == <<"3", "D", "0">>
  <1>1. PICK three \in Nat : three = 3
    OBVIOUS
  <1>2. q \in Tuple(three, Written) /\ q[1] = "3" /\ q[2] = "D" /\ q[3] = "0"
    BY <1>1 DEF Tuple, Written, Marked
  <1>3. ~IsPrefix(q, c) /\ ~(c[1] = "Q" /\ is_letter(c[2]))
    BY Zenon DEF StandsForAnother
  <1> HIDE DEF q
  <1>4. IsPrefix(q, c) <=> three <= m /\ \A i \in 1..three : c[i] = q[i]
    BY <1>2, PrefixIs
  <1>5. \A i \in 1..three : i = 1 \/ i = 2 \/ i = 3
    BY <1>1
  <1>6. three <= m
    BY <1>1
  <1> QED
    BY <1>2, <1>3, <1>4, <1>5, <1>6

\* A callsign that does not contain a space has none.
LEMMA NoSpaces ==
  ASSUME NEW m \in Nat, NEW c \in Tuple(m, Written), ~Contains(c, "space")
  PROVE  ~Blanks(c)
  <1>1. Len(c) = m /\ DOMAIN c = 1..m
    BY TupleItems
  <1> QED
    BY <1>1, Zenon DEF Contains, Blanks, Blank

(***************************************************************************)
(* No receiver takes the station for another one: what pack28 makes of a   *)
(* callsign is read as this callsign, or as a hash that nobody knows.      *)
(***************************************************************************)
THEOREM PacketNeverMistaken == Spec => []NeverMistaken
  <1>1. PacketInv => NeverMistaken
    <2> SUFFICES ASSUME PacketInv, Sent, Len(call) \in 3..11, Hashable(call), ~Contains(call, "space"),
                        ~Contains(Tokens, call), ~StandsForAnother(call)
                 PROVE  Len(Heard) = 3 /\ Heard[2] \in {call, Unknown}
      BY Zenon DEF NeverMistaken
    <2>1. PICK n22 \in Hashes : payload \in Made(call, loc, n22) /\ Heard = ftx_message_decode(payload)
      BY HeardIs
    <2>2. PICK c \in Callsigns : c = call
      BY DEF PacketInv
    <2>3. PICK l \in Locators : l = loc
      BY DEF PacketInv
    <2>4. c \in Tuple(Len(c), Written)
      BY StoredAre
    <2>5. PICK m \in 3..11 : m = Len(c)
      BY <2>2
    <2>6. c \in Tuple(m, Written) /\ m \in Nat /\ m >= 3
      BY <2>4, <2>5
    <2>7. ~Blanks(c)
      BY <2>2, <2>6, NoSpaces
    <2>8. ~(c[1] = "3" /\ c[2] = "D" /\ c[3] = "0")
      BY <2>2, <2>6, NotStandsFor
    <2>9. ~(c[1] = "Q" /\ is_letter(c[2]))
      BY <2>2, <2>6, NotStandsFor
    <2>10. n22 \in 0..(MAX22 - 1)
      BY Ft8PacketAssumption, Zenon
    <2>11. pack28(c, n22).n28 >= 0
      BY <2>2, <2>6, <2>10, Packable
    <2>12. PICK p \in Made(c, l, n22) : p = payload
      BY <2>1, <2>2, <2>3
    <2>13. StandardHeard(c, l, p)
      <3>1. Len(c) >= 1 /\ ~Contains(Tokens, c)
        BY <2>2, <2>5
      <3> QED
        BY <2>7, <2>8, <2>9, <2>11, <3>1, StandardMessage
    <2>14. PICK heard : /\ ftx_message_decode(p) = <<<<"C", "Q">>, heard, unpackgrid(Value(Slice(p, 60, 15)), p[59])>>
                        /\ heard \in {c, Unknown}
      BY <2>13, Zenon DEF StandardHeard
    <2>15. PICK third : third = unpackgrid(Value(Slice(p, 60, 15)), p[59])
      OBVIOUS
    <2>16. Heard = <<<<"C", "Q">>, heard, third>>
      BY <2>1, <2>12, <2>14, <2>15, Zenon
    <2> QED
      BY <2>2, <2>14, <2>16
  <1> QED
    BY <1>1, PacketInvariant, PTL

-----------------------------------------------------------------------------
\* Standard callsigns have a number.
SixFits(s) ==
  /\ Contains(AlphaNumSpace, s[1]) /\ Contains(AlphaNum, s[2]) /\ is_digit(s[3])
  /\ \A i \in 4..6 : Blank(s, i) \/ is_letter(s[i])

\* Six characters fit if each is in its table; then they have a number.
LEMMA FitsIs ==
  ASSUME NEW s, SixFits(s)
  PROVE  \A i \in 1..6 : ~(SixDigits(s)[i] < 0)
  <1>1. /\ SixTables[1] = AlphaNumSpace /\ SixTables[2] = AlphaNum /\ SixTables[3] = Digits
        /\ SixTables[4] = LettersSpace /\ SixTables[5] = LettersSpace /\ SixTables[6] = LettersSpace
    BY DEF SixTables
  <1>2. \A x : x = "space" \/ is_letter(x) => Contains(LettersSpace, x)
    BY LettersSpaceIs
  <1>3. Contains(AlphaNumSpace, s[1]) /\ Contains(AlphaNum, s[2]) /\ Contains(Digits, s[3])
    BY Zenon DEF SixFits, is_digit
  <1>4. \A i \in 4..6 : Contains(LettersSpace, s[i])
    BY <1>2, Zenon DEF SixFits, Blank
  <1>5. ASSUME NEW i \in 1..6 PROVE Contains(SixTables[i], s[i])
    <2>1. i = 1 \/ i = 2 \/ i = 3 \/ i = 4 \/ i = 5 \/ i = 6
      OBVIOUS
    <2>2. 4 \in 4..6 /\ 5 \in 4..6 /\ 6 \in 4..6
      OBVIOUS
    <2> QED
      BY <1>1, <1>3, <1>4, <2>1, <2>2, Zenon
  <1>6. ASSUME NEW i \in 1..6 PROVE ~(SixDigits(s)[i] < 0)
    <2>1. PICK n, t : n \in Nat /\ n = Radix[i] /\ t = SixTables[i] /\ IsTable(t, n)
      BY SixTablesAre
    <2>2. Len(t) = n /\ DOMAIN t = 1..n
      BY <2>1, TableIs
    <2>3. SixDigits(s)[i] = nchar(s[i], t)
      BY <2>1 DEF SixDigits
    <2>4. Contains(t, s[i])
      BY <1>5, <2>1
    <2>5. Contains(t, s[i]) <=> nchar(s[i], t) >= 0
      BY <2>2, NcharIs
    <2>6. nchar(s[i], t) \in -1..(n - 1)
      BY <2>2, NcharIs
    <2>7. nchar(s[i], t) >= 0
      BY <2>4, <2>5
    <2>8. PICK x \in Int : x = nchar(s[i], t)
      BY <2>6
    <2>9. ~(x < 0)
      BY <2>7, <2>8
    <2> QED
      BY <2>3, <2>8, <2>9
  <1> QED
    BY <1>6

LEMMA FitsPacked ==
  ASSUME NEW c, NEW l \in Nat, 3 <= l, SixFits(Padded(SixChars(c, l)))
  PROVE  pack_basecall(c, l) >= 0
  <1> DEFINE d == SixDigits(Padded(SixChars(c, l)))
  <1>1. \A i \in 1..6 : ~(d[i] < 0)
    BY FitsIs
  <1>2. ~(l <= 2)
    OBVIOUS
  <1>3. pack_basecall(c, l) = Mixed(d)
    BY <1>1, <1>2, BasecallIs, Zenon
  <1>4. Mixed(d) \in Nat
    BY <1>1, SixBack
  <1> HIDE DEF d
  <1> QED
    BY <1>3, <1>4

\* What stands where in the six characters.
SixItems(s, k, v, c, a, q) ==
  /\ \A i \in 1..k : s[i] = v[i]
  /\ \A i \in 1..q : s[k + i] = c[a + i]
  /\ \A i \in 1..6 : i > k + q => Blank(s, i)

\* Six characters that are parts of a callsign and spaces.
LEMMA SixItemsAre ==
  ASSUME NEW m \in Nat, NEW S, Marked \subseteq S, NEW c \in Tuple(m, S), ~Blanks(c), NEW k \in Nat, NEW v \in Tuple(k, S),
         NEW a \in Nat, NEW q \in Nat, a + q <= m, k + q <= 6
  PROVE  SixItems(Padded(Joined(v, Slice(c, a + 1, q))), k, v, c, a, q)
  <1> DEFINE t == Slice(c, a + 1, q)
             u == Joined(v, t)
             s == Padded(u)
  <1>1. t \in Tuple(q, S)
    BY PartOf
  <1>2. \A i \in 1..q : t[i] = c[a + i]
    BY PartOf
  <1> HIDE DEF t
  <1>3. PICK n \in 0..6 : n = k + q
    OBVIOUS
  <1>4. Adds(k, q, n) /\ n \in Nat
    BY <1>3 DEF Adds
  <1>5. u \in Tuple(n, S)
    BY <1>1, <1>4, JoinedType
  <1>6. \A i \in 1..k : u[i] = v[i]
    BY <1>1, JoinedItems
  <1>7. \A i \in 1..q : u[k + i] = t[i]
    BY <1>1, JoinedItems
  <1> HIDE DEF u
  <1>8. "space" \in S
    BY DEF Marked
  <1>9. \A i \in 1..n : s[i] = u[i]
    BY <1>5, <1>8, PaddedIs
  <1>10. \A i \in 1..6 : i > n => Blank(s, i)
    BY <1>5, <1>8, PaddedIs
  <1> HIDE DEF s
  <1>11. ASSUME NEW i \in 1..k PROVE s[i] = v[i]
    <2>1. i \in 1..n
      BY <1>3
    <2> QED
      BY <1>6, <1>9, <2>1
  <1>12. ASSUME NEW i \in 1..q PROVE s[k + i] = c[a + i]
    <2>1. k + i \in 1..n
      BY <1>3
    <2> QED
      BY <1>2, <1>7, <1>9, <2>1
  <1>13. SixItems(s, k, v, c, a, q)
    BY <1>3, <1>10, <1>11, <1>12 DEF SixItems
  <1> QED
    BY <1>13 DEF s, u, t

\* A standard callsign of l characters, its area digit behind the first k.
Prefixed(c, k) ==
  IF k < 3
  THEN /\ \A i \in 1..k : is_digit(c[i]) \/ is_letter(c[i])
       /\ \E i \in 1..k : is_letter(c[i])
       /\ ~(c[1] = "3" /\ c[2] = "D" /\ c[3] = "0") /\ ~(c[1] = "Q" /\ is_letter(c[2]))
  ELSE \/ c[1] = "3" /\ c[2] = "D" /\ c[3] = "A" /\ c[4] = "0"
       \/ c[1] = "3" /\ c[2] = "X" /\ is_letter(c[3])

BaseForm(c, l, k) ==
  /\ l >= k + 2 /\ l <= k + 4
  /\ is_digit(c[k + 1]) /\ \A i \in (k + 2)..l : is_letter(c[i])
  /\ Prefixed(c, k)

LEMMA Signs ==
  /\ is_digit("3") /\ is_digit("0") /\ is_letter("D") /\ is_letter("A") /\ is_letter("Q") /\ is_letter("X")
  /\ is_letter("R") /\ is_letter("Z")
  <1>1. Digits[4] = "3" /\ Digits[1] = "0" /\ Len(Digits) = 10
    BY DEF Digits
  <1>2. /\ Letters[4] = "D" /\ Letters[1] = "A" /\ Letters[17] = "Q" /\ Letters[24] = "X" /\ Letters[18] = "R"
        /\ Letters[26] = "Z" /\ Len(Letters) = 26
    BY DEF Letters
  <1>3. /\ 4 \in 1..10 /\ 1 \in 1..10 /\ 4 \in 1..26 /\ 1 \in 1..26
        /\ 17 \in 1..26 /\ 24 \in 1..26 /\ 18 \in 1..26 /\ 26 \in 1..26
    OBVIOUS
  <1> QED
    BY <1>1, <1>2, <1>3, Zenon DEF is_digit, is_letter, Contains

\* The area digit comes third.
LEMMA ThirdFits ==
  ASSUME NEW m \in Nat, NEW c \in Tuple(m, Written), ~Blanks(c), NEW l \in Nat, l <= m, BaseForm(c, l, 2)
  PROVE  SixFits(Padded(SixChars(c, l)))
  <1>1. l >= 4 /\ l <= 6
    BY DEF BaseForm
  <1>2. is_digit(c[3]) /\ \A i \in 4..l : is_letter(c[i])
    BY DEF BaseForm
  <1>3. \A i \in 1..2 : is_digit(c[i]) \/ is_letter(c[i])
    BY DEF BaseForm, Prefixed
  <1>4. ~is_letter(c[3])
    BY <1>2, DigitOrLetter
  <1>5. Marked \subseteq Written
    BY DEF Written
  <1>6. ~EswatiniForm(c, l) /\ ~GuineaForm(c, l)
    <2>1. c[3] # "A"
      BY <1>4, Signs, Zenon
    <2> QED
      BY <1>4, <2>1, Zenon DEF EswatiniForm, GuineaForm
  <1>7. 3 <= l
    BY <1>1
  <1>8. SixChars(c, l) = Slice(c, 1, l)
    <2> DEFINE e == Joined(<<"3", "D", "0">>, Slice(c, 5, l - 4))
               g == Joined(<<"Q">>, Slice(c, 3, l - 2))
               x == IF is_digit(c[2]) /\ l <= 5 THEN Joined(<<"space">>, Slice(c, 1, l)) ELSE <<>>
    <2>1. SixChars(c, l) = IF EswatiniForm(c, l) THEN e
                           ELSE IF GuineaForm(c, l) THEN g
                           ELSE IF is_digit(c[3]) /\ l <= 6 THEN Slice(c, 1, l) ELSE x
      BY <1>5, <1>7, SixCharsAre
    <2> HIDE DEF e, g, x
    <2> QED
      BY <1>1, <1>2, <1>6, <2>1, Zenon
  <1> DEFINE t == Slice(c, 1, l)
             s == Padded(t)
  <1>9. PICK k \in Nat : k = 0
    OBVIOUS
  <1>10. k + l <= m
    BY <1>9
  <1>20. k + 1 = 1
    BY <1>9
  <1>11. t \in Tuple(l, Written)
    <2>1. Slice(c, k + 1, l) \in Tuple(l, Written)
      BY <1>10, PartOf
    <2> QED
      BY <1>20, <2>1
  <1>12. \A i \in 1..l : t[i] = c[i]
    <2>1. \A i \in 1..l : Slice(c, k + 1, l)[i] = c[k + i]
      BY <1>10, PartOf
    <2>2. \A i \in 1..l : k + i = i
      BY <1>9
    <2> QED
      BY <1>20, <2>1, <2>2
  <1> HIDE DEF t
  <1>13. l \in 0..6 /\ "space" \in Written
    BY <1>1 DEF Written, Marked
  <1>14. \A i \in 1..l : s[i] = t[i]
    BY <1>11, <1>13, PaddedIs
  <1>15. \A i \in 1..6 : i > l => Blank(s, i)
    BY <1>11, <1>13, PaddedIs
  <1> HIDE DEF s
  <1>16. s[1] = c[1] /\ s[2] = c[2] /\ s[3] = c[3]
    <2>1. 1 \in 1..l /\ 2 \in 1..l /\ 3 \in 1..l
      BY <1>1
    <2> QED
      BY <1>12, <1>14, <2>1
  <1>17. \A i \in 4..6 : Blank(s, i) \/ is_letter(s[i])
    <2> SUFFICES ASSUME NEW i \in 4..6 PROVE Blank(s, i) \/ is_letter(s[i])
      OBVIOUS
    <2>1. CASE i <= l
      <3>1. i \in 1..l /\ i \in 4..l
        BY <1>1, <2>1
      <3> QED
        BY <1>2, <1>12, <1>14, <3>1
    <2>2. CASE i > l
      BY <1>15, <2>2
    <2> QED
      BY <2>1, <2>2
  <1>18. Contains(AlphaNumSpace, s[1]) /\ Contains(AlphaNum, s[2])
    <2>1. is_digit(c[1]) \/ is_letter(c[1])
      BY <1>3
    <2>2. is_digit(c[2]) \/ is_letter(c[2])
      BY <1>3
    <2>3. Contains(AlphaNumSpace, c[1])
      BY <2>1, AlphaNumSpaceIs
    <2>4. Contains(AlphaNum, c[2])
      BY <2>2, AlphaNumIs
    <2> QED
      BY <1>16, <2>3, <2>4
  <1>19. SixFits(s)
    BY <1>2, <1>16, <1>17, <1>18, Zenon DEF SixFits
  <1> QED
    BY <1>8, <1>19 DEF s, t

\* It comes second, and a space is put in front.
LEMMA SecondFits ==
  ASSUME NEW m \in Nat, NEW c \in Tuple(m, Written), ~Blanks(c), NEW l \in Nat, l <= m, BaseForm(c, l, 1)
  PROVE  SixFits(Padded(SixChars(c, l)))
  <1>1. l >= 3 /\ l <= 5
    BY DEF BaseForm
  <1>2. is_digit(c[2]) /\ \A i \in 3..l : is_letter(c[i])
    BY DEF BaseForm
  <1>3. is_letter(c[1])
    <2>1. \E i \in 1..1 : is_letter(c[i])
      BY DEF BaseForm, Prefixed
    <2> QED
      BY <2>1
  <1>4. ~is_digit(c[3])
    <2>1. is_letter(c[3])
      BY <1>1, <1>2
    <2> QED
      BY <2>1, DigitOrLetter
  <1>5. Marked \subseteq Written
    BY DEF Written
  <1>6. ~EswatiniForm(c, l) /\ ~GuineaForm(c, l)
    <2>1. c[1] # "3"
      BY <1>3, Signs, DigitOrLetter, Zenon
    <2> QED
      BY <2>1, Zenon DEF EswatiniForm, GuineaForm
  <1>7. 3 <= l
    BY <1>1
  <1>8. SixChars(c, l) = Joined(<<"space">>, Slice(c, 1, l))
    <2> DEFINE e == Joined(<<"3", "D", "0">>, Slice(c, 5, l - 4))
               g == Joined(<<"Q">>, Slice(c, 3, l - 2))
               x == Joined(<<"space">>, Slice(c, 1, l))
    <2>1. SixChars(c, l) = IF EswatiniForm(c, l) THEN e
                           ELSE IF GuineaForm(c, l) THEN g
                           ELSE IF is_digit(c[3]) /\ l <= 6 THEN Slice(c, 1, l)
                           ELSE IF is_digit(c[2]) /\ l <= 5 THEN x ELSE <<>>
      BY <1>5, <1>7, SixCharsAre
    <2>2. SixChars(c, l) = x
      <3> HIDE DEF e, g, x
      <3> QED
        BY <1>1, <1>2, <1>4, <1>6, <2>1, Zenon
    <2> QED
      BY <2>2
  <1> DEFINE v == <<"space">>
             s == Padded(Joined(v, Slice(c, 1, l)))
  <1>9. PICK k \in Nat : k = 1
    OBVIOUS
  <1>10. PICK a \in Nat : a = 0
    OBVIOUS
  <1>11. v \in Tuple(k, Written) /\ v[1] = "space"
    BY <1>9 DEF Tuple, Written, Marked
  <1> HIDE DEF v
  <1>12. a + l <= m /\ k + l <= 6
    BY <1>1, <1>9, <1>10
  <1>13. SixItems(Padded(Joined(v, Slice(c, a + 1, l))), k, v, c, a, l)
    BY <1>5, <1>11, <1>12, SixItemsAre
  <1>14. a + 1 = 1
    BY <1>10
  <1>15. SixItems(s, k, v, c, a, l)
    BY <1>13, <1>14, Zenon
  <1> HIDE DEF s
  <1>16. s[1] = "space"
    BY <1>9, <1>11, <1>15 DEF SixItems
  <1>17. \A i \in 1..l : s[k + i] = c[a + i]
    BY <1>15 DEF SixItems
  <1>18. s[2] = c[1] /\ s[3] = c[2]
    <2>1. 1 \in 1..l /\ 2 \in 1..l /\ k + 1 = 2 /\ k + 2 = 3 /\ a + 1 = 1 /\ a + 2 = 2
      BY <1>1, <1>9, <1>10
    <2> QED
      BY <1>17, <2>1
  <1>19. \A i \in 4..6 : Blank(s, i) \/ is_letter(s[i])
    <2> SUFFICES ASSUME NEW i \in 4..6 PROVE Blank(s, i) \/ is_letter(s[i])
      OBVIOUS
    <2>1. CASE i <= l + 1
      <3>1. PICK j \in 3..l : j = i - 1
        BY <2>1
      <3>2. k + j = i /\ a + j = j /\ j \in 1..l
        BY <1>9, <1>10, <3>1
      <3>3. s[k + j] = c[a + j]
        BY <1>17, <3>2
      <3> QED
        BY <1>2, <3>2, <3>3
    <2>2. CASE i > l + 1
      <3>1. i \in 1..6 /\ i > k + l
        BY <1>9, <2>2
      <3> QED
        BY <1>15, <3>1 DEF SixItems
    <2> QED
      BY <2>1, <2>2
  <1>20. Contains(AlphaNumSpace, s[1])
    BY <1>16, AlphaNumSpaceIs
  <1>21. Contains(AlphaNum, s[2])
    BY <1>3, <1>18, AlphaNumIs
  <1>22. SixFits(s)
    BY <1>2, <1>18, <1>19, <1>20, <1>21, Zenon DEF SixFits
  <1> QED
    BY <1>8, <1>22 DEF s, v

\* The prefixes of three characters.
LEMMA GuineaFits ==
  ASSUME NEW m \in Nat, NEW c \in Tuple(m, Written), ~Blanks(c), NEW l \in Nat, l <= m, BaseForm(c, l, 3),
         c[1] = "3", c[2] = "X", is_letter(c[3])
  PROVE  SixFits(Padded(SixChars(c, l)))
  <1>1. l >= 5 /\ l <= 7
    BY DEF BaseForm
  <1>2. is_digit(c[4]) /\ \A i \in 5..l : is_letter(c[i])
    BY DEF BaseForm
  <1>5. Marked \subseteq Written
    BY DEF Written
  <1>6. ~EswatiniForm(c, l) /\ GuineaForm(c, l)
    <2>1. c[2] # "D"
      OBVIOUS
    <2> QED
      BY <1>1, <2>1, Zenon DEF EswatiniForm, GuineaForm
  <1>7. 3 <= l
    BY <1>1
  <1>8. SixChars(c, l) = Joined(<<"Q">>, Slice(c, 3, l - 2))
    <2> DEFINE e == Joined(<<"3", "D", "0">>, Slice(c, 5, l - 4))
               g == Joined(<<"Q">>, Slice(c, 3, l - 2))
               x == IF is_digit(c[3]) /\ l <= 6 THEN Slice(c, 1, l)
                    ELSE IF is_digit(c[2]) /\ l <= 5 THEN Joined(<<"space">>, Slice(c, 1, l)) ELSE <<>>
    <2>1. SixChars(c, l) = IF EswatiniForm(c, l) THEN e ELSE IF GuineaForm(c, l) THEN g ELSE x
      BY <1>5, <1>7, SixCharsAre
    <2>2. SixChars(c, l) = g
      <3> HIDE DEF e, g, x
      <3> QED
        BY <1>6, <2>1, Zenon
    <2> QED
      BY <2>2
  <1>9. PICK k \in Nat : k = 1
    OBVIOUS
  <1>10. PICK a \in Nat : a = 2
    OBVIOUS
  <1>11. PICK q \in Nat : q = l - 2
    BY <1>1
  <1> DEFINE v == <<"Q">>
             s == Padded(Joined(v, Slice(c, 3, l - 2)))
  <1>12. v \in Tuple(k, Written) /\ v[1] = "Q"
    BY <1>9 DEF Tuple, Written, Marked
  <1> HIDE DEF v
  <1>13. a + q <= m /\ k + q <= 6
    BY <1>1, <1>9, <1>10, <1>11
  <1>14. SixItems(Padded(Joined(v, Slice(c, a + 1, q))), k, v, c, a, q)
    BY <1>5, <1>12, <1>13, SixItemsAre
  <1>15. a + 1 = 3
    BY <1>10
  <1>16. SixItems(s, k, v, c, a, q)
    BY <1>11, <1>14, <1>15, Zenon
  <1> HIDE DEF s
  <1>17. s[1] = "Q"
    BY <1>9, <1>12, <1>16 DEF SixItems
  <1>18. \A i \in 1..q : s[k + i] = c[a + i]
    BY <1>16 DEF SixItems
  <1>19. s[2] = c[3] /\ s[3] = c[4]
    <2>1. 1 \in 1..q /\ 2 \in 1..q /\ k + 1 = 2 /\ k + 2 = 3 /\ a + 1 = 3 /\ a + 2 = 4
      BY <1>1, <1>9, <1>10, <1>11
    <2> QED
      BY <1>18, <2>1
  <1>20. \A i \in 4..6 : Blank(s, i) \/ is_letter(s[i])
    <2> SUFFICES ASSUME NEW i \in 4..6 PROVE Blank(s, i) \/ is_letter(s[i])
      OBVIOUS
    <2>1. CASE i < l
      <3>1. PICK j \in 1..q : j = i - 1
        BY <1>11, <2>1
      <3>2. k + j = i /\ a + j \in 5..l
        BY <1>9, <1>10, <1>11, <3>1
      <3>3. s[k + j] = c[a + j]
        BY <1>18
      <3> QED
        BY <1>2, <3>2, <3>3
    <2>2. CASE ~(i < l)
      <3>1. i \in 1..6 /\ i > k + q
        BY <1>9, <1>11, <2>2
      <3> QED
        BY <1>16, <3>1 DEF SixItems
    <2> QED
      BY <2>1, <2>2
  <1>21. Contains(AlphaNumSpace, s[1])
    BY <1>17, Signs, AlphaNumSpaceIs
  <1>22. Contains(AlphaNum, s[2])
    BY <1>19, AlphaNumIs
  <1>23. SixFits(s)
    BY <1>2, <1>19, <1>20, <1>21, <1>22, Zenon DEF SixFits
  <1> QED
    BY <1>8, <1>23 DEF s, v

\* Callsigns of Eswatini, which fit without the first A.
LEMMA EswatiniFits ==
  ASSUME NEW m \in Nat, NEW c \in Tuple(m, Written), ~Blanks(c), NEW l \in Nat, l <= m, BaseForm(c, l, 3),
         c[1] = "3", c[2] = "D", c[3] = "A", c[4] = "0"
  PROVE  SixFits(Padded(SixChars(c, l)))
  <1>1. l >= 5 /\ l <= 7
    BY DEF BaseForm
  <1>2. \A i \in 5..l : is_letter(c[i])
    BY DEF BaseForm
  <1>5. Marked \subseteq Written
    BY DEF Written
  <1>6. EswatiniForm(c, l)
    <2>1. l \in 5..7
      BY <1>1
    <2> QED
      BY <2>1, Zenon DEF EswatiniForm
  <1>7. 3 <= l
    BY <1>1
  <1>8. SixChars(c, l) = Joined(<<"3", "D", "0">>, Slice(c, 5, l - 4))
    <2> DEFINE e == Joined(<<"3", "D", "0">>, Slice(c, 5, l - 4))
               x == IF GuineaForm(c, l) THEN Joined(<<"Q">>, Slice(c, 3, l - 2))
                    ELSE IF is_digit(c[3]) /\ l <= 6 THEN Slice(c, 1, l)
                    ELSE IF is_digit(c[2]) /\ l <= 5 THEN Joined(<<"space">>, Slice(c, 1, l)) ELSE <<>>
    <2>1. SixChars(c, l) = IF EswatiniForm(c, l) THEN e ELSE x
      BY <1>5, <1>7, SixCharsAre
    <2>2. SixChars(c, l) = e
      <3> HIDE DEF e, x
      <3> QED
        BY <1>6, <2>1, Zenon
    <2> QED
      BY <2>2
  <1>9. PICK k \in Nat : k = 3
    OBVIOUS
  <1>10. PICK a \in Nat : a = 4
    OBVIOUS
  <1>11. PICK q \in Nat : q = l - 4
    BY <1>1
  <1> DEFINE v == <<"3", "D", "0">>
             s == Padded(Joined(v, Slice(c, 5, l - 4)))
  <1>12. v \in Tuple(k, Written) /\ v[1] = "3" /\ v[2] = "D" /\ v[3] = "0"
    BY <1>9 DEF Tuple, Written, Marked
  <1> HIDE DEF v
  <1>13. a + q <= m /\ k + q <= 6
    BY <1>1, <1>9, <1>10, <1>11
  <1>14. SixItems(Padded(Joined(v, Slice(c, a + 1, q))), k, v, c, a, q)
    BY <1>5, <1>12, <1>13, SixItemsAre
  <1>15. a + 1 = 5
    BY <1>10
  <1>16. SixItems(s, k, v, c, a, q)
    BY <1>11, <1>14, <1>15, Zenon
  <1> HIDE DEF s
  <1>17. s[1] = "3" /\ s[2] = "D" /\ s[3] = "0"
    <2>1. 1 \in 1..k /\ 2 \in 1..k /\ 3 \in 1..k
      BY <1>9
    <2> QED
      BY <1>12, <1>16, <2>1 DEF SixItems
  <1>18. \A i \in 1..q : s[k + i] = c[a + i]
    BY <1>16 DEF SixItems
  <1>20. \A i \in 4..6 : Blank(s, i) \/ is_letter(s[i])
    <2> SUFFICES ASSUME NEW i \in 4..6 PROVE Blank(s, i) \/ is_letter(s[i])
      OBVIOUS
    <2>1. CASE i < l
      <3>1. PICK j \in 1..q : j = i - 3
        BY <1>11, <2>1
      <3>2. k + j = i /\ a + j \in 5..l
        BY <1>9, <1>10, <1>11, <3>1
      <3>3. s[k + j] = c[a + j]
        BY <1>18
      <3> QED
        BY <1>2, <3>2, <3>3
    <2>2. CASE ~(i < l)
      <3>1. i \in 1..6 /\ i > k + q
        BY <1>9, <1>11, <2>2
      <3> QED
        BY <1>16, <3>1 DEF SixItems
    <2> QED
      BY <2>1, <2>2
  <1>21. Contains(AlphaNumSpace, s[1])
    BY <1>17, Signs, AlphaNumSpaceIs
  <1>22. Contains(AlphaNum, s[2])
    BY <1>17, Signs, AlphaNumIs
  <1>24. is_digit(s[3])
    BY <1>17, Signs
  <1>23. SixFits(s)
    BY <1>20, <1>21, <1>22, <1>24, Zenon DEF SixFits
  <1> QED
    BY <1>8, <1>23 DEF s, v

\* In each form the six characters fit, so the callsign has a number.
LEMMA BaseFormPacked ==
  ASSUME NEW m \in Nat, NEW c \in Tuple(m, Written), ~Blanks(c), NEW l \in Nat, l <= m, NEW k \in 1..3, BaseForm(c, l, k)
  PROVE  3 <= l /\ pack_basecall(c, l) >= 0
  <1>1. 3 <= l
    BY DEF BaseForm
  <1>2. k = 1 \/ k = 2 \/ k = 3
    OBVIOUS
  <1>3. CASE k = 1
    <2>1. BaseForm(c, l, 1)
      BY <1>3
    <2>2. SixFits(Padded(SixChars(c, l)))
      BY <2>1, SecondFits
    <2> QED
      BY <1>1, <2>2, FitsPacked
  <1>4. CASE k = 2
    <2>1. BaseForm(c, l, 2)
      BY <1>4
    <2>2. SixFits(Padded(SixChars(c, l)))
      BY <2>1, ThirdFits
    <2> QED
      BY <1>1, <2>2, FitsPacked
  <1>5. CASE k = 3
    <2>1. BaseForm(c, l, 3)
      BY <1>5
    <2>2. \/ c[1] = "3" /\ c[2] = "D" /\ c[3] = "A" /\ c[4] = "0"
          \/ c[1] = "3" /\ c[2] = "X" /\ is_letter(c[3])
      <3>1. ~(3 < 3)
        OBVIOUS
      <3> QED
        BY <2>1, <3>1, Zenon DEF BaseForm, Prefixed
    <2>3. SixFits(Padded(SixChars(c, l)))
      BY <2>1, <2>2, EswatiniFits, GuineaFits
    <2> QED
      BY <1>1, <2>3, FitsPacked
  <1> QED
    BY <1>2, <1>3, <1>4, <1>5

\* What message.h says of a standard callsign, character by character.
PrefixForm(b, k, prefix) ==
  IF k < 3
  THEN /\ \A i \in 1..k : Contains(AlphaNum, prefix[i])
       /\ \E i \in 1..k : is_letter(prefix[i])
       /\ ~StandsForAnother(b)
  ELSE \/ prefix = <<"3", "D", "A">> /\ b[4] = "0"
       \/ SubSeq(prefix, 1, 2) = <<"3", "X">> /\ is_letter(prefix[3])

\* The prefixes of message.h 79 begin one of the forms.
LEMMA PrefixedIs ==
  ASSUME NEW l \in Nat, NEW b \in Tuple(l, Written), NEW k \in 1..3, l >= k + 2, PrefixForm(b, k, SubSeq(b, 1, k))
  PROVE  Prefixed(b, k)
  <1> DEFINE prefix == SubSeq(b, 1, k)
  <1>1. prefix = Slice(b, 1, k)
    <2>1. 1 + k - 1 = k
      OBVIOUS
    <2> QED
      BY <2>1 DEF Slice
  <1>2. PICK one \in Nat : one = 1
    OBVIOUS
  <1>3. one >= 1 /\ one + k <= l + 1 /\ k \in Nat
    BY <1>2
  <1>4. Slice(b, one, k) \in Tuple(k, Written)
    BY <1>3, Cut
  <1>5. \A i \in 1..k : Slice(b, one, k)[i] = b[one + i - 1]
    BY <1>3, Cut
  <1>6. prefix \in Tuple(k, Written)
    BY <1>1, <1>2, <1>4
  <1>7. \A i \in 1..k : prefix[i] = b[i]
    <2> SUFFICES ASSUME NEW i \in 1..k PROVE prefix[i] = b[i]
      OBVIOUS
    <2>1. one + i - 1 = i
      BY <1>2
    <2> QED
      BY <1>1, <1>2, <1>5, <2>1
  <1> HIDE DEF prefix
  <1>8. PrefixForm(b, k, prefix)
    BY DEF prefix
  <1>9. CASE k < 3
    <2>1. /\ \A i \in 1..k : Contains(AlphaNum, prefix[i])
          /\ \E i \in 1..k : is_letter(prefix[i])
          /\ ~StandsForAnother(b)
      BY <1>8, <1>9, Zenon DEF PrefixForm
    <2>2. l >= 3
      OBVIOUS
    <2>3. ~(b[1] = "3" /\ b[2] = "D" /\ b[3] = "0")
      BY <2>1, <2>2, NotStandsFor
    <2>4. ~(b[1] = "Q" /\ is_letter(b[2]))
      BY <2>1, <2>2, NotStandsFor
    <2>5. ASSUME NEW i \in 1..k PROVE is_digit(b[i]) \/ is_letter(b[i])
      <3>1. Contains(AlphaNum, b[i])
        BY <1>7, <2>1
      <3> QED
        BY <3>1, AlphaNumIs
    <2>6. \E i \in 1..k : is_letter(b[i])
      BY <1>7, <2>1
    <2> QED
      BY <1>9, <2>3, <2>4, <2>5, <2>6, Zenon DEF Prefixed
  <1>10. CASE ~(k < 3)
    <2>1. k = 3
      BY <1>10
    <2>2. \/ prefix = <<"3", "D", "A">> /\ b[4] = "0"
          \/ SubSeq(prefix, 1, 2) = <<"3", "X">> /\ is_letter(prefix[3])
      BY <1>8, <1>10, Zenon DEF PrefixForm
    <2>3. prefix[1] = b[1] /\ prefix[2] = b[2] /\ prefix[3] = b[3]
      BY <1>7, <2>1
    <2>4. CASE prefix = <<"3", "D", "A">> /\ b[4] = "0"
      <3>1. prefix[1] = "3" /\ prefix[2] = "D" /\ prefix[3] = "A"
        BY <2>4
      <3> QED
        BY <1>10, <2>3, <2>4, <3>1, Zenon DEF Prefixed
    <2>5. CASE SubSeq(prefix, 1, 2) = <<"3", "X">> /\ is_letter(prefix[3])
      <3> DEFINE two == <<"3", "X">>
      <3>1. PICK n \in Nat : n = 2
        OBVIOUS
      <3>2. Slice(prefix, 1, n) = two
        <4>1. 1 + n - 1 = 2
          BY <3>1
        <4> QED
          BY <2>5, <4>1 DEF Slice
      <3>3. two[1] = "3" /\ two[2] = "X"
        OBVIOUS
      <3> HIDE DEF two
      <3>4. one + n <= k + 1 /\ k \in Nat
        BY <1>2, <2>1, <3>1
      <3>5. \A i \in 1..n : Slice(prefix, one, n)[i] = prefix[one + i - 1]
        BY <1>3, <1>6, <3>4, Cut
      <3>6. 1 \in 1..n /\ 2 \in 1..n /\ one + 1 - 1 = 1 /\ one + 2 - 1 = 2
        BY <1>2, <3>1
      <3>7. prefix[1] = "3" /\ prefix[2] = "X"
        BY <1>2, <3>2, <3>3, <3>5, <3>6
      <3> QED
        BY <1>10, <2>3, <2>5, <3>7, Zenon DEF Prefixed
    <2> QED
      BY <2>2, <2>4, <2>5
  <1> QED
    BY <1>9, <1>10

LEMMA BaseFormIs ==
  ASSUME NEW l \in Nat, NEW b \in Tuple(l, Written), IsBasecall(b)
  PROVE  l >= 3 /\ \E k \in 1..3 : BaseForm(b, l, k)
  <1>1. PICK k \in 1..3 : /\ Len(b) \in (k + 2)..(k + 4)
                          /\ is_digit(b[k + 1])
                          /\ \A i \in (k + 2)..Len(b) : is_letter(b[i])
                          /\ PrefixForm(b, k, SubSeq(b, 1, k))
    BY Zenon DEF IsBasecall, PrefixForm
  <1>2. Len(b) = l
    BY TupleItems
  <1>3. l >= k + 2 /\ l <= k + 4 /\ l >= 3
    BY <1>1, <1>2
  <1>4. Prefixed(b, k)
    BY <1>1, <1>3, PrefixedIs
  <1>5. \A i \in (k + 2)..l : is_letter(b[i])
    BY <1>1, <1>2
  <1>6. BaseForm(b, l, k)
    BY <1>1, <1>3, <1>4, <1>5, Zenon DEF BaseForm
  <1> QED
    BY <1>3, <1>6

\* The form depends on nothing behind it.
LEMMA SameForm ==
  ASSUME NEW l \in Nat, NEW b, NEW c, \A i \in 1..l : b[i] = c[i], NEW k \in 1..3, BaseForm(b, l, k)
  PROVE  BaseForm(c, l, k)
  <1>1. l >= k + 2 /\ l <= k + 4 /\ k < l
    BY DEF BaseForm
  <1>2. is_digit(b[k + 1]) /\ \A i \in (k + 2)..l : is_letter(b[i])
    BY DEF BaseForm
  <1>3. Prefixed(b, k)
    BY DEF BaseForm
  <1>4. is_digit(c[k + 1])
    <2>1. k + 1 \in 1..l
      BY <1>1
    <2> QED
      BY <1>2, <2>1
  <1>5. ASSUME NEW i \in (k + 2)..l PROVE is_letter(c[i])
    <2>1. i \in 1..l
      OBVIOUS
    <2> QED
      BY <1>2, <2>1
  <1>6. 1 \in 1..l /\ 2 \in 1..l /\ 3 \in 1..l
    BY <1>1
  <1>7. b[1] = c[1] /\ b[2] = c[2] /\ b[3] = c[3]
    BY <1>6
  <1>8. CASE k < 3
    <2>1. /\ \A i \in 1..k : is_digit(b[i]) \/ is_letter(b[i])
          /\ \E i \in 1..k : is_letter(b[i])
          /\ ~(b[1] = "3" /\ b[2] = "D" /\ b[3] = "0") /\ ~(b[1] = "Q" /\ is_letter(b[2]))
      BY <1>3, <1>8, Zenon DEF Prefixed
    <2>2. ASSUME NEW i \in 1..k PROVE b[i] = c[i]
      <3>1. i \in 1..l
        BY <1>1
      <3> QED
        BY <3>1
    <2>3. Prefixed(c, k)
      BY <1>7, <1>8, <2>1, <2>2, Zenon DEF Prefixed
    <2> QED
      BY <1>1, <1>4, <1>5, <2>3, Zenon DEF BaseForm
  <1>9. CASE ~(k < 3)
    <2>1. 4 \in 1..l
      BY <1>1, <1>9
    <2>2. b[4] = c[4]
      BY <2>1
    <2>3. Prefixed(c, k)
      BY <1>3, <1>7, <1>9, <2>2, Zenon DEF Prefixed
    <2> QED
      BY <1>1, <1>4, <1>5, <2>3, Zenon DEF BaseForm
  <1> QED
    BY <1>8, <1>9

\* A standard callsign is one of these forms, and what follows it a suffix.
Suffixed(c, l, m) == \A i \in (l + 1)..m : c[i] \in {"/", "P", "R"}

\* A standard callsign has a form, and behind it at most a suffix.
LEMMA StandardIs ==
  ASSUME NEW m \in Nat, NEW c \in Tuple(m, Written), IsStandard(c)
  PROVE  \E l \in 3..m, k \in 1..3 : l = Before(c, m) /\ BaseForm(c, l, k) /\ Suffixed(c, l, m)
  <1>1. Len(c) = m
    BY TupleItems
  <1>2. CASE m > 2 /\ HasSuffix(c)
    <2>1. PICK l \in Nat : l = m - 2
      BY <1>2
    <2> DEFINE b == SubSeq(c, 1, l)
    <2>2. IsBasecall(b)
      <3>1. IsBasecall(SubSeq(c, 1, m - 2))
        BY <1>1, <1>2, Zenon DEF IsStandard
      <3> QED
        BY <2>1, <3>1
    <2>3. b = Slice(c, 1, l)
      <3>1. 1 + l - 1 = l
        OBVIOUS
      <3> QED
        BY <3>1 DEF Slice
    <2>4. PICK one \in Nat : one = 1
      OBVIOUS
    <2>5. one >= 1 /\ one + l <= m + 1
      BY <2>1, <2>4
    <2>6. Slice(c, one, l) \in Tuple(l, Written)
      BY <2>5, Cut
    <2>7. \A i \in 1..l : Slice(c, one, l)[i] = c[one + i - 1]
      BY <2>5, Cut
    <2>8. b \in Tuple(l, Written)
      BY <2>3, <2>4, <2>6
    <2>9. \A i \in 1..l : b[i] = c[i]
      <3> SUFFICES ASSUME NEW i \in 1..l PROVE b[i] = c[i]
        OBVIOUS
      <3>1. one + i - 1 = i
        BY <2>4
      <3> QED
        BY <2>3, <2>4, <2>7, <3>1
    <2> HIDE DEF b
    <2>10. l >= 3
      BY <2>2, <2>8, BaseFormIs
    <2>11. PICK k \in 1..3 : BaseForm(b, l, k)
      BY <2>2, <2>8, BaseFormIs
    <2>12. BaseForm(c, l, k)
      BY <2>9, <2>11, SameForm
    <2>13. l = Before(c, m)
      BY <1>2, <2>1 DEF Before
    <2>14. PICK x \in {"P", "R"} : IsSuffix(<<"/", x>>, c)
      BY <1>2 DEF HasSuffix
    <2>15. x \in Written /\ "/" \in Written
      BY DEF Written, Marked
    <2>16. c[m - 1] = "/" /\ c[m] = x
      BY <2>14, <2>15, SuffixIs
    <2>17. Suffixed(c, l, m)
      <3> SUFFICES ASSUME NEW i \in (l + 1)..m PROVE c[i] \in {"/", "P", "R"}
        BY DEF Suffixed
      <3>1. i = m - 1 \/ i = m
        BY <2>1
      <3> QED
        BY <2>16, <3>1
    <2>18. l \in 3..m
      BY <2>1, <2>10
    <2> QED
      BY <2>12, <2>13, <2>17, <2>18
  <1>3. CASE ~(m > 2 /\ HasSuffix(c))
    <2>1. IsBasecall(c)
      BY <1>1, <1>3, Zenon DEF IsStandard
    <2>2. m >= 3
      BY <2>1, BaseFormIs
    <2>3. PICK k \in 1..3 : BaseForm(c, m, k)
      BY <2>1, BaseFormIs
    <2>4. ~HasSuffix(c)
      BY <1>3, <2>2
    <2>5. m = Before(c, m)
      BY <2>4 DEF Before
    <2>6. Suffixed(c, m, m)
      BY DEF Suffixed
    <2>7. m \in 3..m
      BY <2>2
    <2> QED
      BY <2>3, <2>5, <2>6, <2>7
  <1> QED
    BY <1>2, <1>3

\* Its characters are digits and letters.
LEMMA FormChars ==
  ASSUME NEW l \in Nat, NEW c, NEW k \in 1..3, BaseForm(c, l, k)
  PROVE  \A i \in 1..l : is_digit(c[i]) \/ is_letter(c[i])
  <1>1. is_digit(c[k + 1]) /\ \A i \in (k + 2)..l : is_letter(c[i])
    BY DEF BaseForm
  <1>2. Prefixed(c, k)
    BY DEF BaseForm
  <1>3. \A i \in 1..k : is_digit(c[i]) \/ is_letter(c[i])
    <2>1. CASE k < 3
      BY <1>2, <2>1, Zenon DEF Prefixed
    <2>2. CASE ~(k < 3)
      <3>1. \/ c[1] = "3" /\ c[2] = "D" /\ c[3] = "A"
            \/ c[1] = "3" /\ c[2] = "X" /\ is_letter(c[3])
        BY <1>2, <2>2, Zenon DEF Prefixed
      <3>2. is_digit(c[1]) /\ is_letter(c[2]) /\ is_letter(c[3])
        BY <3>1, Signs, Zenon
      <3>3. \A i \in 1..k : i = 1 \/ i = 2 \/ i = 3
        OBVIOUS
      <3> QED
        BY <3>2, <3>3, Zenon
    <2> QED
      BY <2>1, <2>2
  <1>4. ASSUME NEW i \in 1..l PROVE is_digit(c[i]) \/ is_letter(c[i])
    <2>1. i \in 1..k \/ i = k + 1 \/ i \in (k + 2)..l
      OBVIOUS
    <2> QED
      BY <1>1, <1>3, <2>1
  <1> QED
    BY <1>4

\* So it has a number, is no token, has no spaces, and stands for no other.
LEMMA StandardCall ==
  ASSUME NEW m \in Nat, NEW c \in Tuple(m, Written), IsStandard(c)
  PROVE  /\ m >= 3 /\ ~Blanks(c)
         /\ ~(c[1] = "3" /\ c[2] = "D" /\ c[3] = "0")
         /\ ~(c[1] = "Q" /\ is_letter(c[2]))
         /\ ~Contains(Tokens, c) /\ c[3] # "underscore"
         /\ pack_basecall(c, Before(c, m)) >= 0
  <1>1. PICK l \in 3..m, k \in 1..3 : l = Before(c, m) /\ BaseForm(c, l, k) /\ Suffixed(c, l, m)
    BY StandardIs
  <1>2. m >= 3 /\ l \in Nat /\ l <= m
    OBVIOUS
  <1>3. \A i \in 1..l : is_digit(c[i]) \/ is_letter(c[i])
    BY <1>1, <1>2, FormChars
  <1>4. Len(c) = m /\ DOMAIN c = 1..m
    BY TupleItems
  <1>5. ~Blanks(c)
    <2> SUFFICES ASSUME NEW i \in 1..m PROVE ~Blank(c, i)
      BY <1>4, Zenon DEF Blanks
    <2>1. CASE i <= l
      <3>1. i \in 1..l
        BY <2>1
      <3>2. is_digit(c[i]) \/ is_letter(c[i])
        BY <1>3, <3>1
      <3>3. ~is_digit("space") /\ ~is_letter("space")
        BY NotAlphaNum
      <3> QED
        BY <3>2, <3>3, Zenon DEF Blank
    <2>2. CASE ~(i <= l)
      <3>1. i \in (l + 1)..m
        BY <2>2
      <3>2. c[i] \in {"/", "P", "R"}
        BY <1>1, <3>1, Zenon DEF Suffixed
      <3> QED
        BY <3>2 DEF Blank
    <2> QED
      BY <2>1, <2>2
  <1>6. is_digit(c[k + 1]) /\ Prefixed(c, k) /\ l >= k + 2 /\ \A i \in (k + 2)..l : is_letter(c[i])
    BY <1>1, Zenon DEF BaseForm
  <1>7. ~(c[1] = "3" /\ c[2] = "D" /\ c[3] = "0") /\ ~(c[1] = "Q" /\ is_letter(c[2]))
    <2>1. CASE k < 3
      BY <1>6, <2>1, Zenon DEF Prefixed
    <2>2. CASE ~(k < 3)
      <3>1. \/ c[1] = "3" /\ c[2] = "D" /\ c[3] = "A"
            \/ c[1] = "3" /\ c[2] = "X" /\ is_letter(c[3])
        BY <1>6, <2>2, Zenon DEF Prefixed
      <3>2. "3" # "Q" /\ "A" # "0" /\ "X" # "D"
        OBVIOUS
      <3> QED
        BY <3>1, <3>2, Zenon
    <2> QED
      BY <2>1, <2>2
  <1>8. ~Contains(Tokens, c)
    <2> SUFFICES ASSUME Contains(Tokens, c) PROVE FALSE
      OBVIOUS
    <2>1. Tokens[nchar(c, Tokens) + 1] = c
      BY TokensAre
    <2>2. nchar(c, Tokens) >= 0 /\ nchar(c, Tokens) \in -1..2
      BY TokensAre
    <2>3. PICK j \in 1..3 : j = nchar(c, Tokens) + 1
      BY <2>2
    <2>4. c = <<"D", "E">> \/ c = <<"Q", "R", "Z">> \/ c = <<"C", "Q">>
      <3>1. j = 1 \/ j = 2 \/ j = 3
        OBVIOUS
      <3>2. Tokens[1] = <<"D", "E">> /\ Tokens[2] = <<"Q", "R", "Z">> /\ Tokens[3] = <<"C", "Q">>
        BY DEF Tokens
      <3> QED
        BY <2>1, <2>3, <3>1, <3>2, Zenon
    <2>5. Len(<<"D", "E">>) = 2 /\ Len(<<"C", "Q">>) = 2
      OBVIOUS
    <2>6. c # <<"D", "E">> /\ c # <<"C", "Q">>
      BY <1>2, <1>4, <2>5
    <2>7. c = <<"Q", "R", "Z">>
      BY <2>4, <2>6
    <2>8. m = 3 /\ c[2] = "R"
      BY <1>4, <2>7
    <2>9. k + 1 = 2
      BY <1>2, <1>6, <2>8
    <2>10. is_digit("R")
      BY <1>6, <2>8, <2>9
    <2> QED
      BY <2>10, Signs, DigitOrLetter
  <1>9. c[3] # "underscore"
    <2>1. 3 \in 1..l
      OBVIOUS
    <2>2. is_digit(c[3]) \/ is_letter(c[3])
      BY <1>3, <2>1
    <2>3. ~is_digit("underscore") /\ ~is_letter("underscore")
      <4>1. Len(Digits) = 10 /\ Len(Letters) = 26
        BY DEF Digits, Letters
      <4>2. \A i \in 1..10 : Digits[i] # "underscore"
        BY DEF Digits
      <4>3. \A i \in 1..26 : Letters[i] # "underscore"
        BY DEF Letters
      <4> QED
        BY <4>1, <4>2, <4>3 DEF is_digit, is_letter, Contains
    <2> QED
      BY <2>2, <2>3, Zenon
  <1>10. pack_basecall(c, l) >= 0
    BY <1>1, <1>2, <1>5, BaseFormPacked
  <1> QED
    BY <1>1, <1>2, <1>5, <1>7, <1>8, <1>9, <1>10

\* And pack28 packs it.
LEMMA StandardPacked ==
  ASSUME NEW m \in Nat, NEW c \in Tuple(m, Written), NEW n22,
         ~Contains(Tokens, c), m >= 3, c[3] # "underscore", pack_basecall(c, Before(c, m)) >= 0
  PROVE  pack28(c, n22).n28 >= 0
  <1> DEFINE n  == pack_basecall(c, Before(c, m))
             ip == IF HasSuffix(c) THEN 1 ELSE 0
             std  == [n28 |-> NTOKENS + MAX22 + n, ip |-> ip]
  <1>1. Len(c) = m
    BY TupleItems
  <1>2. ~IsPrefix(<<"C", "Q", "underscore">>, c)
    <2> DEFINE q == <<"C", "Q", "underscore">>
    <2>1. PICK three \in Nat : three = 3
      OBVIOUS
    <2>2. q \in Tuple(three, Written) /\ q[3] = "underscore"
      BY <2>1 DEF Tuple, Written, Marked
    <2> HIDE DEF q
    <2>3. IsPrefix(q, c) <=> three <= m /\ \A i \in 1..three : c[i] = q[i]
      BY <2>2, PrefixIs
    <2>4. three \in 1..three /\ three = 3
      BY <2>1
    <2>5. ~IsPrefix(q, c)
      BY <2>2, <2>3, <2>4
    <2> QED
      BY <2>5 DEF q
  <1>3. pack28(c, n22) = std
    BY <1>1, <1>2, Zenon DEF pack28, Before
  <1>4. n \in Int
    BY BasecallType
  <1>5. PICK a \in Nat : a = NTOKENS
    BY RangesAre
  <1>6. PICK b \in Nat : b = MAX22
    BY RangesAre
  <1> HIDE DEF n
  <1>7. n >= 0
    BY DEF n
  <1> QED
    BY <1>3, <1>4, <1>5, <1>6, <1>7

-----------------------------------------------------------------------------
\* A locator reads back: its number is below MAXGRID4, or it is one of the
\* texts that have a number of their own.
LEMMA TokenStart ==
  ASSUME NEW n \in Nat, NEW s \in Tuple(n, Written), NEW k \in 0..n, \A i \in 1..k : ~Blank(s, i)
  PROVE  \E q \in k..n : FirstToken(s) \in Tuple(q, Written) /\ \A i \in 1..q : FirstToken(s)[i] = s[i]
  <1> DEFINE ends == {i \in DOMAIN s : s[i] = "space"}
  <1>1. FirstToken(s) = IF ends = {} THEN s ELSE SubSeq(s, 1, Min(ends) - 1)
    BY DEF FirstToken
  <1>2. DOMAIN s = 1..n
    BY TupleItems
  <1>3. CASE ends = {}
    <2>1. FirstToken(s) = s /\ n \in k..n
      BY <1>1, <1>3
    <2> QED
      BY <2>1
  <1>4. CASE ends # {}
    <2>1. ends \in SUBSET Nat
      BY <1>2
    <2>2. Min(ends) \in ends
      BY <1>4, <2>1, LeastNumber
    <2>3. PICK e \in 1..n : e = Min(ends) /\ Blank(s, e)
      BY <1>2, <2>2 DEF Blank
    <2>4. ~(e <= k)
      <3> SUFFICES ASSUME e <= k PROVE FALSE
        OBVIOUS
      <3>1. e \in 1..k
        OBVIOUS
      <3> QED
        BY <2>3, <3>1
    <2>5. PICK q \in k..n : q = e - 1
      BY <2>4
    <2>6. FirstToken(s) = Slice(s, 1, q)
      <3>1. 1 + q - 1 = e - 1
        BY <2>5
      <3>2. FirstToken(s) = SubSeq(s, 1, e - 1)
        BY <1>1, <1>4, <2>3
      <3> QED
        BY <3>1, <3>2 DEF Slice
    <2>7. PICK one \in Nat : one = 1
      OBVIOUS
    <2>8. one >= 1 /\ one + q <= n + 1 /\ q \in Nat
      BY <2>7
    <2>9. Slice(s, one, q) \in Tuple(q, Written)
      BY <2>8, Cut
    <2>10. \A i \in 1..q : Slice(s, one, q)[i] = s[one + i - 1]
      BY <2>8, Cut
    <2>11. FirstToken(s) \in Tuple(q, Written)
      BY <2>6, <2>7, <2>9
    <2>12. \A i \in 1..q : FirstToken(s)[i] = s[i]
      <3> SUFFICES ASSUME NEW i \in 1..q PROVE FirstToken(s)[i] = s[i]
        OBVIOUS
      <3>1. one + i - 1 = i
        BY <2>7
      <3> QED
        BY <2>6, <2>7, <2>10, <3>1
    <2> QED
      BY <2>11, <2>12
  <1> QED
    BY <1>3, <1>4

\* A tuple of four characters is made of these four.
LEMMA FourAre ==
  ASSUME NEW S, NEW t \in Tuple(4, S)
  PROVE  t = <<t[1], t[2], t[3], t[4]>>
  <1> DEFINE u == <<t[1], t[2], t[3], t[4]>>
  <1>1. PICK n \in Nat : n = 4
    OBVIOUS
  <1>2. t \in Tuple(n, S)
    BY <1>1
  <1>3. \A i \in 1..n : t[i] \in S
    BY <1>2, TupleItems
  <1>4. t[1] \in S /\ t[2] \in S /\ t[3] \in S /\ t[4] \in S
    BY <1>1, <1>3
  <1>5. u \in Tuple(n, S)
    BY <1>1, <1>4 DEF Tuple
  <1>6. \A i \in 1..n : u[i] = t[i]
    BY <1>1
  <1> HIDE DEF u
  <1>7. t = u
    BY <1>2, <1>5, <1>6, SameTuples
  <1> QED
    BY <1>7 DEF u

\* The two letters and two digits of a number below MAXGRID4.
GridMade(a, b, c, d) == (a * 18 + b) * 100 + c * 10 + d
GridFits(n, a, b, c, d) ==
  /\ n \in Nat /\ n < MAXGRID4 /\ n < Powers[16]
  /\ (n \div 1800) % 18 = a /\ (n \div 100) % 18 = b /\ (n \div 10) % 10 = c /\ n % 10 = d

\* They are found by divisions.
LEMMA GridDigits ==
  ASSUME NEW a \in 0..17, NEW b \in 0..17, NEW c \in 0..9, NEW d \in 0..9
  PROVE  GridFits(GridMade(a, b, c, d), a, b, c, d)
  <1>0. PICK n : n = (a * 18 + b) * 100 + c * 10 + d
    OBVIOUS
  <1>1. PICK x \in Nat : x = b * 100 + c * 10 + d /\ x < 1800
    OBVIOUS
  <1>2. n = 1800 * a + x
    BY <1>0, <1>1
  <1>3. n \div 1800 = a
    BY <1>1, <1>2
  <1>4. PICK y \in Nat : y = c * 10 + d /\ y < 100
    OBVIOUS
  <1>5. n = 100 * (a * 18 + b) + y
    BY <1>0, <1>4
  <1>6. n \div 100 = a * 18 + b
    BY <1>4, <1>5
  <1>7. (a * 18 + b) % 18 = b
    OBVIOUS
  <1>8. n = 10 * ((a * 18 + b) * 10 + c) + d
    BY <1>0
  <1>9. n \div 10 = (a * 18 + b) * 10 + c /\ n % 10 = d
    BY <1>8
  <1>10. ((a * 18 + b) * 10 + c) % 10 = c
    OBVIOUS
  <1>11. n \in Nat /\ n < MAXGRID4
    BY <1>1, <1>2 DEF MAXGRID4
  <1>12. n < Powers[16]
    BY <1>1, <1>2 DEF Powers
  <1>13. a % 18 = a
    OBVIOUS
  <1>14. n = GridMade(a, b, c, d)
    BY <1>0 DEF GridMade
  <1>15. GridFits(n, a, b, c, d)
    BY <1>3, <1>6, <1>7, <1>9, <1>10, <1>11, <1>12, <1>13 DEF GridFits
  <1> QED
    BY <1>14, <1>15, Zenon

GridText(n) == <<charn((n \div 1800) % 18, Letters), charn((n \div 100) % 18, Letters),
                 charn((n \div 10) % 10, Digits), charn(n % 10, Digits)>>

\* Without the flag, a number up to MAXGRID4 is read as a locator, and the four
\* behind it as the texts with a number of their own.
LEMMA UnpackgridIs ==
  ASSUME NEW n
  PROVE  /\ n - MAXGRID4 <= 0 => unpackgrid(n, 0) = <<>> \o <<>> \o GridText(n)
         /\ ~(n - MAXGRID4 <= 0) /\ n - MAXGRID4 <= 4 => unpackgrid(n, 0) = Specials[n - MAXGRID4]
  <1>1. ~(0 > 0)
    OBVIOUS
  <1> DEFINE grid == GridText(n)
             flag == IF 0 > 0 THEN <<"R">> ELSE <<>>
             gap  == IF 0 > 0 THEN <<"space">> ELSE <<>>
             irpt == n - MAXGRID4
  <1>2. unpackgrid(n, 0) = IF irpt <= 0 THEN flag \o gap \o grid
                           ELSE IF irpt <= 4 THEN Specials[irpt]
                           ELSE flag \o int_to_dd(irpt - 35)
    BY Zenon DEF unpackgrid, GridText
  <1>3. flag = <<>> /\ gap = <<>>
    BY <1>1, Zenon
  <1> QED
    BY <1>2, <1>3, Zenon

\* A letter comes back from its number.
LEMMA LetterBack ==
  ASSUME NEW x
  PROVE  /\ Contains(Letters, x) => charn(nchar(x, Letters), Letters) = x
         /\ Contains(Letters, x) <=> nchar(x, Letters) >= 0
  <1>1. PICK n \in Nat : n = 26
    OBVIOUS
  <1>2. IsTable(Letters, n)
    BY <1>1, LettersAre
  <1>3. Len(Letters) = n /\ DOMAIN Letters = 1..n
    BY <1>2, TableIs
  <1>4. Contains(Letters, x) => charn(nchar(x, Letters), Letters) = x
    BY <1>3, NcharIs
  <1>5. Contains(Letters, x) <=> nchar(x, Letters) >= 0
    BY <1>3, NcharIs
  <1> QED
    BY <1>1, <1>4, <1>5

\* A digit comes back from its number.
LEMMA DigitIs ==
  ASSUME NEW x, is_digit(x)
  PROVE  nchar(x, Digits) \in 0..9 /\ charn(nchar(x, Digits), Digits) = x
  <1>1. PICK n \in Nat : n = 10
    OBVIOUS
  <1>2. IsTable(Digits, n)
    BY <1>1, DigitsAre
  <1>3. Len(Digits) = n /\ DOMAIN Digits = 1..n
    BY <1>2, TableIs
  <1>4. Contains(Digits, x)
    BY <1>1 DEF is_digit
  <1>5. charn(nchar(x, Digits), Digits) = x
    BY <1>3, <1>4, NcharIs
  <1>6. nchar(x, Digits) >= 0
    BY <1>3, <1>4, NcharIs
  <1>7. nchar(x, Digits) \in -1..(n - 1)
    BY <1>3, NcharIs
  <1>8. nchar(x, Digits) \in 0..9
    BY <1>1, <1>6, <1>7
  <1> QED
    BY <1>1, <1>5, <1>8

\* A text with a number of its own comes back from it.
LEMMA SpecialIs ==
  ASSUME NEW t, Contains(Specials, t)
  PROVE  /\ nchar(t, Specials) \in 0..3
         /\ Specials[nchar(t, Specials) + 1] = t
         /\ Len(t) <= 4
  <1>1. PICK n \in Nat : n = 4
    OBVIOUS
  <1>2. Len(Specials) = n /\ DOMAIN Specials = 1..n
    BY <1>1, SpecialsAre
  <1>3. charn(nchar(t, Specials), Specials) = t
    BY <1>2, NcharIs
  <1>4. nchar(t, Specials) >= 0
    BY <1>2, NcharIs
  <1>5. nchar(t, Specials) \in -1..(n - 1)
    BY <1>2, NcharIs
  <1>6. Specials[nchar(t, Specials) + 1] = t
    BY <1>3, Zenon DEF charn
  <1>7. PICK j \in 1..4 : j = nchar(t, Specials) + 1
    BY <1>1, <1>4, <1>5
  <1>8. Len(Specials[1]) = 0 /\ Len(Specials[2]) = 3 /\ Len(Specials[3]) = 4 /\ Len(Specials[4]) = 2
    BY DEF Specials
  <1>9. j = 1 \/ j = 2 \/ j = 3 \/ j = 4
    OBVIOUS
  <1>10. Len(t) <= 4
    <2>1. t = Specials[j]
      BY <1>6, <1>7
    <2>2. PICK k : k = Len(t)
      OBVIOUS
    <2>3. k = 0 \/ k = 3 \/ k = 4 \/ k = 2
      BY <1>8, <1>9, <2>1, <2>2, Zenon
    <2> QED
      BY <2>2, <2>3
  <1> QED
    BY <1>1, <1>4, <1>5, <1>6, <1>10

\* What IsGrid says, character by character.
LEMMA GridForm ==
  ASSUME NEW q \in Nat, NEW g \in Tuple(q, Written), IsGrid(g)
  PROVE  /\ q >= 4
         /\ nchar(g[1], Letters) \in 0..17 /\ nchar(g[2], Letters) \in 0..17
         /\ is_digit(g[3]) /\ is_digit(g[4])
         /\ \A i \in 1..4 : ~Blank(g, i)
  <1>1. Len(g) = q
    BY TupleItems
  <1>2. q >= 4 /\ nchar(g[1], Letters) \in 0..17 /\ nchar(g[2], Letters) \in 0..17 /\ is_digit(g[3]) /\ is_digit(g[4])
    BY <1>1, Zenon DEF IsGrid
  <1>3. nchar(g[1], Letters) >= 0 /\ nchar(g[2], Letters) >= 0
    BY <1>2
  <1>4. Contains(Letters, g[1])
    BY <1>3, LetterBack
  <1>5. Contains(Letters, g[2])
    BY <1>3, LetterBack
  <1>6. ~is_digit("space") /\ ~is_letter("space")
    BY NotAlphaNum
  <1>7. ASSUME NEW i \in 1..4 PROVE ~Blank(g, i)
    <2>1. i = 1 \/ i = 2 \/ i = 3 \/ i = 4
      OBVIOUS
    <2> QED
      BY <1>2, <1>4, <1>5, <1>6, <2>1, Zenon DEF Blank, is_letter
  <1> QED
    BY <1>2, <1>7

\* What packgrid makes of a text with a number of its own, and of a locator.
LEMMA PackgridIs ==
  ASSUME NEW g
  PROVE  /\ Contains(Specials, g) => packgrid(g) = MAXGRID4 + 1 + nchar(g, Specials)
         /\ ~Contains(Specials, g) /\ IsGrid(g) => packgrid(g) = GridNumber(g)
  <1>1. packgrid(g) = IF Contains(Specials, g) THEN MAXGRID4 + 1 + nchar(g, Specials)
                      ELSE IF IsGrid(g)        THEN GridNumber(g)
                      ELSE IF g[1] = "R"       THEN 32768 + ((MAXGRID4 + 35 + dd_to_int(Tail(g), 3)) % 32768)
                      ELSE MAXGRID4 + 35 + dd_to_int(g, 3)
    BY DEF packgrid
  <1> QED
    BY <1>1

\* The first four characters of the locator are read back.
LEMMA GridBack ==
  ASSUME NEW n \in Nat, NEW l \in Tuple(n, Written), IsGrid(l)
  PROVE  /\ packgrid(FirstToken(l)) \in Nat /\ packgrid(FirstToken(l)) < Powers[16]
         /\ unpackgrid(packgrid(FirstToken(l)), 0) = SubSeq(l, 1, 4)
  <1>1. /\ n >= 4
        /\ nchar(l[1], Letters) \in 0..17 /\ nchar(l[2], Letters) \in 0..17
        /\ is_digit(l[3]) /\ is_digit(l[4])
    BY GridForm
  <1>2. \A i \in 1..4 : ~Blank(l, i)
    BY GridForm
  <1>3. PICK k \in 0..n : k = 4
    BY <1>1
  <1>4. \A i \in 1..k : ~Blank(l, i)
    BY <1>2, <1>3
  <1>5. PICK q \in k..n : FirstToken(l) \in Tuple(q, Written) /\ \A i \in 1..q : FirstToken(l)[i] = l[i]
    BY <1>4, TokenStart
  <1>6. PICK e : e = FirstToken(l)
    OBVIOUS
  <1>7. e \in Tuple(q, Written) /\ q \in Nat /\ q >= 4 /\ Len(e) = q
    <2>1. e \in Tuple(q, Written) /\ q \in Nat /\ q >= 4
      BY <1>3, <1>5, <1>6
    <2> QED
      BY <2>1, TupleItems
  <1>8. \A i \in 1..4 : e[i] = l[i]
    BY <1>5, <1>6, <1>7
  <1> DEFINE grid == SubSeq(l, 1, 4)
  <1>9. grid \in Tuple(4, Written) /\ \A i \in 1..4 : grid[i] = l[i]
    <2>1. PICK one \in Nat : one = 1
      OBVIOUS
    <2>2. one >= 1 /\ one + k <= n + 1 /\ k \in Nat
      BY <1>1, <1>3, <2>1
    <2>3. Slice(l, one, k) \in Tuple(k, Written)
      BY <2>2, Cut
    <2>4. \A i \in 1..k : Slice(l, one, k)[i] = l[one + i - 1]
      BY <2>2, Cut
    <2>5. Slice(l, one, k) = grid
      <3>1. one = 1 /\ one + k - 1 = 4
        BY <1>3, <2>1
      <3> QED
        BY <3>1 DEF Slice
    <2>6. \A i \in 1..k : one + i - 1 = i
      BY <2>1
    <2> HIDE DEF grid
    <2> QED
      BY <1>3, <2>3, <2>4, <2>5, <2>6
  <1> HIDE DEF grid
  <1>10. PICK max \in Nat : max = MAXGRID4 /\ max + 5 < Powers[16]
    BY DEF MAXGRID4, Powers
  <1>11. CASE Contains(Specials, e)
    <2>1. packgrid(e) = max + 1 + nchar(e, Specials)
      BY <1>10, <1>11, PackgridIs
    <2>2. PICK j \in 0..3 : j = nchar(e, Specials) /\ Specials[j + 1] = e
      BY <1>11, SpecialIs
    <2>3. Len(e) <= 4
      BY <1>11, SpecialIs
    <2>4. q = 4
      BY <1>7, <2>3
    <2>5. e = grid
      <3>1. e \in Tuple(4, Written)
        BY <1>7, <2>4
      <3>2. PICK four \in Nat : four = 4
        OBVIOUS
      <3>3. \A i \in 1..four : e[i] = grid[i]
        BY <1>8, <1>9, <3>2
      <3>4. e \in Tuple(four, Written) /\ grid \in Tuple(four, Written)
        BY <1>9, <3>1, <3>2
      <3> QED
        BY <3>3, <3>4, SameTuples
    <2>6. PICK v \in Nat : v = max + 1 + j
      OBVIOUS
    <2>7. v - max = j + 1 /\ ~(v - max <= 0) /\ v - max <= 4
      BY <2>6
    <2>8. unpackgrid(v, 0) = Specials[v - MAXGRID4]
      BY <1>10, <2>7, UnpackgridIs
    <2>9. unpackgrid(v, 0) = grid
      BY <1>10, <2>2, <2>5, <2>7, <2>8
    <2>10. packgrid(e) = v
      BY <2>1, <2>2, <2>6
    <2>11. Powers[16] \in Int
      BY DEF Powers
    <2>12. v < Powers[16]
      BY <1>10, <2>6, <2>11
    <2> QED
      BY <1>6, <2>9, <2>10, <2>12 DEF grid
  <1>12. CASE ~Contains(Specials, e)
    <2>1. IsGrid(e)
      <3>1. Len(e) >= 4
        BY <1>7
      <3>2. e[1] = l[1] /\ e[2] = l[2] /\ e[3] = l[3] /\ e[4] = l[4]
        BY <1>8
      <3> QED
        BY <1>1, <3>1, <3>2, Zenon DEF IsGrid
    <2>2. PICK a \in 0..17 : a = nchar(l[1], Letters)
      BY <1>1
    <2>3. PICK b \in 0..17 : b = nchar(l[2], Letters)
      BY <1>1
    <2>4. PICK c \in 0..9 : c = nchar(l[3], Digits)
      BY <1>1, DigitIs
    <2>5. PICK d \in 0..9 : d = nchar(l[4], Digits)
      BY <1>1, DigitIs
    <2>6. e[1] = l[1] /\ e[2] = l[2] /\ e[3] = l[3] /\ e[4] = l[4]
      BY <1>8
    <2>7. PICK v : v = GridMade(a, b, c, d)
      OBVIOUS
    <2>8. packgrid(e) = v
      <3>1. GridNumber(e) = (a * 18 + b) * 100 + c * 10 + d
        BY <2>2, <2>3, <2>4, <2>5, <2>6, Zenon DEF GridNumber
      <3>2. GridNumber(e) = v
        BY <2>7, <3>1, Zenon DEF GridMade
      <3> QED
        BY <1>12, <2>1, <3>2, PackgridIs
    <2>21. GridFits(v, a, b, c, d)
      <3>1. GridFits(GridMade(a, b, c, d), a, b, c, d)
        BY GridDigits, Zenon
      <3> QED
        BY <2>7, <3>1, Zenon
    <2>9. v \in Nat /\ v < MAXGRID4 /\ v < Powers[16]
      BY <2>21 DEF GridFits
    <2>10. (v \div 1800) % 18 = a /\ (v \div 100) % 18 = b /\ (v \div 10) % 10 = c /\ v % 10 = d
      BY <2>21 DEF GridFits
    <2>11. charn(a, Letters) = l[1]
      <3>1. nchar(l[1], Letters) >= 0
        BY <1>1
      <3> QED
        BY <2>2, <3>1, LetterBack
    <2>12. charn(b, Letters) = l[2]
      <3>1. nchar(l[2], Letters) >= 0
        BY <1>1
      <3> QED
        BY <2>3, <3>1, LetterBack
    <2>13. charn(c, Digits) = l[3]
      BY <1>1, <2>4, DigitIs
    <2>14. charn(d, Digits) = l[4]
      BY <1>1, <2>5, DigitIs
    <2>15. GridText(v) = <<l[1], l[2], l[3], l[4]>>
      BY <2>10, <2>11, <2>12, <2>13, <2>14 DEF GridText
    <2>16. grid = <<l[1], l[2], l[3], l[4]>>
      <3>1. grid = <<grid[1], grid[2], grid[3], grid[4]>>
        BY <1>9, FourAre
      <3>2. grid[1] = l[1] /\ grid[2] = l[2] /\ grid[3] = l[3] /\ grid[4] = l[4]
        BY <1>9
      <3> QED
        BY <3>1, <3>2, Zenon
    <2>17. v - MAXGRID4 <= 0
      BY <1>10, <2>9
    <2>18. unpackgrid(v, 0) = <<>> \o <<>> \o GridText(v)
      BY <2>17, UnpackgridIs
    <2>19. <<>> \o <<>> \o grid = grid
      <3>1. PICK four \in Nat : four = 4
        OBVIOUS
      <3>2. grid \in Tuple(four, Written)
        BY <1>9, <3>1
      <3>3. <<>> \o grid = grid
        BY <3>2, NothingBefore
      <3>4. PICK zero \in Nat : zero = 0
        OBVIOUS
      <3>5. <<>> \in Tuple(zero, Written)
        BY <3>4 DEF Tuple
      <3>6. <<>> \o <<>> = <<>>
        BY <3>5, NothingBefore
      <3> QED
        BY <3>3, <3>6, Zenon
    <2>20. unpackgrid(v, 0) = grid
      BY <2>15, <2>16, <2>18, <2>19, Zenon
    <2> QED
      BY <1>6, <2>8, <2>9, <2>20 DEF grid
  <1> QED
    BY <1>11, <1>12

(***************************************************************************)
(* Every callsign of the forms that message.h 79 calls standard, with or   *)
(* without a suffix, is read by a receiver that has never heard it, with   *)
(* the four characters of the locator: pack28 and packgrid lose nothing,   *)
(* and unpack28 and unpackgrid give back what they were given.             *)
(***************************************************************************)
THEOREM PacketStandardReadable == Spec => []StandardReadable
  <1>1. PacketInv => StandardReadable
    <2> SUFFICES ASSUME PacketInv, Sent, IsStandard(call), IsGrid(loc)
                 PROVE  Heard = <<<<"C", "Q">>, call, SubSeq(loc, 1, 4)>>
      BY Zenon DEF StandardReadable
    <2>1. PICK n22 \in Hashes : payload \in Made(call, loc, n22) /\ Heard = ftx_message_decode(payload)
      BY HeardIs
    <2>2. PICK c \in Callsigns : c = call
      BY DEF PacketInv
    <2>3. PICK l \in Locators : l = loc
      BY DEF PacketInv
    <2>4. c \in Tuple(Len(c), Written) /\ Len(c) \in Nat
      BY StoredAre
    <2>5. l \in Tuple(Len(l), Written) /\ Len(l) \in Nat
      BY StoredAre
    <2>6. PICK m \in Nat : m = Len(c)
      BY <2>4
    <2>7. PICK n \in Nat : n = Len(l)
      BY <2>5
    <2>8. c \in Tuple(m, Written)
      BY <2>4, <2>6
    <2>9. l \in Tuple(n, Written)
      BY <2>5, <2>7
    <2>10. IsStandard(c)
      BY <2>2
    <2>11. IsGrid(l)
      BY <2>3
    <2>12. m >= 3 /\ ~Blanks(c)
      BY <2>8, <2>10, StandardCall
    <2>13. ~(c[1] = "3" /\ c[2] = "D" /\ c[3] = "0")
      BY <2>8, <2>10, StandardCall
    <2>14. ~(c[1] = "Q" /\ is_letter(c[2]))
      BY <2>8, <2>10, StandardCall
    <2>15. ~Contains(Tokens, c) /\ c[3] # "underscore"
      BY <2>8, <2>10, StandardCall
    <2>16. pack_basecall(c, Before(c, m)) >= 0
      BY <2>8, <2>10, StandardCall
    <2>17. pack28(c, n22).n28 >= 0
      BY <2>8, <2>12, <2>15, <2>16, StandardPacked
    <2>18. PICK p \in Made(c, l, n22) : p = payload
      BY <2>1, <2>2, <2>3
    <2>19. Len(c) >= 1
      BY <2>6, <2>12
    <2>20. p \in Tuple(77, Bit)
      BY <2>12, <2>13, <2>14, <2>15, <2>17, <2>19, StandardMessage
    <2>21. StandardHeard(c, l, p)
      BY <2>12, <2>13, <2>14, <2>15, <2>17, <2>19, StandardMessage
    <2>22. PICK heard : /\ ftx_message_decode(p) = <<<<"C", "Q">>, heard, unpackgrid(Value(Slice(p, 60, 15)), p[59])>>
                        /\ pack_basecall(c, Before(c, Len(c))) >= 0 => heard = c
                        /\ GridIn(p, packgrid(Extra(c, l)))
      BY <2>21, Zenon DEF StandardHeard
    <2>23. heard = c
      BY <2>6, <2>16, <2>22
    <2>24. n >= 4
      BY <2>9, <2>11, GridForm
    <2>25. \A i \in 1..4 : ~Blank(l, i)
      BY <2>9, <2>11, GridForm
    <2>26. Extra(c, l) = FirstToken(l)
      <3>1. 1 \in 1..4
        OBVIOUS
      <3>2. Len(l) >= 1 /\ ~Blank(l, 1)
        BY <2>7, <2>24, <2>25, <3>1
      <3>3. AfterToken(AfterToken(Buffer(c, l))) = l
        BY <2>12, <2>19, <3>2, TokensOfBuffer
      <3> QED
        BY <3>3, Zenon DEF Extra
    <2>27. packgrid(FirstToken(l)) \in Nat
      BY <2>9, <2>11, GridBack
    <2>28. packgrid(FirstToken(l)) < Powers[16]
      BY <2>9, <2>11, GridBack
    <2>29. unpackgrid(packgrid(FirstToken(l)), 0) = SubSeq(l, 1, 4)
      BY <2>9, <2>11, GridBack
    <2>30. PICK grid \in Nat : grid = packgrid(FirstToken(l))
      BY <2>27
    <2>31. grid < Powers[16]
      BY <2>28, <2>30
    <2>32. \A i \in 1..16 : p[58 + i] = Bits(grid, 16)[i]
      BY <2>22, <2>26, <2>30, Zenon DEF GridIn
    <2>33. p[59] = 0
      BY <2>20, <2>31, <2>32, GridField
    <2>34. Value(Slice(p, 60, 15)) = grid
      BY <2>20, <2>31, <2>32, GridField
    <2>35. ftx_message_decode(p) = <<<<"C", "Q">>, c, SubSeq(l, 1, 4)>>
      BY <2>22, <2>23, <2>29, <2>30, <2>33, <2>34, Zenon
    <2> QED
      BY <2>1, <2>2, <2>3, <2>18, <2>35, Zenon
  <1> QED
    BY <1>1, PacketInvariant, PTL

-----------------------------------------------------------------------------
\* Free text.  What each byte carries over to the one before it, when a number
\* is multiplied by 42 and a digit is added.
Digit42 == 0..41

Carries(bytes, d, n) ==
  Loop([k \in 1..n |-> [c \in Int |-> (bytes[n + 1 - k] * 42 + c) \div 256]], d, n)

\* One byte: it and the carry into it leave a byte and a carry below 42.
LEMMA CarryStep ==
  ASSUME NEW b \in Byte, NEW c \in Digit42
  PROVE  /\ (b * 42 + c) \div 256 \in Digit42
         /\ (b * 42 + c) % 256 \in Byte
         /\ 256 * ((b * 42 + c) \div 256) + ((b * 42 + c) % 256) = b * 42 + c
         /\ (b * 42 + c) \div 42 = b /\ (b * 42 + c) % 42 = c
  <1>1. b \in Int /\ 0 <= b /\ b <= 255 /\ c \in Int /\ 0 <= c /\ c <= 41
    BY DEF Byte, Digit42
  <1>2. PICK v \in Int : v = b * 42 + c
    BY <1>1
  <1>3. 0 <= v /\ v <= 10751
    BY <1>1, <1>2
  <1>4. v \div 256 \in Int /\ 0 <= v \div 256 /\ v \div 256 <= 41
    BY <1>3
  <1>5. v % 256 \in Int /\ 0 <= v % 256 /\ v % 256 <= 255
    BY <1>3
  <1>6. 256 * (v \div 256) + (v % 256) = v
    OBVIOUS
  <1>7. v \div 42 = b /\ v % 42 = c
    BY <1>1, <1>2
  <1> QED
    BY <1>2, <1>4, <1>5, <1>6, <1>7 DEF Byte, Digit42

\* The carries, and the bytes they leave.
LEMMA CarriesAre ==
  ASSUME NEW n \in Nat, NEW bytes \in Tuple(n, Byte), NEW d \in Digit42
  PROVE  /\ Carries(bytes, d, n)[0] = d
         /\ \A k \in 0..n : Carries(bytes, d, n)[k] \in Digit42
         /\ \A k \in 1..n : Carries(bytes, d, n)[k] = (bytes[n + 1 - k] * 42 + Carries(bytes, d, n)[k - 1]) \div 256
         /\ \A i \in 1..n : MulAdd(bytes, 42, d)[i] = (bytes[i] * 42 + Carries(bytes, d, n)[n - i]) % 256
  <1> DEFINE step == [k \in 1..n |-> [c \in Int |-> (bytes[n + 1 - k] * 42 + c) \div 256]]
             carry == Loop(step, d, n)
  <1>1. Len(bytes) = n /\ \A i \in 1..n : bytes[i] \in Byte
    BY TupleItems
  <1>2. \A k \in 1..n, c \in Digit42 : step[k][c] = (bytes[n + 1 - k] * 42 + c) \div 256
    <2>1. \A c \in Digit42 : c \in Int
      BY DEF Digit42
    <2> QED
      BY <2>1
  <1>3. MulAdd(bytes, 42, d) = [i \in 1..n |-> (bytes[i] * 42 + carry[n - i]) % 256]
    BY <1>1, Zenon DEF MulAdd
  <1>4. Carries(bytes, d, n) = carry
    BY Zenon DEF Carries
  <1> HIDE DEF step
  <1>5. Stays(step, n, Digit42)
    <2> SUFFICES ASSUME NEW k \in 1..n, NEW c \in Digit42
                 PROVE  (bytes[n + 1 - k] * 42 + c) \div 256 \in Digit42
      BY <1>2 DEF Stays
    <2>1. n + 1 - k \in 1..n
      OBVIOUS
    <2>2. PICK b \in Byte : b = bytes[n + 1 - k]
      BY <1>1, <2>1
    <2>3. (b * 42 + c) \div 256 \in Digit42
      BY CarryStep
    <2> QED
      BY <2>2, <2>3
  <1>6. carry[0] = d
    BY <1>5, LoopRounds
  <1>7. \A k \in 0..n : carry[k] \in Digit42
    BY <1>5, LoopRounds
  <1>8. \A k \in 1..n : carry[k] = step[k][carry[k - 1]]
    BY <1>5, LoopRounds
  <1> HIDE DEF carry
  <1>9. ASSUME NEW k \in 1..n PROVE carry[k] = (bytes[n + 1 - k] * 42 + carry[k - 1]) \div 256
    <2>1. k - 1 \in 0..n
      OBVIOUS
    <2>2. carry[k - 1] \in Digit42
      BY <1>7, <2>1
    <2> QED
      BY <1>2, <1>8, <2>2
  <1>10. \A i \in 1..n : MulAdd(bytes, 42, d)[i] = (bytes[i] * 42 + carry[n - i]) % 256
    BY <1>3
  <1> QED
    BY <1>4, <1>6, <1>7, <1>9, <1>10

\* A division by 42 undoes this, if nothing is carried out of the first byte:
\* the rest that it leaves behind each byte is what this byte had taken over.
LEMMA RestsAre ==
  ASSUME NEW n \in Nat, NEW bytes \in Tuple(n, Byte)
  PROVE  /\ Rests(bytes, 42)[0] = 0
         /\ \A i \in 0..n : Rests(bytes, 42)[i] \in Digit42
         /\ \A i \in 1..n : Rests(bytes, 42)[i] = (256 * Rests(bytes, 42)[i - 1] + bytes[i]) % 42
  <1> DEFINE step == [i \in 1..n |-> [r \in Nat |-> (256 * r + bytes[i]) % 42]]
             rests == Loop(step, 0, n)
  <1>1. Len(bytes) = n /\ \A i \in 1..n : bytes[i] \in Byte
    BY TupleItems
  <1>2. Rests(bytes, 42) = rests
    BY <1>1, Zenon DEF Rests
  <1>3. \A i \in 1..n, r \in Digit42 : step[i][r] = (256 * r + bytes[i]) % 42
    <2>1. \A r \in Digit42 : r \in Nat
      BY DEF Digit42
    <2> QED
      BY <2>1
  <1> HIDE DEF step
  <1>4. Stays(step, n, Digit42)
    <2> SUFFICES ASSUME NEW i \in 1..n, NEW r \in Digit42
                 PROVE  (256 * r + bytes[i]) % 42 \in Digit42
      BY <1>3 DEF Stays
    <2>1. PICK b \in Byte : b = bytes[i]
      BY <1>1
    <2>2. PICK v \in Int : v = 256 * r + b
      BY DEF Byte, Digit42
    <2>3. v % 42 \in Int /\ 0 <= v % 42 /\ v % 42 <= 41
      OBVIOUS
    <2> QED
      BY <2>1, <2>2, <2>3 DEF Digit42
  <1>5. PICK z \in Digit42 : z = 0
    BY DEF Digit42
  <1>6. rests[0] = 0
    BY <1>4, <1>5, LoopRounds
  <1>7. \A i \in 0..n : rests[i] \in Digit42
    BY <1>4, <1>5, LoopRounds
  <1>8. \A i \in 1..n : rests[i] = step[i][rests[i - 1]]
    BY <1>4, <1>5, LoopRounds
  <1> HIDE DEF rests
  <1>9. ASSUME NEW i \in 1..n PROVE rests[i] = (256 * rests[i - 1] + bytes[i]) % 42
    <2>1. i - 1 \in 0..n
      OBVIOUS
    <2>2. rests[i - 1] \in Digit42
      BY <1>7, <2>1
    <2> QED
      BY <1>3, <1>8, <2>2
  <1> QED
    BY <1>2, <1>6, <1>7, <1>9

\* If nothing is carried out of the bytes, a division by 42 undoes the step.
LEMMA DivBack ==
  ASSUME NEW n \in Nat, NEW bytes \in Tuple(n, Byte), NEW d \in Digit42, Carries(bytes, d, n)[n] = 0
  PROVE  Rest(MulAdd(bytes, 42, d), 42) = d /\ Quotient(MulAdd(bytes, 42, d), 42) = bytes
  <1> DEFINE carry == Carries(bytes, d, n)
             out   == MulAdd(bytes, 42, d)
             rests == Rests(out, 42)
  <1>1. carry[0] = d
    BY CarriesAre
  <1>2. \A k \in 0..n : carry[k] \in Digit42
    BY CarriesAre
  <1>3. \A k \in 1..n : carry[k] = (bytes[n + 1 - k] * 42 + carry[k - 1]) \div 256
    BY CarriesAre
  <1>4. \A i \in 1..n : out[i] = (bytes[i] * 42 + carry[n - i]) % 256
    BY CarriesAre
  <1>5. carry[n] = 0
    OBVIOUS
  <1> HIDE DEF carry
  <1>6. out \in Tuple(n, Byte)
    <2>1. PICK m \in Int : m = 42
      OBVIOUS
    <2>2. d \in Int
      BY DEF Digit42
    <2>3. MulAdd(bytes, m, d) \in Tuple(n, Byte)
      BY <2>2, MulAddType
    <2> QED
      BY <2>1, <2>3
  <1> HIDE DEF out
  <1>7. rests[0] = 0
    BY <1>6, RestsAre
  <1>8. \A i \in 1..n : rests[i] = (256 * rests[i - 1] + out[i]) % 42
    BY <1>6, RestsAre
  <1>9. Len(out) = n /\ \A i \in 1..n : bytes[i] \in Byte
    BY <1>6, TupleItems
  <1>10. Rest(out, 42) = rests[n]
    BY <1>9, Zenon DEF Rest
  <1>11. Quotient(out, 42) = <<>> \o [i \in 1..n |-> (256 * rests[i - 1] + out[i]) \div 42]
    BY <1>9, Zenon DEF Quotient
  <1> HIDE DEF rests
  <1>12. ASSUME NEW i \in 1..n, rests[i - 1] = carry[n - (i - 1)]
         PROVE  rests[i] = carry[n - i] /\ (256 * rests[i - 1] + out[i]) \div 42 = bytes[i]
    <2>1. PICK k \in 1..n : k = n - (i - 1)
      OBVIOUS
    <2>2. n + 1 - k = i /\ k - 1 = n - i /\ n - i \in 0..n
      BY <2>1
    <2>3. PICK c \in Digit42 : c = carry[n - i]
      BY <1>2, <2>2
    <2>4. PICK b \in Byte : b = bytes[i]
      BY <1>9
    <2>5. carry[k] = (b * 42 + c) \div 256
      BY <1>3, <2>2, <2>3, <2>4
    <2>6. out[i] = (b * 42 + c) % 256
      BY <1>4, <2>3, <2>4
    <2>7. 256 * ((b * 42 + c) \div 256) + ((b * 42 + c) % 256) = b * 42 + c
      BY CarryStep
    <2>8. 256 * rests[i - 1] + out[i] = b * 42 + c
      BY <1>12, <2>1, <2>5, <2>6, <2>7
    <2>9. (b * 42 + c) \div 42 = b /\ (b * 42 + c) % 42 = c
      BY CarryStep
    <2> QED
      BY <1>8, <2>3, <2>4, <2>8, <2>9
  <1> DEFINE Good == {i \in 0..n : rests[i] = carry[n - i]}
  <1>13. 0 \in Good
    <2>1. n - 0 = n
      OBVIOUS
    <2> QED
      BY <1>5, <1>7, <2>1
  <1>14. ASSUME NEW i \in 1..n, i - 1 \in Good PROVE i \in Good
    BY <1>12, <1>14
  <1>15. \A i \in 0..n : i \in Good
    <2> HIDE DEF Good
    <2> QED
      BY <1>13, <1>14, Upwards
  <1>16. rests[n] = d
    <2>1. n \in Good /\ n - n = 0
      BY <1>15
    <2> QED
      BY <1>1, <2>1
  <1>17. ASSUME NEW i \in 1..n PROVE (256 * rests[i - 1] + out[i]) \div 42 = bytes[i]
    <2>1. i - 1 \in Good
      BY <1>15
    <2> QED
      BY <1>12, <2>1
  <1> DEFINE quotient == [i \in 1..n |-> (256 * rests[i - 1] + out[i]) \div 42]
  <1>18. quotient = bytes
    <2>1. \A i \in 1..n : quotient[i] = bytes[i]
      BY <1>17
    <2>2. quotient \in Tuple(n, Byte)
      BY <1>9, <1>17 DEF Tuple
    <2> HIDE DEF quotient
    <2> QED
      BY <2>1, <2>2, SameTuples
  <1>19. <<>> \o bytes = bytes
    BY NothingBefore
  <1> HIDE DEF quotient
  <1>20. Quotient(out, 42) = bytes
    BY <1>11, <1>18, <1>19 DEF quotient
  <1> QED
    BY <1>10, <1>16, <1>20 DEF out

\* The number that bytes are, byte by byte, and the powers that bound it: after
\* j digits it is below 42^j, and thirteen digits leave the first bit free.
Wide(b, n) == Read(b, 256, n)

Powers42  == <<1, 42, 1764, 74088, 3111696, 130691232, 5489031744, 230539333248, 9682651996416,
               406671383849472, 17080198121677824, 717368321110468608, 30129469486639681536,
               1265437718438866624512>>
Powers256 == <<1, 256, 65536, 16777216, 4294967296, 1099511627776, 281474976710656,
               72057594037927936, 18446744073709551616, 4722366482869645213696>>

LEMMA PowersAre ==
  /\ \A j \in 1..14 : Powers42[j] \in Nat
  /\ \A j \in 1..13 : Powers42[j + 1] = 42 * Powers42[j] /\ Powers42[j + 1] <= Powers42[14]
  /\ \A i \in 1..10 : Powers256[i] \in Nat
  /\ \A i \in 1..9 : Powers256[i + 1] = 256 * Powers256[i]
  /\ Powers42[1] = 1 /\ Powers256[1] = 1
  /\ Powers42[14] < Powers256[10] /\ Powers42[14] < 128 * Powers256[9]
  <1>1. /\ \A j \in 1..14 : Powers42[j] \in Nat
        /\ Powers42[1] = 1
    BY DEF Powers42
  <1>2. \A j \in 1..13 : Powers42[j + 1] = 42 * Powers42[j] /\ Powers42[j + 1] <= Powers42[14]
    BY DEF Powers42
  <1>3. /\ \A i \in 1..10 : Powers256[i] \in Nat
        /\ Powers256[1] = 1
    BY DEF Powers256
  <1>4. \A i \in 1..9 : Powers256[i + 1] = 256 * Powers256[i]
    BY DEF Powers256
  <1>5. Powers42[14] < Powers256[10] /\ Powers42[14] < 128 * Powers256[9]
    BY DEF Powers42, Powers256
  <1> QED
    BY <1>1, <1>2, <1>3, <1>4, <1>5

\* The number, byte by byte.
LEMMA WideIs ==
  ASSUME NEW n \in Nat, NEW b \in Tuple(n, Byte)
  PROVE  /\ Wide(b, n)[0] = 0
         /\ \A i \in 0..n : Wide(b, n)[i] \in Int
         /\ \A i \in 0..n : Wide(b, n)[i] >= 0
         /\ \A i \in 1..n : Wide(b, n)[i] = 256 * Wide(b, n)[i - 1] + b[i]
  <1>1. b \in Tuple(n, Int)
    <2>1. Byte \subseteq Int
      BY DEF Byte
    <2> QED
      BY <2>1, WiderTuple
  <1>2. PICK base \in Int : base = 256
    OBVIOUS
  <1>3. Wide(b, n) = Read(b, base, n)
    BY <1>2, Zenon DEF Wide
  <1> DEFINE v == Wide(b, n)
  <1>4. v[0] = 0
    BY <1>1, <1>3, ReadIs
  <1>5. \A i \in 0..n : v[i] \in Int
    BY <1>1, <1>3, ReadIs
  <1>6. \A i \in 1..n : v[i] = base * v[i - 1] + b[i]
    BY <1>1, <1>3, ReadIs
  <1> HIDE DEF v
  <1>7. \A i \in 1..n : v[i] = 256 * v[i - 1] + b[i]
    BY <1>2, <1>6
  <1> DEFINE Good == {i \in 0..n : v[i] >= 0}
  <1>8. 0 \in Good
    BY <1>4
  <1>9. ASSUME NEW i \in 1..n, i - 1 \in Good PROVE i \in Good
    <2>1. PICK x \in Int : x = v[i - 1] /\ x >= 0
      BY <1>5, <1>9
    <2>2. \A k \in 1..n : b[k] \in Byte
      BY TupleItems
    <2>3. PICK y \in Int : y = b[i] /\ y >= 0
      BY <2>2 DEF Byte
    <2> QED
      BY <1>7, <2>1, <2>3
  <1>10. \A i \in 0..n : i \in Good
    <2> HIDE DEF Good
    <2> QED
      BY <1>8, <1>9, Upwards
  <1> QED
    BY <1>4, <1>5, <1>7, <1>10 DEF v

\* A digit more, in the first i bytes: they are 42 times what they were, with
\* what the bytes behind them carry over, and without what they carry out.
Grows(b, d, n, i) ==
  LET w == Wide(b, n)[i]
      x == Wide(MulAdd(b, 42, d), n)[i]
      c == Carries(b, d, n)
  IN  IF c[n] = 0 THEN x = 42 * w + c[n - i] ELSE x + Powers256[i + 1] <= 42 * w + c[n - i]

\* By induction over the bytes.
LEMMA GrowsBy ==
  ASSUME NEW n \in 0..9, NEW b \in Tuple(n, Byte), NEW d \in Digit42
  PROVE  Grows(b, d, n, n)
  <1> DEFINE c == Carries(b, d, n)
             o == MulAdd(b, 42, d)
             w == Wide(b, n)
             x == Wide(o, n)
             Good == {i \in 0..n : Grows(b, d, n, i)}
  <1>1. n \in Nat
    OBVIOUS
  <1>2. \A k \in 0..n : c[k] \in Digit42
    BY <1>1, CarriesAre
  <1>3. \A k \in 1..n : c[k] = (b[n + 1 - k] * 42 + c[k - 1]) \div 256
    BY <1>1, CarriesAre
  <1>4. \A i \in 1..n : o[i] = (b[i] * 42 + c[n - i]) % 256
    BY <1>1, CarriesAre
  <1>5. \A i \in 1..n : b[i] \in Byte
    BY <1>1, TupleItems
  <1>6. o \in Tuple(n, Byte)
    <2>1. PICK m \in Int : m = 42
      OBVIOUS
    <2>2. d \in Int
      BY DEF Digit42
    <2>3. MulAdd(b, m, d) \in Tuple(n, Byte)
      BY <1>1, <2>2, MulAddType
    <2> QED
      BY <2>1, <2>3
  <1>7. \A i \in 0..n : Grows(b, d, n, i) <=> IF c[n] = 0 THEN x[i] = 42 * w[i] + c[n - i]
                                              ELSE x[i] + Powers256[i + 1] <= 42 * w[i] + c[n - i]
    BY Zenon DEF Grows
  <1> HIDE DEF c, o
  <1>8. w[0] = 0
    BY <1>1, WideIs
  <1>9. \A i \in 0..n : w[i] \in Int
    BY <1>1, WideIs
  <1>10. \A i \in 1..n : w[i] = 256 * w[i - 1] + b[i]
    BY <1>1, WideIs
  <1>11. x[0] = 0
    BY <1>1, <1>6, WideIs
  <1>12. \A i \in 0..n : x[i] \in Int
    BY <1>1, <1>6, WideIs
  <1>13. \A i \in 1..n : x[i] = 256 * x[i - 1] + o[i]
    BY <1>1, <1>6, WideIs
  <1> HIDE DEF w, x
  <1>14. 0 \in Good
    <2>1. 0 \in 0..n /\ n - 0 = n /\ 0 + 1 = 1
      OBVIOUS
    <2>2. c[n] \in Int /\ c[n] >= 0
      BY <1>2 DEF Digit42
    <2>3. c[n] # 0 => 1 <= c[n]
      BY <2>2
    <2>4. Powers256[1] = 1
      BY PowersAre
    <2>5. Grows(b, d, n, 0) <=> IF c[n] = 0 THEN x[0] = 42 * w[0] + c[n]
                                ELSE x[0] + Powers256[1] <= 42 * w[0] + c[n]
      BY <1>7, <2>1
    <2> QED
      BY <1>8, <1>11, <2>1, <2>2, <2>3, <2>4, <2>5
  <1>15. ASSUME NEW i \in 1..n, i - 1 \in Good PROVE i \in Good
    <2>1. PICK k \in 1..n : k = n - (i - 1)
      OBVIOUS
    <2>2. n + 1 - k = i /\ k - 1 = n - i /\ n - i \in 0..n /\ i - 1 \in 0..n /\ i \in 0..n /\ k \in 0..n
      BY <2>1
    <2>3. PICK u \in Digit42 : u = c[n - i]
      BY <1>2, <2>2
    <2>4. PICK y \in Byte : y = b[i]
      BY <1>5
    <2>5. PICK r \in Int : r = c[k] /\ r = (y * 42 + u) \div 256
      <3>1. c[k] = (y * 42 + u) \div 256
        BY <1>3, <2>2, <2>3, <2>4
      <3>2. c[k] \in Int
        BY <1>2, <2>2 DEF Digit42
      <3> QED
        BY <3>1, <3>2
    <2>6. PICK z \in Int : z = o[i] /\ z = (y * 42 + u) % 256
      <3>1. o[i] = (y * 42 + u) % 256
        BY <1>4, <2>3, <2>4
      <3>2. (y * 42 + u) % 256 \in Byte
        BY CarryStep
      <3> QED
        BY <3>1, <3>2 DEF Byte
    <2>7. 256 * r + z = y * 42 + u
      <3>1. 256 * ((y * 42 + u) \div 256) + ((y * 42 + u) % 256) = y * 42 + u
        BY CarryStep
      <3> QED
        BY <2>5, <2>6, <3>1
    <2>8. u \in Int /\ y \in Int
      BY DEF Digit42, Byte
    <2>9. PICK w0 \in Int : w0 = w[i - 1]
      BY <1>9, <2>2
    <2>10. PICK x0 \in Int : x0 = x[i - 1]
      BY <1>12, <2>2
    <2>11. w[i] = 256 * w0 + y
      BY <1>10, <2>4, <2>9
    <2>12. x[i] = 256 * x0 + z
      BY <1>13, <2>6, <2>10
    <2>13. Grows(b, d, n, i - 1)
      BY <1>15
    <2>14. CASE c[n] = 0
      <3>1. x[i - 1] = 42 * w[i - 1] + c[n - (i - 1)]
        BY <1>7, <2>2, <2>13, <2>14, Zenon
      <3>2. x0 = 42 * w0 + r
        BY <2>1, <2>5, <2>9, <2>10, <3>1
      <3>3. 256 * x0 + z = 42 * (256 * w0 + y) + u
        BY <2>7, <2>8, <3>2
      <3>4. x[i] = 42 * w[i] + c[n - i]
        BY <2>3, <2>11, <2>12, <3>3
      <3> QED
        BY <1>7, <2>2, <2>14, <3>4
    <2>15. CASE c[n] # 0
      <3>1. x[i - 1] + Powers256[i - 1 + 1] <= 42 * w[i - 1] + c[n - (i - 1)]
        BY <1>7, <2>2, <2>13, <2>15, Zenon
      <3>2. i - 1 + 1 = i /\ i \in 1..9
        OBVIOUS
      <3>3. PICK p \in Int : p = Powers256[i] /\ Powers256[i + 1] = 256 * p
        <4>1. i \in 1..10
          BY <3>2
        <4> QED
          BY <3>2, <4>1, PowersAre
      <3>4. x0 + p <= 42 * w0 + r
        BY <2>1, <2>5, <2>9, <2>10, <3>1, <3>2, <3>3
      <3>5. 256 * x0 + z + 256 * p <= 42 * (256 * w0 + y) + u
        BY <2>7, <2>8, <3>4
      <3>6. x[i] + Powers256[i + 1] <= 42 * w[i] + c[n - i]
        BY <2>3, <2>11, <2>12, <3>3, <3>5
      <3> QED
        BY <1>7, <2>2, <2>15, <3>6
    <2> QED
      BY <2>14, <2>15
  <1>16. \A i \in 0..n : i \in Good
    <2> HIDE DEF Good
    <2> QED
      BY <1>1, <1>14, <1>15, Upwards
  <1>17. n \in Good
    BY <1>16
  <1> QED
    BY <1>17

\* The bytes after each of the thirteen digits.
Filled(digits) ==
  Loop([i \in 1..13 |-> [bytes \in [1..9 -> 0..255] |-> MulAdd(bytes, 42, digits[i])]], Zeros(9), 13)

\* They are the bytes of packtext77.
LEMMA FilledIs ==
  ASSUME NEW digits \in Tuple(13, Digit42)
  PROVE  /\ Packed(digits, 42, 9) = Filled(digits)[13]
         /\ Filled(digits)[0] = Zeros(9)
         /\ \A i \in 0..13 : Filled(digits)[i] \in Tuple(9, Byte)
         /\ \A i \in 1..13 : Filled(digits)[i] = MulAdd(Filled(digits)[i - 1], 42, digits[i])
  <1> DEFINE step == [i \in 1..13 |-> [bytes \in [1..9 -> 0..255] |-> MulAdd(bytes, 42, digits[i])]]
             f == Filled(digits)
  <1>1. Len(digits) = 13 /\ \A i \in 1..13 : digits[i] \in Digit42
    <2>1. PICK l \in Nat : l = 13
      OBVIOUS
    <2>2. digits \in Tuple(l, Digit42)
      BY <2>1
    <2>3. Len(digits) = l /\ \A i \in 1..l : digits[i] \in Digit42
      BY <2>2, TupleItems
    <2> QED
      BY <2>1, <2>3
  <1>2. \A i \in 1..13, bytes \in Tuple(9, Byte) : step[i][bytes] = MulAdd(bytes, 42, digits[i])
    <2> SUFFICES ASSUME NEW i \in 1..13, NEW bytes \in Tuple(9, Byte)
                 PROVE  step[i][bytes] = MulAdd(bytes, 42, digits[i])
      BY Zenon
    <2>1. bytes \in [1..9 -> 0..255]
      BY Zenon DEF Tuple, Byte
    <2> QED
      BY <2>1, Zenon
  <1>3. Packed(digits, 42, 9) = f[13]
    BY <1>1, Zenon DEF Packed, Filled
  <1>4. f = Loop(step, Zeros(9), 13)
    BY Zenon DEF Filled
  <1> HIDE DEF step, f
  <1>5. PICK l \in Nat : l = 13
    OBVIOUS
  <1>6. Zeros(9) \in Tuple(9, Byte)
    BY DEF Zeros, Tuple, Byte
  <1>7. Stays(step, l, Tuple(9, Byte))
    <2> SUFFICES ASSUME NEW i \in 1..13, NEW bytes \in Tuple(9, Byte)
                 PROVE  MulAdd(bytes, 42, digits[i]) \in Tuple(9, Byte)
      BY <1>2, <1>5 DEF Stays
    <2>1. PICK d \in Int : d = digits[i]
      BY <1>1 DEF Digit42
    <2>2. PICK n \in Nat, m \in Int : n = 9 /\ m = 42
      OBVIOUS
    <2>3. bytes \in Tuple(n, Byte)
      BY <2>2
    <2>4. MulAdd(bytes, m, d) \in Tuple(n, Byte)
      BY <2>3, MulAddType
    <2> QED
      BY <2>1, <2>2, <2>4
  <1>8. f[0] = Zeros(9)
    <2>1. Loop(step, Zeros(9), l)[0] = Zeros(9)
      BY <1>6, <1>7, LoopRounds
    <2> QED
      BY <1>4, <1>5, <2>1
  <1>9. \A i \in 0..l : f[i] \in Tuple(9, Byte)
    <2>1. \A i \in 0..l : Loop(step, Zeros(9), l)[i] \in Tuple(9, Byte)
      BY <1>6, <1>7, LoopRounds
    <2> QED
      BY <1>4, <1>5, <2>1
  <1>10. \A i \in 1..l : f[i] = step[i][f[i - 1]]
    <2>1. \A i \in 1..l : Loop(step, Zeros(9), l)[i] = step[i][Loop(step, Zeros(9), l)[i - 1]]
      BY <1>6, <1>7, LoopRounds
    <2> QED
      BY <1>4, <1>5, <2>1, Zenon
  <1>11. ASSUME NEW i \in 1..13 PROVE f[i] = MulAdd(f[i - 1], 42, digits[i])
    <2>1. i - 1 \in 0..l /\ i \in 1..l
      BY <1>5
    <2>2. f[i - 1] \in Tuple(9, Byte)
      BY <1>9, <2>1
    <2>3. f[i] = step[i][f[i - 1]]
      BY <1>10, <2>1
    <2> QED
      BY <1>2, <2>2, <2>3
  <1> QED
    BY <1>3, <1>5, <1>8, <1>9, <1>11 DEF f

\* Nothing is carried out of the nine bytes.
LEMMA FilledFits ==
  ASSUME NEW digits \in Tuple(13, Digit42)
  PROVE  /\ \A j \in 0..13 : Wide(Filled(digits)[j], 9)[9] < Powers42[j + 1]
         /\ \A j \in 1..13 : Carries(Filled(digits)[j - 1], digits[j], 9)[9] = 0
  <1> DEFINE f == Filled(digits)
             Fits(j) == Wide(f[j], 9)[9] < Powers42[j + 1]
             Good == {j \in 0..13 : Fits(j)}
  <1>1. f[0] = Zeros(9)
    BY FilledIs
  <1>2. \A i \in 0..13 : f[i] \in Tuple(9, Byte)
    BY FilledIs
  <1>3. \A i \in 1..13 : f[i] = MulAdd(f[i - 1], 42, digits[i])
    BY FilledIs
  <1> HIDE DEF f
  <1>4. \A i \in 1..13 : digits[i] \in Digit42
    <2>1. PICK l \in Nat : l = 13
      OBVIOUS
    <2>2. digits \in Tuple(l, Digit42)
      BY <2>1
    <2>3. \A i \in 1..l : digits[i] \in Digit42
      BY <2>2, TupleItems
    <2> QED
      BY <2>1, <2>3
  <1>5. PICK n \in Nat : n = 9
    OBVIOUS
  <1>6. 0 \in Good
    <2> DEFINE z == Zeros(n)
               w == Wide(z, n)
               Zero == {i \in 0..n : w[i] = 0}
    <2>1. z \in Tuple(n, Byte) /\ \A i \in 1..n : z[i] = 0
      BY DEF Zeros, Tuple, Byte
    <2> HIDE DEF z
    <2>2. w[0] = 0
      BY <2>1, WideIs
    <2>3. \A i \in 1..n : w[i] = 256 * w[i - 1] + z[i]
      BY <2>1, WideIs
    <2> HIDE DEF w
    <2>4. 0 \in Zero
      BY <2>2
    <2>5. ASSUME NEW i \in 1..n, i - 1 \in Zero PROVE i \in Zero
      BY <2>1, <2>3, <2>5
    <2>6. \A i \in 0..n : i \in Zero
      <3> HIDE DEF Zero
      <3> QED
        BY <2>4, <2>5, Upwards
    <2>7. w[n] = 0
      BY <2>6
    <2>8. Wide(f[0], 9)[9] = 0
      BY <1>1, <1>5, <2>7 DEF w, z
    <2>9. Powers42[1] = 1 /\ 0 + 1 = 1
      BY PowersAre
    <2> QED
      BY <2>8, <2>9
  <1>7. ASSUME NEW j \in 1..13, j - 1 \in Good PROVE Fits(j) /\ Carries(f[j - 1], digits[j], 9)[9] = 0
    <2>1. j - 1 \in 0..13 /\ j - 1 + 1 = j /\ j \in 0..13 /\ j \in 1..14
      OBVIOUS
    <2>2. PICK b \in Tuple(9, Byte) : b = f[j - 1]
      BY <1>2, <2>1
    <2>3. PICK d \in Digit42 : d = digits[j]
      BY <1>4
    <2>4. f[j] = MulAdd(b, 42, d)
      BY <1>3, <2>2, <2>3
    <2>5. PICK k \in 0..9 : k = 9
      OBVIOUS
    <2>6. b \in Tuple(k, Byte) /\ MulAdd(b, 42, d) \in Tuple(n, Byte) /\ b \in Tuple(n, Byte)
      BY <1>2, <1>5, <2>1, <2>4, <2>5
    <2>7. Grows(b, d, k, k)
      BY <2>6, GrowsBy
    <2> DEFINE c == Carries(b, d, 9)
    <2>8. c[0] = d
      <3>1. Carries(b, d, n)[0] = d
        BY <2>6, CarriesAre
      <3> QED
        BY <1>5, <3>1
    <2>9. PICK w \in Int : w = Wide(b, 9)[9]
      <3>1. \A i \in 0..n : Wide(b, n)[i] \in Int
        BY <2>6, WideIs
      <3>2. 9 \in 0..n
        BY <1>5
      <3> QED
        BY <1>5, <3>1, <3>2
    <2>10. PICK x \in Int : x = Wide(MulAdd(b, 42, d), 9)[9] /\ x >= 0
      <3>1. \A i \in 0..n : Wide(MulAdd(b, 42, d), n)[i] \in Int
        BY <2>6, WideIs
      <3>2. \A i \in 0..n : Wide(MulAdd(b, 42, d), n)[i] >= 0
        BY <2>6, WideIs
      <3>3. 9 \in 0..n
        BY <1>5
      <3> QED
        BY <1>5, <3>1, <3>2, <3>3
    <2>11. IF c[9] = 0 THEN x = 42 * w + c[0] ELSE x + Powers256[10] <= 42 * w + c[0]
      <3>1. 9 - 9 = 0 /\ 9 + 1 = 10
        OBVIOUS
      <3> HIDE DEF c
      <3>2. Grows(b, d, 9, 9)
        BY <2>5, <2>7
      <3> QED
        BY <2>9, <2>10, <3>1, <3>2 DEF Grows, c
    <2> HIDE DEF c
    <2>12. PICK p \in Int : p = Powers42[j] /\ Powers42[j + 1] = 42 * p /\ Powers42[j + 1] <= Powers42[14]
      BY <2>1, PowersAre
    <2>13. w < p
      BY <1>7, <2>1, <2>2, <2>9, <2>12
    <2>14. d \in Int /\ d <= 41
      BY DEF Digit42
    <2>15. 42 * w + d < 42 * p
      BY <2>13, <2>14
    <2>16. c[9] = 0
      <3> SUFFICES ASSUME c[9] # 0 PROVE FALSE
        OBVIOUS
      <3>1. PICK q \in Int, r \in Int : q = Powers42[14] /\ r = Powers256[10] /\ q < r
        <4>1. 14 \in 1..14 /\ 10 \in 1..10
          OBVIOUS
        <4>2. Powers42[14] \in Nat
          BY <4>1, PowersAre
        <4>3. Powers256[10] \in Nat
          BY <4>1, PowersAre
        <4>4. Powers42[14] < Powers256[10]
          BY PowersAre
        <4> QED
          BY <4>2, <4>3, <4>4
      <3>2. x + r <= 42 * w + d
        BY <2>8, <2>11, <3>1
      <3>3. 42 * p <= q
        BY <2>12, <3>1
      <3> QED
        BY <2>10, <2>14, <2>15, <3>1, <3>2, <3>3
    <2>17. x < Powers42[j + 1]
      BY <2>8, <2>11, <2>12, <2>15, <2>16
    <2> QED
      BY <2>2, <2>3, <2>4, <2>10, <2>16, <2>17 DEF c
  <1>8. ASSUME NEW j \in 1..13, j - 1 \in Good PROVE j \in Good
    <2>1. Fits(j)
      BY <1>7, <1>8
    <2>2. j \in 0..13
      OBVIOUS
    <2> HIDE DEF Fits
    <2> QED
      BY <2>1, <2>2
  <1>9. \A j \in 0..13 : j \in Good
    <2>1. PICK l \in Nat : l = 13
      OBVIOUS
    <2>2. \A j \in 1..l : j - 1 \in Good => j \in Good
      BY <1>8, <2>1
    <2> HIDE DEF Good
    <2>3. \A j \in 0..l : j \in Good
      BY <1>6, <2>2, Upwards
    <2> QED
      BY <2>1, <2>3
  <1>10. \A j \in 0..13 : Fits(j)
    BY <1>9
  <1>11. ASSUME NEW j \in 1..13 PROVE Carries(f[j - 1], digits[j], 9)[9] = 0
    <2>1. j - 1 \in 0..13
      OBVIOUS
    <2> QED
      BY <1>7, <1>9, <2>1
  <1> QED
    BY <1>10, <1>11 DEF f

\* So the first of the 72 bits, which is not sent, is 0.
LEMMA FirstBitFree ==
  ASSUME NEW b \in Tuple(9, Byte), Wide(b, 9)[9] < Powers42[14]
  PROVE  b[1] < 128
  <1>1. PICK n \in Nat : n = 9
    OBVIOUS
  <1>2. b \in Tuple(n, Byte)
    BY <1>1
  <1> DEFINE w == Wide(b, 9)
  <1>3. w[0] = 0
    <2>1. Wide(b, n)[0] = 0
      BY <1>2, WideIs
    <2> QED
      BY <1>1, <2>1
  <1>4. \A i \in 0..9 : w[i] \in Int
    <2>1. \A i \in 0..n : Wide(b, n)[i] \in Int
      BY <1>2, WideIs
    <2> QED
      BY <1>1, <2>1
  <1>5. \A i \in 1..9 : w[i] = 256 * w[i - 1] + b[i]
    <2>1. \A i \in 1..n : Wide(b, n)[i] = 256 * Wide(b, n)[i - 1] + b[i]
      BY <1>2, WideIs
    <2> QED
      BY <1>1, <2>1, Zenon
  <1>6. \A i \in 1..9 : b[i] \in Byte
    <2>1. \A i \in 1..n : b[i] \in Byte
      BY <1>2, TupleItems
    <2> QED
      BY <1>1, <2>1
  <1>7. w[9] < Powers42[14]
    OBVIOUS
  <1> HIDE DEF w
  <1> SUFFICES ASSUME ~(b[1] < 128) PROVE FALSE
    OBVIOUS
  <1>8. PICK first \in Int : first = b[1] /\ first >= 128
    <2>1. b[1] \in Byte
      BY <1>6
    <2> QED
      BY <2>1 DEF Byte
  <1> DEFINE Good == {i \in 0..8 : w[i + 1] >= 128 * Powers256[i + 1]}
  <1>9. 0 \in Good
    <2>1. 0 + 1 = 1 /\ 1 - 1 = 0 /\ 1 \in 1..9
      OBVIOUS
    <2>2. w[1] = 256 * w[0] + b[1]
      BY <1>5, <2>1
    <2>3. Powers256[1] = 1
      BY PowersAre
    <2> QED
      BY <1>3, <1>8, <2>1, <2>2, <2>3
  <1>10. ASSUME NEW i \in 1..8, i - 1 \in Good PROVE i \in Good
    <2>1. PICK k \in 1..9 : k = i
      OBVIOUS
    <2>2. i - 1 + 1 = k /\ i + 1 - 1 = k /\ i + 1 \in 1..9 /\ k \in 0..9 /\ k \in 1..10
      BY <2>1
    <2>3. PICK v \in Int : v = w[k]
      BY <1>4, <2>2
    <2>4. PICK p \in Int : p = Powers256[k]
      BY <2>2, PowersAre
    <2>5. Powers256[i + 1] = 256 * p
      <3>1. Powers256[k + 1] = 256 * Powers256[k]
        BY PowersAre
      <3> QED
        BY <2>1, <2>4, <3>1
    <2>6. v >= 128 * p
      BY <1>10, <2>2, <2>3, <2>4
    <2>7. PICK y \in Int : y = b[i + 1] /\ y >= 0
      <3>1. b[i + 1] \in Byte
        BY <1>6, <2>2
      <3> QED
        BY <3>1 DEF Byte
    <2>8. w[i + 1] = 256 * v + y
      BY <1>5, <2>2, <2>3, <2>7
    <2>9. w[i + 1] >= 128 * Powers256[i + 1]
      BY <2>5, <2>6, <2>7, <2>8
    <2> QED
      BY <2>9
  <1>11. 8 \in Good
    <2>1. PICK l \in Nat : l = 8
      OBVIOUS
    <2>2. \A i \in 1..l : i - 1 \in Good => i \in Good
      BY <1>10, <2>1
    <2> HIDE DEF Good
    <2>3. \A i \in 0..l : i \in Good
      BY <1>9, <2>2, Upwards
    <2> QED
      BY <2>1, <2>3
  <1>12. w[9] >= 128 * Powers256[9]
    <2>1. 8 + 1 = 9
      OBVIOUS
    <2> QED
      BY <1>11, <2>1
  <1>13. PICK p \in Int : p = Powers256[9]
    <2>1. 9 \in 1..10
      OBVIOUS
    <2> QED
      BY <2>1, PowersAre
  <1>14. PICK q \in Int : q = Powers42[14]
    <2>1. 14 \in 1..14
      OBVIOUS
    <2> QED
      BY <2>1, PowersAre
  <1>15. q < 128 * p
    <2>1. Powers42[14] < 128 * Powers256[9]
      BY PowersAre
    <2> QED
      BY <1>13, <1>14, <2>1
  <1>16. PICK v \in Int : v = w[9]
    BY <1>4
  <1> QED
    BY <1>7, <1>12, <1>13, <1>14, <1>15, <1>16

\* The quotient has as many bytes.
LEMMA QuotientType ==
  ASSUME NEW n \in Nat, NEW bytes \in Tuple(n, Byte)
  PROVE  Quotient(bytes, 42) \in Tuple(n, Byte)
  <1> DEFINE rests == Rests(bytes, 42)
             quotient == [i \in 1..n |-> (256 * rests[i - 1] + bytes[i]) \div 42]
  <1>1. Len(bytes) = n /\ \A i \in 1..n : bytes[i] \in Byte
    BY TupleItems
  <1>2. \A i \in 0..n : rests[i] \in Digit42
    BY RestsAre
  <1>3. Quotient(bytes, 42) = <<>> \o quotient
    BY <1>1, Zenon DEF Quotient
  <1> HIDE DEF rests
  <1>4. ASSUME NEW i \in 1..n PROVE (256 * rests[i - 1] + bytes[i]) \div 42 \in Byte
    <2>1. i - 1 \in 0..n
      OBVIOUS
    <2>2. PICK r \in Int : r = rests[i - 1] /\ 0 <= r /\ r <= 41
      BY <1>2, <2>1 DEF Digit42
    <2>3. PICK b \in Int : b = bytes[i] /\ 0 <= b /\ b <= 255
      BY <1>1 DEF Byte
    <2>4. PICK v \in Int : v = 256 * r + b /\ 0 <= v /\ v <= 10751
      BY <2>2, <2>3
    <2>5. v \div 42 \in Int /\ 0 <= v \div 42 /\ v \div 42 <= 255
      BY <2>4
    <2>6. v \div 42 \in Byte
      BY <2>5 DEF Byte
    <2>7. 256 * rests[i - 1] + bytes[i] = v
      BY <2>2, <2>3, <2>4, Zenon
    <2> QED
      BY <2>6, <2>7, Zenon
  <1>5. quotient \in Tuple(n, Byte)
    BY <1>4 DEF Tuple
  <1> HIDE DEF quotient
  <1>6. <<>> \o quotient = quotient
    BY <1>5, NothingBefore
  <1> QED
    BY <1>3, <1>5, <1>6

\* The thirteen digits are found again, the last one first.
LEMMA UnpackIs ==
  ASSUME NEW digits \in Tuple(13, Digit42)
  PROVE  Unpack(Filled(digits)[13], 13, FullTable) = [i \in 1..13 |-> charn(digits[i], FullTable)]
  <1> DEFINE f == Filled(digits)
             step == [k \in 1..13 |-> [num \in [1..9 -> 0..255] |-> Quotient(num, 42)]]
             num == Loop(step, f[13], 13)
  <1>1. \A i \in 0..13 : f[i] \in Tuple(9, Byte)
    BY FilledIs
  <1>2. \A i \in 1..13 : f[i] = MulAdd(f[i - 1], 42, digits[i])
    BY FilledIs
  <1>3. \A i \in 1..13 : Carries(f[i - 1], digits[i], 9)[9] = 0
    BY FilledFits
  <1> HIDE DEF f
  <1>4. PICK n \in Nat : n = 9
    OBVIOUS
  <1>5. PICK l \in Nat : l = 13
    OBVIOUS
  <1>6. f[13] \in Tuple(9, Byte) /\ Len(f[13]) = 9
    <2>1. 13 \in 0..13
      OBVIOUS
    <2>2. f[13] \in Tuple(9, Byte)
      BY <1>1, <2>1
    <2>3. f[13] \in Tuple(n, Byte)
      BY <1>4, <2>2
    <2>4. Len(f[13]) = n
      BY <2>3, TupleItems
    <2> QED
      BY <1>4, <2>2, <2>4
  <1>7. Len(FullTable) = 42
    <2>1. PICK q \in Nat : q = 42
      OBVIOUS
    <2>2. IsTable(FullTable, q)
      BY <2>1, FullTableIs
    <2>3. Len(FullTable) = q
      BY <2>2, TableIs
    <2> QED
      BY <2>1, <2>3
  <1>8. Unpack(f[13], 13, FullTable) = [i \in 1..13 |-> charn(Rest(num[13 - i], 42), FullTable)]
    BY <1>6, <1>7, Zenon DEF Unpack
  <1>9. \A k \in 1..13, b \in Tuple(9, Byte) : step[k][b] = Quotient(b, 42)
    <2> SUFFICES ASSUME NEW k \in 1..13, NEW b \in Tuple(9, Byte) PROVE step[k][b] = Quotient(b, 42)
      BY Zenon
    <2>1. b \in [1..9 -> 0..255]
      BY Zenon DEF Tuple, Byte
    <2> QED
      BY <2>1, Zenon
  <1> HIDE DEF num
  <1>10. PICK g : g = num
    OBVIOUS
  <1> HIDE DEF step
  <1>11. Stays(step, l, Tuple(9, Byte))
    <2> SUFFICES ASSUME NEW k \in 1..13, NEW b \in Tuple(9, Byte) PROVE Quotient(b, 42) \in Tuple(9, Byte)
      BY <1>5, <1>9 DEF Stays
    <2>1. b \in Tuple(n, Byte)
      BY <1>4
    <2>2. Quotient(b, 42) \in Tuple(n, Byte)
      BY <2>1, QuotientType
    <2> QED
      BY <1>4, <2>2
  <1>12. PICK start \in Tuple(9, Byte) : start = f[13]
    BY <1>6
  <1>13. g = Loop(step, start, l)
    BY <1>5, <1>10, <1>12, Zenon DEF num
  <1>14. g[0] = start
    <2>1. Loop(step, start, l)[0] = start
      BY <1>11, LoopRounds
    <2> QED
      BY <1>13, <2>1
  <1>15. \A k \in 0..l : g[k] \in Tuple(9, Byte)
    <2>1. \A k \in 0..l : Loop(step, start, l)[k] \in Tuple(9, Byte)
      BY <1>11, LoopRounds
    <2> QED
      BY <1>13, <2>1
  <1>16. \A k \in 1..l : g[k] = step[k][g[k - 1]]
    <2>1. \A k \in 1..l : Loop(step, start, l)[k] = step[k][Loop(step, start, l)[k - 1]]
      BY <1>11, LoopRounds
    <2> QED
      BY <1>13, <2>1, Zenon
  <1>17. \A i \in 1..13 : digits[i] \in Digit42
    <2>1. digits \in Tuple(l, Digit42)
      BY <1>5
    <2>2. \A i \in 1..l : digits[i] \in Digit42
      BY <2>1, TupleItems
    <2> QED
      BY <1>5, <2>2
  <1>18. ASSUME NEW i \in 1..13 PROVE Rest(f[i], 42) = digits[i] /\ Quotient(f[i], 42) = f[i - 1]
    <2>1. i - 1 \in 0..13
      OBVIOUS
    <2>2. PICK b \in Tuple(9, Byte) : b = f[i - 1]
      BY <1>1, <2>1
    <2>3. PICK d \in Digit42 : d = digits[i]
      BY <1>17
    <2>4. f[i] = MulAdd(b, 42, d)
      BY <1>2, <2>2, <2>3
    <2>5. Carries(b, d, n)[n] = 0
      BY <1>3, <1>4, <2>2, <2>3
    <2>6. b \in Tuple(n, Byte)
      BY <1>4
    <2>7. Rest(MulAdd(b, 42, d), 42) = d
      BY <2>5, <2>6, DivBack
    <2>8. Quotient(MulAdd(b, 42, d), 42) = b
      BY <2>5, <2>6, DivBack
    <2> QED
      BY <2>2, <2>3, <2>4, <2>7, <2>8
  <1> DEFINE Good == {k \in 0..13 : g[k] = f[13 - k]}
  <1>19. 0 \in Good
    BY <1>12, <1>14
  <1>20. ASSUME NEW k \in 1..13, k - 1 \in Good PROVE k \in Good
    <2>1. PICK j \in 1..13 : j = 13 - (k - 1)
      OBVIOUS
    <2>2. j - 1 = 13 - k /\ k - 1 \in 0..l /\ k \in 1..l
      BY <1>5, <2>1
    <2>3. g[k - 1] = f[j]
      BY <1>20, <2>1
    <2>4. g[k - 1] \in Tuple(9, Byte)
      BY <1>15, <2>2
    <2>5. g[k] = Quotient(g[k - 1], 42)
      <3>1. g[k] = step[k][g[k - 1]]
        BY <1>16, <2>2
      <3>2. step[k][g[k - 1]] = Quotient(g[k - 1], 42)
        BY <1>9, <2>4
      <3> QED
        BY <3>1, <3>2, Zenon
    <2>6. Quotient(f[j], 42) = f[j - 1]
      BY <1>18
    <2>7. g[k] = f[13 - k]
      BY <2>2, <2>3, <2>5, <2>6
    <2> QED
      BY <2>7
  <1>21. \A k \in 0..13 : k \in Good
    <2>1. \A k \in 1..l : k - 1 \in Good => k \in Good
      BY <1>5, <1>20
    <2> HIDE DEF Good
    <2>2. \A k \in 0..l : k \in Good
      BY <1>19, <2>1, Upwards
    <2> QED
      BY <1>5, <2>2
  <1>22. ASSUME NEW i \in 1..13 PROVE charn(Rest(g[13 - i], 42), FullTable) = charn(digits[i], FullTable)
    <2>1. 13 - i \in 0..13 /\ 13 - (13 - i) = i
      OBVIOUS
    <2>2. g[13 - i] = f[i]
      BY <1>21, <2>1
    <2> QED
      BY <1>18, <2>2, Zenon
  <1>23. Unpack(f[13], 13, FullTable) = [i \in 1..13 |-> charn(Rest(g[13 - i], 42), FullTable)]
    BY <1>8, <1>10, Zenon
  <1> QED
    BY <1>22, <1>23, Zenon DEF f

\* Each byte is eight bits, and they are read as this byte.
LEMMA BitsOfAre ==
  ASSUME NEW bytes \in Tuple(9, Byte)
  PROVE  /\ BitsOf(bytes) \in Tuple(72, Bit)
         /\ \A q \in 1..9, r \in 1..8 : BitsOf(bytes)[8 * (q - 1) + r] = Bits(bytes[q], 8)[r]
  <1>1. PICK n \in Nat, l \in Nat : n = 9 /\ l = 72 /\ l = 8 * n
    OBVIOUS
  <1>2. bytes \in Tuple(n, Byte)
    BY <1>1
  <1>3. BitsOf(bytes) \in Tuple(l, Bit)
    BY <1>1, <1>2, BitsOfType
  <1>4. Len(bytes) = 9
    <2>1. Len(bytes) = n
      BY <1>2, TupleItems
    <2> QED
      BY <1>1, <2>1
  <1>5. 8 * 9 = 72
    OBVIOUS
  <1>6. BitsOf(bytes) = [i \in 1..72 |-> Bits(bytes[(i + 7) \div 8], 8)[((i - 1) % 8) + 1]]
    BY <1>4, <1>5, Zenon DEF BitsOf
  <1>7. ASSUME NEW q \in 1..9, NEW r \in 1..8 PROVE BitsOf(bytes)[8 * (q - 1) + r] = Bits(bytes[q], 8)[r]
    <2>1. PICK i \in 1..72 : i = 8 * (q - 1) + r
      OBVIOUS
    <2>2. (i + 7) \div 8 = q
      BY <2>1
    <2>3. ((i - 1) % 8) + 1 = r
      BY <2>1
    <2>4. BitsOf(bytes)[i] = Bits(bytes[(i + 7) \div 8], 8)[((i - 1) % 8) + 1]
      BY <1>6, Zenon
    <2> QED
      BY <2>1, <2>2, <2>3, <2>4, Zenon
  <1> QED
    BY <1>1, <1>3, <1>7

\* Eight bits make the byte they come from.
LEMMA BytesBack ==
  ASSUME NEW bytes \in Tuple(9, Byte)
  PROVE  BytesOf(BitsOf(bytes)) = bytes
  <1> DEFINE b == BitsOf(bytes)
  <1>1. b \in Tuple(72, Bit)
    BY BitsOfAre
  <1>2. \A q \in 1..9, r \in 1..8 : b[8 * (q - 1) + r] = Bits(bytes[q], 8)[r]
    BY BitsOfAre
  <1> HIDE DEF b
  <1>3. PICK n \in Nat : n = 9
    OBVIOUS
  <1>4. PICK l \in Nat : l = 72
    OBVIOUS
  <1>5. b \in Tuple(l, Bit) /\ bytes \in Tuple(n, Byte)
    BY <1>1, <1>3, <1>4
  <1>6. Len(b) = l
    BY <1>5, TupleItems
  <1>7. \A i \in 1..9 : bytes[i] \in Byte
    <2>1. \A i \in 1..n : bytes[i] \in Byte
      BY <1>5, TupleItems
    <2> QED
      BY <1>3, <2>1
  <1>8. ASSUME NEW q \in 1..9 PROVE Value(SubSeq(b, 8 * q - 7, 8 * q)) = bytes[q]
    <2>1. PICK v \in Nat : v = bytes[q] /\ v < 256
      <3>1. bytes[q] \in Byte
        BY <1>7
      <3> QED
        BY <3>1 DEF Byte
    <2>2. PICK w \in 0..29 : w = 8
      OBVIOUS
    <2>3. w \in Nat /\ v \in Int
      OBVIOUS
    <2> DEFINE h == Halves(v, w)
    <2>4. h[0] = v
      BY <2>3, HalvesAre
    <2>5. \A i \in 0..w : h[i] \in Int
      BY <2>3, HalvesAre
    <2>6. \A i \in 1..w : h[i] = h[i - 1] \div 2
      BY <2>3, HalvesAre
    <2>7. \A i \in 1..w : Bits(v, w)[i] = h[w - i] % 2
      BY <2>3, HalvesAre
    <2> HIDE DEF h
    <2>8. Halvings(h, w)
      <3>1. Powers[w + 1] = 256
        BY <2>2 DEF Powers
      <3>2. Halved(h, w) /\ h[0] \in Nat /\ h[0] < Powers[w + 1]
        BY <2>1, <2>4, <2>5, <2>6, <3>1 DEF Halved
      <3> QED
        BY <3>2, HalvedAway
    <2>9. PICK k \in Nat : k = 8 * (q - 1)
      OBVIOUS
    <2>10. k + w <= l
      BY <1>4, <2>2, <2>9
    <2>11. ASSUME NEW i \in 1..w PROVE b[k + i] = h[w - i] % 2
      <3>1. i \in 1..8
        BY <2>2
      <3>2. b[8 * (q - 1) + i] = Bits(bytes[q], 8)[i]
        BY <1>2, <3>1, Zenon
      <3>3. Bits(bytes[q], 8)[i] = Bits(v, w)[i]
        BY <2>1, <2>2
      <3> QED
        BY <2>7, <2>9, <3>2, <3>3, Zenon
    <2>12. Value(Slice(b, k + 1, w)) = h[0]
      BY <1>5, <2>3, <2>8, <2>10, <2>11, Field
    <2>13. k + 1 = 8 * q - 7 /\ k + 1 + w - 1 = 8 * q
      BY <2>2, <2>9
    <2>14. Slice(b, k + 1, w) = SubSeq(b, 8 * q - 7, 8 * q)
      BY <2>13, Zenon DEF Slice
    <2> QED
      BY <2>1, <2>4, <2>12, <2>14, Zenon
  <1>9. BytesOf(b) = [i \in 1..9 |-> Value(SubSeq(b, 8 * i - 7, 8 * i))]
    <2>1. Len(b) \div 8 = 9
      BY <1>4, <1>6
    <2> QED
      BY <2>1, Zenon DEF BytesOf
  <1>10. \A i \in 1..9 : BytesOf(b)[i] = bytes[i]
    BY <1>8, <1>9, Zenon
  <1>11. BytesOf(b) \in Tuple(9, Byte)
    <2>1. \A i \in 1..9 : Value(SubSeq(b, 8 * i - 7, 8 * i)) \in Byte
      BY <1>7, <1>8, Zenon
    <2> QED
      BY <1>9, <2>1, Zenon DEF Tuple
  <1>12. BytesOf(b) \in Tuple(n, Byte) /\ \A i \in 1..n : BytesOf(b)[i] = bytes[i]
    BY <1>3, <1>10, <1>11
  <1>13. BytesOf(b) = bytes
    BY <1>5, <1>12, SameTuples
  <1> QED
    BY <1>13 DEF b

\* A byte below 128 begins with 0.
LEMMA FirstBit ==
  ASSUME NEW bytes \in Tuple(9, Byte), bytes[1] < 128
  PROVE  BitsOf(bytes)[1] = 0
  <1>1. PICK w \in 0..29 : w = 7
    OBVIOUS
  <1>2. PICK n \in Nat : n = 8
    OBVIOUS
  <1>3. PICK v \in Nat : v = bytes[1] /\ v < 128
    <2>1. PICK l \in Nat : l = 9
      OBVIOUS
    <2>2. bytes \in Tuple(l, Byte) /\ 1 \in 1..l
      BY <2>1
    <2>3. \A i \in 1..l : bytes[i] \in Byte
      BY <2>2, TupleItems
    <2>4. bytes[1] \in Byte
      BY <2>2, <2>3
    <2> QED
      BY <2>4 DEF Byte
  <1>4. v \in Int
    OBVIOUS
  <1> DEFINE h == Halves(v, n)
  <1>5. h[0] = v
    BY <1>4, HalvesAre
  <1>6. \A i \in 0..n : h[i] \in Int
    BY <1>4, HalvesAre
  <1>7. \A i \in 1..n : h[i] = h[i - 1] \div 2
    BY <1>4, HalvesAre
  <1>8. \A i \in 1..n : Bits(v, n)[i] = h[n - i] % 2
    BY <1>4, HalvesAre
  <1> HIDE DEF h
  <1>9. Halvings(h, w)
    <2>1. Powers[w + 1] = 128
      BY <1>1 DEF Powers
    <2>2. Halved(h, w) /\ h[0] \in Nat /\ h[0] < Powers[w + 1]
      BY <1>1, <1>2, <1>3, <1>5, <1>6, <1>7, <2>1 DEF Halved
    <2> QED
      BY <2>2, HalvedAway
  <1>10. h[w] = 0
    BY <1>9 DEF Halvings
  <1>11. Bits(v, n)[1] = 0
    <2>1. 1 \in 1..n /\ n - 1 = w
      BY <1>1, <1>2
    <2> QED
      BY <1>8, <1>10, <2>1
  <1>12. BitsOf(bytes)[1] = Bits(bytes[1], 8)[1]
    <2>1. \A q \in 1..9, r \in 1..8 : BitsOf(bytes)[8 * (q - 1) + r] = Bits(bytes[q], 8)[r]
      BY BitsOfAre
    <2>2. PICK q \in 1..9 : q = 1
      OBVIOUS
    <2>3. PICK r \in 1..8 : r = 1
      OBVIOUS
    <2>4. BitsOf(bytes)[8 * (q - 1) + r] = Bits(bytes[q], 8)[r]
      BY <2>1
    <2>5. 8 * (q - 1) + r = 1
      BY <2>2, <2>3
    <2> QED
      BY <2>2, <2>3, <2>4, <2>5, Zenon
  <1> QED
    BY <1>2, <1>3, <1>11, <1>12, Zenon

\* A free text decodes to the characters of its digits.
LEMMA TextDecodes ==
  ASSUME NEW bytes \in Tuple(9, Byte), bytes[1] < 128
  PROVE  ftx_message_decode(TextBits(bytes)) = <<Trim(Unpack(bytes, 13, FullTable))>>
  <1> DEFINE b == BitsOf(bytes)
             t == Tail(b)
             p == TextBits(bytes)
  <1>1. b \in Tuple(72, Bit) /\ b[1] = 0 /\ BytesOf(b) = bytes
    <2>1. b \in Tuple(72, Bit)
      BY BitsOfAre
    <2>2. b[1] = 0
      BY FirstBit
    <2>3. BytesOf(b) = bytes
      BY BytesBack
    <2> QED
      BY <2>1, <2>2, <2>3
  <1>2. p = Joined(t, Zeros(6))
    BY Zenon DEF TextBits
  <1> HIDE DEF b
  <1>3. Adds(71, 1, 72) /\ Adds(71, 6, 77) /\ Adds(1, 71, 72)
    BY DEF Adds
  <1>4. t \in Tuple(71, Bit)
    BY <1>1, <1>3, TailIs
  <1>5. \A i \in 1..71 : t[i] = b[i + 1]
    <2>1. PICK l \in Nat : l = 72
      OBVIOUS
    <2>2. b \in Tuple(l, Bit)
      BY <1>1, <2>1
    <2>3. b \in Seq(Bit) /\ Len(b) = l
      BY <2>2, TupleItems
    <2>4. b # <<>>
      <3>1. Len(<<>>) = 0 /\ l # 0
        BY <2>1
      <3> QED
        BY <2>3, <3>1, Zenon
    <2>5. Len(Tail(b)) = l - 1 /\ \A i \in 1..Len(Tail(b)) : Tail(b)[i] = b[i + 1]
      BY <2>3, <2>4, HeadTailProperties
    <2> QED
      BY <2>1, <2>5
  <1> HIDE DEF t, p
  <1>6. Zeros(6) \in Tuple(6, Bit) /\ \A i \in 1..6 : Zeros(6)[i] = 0
    <2>1. Zeros(6) \in Tuple(6, Bit)
      BY ZerosAre
    <2>2. \A i \in 1..6 : Zeros(6)[i] = 0
      BY DEF Zeros
    <2> QED
      BY <2>1, <2>2
  <1>7. p \in Tuple(77, Bit)
    BY <1>2, <1>3, <1>4, <1>6, JoinedType
  <1>8. \A i \in 1..6 : p[71 + i] = 0
    <2>1. PICK k \in Nat : k = 71
      OBVIOUS
    <2>2. PICK n \in Nat : n = 6
      OBVIOUS
    <2>3. t \in Tuple(k, Bit) /\ Zeros(6) \in Tuple(n, Bit)
      BY <1>4, <1>6, <2>1, <2>2
    <2>4. \A i \in 1..n : Joined(t, Zeros(6))[k + i] = Zeros(6)[i]
      BY <2>3, JoinedItems
    <2> QED
      BY <1>2, <1>6, <2>1, <2>2, <2>4
  <1>9. ASSUME NEW k \in Nat, NEW w \in 0..29, k + w <= 77, \A i \in 1..w : p[k + i] = 0
        PROVE  Value(Slice(p, k + 1, w)) = 0
    <2> DEFINE h == [i \in 0..w |-> 0]
    <2>1. w \in Nat
      OBVIOUS
    <2>2. \A i \in 0..w : h[i] = 0
      OBVIOUS
    <2> HIDE DEF h
    <2>3. 0 \in 0..w /\ w \in 0..w
      OBVIOUS
    <2>4. ASSUME NEW i \in 1..w PROVE h[i] = h[i - 1] \div 2
      <3>1. i - 1 \in 0..w /\ i \in 0..w
        OBVIOUS
      <3>2. h[i] = 0 /\ h[i - 1] = 0
        BY <2>2, <3>1
      <3> QED
        BY <3>2
    <2>5. Halvings(h, w)
      BY <2>2, <2>3, <2>4 DEF Halvings, Halved
    <2>6. ASSUME NEW i \in 1..w PROVE p[k + i] = h[w - i] % 2
      <3>1. w - i \in 0..w
        OBVIOUS
      <3>2. h[w - i] = 0
        BY <2>2, <3>1
      <3> QED
        BY <1>9, <3>2
    <2>7. PICK m \in Nat : m = 77
      OBVIOUS
    <2>8. p \in Tuple(m, Bit) /\ k + w <= m
      BY <1>7, <1>9, <2>7
    <2>9. Value(Slice(p, k + 1, w)) = h[0]
      BY <2>1, <2>5, <2>6, <2>8, Field
    <2> QED
      BY <2>2, <2>3, <2>9
  <1>10. Value(SubSeq(p, 75, 77)) = 0 /\ Value(SubSeq(p, 72, 74)) = 0
    <2>1. PICK w \in 0..29 : w = 3
      OBVIOUS
    <2>2. PICK k \in Nat : k = 74
      OBVIOUS
    <2>3. PICK m \in Nat : m = 71
      OBVIOUS
    <2>4. ASSUME NEW i \in 1..w PROVE p[k + i] = 0 /\ p[m + i] = 0
      <3>1. PICK j \in 1..6 : j = i + 3
        BY <2>1
      <3>2. 71 + j = k + i /\ i \in 1..6 /\ 71 + i = m + i
        BY <2>1, <2>2, <2>3, <3>1
      <3>3. p[71 + j] = 0
        BY <1>8
      <3>4. p[71 + i] = 0
        BY <1>8, <3>2
      <3> QED
        BY <3>2, <3>3, <3>4
    <2>5. k + w <= 77 /\ m + w <= 77
      BY <2>1, <2>2, <2>3
    <2>6. Value(Slice(p, k + 1, w)) = 0
      BY <1>9, <2>4, <2>5
    <2>7. Value(Slice(p, m + 1, w)) = 0
      BY <1>9, <2>4, <2>5
    <2>8. k + 1 = 75 /\ k + 1 + w - 1 = 77 /\ m + 1 = 72 /\ m + 1 + w - 1 = 74
      BY <2>1, <2>2, <2>3
    <2>9. Slice(p, k + 1, w) = SubSeq(p, 75, 77)
      BY <2>8, Zenon DEF Slice
    <2>10. Slice(p, m + 1, w) = SubSeq(p, 72, 74)
      BY <2>8, Zenon DEF Slice
    <2> QED
      BY <2>6, <2>7, <2>9, <2>10, Zenon
  <1>11. Zeros(1) \o SubSeq(p, 1, 71) = b
    <2>1. PICK n \in Nat : n = 71
      OBVIOUS
    <2>2. PICK k \in Nat : k = 6
      OBVIOUS
    <2>3. PICK one \in Nat : one = 1
      OBVIOUS
    <2>4. t \in Tuple(n, Bit) /\ Zeros(6) \in Tuple(k, Bit) /\ one >= 1 /\ one + n <= n + 1
      BY <1>4, <1>6, <2>1, <2>2, <2>3
    <2>5. Slice(Joined(t, Zeros(6)), one, n) = Slice(t, one, n)
      BY <2>4, CutLeft
    <2>6. Slice(t, 1, n) = t
      BY <2>4, CutWhole
    <2>7. SubSeq(p, 1, 71) = Slice(p, one, n)
      <3>1. one + n - 1 = 71 /\ one = 1
        BY <2>1, <2>3
      <3> QED
        BY <3>1, Zenon DEF Slice
    <2>8. SubSeq(p, 1, 71) = t
      BY <1>2, <2>3, <2>5, <2>6, <2>7, Zenon
    <2> DEFINE z == Zeros(1)
    <2>9. z \in Tuple(one, Bit) /\ z[1] = 0
      BY <2>3 DEF Zeros, Tuple, Bit
    <2> HIDE DEF z
    <2> DEFINE u == Joined(z, t)
    <2>10. PICK l \in Nat : l = 72
      OBVIOUS
    <2>11. u \in Tuple(l, Bit)
      <3>1. Adds(one, n, l)
        BY <2>1, <2>3, <2>10 DEF Adds
      <3> QED
        BY <2>4, <2>9, <3>1, JoinedType
    <2>12. \A i \in 1..one : u[i] = z[i]
      BY <2>4, <2>9, JoinedItems
    <2>13. \A i \in 1..n : u[one + i] = t[i]
      BY <2>4, <2>9, JoinedItems
    <2> HIDE DEF u
    <2>14. ASSUME NEW i \in 1..l PROVE u[i] = b[i]
      <3>1. CASE i = 1
        <4>1. 1 \in 1..one
          BY <2>3
        <4>2. u[1] = 0
          BY <2>9, <2>12, <4>1
        <4> QED
          BY <1>1, <3>1, <4>2
      <3>2. CASE i # 1
        <4>1. PICK j \in 1..71 : j = i - 1
          BY <2>10, <3>2
        <4>2. j \in 1..n /\ one + j = i /\ j + 1 = i
          BY <2>1, <2>3, <4>1
        <4>3. u[i] = t[j]
          BY <2>13, <4>2
        <4>4. t[j] = b[i]
          BY <1>5, <4>2
        <4> QED
          BY <4>3, <4>4
      <3> QED
        BY <3>1, <3>2
    <2>15. b \in Tuple(l, Bit)
      BY <1>1, <2>10
    <2>16. u = b
      BY <2>11, <2>14, <2>15, SameTuples
    <2> QED
      BY <2>8, <2>16, Zenon DEF u, z, Joined
  <1>12. ftx_message_decode(p)
           = <<Trim(Unpack(BytesOf(Zeros(1) \o SubSeq(p, 1, 71)), 13, FullTable))>>
    <2>1. 0 \notin {1, 2} /\ 0 # 4
      OBVIOUS
    <2> QED
      BY <1>10, <2>1, Zenon DEF ftx_message_decode
  <1> QED
    BY <1>1, <1>11, <1>12, Zenon DEF p

\* A text that begins with no space is trimmed at its end only.
LEMMA TrimEnd ==
  ASSUME NEW n \in Nat, n >= 1, NEW S, NEW s \in Tuple(n, S), ~Blank(s, 1)
  PROVE  \E m \in 1..n : /\ Trim(s) = Slice(s, 1, m) /\ ~Blank(s, m)
                         /\ \A i \in 1..n : i > m => Blank(s, i)
  <1> DEFINE back == {j \in Nat : j < n /\ ~Blank(s, n - j)}
  <1>1. n - 1 \in back
    <2>1. n - (n - 1) = 1 /\ n - 1 \in Nat /\ n - 1 < n
      OBVIOUS
    <2> QED
      BY <2>1
  <1>2. PICK j \in back : \A i \in back : j <= i
    <2>1. back \in SUBSET Nat
      OBVIOUS
    <2> HIDE DEF back
    <2>2. back # {}
      BY <1>1
    <2>3. Min(back) \in back /\ \A y \in back : Min(back) <= y
      BY <2>1, <2>2, LeastNumber
    <2> QED
      BY <2>3
  <1>3. PICK m \in 1..n : m = n - j
    OBVIOUS
  <1>4. ~Blank(s, m)
    BY <1>2, <1>3
  <1>5. ASSUME NEW i \in 1..n, i > m PROVE Blank(s, i)
    <2> SUFFICES ASSUME ~Blank(s, i) PROVE FALSE
      OBVIOUS
    <2>1. PICK q \in Nat : q = n - i /\ q < n /\ n - q = i
      OBVIOUS
    <2>2. q \in back
      BY <2>1
    <2> QED
      BY <1>2, <1>3, <1>5, <2>1, <2>2
  <1>6. PICK k \in Nat : k = 0
    OBVIOUS
  <1>7. PICK a \in Nat : a = 1
    OBVIOUS
  <1> DEFINE t == Slice(s, a, m)
  <1>8. m \in Nat /\ m >= 1 /\ k + m <= n /\ a >= 1 /\ a + m <= n + 1
    BY <1>6, <1>7
  <1>9. t \in Tuple(m, S)
    BY <1>8, Cut
  <1>10. \A i \in 1..m : t[i] = s[a + i - 1]
    BY <1>8, Cut
  <1> HIDE DEF t
  <1>11. \A i \in 1..m : s[k + i] = t[i]
    <2> SUFFICES ASSUME NEW i \in 1..m PROVE s[k + i] = t[i]
      OBVIOUS
    <2>1. k + i = i /\ a + i - 1 = i
      BY <1>6, <1>7
    <2> QED
      BY <1>10, <2>1
  <1>12. ~Blank(t, 1) /\ ~Blank(t, m)
    <2>1. 1 \in 1..m /\ m \in 1..m /\ k + 1 = 1 /\ k + m = m
      BY <1>6
    <2>2. s[1] = t[1] /\ s[m] = t[m]
      BY <1>11, <2>1
    <2> QED
      BY <1>4, <2>2, Zenon DEF Blank
  <1>13. \A i \in 1..n : i <= k \/ i > k + m => Blank(s, i)
    <2> SUFFICES ASSUME NEW i \in 1..n, i <= k \/ i > k + m PROVE Blank(s, i)
      OBVIOUS
    <2>1. i > m
      BY <1>6
    <2> QED
      BY <1>5, <2>1
  <1>14. Trim(s) = t
    BY <1>8, <1>9, <1>11, <1>12, <1>13, TrimIs
  <1>15. Trim(s) = Slice(s, 1, m)
    BY <1>7, <1>14 DEF t
  <1> QED
    BY <1>4, <1>5, <1>15

\* The characters of the table survive as digits.
LEMMA TextBack ==
  ASSUME NEW n \in 1..13, NEW S, "space" \in S, NEW s \in Tuple(n, S), ~Blank(s, 1),
         \A i \in 1..n : Contains(FullTable, s[i])
  PROVE  Trim([i \in 1..13 |-> charn(TextDigits(s)[i], FullTable)]) = Trim(s)
  <1> DEFINE pad  == [i \in 1..13 |-> "space"]
             body == SubSeq(Trim(s) \o pad, 1, 13)
             Index(c) == IF Contains(FullTable, c) THEN nchar(c, FullTable) ELSE 0
  <1>1. n \in Nat /\ n >= 1
    OBVIOUS
  <1>2. PICK m \in 1..n : /\ Trim(s) = Slice(s, 1, m) /\ ~Blank(s, m)
                          /\ \A i \in 1..n : i > m => Blank(s, i)
    BY <1>1, TrimEnd
  <1>3. PICK one \in Nat : one = 1
    OBVIOUS
  <1>4. PICK l \in Nat : l = 13
    OBVIOUS
  <1> DEFINE t == Slice(s, one, m)
  <1>5. m \in Nat /\ m >= 1 /\ m <= n /\ one >= 1 /\ one + m <= n + 1
    BY <1>3
  <1>6. t \in Tuple(m, S)
    BY <1>1, <1>5, Cut
  <1>7. \A i \in 1..m : t[i] = s[i]
    <2>1. \A i \in 1..m : t[i] = s[one + i - 1]
      BY <1>1, <1>5, Cut
    <2> HIDE DEF t
    <2>2. \A i \in 1..m : one + i - 1 = i
      BY <1>3
    <2> QED
      BY <2>1, <2>2
  <1>8. Trim(s) = t
    BY <1>2, <1>3
  <1>9. pad \in Tuple(l, S) /\ \A i \in 1..13 : Blank(pad, i)
    BY <1>4 DEF Tuple, Blank
  <1> HIDE DEF t, pad
  <1> DEFINE u == Joined(t, pad)
  <1>10. u \in Tuple(m + l, S)
    BY <1>4, <1>5, <1>6, <1>9, Behind
  <1>11. \A i \in 1..m : u[i] = t[i]
    BY <1>4, <1>5, <1>6, <1>9, JoinedItems
  <1>12. \A i \in 1..l : u[m + i] = pad[i]
    BY <1>4, <1>5, <1>6, <1>9, JoinedItems
  <1>13. body = Slice(u, one, l)
    <2>1. one + l - 1 = 13 /\ one = 1
      BY <1>3, <1>4
    <2> QED
      BY <1>8, <2>1, Zenon DEF Slice, Joined
  <1> HIDE DEF u
  <1>14. PICK k \in Nat : k = m + l
    BY <1>5
  <1>15. u \in Tuple(k, S) /\ one + l <= k + 1
    BY <1>3, <1>5, <1>10, <1>14
  <1>16. Slice(u, one, l) \in Tuple(l, S)
    BY <1>5, <1>15, Cut
  <1>17. \A i \in 1..l : Slice(u, one, l)[i] = u[one + i - 1]
    BY <1>5, <1>15, Cut
  <1>18. body \in Tuple(l, S)
    BY <1>13, <1>16
  <1>19. \A i \in 1..l : body[i] = u[i]
    <2>1. \A i \in 1..l : one + i - 1 = i
      BY <1>3
    <2> HIDE DEF body
    <2> QED
      BY <1>13, <1>17, <2>1
  <1>20. TextDigits(s) = [i \in 1..13 |-> Index(body[i])]
    BY Zenon DEF TextDigits, pad
  <1> HIDE DEF body
  <1>21. \A i \in 1..m : body[i] = t[i]
    <2> SUFFICES ASSUME NEW i \in 1..m PROVE body[i] = t[i]
      OBVIOUS
    <2>1. i \in 1..l
      BY <1>4, <1>5
    <2> QED
      BY <1>11, <1>19, <2>1
  <1>22. ASSUME NEW i \in 1..13, i > m PROVE Blank(body, i)
    <2>1. PICK j \in 1..13 : j = i - m
      BY <1>22
    <2>2. j \in 1..l /\ m + j = i /\ i \in 1..l
      BY <1>4, <2>1
    <2>3. body[i] = pad[j]
      BY <1>12, <1>19, <2>2
    <2> QED
      BY <1>9, <2>3, Zenon DEF Blank
  <1>23. PICK q \in Nat : q = 42
    OBVIOUS
  <1>24. Len(FullTable) = q /\ DOMAIN FullTable = 1..q
    <2>1. IsTable(FullTable, q)
      BY <1>23, FullTableIs
    <2> QED
      BY <2>1, TableIs
  <1>25. Contains(FullTable, "space")
    <2>1. IsTable(AlphaNumSpace, 37) /\ IsTable(Marks, 5)
      BY AlphaNumSpaceIs, MarksAre
    <2>2. Contains(AlphaNumSpace, "space")
      BY AlphaNumSpaceIs
    <2>3. Contains(Joined(AlphaNumSpace, Marks), "space")
      BY <2>1, <2>2, JoinedContains
    <2> QED
      BY <2>3, Zenon DEF FullTable, Joined, Marks
  <1>26. \A i \in 1..13 : Contains(FullTable, body[i])
    <2> SUFFICES ASSUME NEW i \in 1..13 PROVE Contains(FullTable, body[i])
      OBVIOUS
    <2>1. CASE i > m
      <3>1. body[i] = "space"
        BY <1>22, <2>1 DEF Blank
      <3> QED
        BY <1>25, <3>1, Zenon
    <2>2. CASE ~(i > m)
      <3>1. i \in 1..m /\ i \in 1..n
        BY <1>5, <2>2
      <3>2. body[i] = s[i]
        BY <1>7, <1>21, <3>1
      <3> QED
        BY <3>1, <3>2, Zenon
    <2> QED
      BY <2>1, <2>2
  <1>27. ASSUME NEW i \in 1..13 PROVE charn(TextDigits(s)[i], FullTable) = body[i]
    <2>1. PICK c : c = body[i]
      OBVIOUS
    <2>2. Contains(FullTable, c)
      BY <1>26, <2>1
    <2>3. TextDigits(s)[i] = nchar(c, FullTable)
      BY <1>20, <2>1, <2>2, Zenon
    <2>4. Contains(FullTable, c) => charn(nchar(c, FullTable), FullTable) = c
      BY <1>24, NcharIs
    <2> QED
      BY <2>1, <2>2, <2>3, <2>4, Zenon
  <1>28. [i \in 1..13 |-> charn(TextDigits(s)[i], FullTable)] = body
    <2>1. [i \in 1..13 |-> charn(TextDigits(s)[i], FullTable)] = [i \in 1..13 |-> body[i]]
      BY <1>27, Zenon
    <2>2. [i \in 1..13 |-> body[i]] = body
      BY <1>4, <1>18 DEF Tuple
    <2> QED
      BY <2>1, <2>2, Zenon
  <1>29. Trim(body) = t
    <2>1. PICK z \in Nat : z = 0
      OBVIOUS
    <2>2. z + m <= l
      BY <1>4, <1>5, <2>1
    <2>3. ASSUME NEW i \in 1..m PROVE body[z + i] = t[i]
      <3>1. z + i = i
        BY <2>1
      <3> QED
        BY <1>21, <3>1
    <2>4. ~Blank(t, 1) /\ ~Blank(t, m)
      <3>1. 1 \in 1..m /\ m \in 1..m
        BY <1>5
      <3>2. t[1] = s[1] /\ t[m] = s[m]
        BY <1>7, <3>1
      <3> QED
        BY <1>2, <3>2, Zenon DEF Blank
    <2>5. ASSUME NEW i \in 1..l, i <= z \/ i > z + m PROVE Blank(body, i)
      <3>1. i \in 1..13 /\ i > m
        BY <1>4, <1>5, <2>1, <2>5
      <3> QED
        BY <1>22, <3>1
    <2>6. Trim(body) = t
      BY <1>5, <1>6, <1>18, <2>2, <2>3, <2>4, <2>5, TrimIs
    <2> QED
      BY <2>6
  <1> QED
    BY <1>8, <1>28, <1>29, Zenon

\* A free text is read back as the stored text, trimmed.
LEMMA TextHeard ==
  ASSUME NEW n \in 1..13, NEW S, "space" \in S, NEW s \in Tuple(n, S), ~Blank(s, 1),
         \A i \in 1..n : Contains(FullTable, s[i])
  PROVE  ftx_message_decode(packtext77(s)) = <<Trim(s)>>
  <1> DEFINE digits == TextDigits(s)
             bytes  == Filled(digits)[13]
  <1>1. packtext77(s) = TextBits(Packed(digits, 42, 9))
    BY PacktextIs
  <1>2. Trim([i \in 1..13 |-> charn(digits[i], FullTable)]) = Trim(s)
    BY TextBack
  <1>3. digits \in Tuple(13, Digit42)
    <2>1. digits \in Tuple(13, Int) /\ \A i \in 1..13 : digits[i] \in 0..41
      BY TextDigitsType
    <2> HIDE DEF digits
    <2> QED
      BY <2>1 DEF Tuple, Digit42
  <1> HIDE DEF digits
  <1>4. Packed(digits, 42, 9) = bytes
    BY <1>3, FilledIs
  <1>5. bytes \in Tuple(9, Byte)
    <2>1. \A i \in 0..13 : Filled(digits)[i] \in Tuple(9, Byte)
      BY <1>3, FilledIs
    <2> QED
      BY <2>1
  <1>6. bytes[1] < 128
    <2>1. \A j \in 0..13 : Wide(Filled(digits)[j], 9)[9] < Powers42[j + 1]
      BY <1>3, FilledFits
    <2>2. 13 \in 0..13 /\ 13 + 1 = 14
      OBVIOUS
    <2>3. Wide(bytes, 9)[9] < Powers42[14]
      BY <2>1, <2>2
    <2> HIDE DEF bytes
    <2> QED
      BY <1>5, <2>3, FirstBitFree
  <1>7. ftx_message_decode(TextBits(bytes)) = <<Trim(Unpack(bytes, 13, FullTable))>>
    <2> HIDE DEF bytes
    <2> QED
      BY <1>5, <1>6, TextDecodes
  <1>8. Unpack(bytes, 13, FullTable) = [i \in 1..13 |-> charn(digits[i], FullTable)]
    BY <1>3, UnpackIs
  <1> HIDE DEF bytes
  <1> QED
    BY <1>1, <1>2, <1>4, <1>7, <1>8, Zenon

(***************************************************************************)
(* What is sent as free text is read as it stands: the two nested loops of *)
(* ftx_message_encode_free, which multiply nine bytes by 42 and add the    *)
(* next character's number, lose no carry, as 42^13 < 2^71, so that the    *)
(* divisions of the decoder give back each character; and n3 and i3 are 0. *)
(***************************************************************************)
THEOREM PacketTextReadable == Spec => []TextReadable
  <1>1. PacketInv => TextReadable
    <2> SUFFICES ASSUME PacketInv, SentAsText PROVE Heard = <<Trim(message_buffer)>>
      BY Zenon DEF TextReadable
    <2>1. /\ Sent /\ Len(message_buffer) <= 13
          /\ \A i \in DOMAIN message_buffer : Contains(FullTable, message_buffer[i])
          /\ \A n22 \in Hashes : ~ftx_message_encode(message_buffer, n22).ok
      BY Zenon DEF SentAsText
    <2>2. PICK n22 \in Hashes : payload \in Made(call, loc, n22) /\ Heard = ftx_message_decode(payload)
      BY <2>1, HeardIs
    <2>3. PICK c \in Callsigns : c = call
      BY DEF PacketInv
    <2>4. PICK l \in Locators : l = loc
      BY DEF PacketInv
    <2>5. message_buffer = Buffer(c, l)
      BY <2>3, <2>4, Zenon DEF message_buffer, Buffer
    <2> DEFINE s == Buffer(c, l)
    <2>6. payload = packtext77(s)
      <3>1. payload \in Made(c, l, n22)
        BY <2>2, <2>3, <2>4
      <3>2. ~ftx_message_encode(s, n22).ok /\ Len(s) <= 13
        BY <2>1, <2>5, Zenon
      <3>3. Made(c, l, n22) = {packtext77(s)}
        BY <3>2, Zenon DEF Made
      <3> QED
        BY <3>1, <3>3, Zenon
    <2>7. /\ "C" \in Characters /\ "Q" \in Characters /\ "space" \in Characters
          /\ c \in Seq(Characters) /\ l \in Seq(Characters)
      <3>1. c \in Seq(Characters) /\ l \in Seq(Characters) /\ {"C", "Q", "space"} \subseteq Characters
        BY Ft8PacketAssumption, Zenon
      <3> QED
        BY <3>1
    <2>8. s \in Seq(Characters) /\ Len(s) >= 4 /\ s[1] = "C"
      BY <2>7 DEF Buffer
    <2>9. \A i \in DOMAIN s : Contains(FullTable, s[i])
      BY <2>1, <2>5, Zenon
    <2>10. Len(s) <= 13
      BY <2>1, <2>5, Zenon
    <2> HIDE DEF s
    <2>11. Len(s) \in Nat
      BY <2>8
    <2>12. PICK n \in 1..13 : n = Len(s)
      <3>1. PICK v : v = Len(s)
        BY Zenon
      <3>2. v \in Nat /\ v >= 4 /\ v <= 13
        BY <2>8, <2>10, <2>11, <3>1, Zenon
      <3>3. v \in 1..13
        BY <3>2
      <3> QED
        BY <3>1, <3>3, Zenon
    <2>13. n \in Nat
      OBVIOUS
    <2>14. s \in Tuple(n, Characters)
      BY <2>8, <2>12, <2>13, TupleMade
    <2>15. DOMAIN s = 1..n
      BY <2>13, <2>14, TupleItems
    <2>16. ~Blank(s, 1)
      BY <2>8 DEF Blank
    <2>17. \A i \in 1..n : Contains(FullTable, s[i])
      BY <2>9, <2>15, Zenon
    <2>18. ftx_message_decode(packtext77(s)) = <<Trim(s)>>
      BY <2>7, <2>14, <2>16, <2>17, TextHeard
    <2> QED
      BY <2>2, <2>5, <2>6, <2>18, Zenon DEF s
  <1> QED
    BY <1>1, PacketInvariant, PTL
=============================================================================
