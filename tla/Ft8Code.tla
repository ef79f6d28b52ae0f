------------------------------- MODULE Ft8Code -------------------------------
(***************************************************************************)
(* From 77 bits to 79 tones: ft8/crc.c and ft8/encode.c, and what a        *)
(* receiver does to undo it, by the definition of FT8.  A sequence of bits *)
(* is a tuple, the most significant bit first.                             *)
(***************************************************************************)
EXTENDS Ft8Constants, SequencesExt

Xor(s, t) == [i \in DOMAIN s |-> (s[i] + t[i]) % 2]

\* The remainder moves on by one bit: the polynomial is taken from it when
\* its first bit was set.
Shifted(remainder, bit) ==
  LET next == Append(Tail(remainder), bit)
  IN  IF remainder[1] = 1 THEN Xor(next, FT8_CRC_POLYNOMIAL) ELSE next

\* A byte is added to the remainder when its first bit is reached; the
\* message ends with a whole byte.
ftx_compute_crc(message, num_bits) ==
  LET Fetched(remainder, i) ==
        IF i % 8 = 1 THEN Xor(remainder, SubSeq(message, i, i + 7) \o Zeros(6)) ELSE remainder
      step == [i \in 1..num_bits |->
                 [remainder \in [1..14 -> {0, 1}] |-> Shifted(Fetched(remainder, i), 0)]]
  IN  Loop(step, Zeros(14), num_bits)[num_bits]

\* The CRC of the payload and five zeros, put behind the 77 bits.
ftx_add_crc(payload) ==
  SubSeq(payload, 1, 77) \o ftx_compute_crc(SubSeq(payload, 1, 77) \o Zeros(11), 96 - 14)

\* Mutant: the last check bit is missing.
EncodeOneShort(message) ==
  message \o [i \in 1..FTX_LDPC_M |->
    IF i = FTX_LDPC_M THEN 0
    ELSE Cardinality({j \in kFTX_LDPC_generator[i] : message[j] = 1}) % 2]

encode174(message) ==
  message \o [i \in 1..FTX_LDPC_M |->
    Cardinality({j \in kFTX_LDPC_generator[i] : message[j] = 1}) % 2]

MapTone(bits3) == kFT8_Gray_map[bits3 + 1]

\* S7 D29 S7 D29 S7.
ft8_encode(payload) ==
  LET codeword == encode174(ftx_add_crc(payload))
      data == [i \in 1..58 |-> MapTone(4 * codeword[3 * i - 2] + 2 * codeword[3 * i - 1]
                                       + codeword[3 * i])]
  IN kFT8_Costas_pattern \o SubSeq(data, 1, 29) \o kFT8_Costas_pattern
       \o SubSeq(data, 30, 58) \o kFT8_Costas_pattern

-----------------------------------------------------------------------------
\* The definition of FT8, which the code does not hold: what makes a receiver
\* take 79 tones for a packet, and the payload it finds.
ReceivedCodeword(tones) ==
  LET data == SubSeq(tones, 8, 36) \o SubSeq(tones, 44, 72)
      bits3 == [i \in 1..58 |-> (CHOOSE b \in 1..8 : <<0, 1, 3, 2, 5, 6, 4, 7>>[b] = data[i]) - 1]
  IN <<>> \o [i \in 1..174 |-> (bits3[(i + 2) \div 3] \div <<4, 2, 1>>[((i - 1) % 3) + 1]) % 2]

InSync(tones) ==
  \A k \in {0, 36, 72} : SubSeq(tones, k + 1, k + 7) = <<3, 1, 4, 0, 6, 5, 2>>

ParityOK(codeword) ==
  \A i \in 1..FTX_LDPC_M :
    Cardinality({j \in kFTX_LDPC_Nm[i] : codeword[j] = 1}) % 2 = 0

\* The tables of both sides fit together: each bit of the message takes part
\* in each check an even number of times, itself and in check bits; TLC
\* evaluates it.
Term(j) == IF j <= FTX_LDPC_K THEN {j} ELSE kFTX_LDPC_generator[j - FTX_LDPC_K]

ASSUME TablesFit ==
  /\ \A i \in 1..FTX_LDPC_M : /\ kFTX_LDPC_generator[i] \subseteq 1..FTX_LDPC_K
                              /\ kFTX_LDPC_Nm[i] \subseteq 1..(FTX_LDPC_K + FTX_LDPC_M)
  /\ \A i \in 1..FTX_LDPC_M, b \in 1..FTX_LDPC_K :
       Cardinality({j \in kFTX_LDPC_Nm[i] : b \in Term(j)}) % 2 = 0

\* The remainder of the division of a polynomial by x^14 and the terms of
\* FT8_CRC_POLYNOMIAL, by long division: a window of 14 terms moves over it.
PolynomialRemainder(dividend) ==
  LET n == Len(dividend) - 14
      step == [i \in 1..n |->
                 [window \in [1..14 -> {0, 1}] |-> Shifted(window, dividend[i + 14])]]
  IN  Loop(step, SubSeq(dividend, 1, 14), n)[n]

CrcOK(codeword) ==
  LET polynomial == SubSeq(codeword, 1, 77) \o Zeros(5) \o SubSeq(codeword, 78, 91)
  IN  PolynomialRemainder(polynomial) = Zeros(14)
=============================================================================
