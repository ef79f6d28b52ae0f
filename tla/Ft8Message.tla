----------------------------- MODULE Ft8Message -----------------------------
(***************************************************************************)
(* The 77 bits of a message: ft8/message.c on the tables of ft8/text.c, as *)
(* far as a message "CQ <callsign> <locator>" can reach, and the decoder   *)
(* of the same file, which is the reference: it is built but not called.   *)
(*                                                                         *)
(* A text is a tuple of characters, of which two have names, space and     *)
(* underscore.  The payload is the tuple of its 77 bits; how they are      *)
(* shifted into ten bytes is left out.  A hash is a number the caller      *)
(* chooses, as without a table nobody can look it up.                      *)
(***************************************************************************)
EXTENDS Ft8Constants, SequencesExt

MAX22    == 4194304
NTOKENS  == 2063592
MAXGRID4 == 32400

-----------------------------------------------------------------------------
\* Texts: text.c.
Digits  == <<"0", "1", "2", "3", "4", "5", "6", "7", "8", "9">>
Letters == <<"A", "B", "C", "D", "E", "F", "G", "H", "I", "J", "K", "L", "M", "N",
             "O", "P", "Q", "R", "S", "T", "U", "V", "W", "X", "Y", "Z">>
AlphaNum      == Digits \o Letters
AlphaNumSpace == <<"space">> \o AlphaNum
LettersSpace  == <<"space">> \o Letters
AlphaNumSpaceSlash == AlphaNumSpace \o <<"/">>
FullTable     == AlphaNumSpace \o <<"+", "-", ".", "/", "?">>

nchar(c, table) ==
  IF Contains(table, c) THEN (CHOOSE i \in DOMAIN table : table[i] = c) - 1 ELSE -1

charn(n, table) == table[n + 1]

is_digit(c)  == Contains(Digits, c)
is_letter(c) == Contains(Letters, c)

Trim(s) ==
  LET used == {i \in DOMAIN s : s[i] # "space"}
  IN  IF used = {} THEN <<>> ELSE SubSeq(s, Min(used), Max(used))

\* The token that begins a text, and what follows the spaces behind it.
FirstToken(s) ==
  LET ends == {i \in DOMAIN s : s[i] = "space"}
  IN  IF ends = {} THEN s ELSE SubSeq(s, 1, Min(ends) - 1)
AfterToken(s) ==
  LET rest == {i \in DOMAIN s : i > Len(FirstToken(s)) /\ s[i] # "space"}
  IN  IF rest = {} THEN <<>> ELSE SubSeq(s, Min(rest), Len(s))

DropFirst(s, n) == SubSeq(s, n + 1, Len(s))

\* The number with these digits, the first one the highest.
Number(digits, base) ==
  Loop([i \in 1..Len(digits) |-> [n \in Int |-> base * n + digits[i]]], 0, Len(digits))[Len(digits)]

\* At most length characters: a sign and digits, up to the first other one.
dd_to_int(s, length) ==
  LET signed == s # <<>> /\ s[1] \in {"+", "-"}
      body   == SubSeq(IF signed THEN Tail(s) ELSE s, 1,
                       Min({Len(s), length} ) - (IF signed THEN 1 ELSE 0))
      stop   == Min({i \in DOMAIN body : ~is_digit(body[i])} \cup {Len(body) + 1})
      value  == Number([i \in 1..(stop - 1) |-> nchar(body[i], Digits)], 10)
  IN  IF signed /\ s[1] = "-" THEN -value ELSE value

\* Two digits and a sign.
int_to_dd(v) ==
  LET m == IF v < 0 THEN -v ELSE v
  IN  <<IF v < 0 THEN "-" ELSE "+", charn(m \div 10, Digits), charn(m % 10, Digits)>>

-----------------------------------------------------------------------------
\* Small numbers as bits, and wide ones as bytes, the first one the highest.
Bits(n, width) ==
  LET half == Loop([i \in 1..width |-> [m \in Int |-> m \div 2]], n, width)
  IN  [i \in 1..width |-> half[width - i] % 2]
Value(bits) == Number(bits, 2)

BitsOf(bytes)  == [i \in 1..(8 * Len(bytes)) |-> Bits(bytes[(i + 7) \div 8], 8)[((i - 1) % 8) + 1]]
BytesOf(bits)  == [i \in 1..(Len(bits) \div 8) |-> Value(SubSeq(bits, 8 * i - 7, 8 * i))]

\* bytes * m + a in the same width, with a carry from the last byte on.
MulAdd(bytes, m, a) ==
  LET n == Len(bytes)
      carry == Loop([k \in 1..n |-> [c \in Int |-> (bytes[n + 1 - k] * m + c) \div 256]], a, n)
  IN  [i \in 1..n |-> (bytes[i] * m + carry[n - i]) % 256]

\* The number of these digits in n bytes.
Packed(digits, base, n) ==
  LET step == [i \in 1..Len(digits) |->
                 [bytes \in [1..n -> 0..255] |-> MulAdd(bytes, base, digits[i])]]
  IN  Loop(step, Zeros(n), Len(digits))[Len(digits)]

\* The rest that each byte leaves, of a division by m from the first one on.
Rests(bytes, m) ==
  Loop([i \in 1..Len(bytes) |-> [r \in Nat |-> (256 * r + bytes[i]) % m]], 0, Len(bytes))
Rest(bytes, m) == Rests(bytes, m)[Len(bytes)]
Quotient(bytes, m) ==
  <<>> \o [i \in 1..Len(bytes) |-> (256 * Rests(bytes, m)[i - 1] + bytes[i]) \div m]

\* The characters of a number in the base of a table, length of them.
Unpack(bytes, length, table) ==
  LET step == [k \in 1..length |->
                 [num \in [1..Len(bytes) -> 0..255] |-> Quotient(num, Len(table))]]
      num  == Loop(step, bytes, length)
  IN  [i \in 1..length |-> charn(Rest(num[length - i], Len(table)), table)]

-----------------------------------------------------------------------------
\* Mutant: without the exceptions for Eswatini and Guinea.
SixPlain(call, length) ==
  IF is_digit(call[3]) /\ length <= 6 THEN SubSeq(call, 1, length)
  ELSE IF is_digit(call[2]) /\ length <= 5 THEN <<"space">> \o SubSeq(call, 1, length)
  ELSE <<>>

\* Mutant: a callsign that is too long is cut.
SixCut(call, length) ==
  IF IsPrefix(<<"3", "D", "A", "0">>, call) /\ length \in 5..7
  THEN <<"3", "D", "0">> \o SubSeq(call, 5, length)
  ELSE IF IsPrefix(<<"3", "X">>, call) /\ is_letter(call[3]) /\ length <= 7
  THEN <<"Q">> \o SubSeq(call, 3, length)
  ELSE IF is_digit(call[3])
  THEN SubSeq(call, 1, Min({length, 6}))
  ELSE IF is_digit(call[2]) /\ length <= 5
  THEN <<"space">> \o SubSeq(call, 1, length)
  ELSE <<>>

\* The six characters of a callsign, the area digit being the third; none if
\* it has no such form.
SixChars(call, length) ==
  IF IsPrefix(<<"3", "D", "A", "0">>, call) /\ length \in 5..7
  THEN <<"3", "D", "0">> \o SubSeq(call, 5, length)
  ELSE IF IsPrefix(<<"3", "X">>, call) /\ is_letter(call[3]) /\ length <= 7
  THEN <<"Q">> \o SubSeq(call, 3, length)
  ELSE IF is_digit(call[3]) /\ length <= 6
  THEN SubSeq(call, 1, length)
  ELSE IF is_digit(call[2]) /\ length <= 5
  THEN <<"space">> \o SubSeq(call, 1, length)
  ELSE <<>>

SixTables == <<AlphaNumSpace, AlphaNum, Digits, LettersSpace, LettersSpace, LettersSpace>>

\* The number of a standard callsign, -1 for any other.
pack_basecall(call, length) ==
  IF length <= 2 THEN -1
  ELSE LET six == SixChars(call, length)
           c6  == six \o [i \in 1..(6 - Len(six)) |-> "space"]
           d   == [i \in 1..6 |-> nchar(c6[i], SixTables[i])]
       IN  IF \E i \in 1..6 : d[i] < 0 THEN -1
           ELSE ((((d[1] * 36 + d[2]) * 10 + d[3]) * 27 + d[4]) * 27 + d[5]) * 27 + d[6]

\* save_callsign computes a hash of these characters only.
Hashable(call) == \A i \in DOMAIN call : Contains(AlphaNumSpaceSlash, call[i])

HasSuffix(call) == \E x \in {"P", "R"} : IsSuffix(<<"/", x>>, call)

NoPack == [n28 |-> -1, ip |-> 0]

Tokens == <<<<"D", "E">>, <<"Q", "R", "Z">>, <<"C", "Q">>>>

pack28(call, n22) ==
  LET n28 == pack_basecall(call, Len(call) - (IF HasSuffix(call) THEN 2 ELSE 0)) IN
  IF Contains(Tokens, call)
  THEN [n28 |-> nchar(call, Tokens), ip |-> 0]
  ELSE IF IsPrefix(<<"C", "Q", "underscore">>, call) /\ Len(call) < 8
  THEN NoPack
  ELSE IF n28 >= 0
  THEN [n28 |-> NTOKENS + MAX22 + n28, ip |-> IF HasSuffix(call) THEN 1 ELSE 0]
  ELSE IF Len(call) \in 3..11 /\ Hashable(call)
  THEN [n28 |-> NTOKENS + n22, ip |-> 0]
  ELSE NoPack

IsGrid(g) ==
  /\ Len(g) >= 4
  /\ \A i \in {1, 2} : nchar(g[i], Letters) \in 0..17
  /\ \A i \in {3, 4} : is_digit(g[i])

\* The texts that have a number of their own, from MAXGRID4 + 1 on.
Specials == <<<<>>, <<"R", "R", "R">>, <<"R", "R", "7", "3">>, <<"7", "3">>>>

GridNumber(g) ==
  (nchar(g[1], Letters) * 18 + nchar(g[2], Letters)) * 100
    + nchar(g[3], Digits) * 10 + nchar(g[4], Digits)

\* 16 bits: a flag that marks reports with an R, and the locator or report.
packgrid(g) ==
  IF Contains(Specials, g) THEN MAXGRID4 + 1 + nchar(g, Specials)
  ELSE IF IsGrid(g)        THEN GridNumber(g)
  ELSE IF g[1] = "R"       THEN 32768 + ((MAXGRID4 + 35 + dd_to_int(Tail(g), 3)) % 32768)
  ELSE MAXGRID4 + 35 + dd_to_int(g, 3)

Failed == [ok |-> FALSE, bits |-> <<>>]

\* Type 1, or 2 when a callsign ends in /P.
ftx_message_encode_std(to, de, extra, n22) ==
  LET a  == pack28(to, n22)
      b  == pack28(de, n22)
      portable == \E c \in {to, de} : IsSuffix(<<"/", "P">>, c)
      rover    == \E c \in {to, de} : IsSuffix(<<"/", "R">>, c)
  IN  IF a.n28 < 0 \/ b.n28 < 0 \/ (portable /\ rover) THEN Failed
      ELSE [ok |-> TRUE, bits |-> Bits(2 * a.n28 + a.ip, 29) \o Bits(2 * b.n28 + b.ip, 29)
                                    \o Bits(packgrid(extra), 16)
                                    \o Bits(IF portable THEN 2 ELSE 1, 3)]

\* pack58, and with "CQ" no hash, no report and no flip.
ftx_message_encode_nonstd(to, de) ==
  LET open == IF IsPrefix(<<"<">>, de) THEN Tail(de) ELSE de
      stop == Min({i \in DOMAIN open : open[i] = "<"} \cup {Len(open) + 1})
      c11  == SubSeq(open, 1, Min({stop - 1, 11}))
      n58  == Packed([i \in 1..Len(c11) |-> nchar(c11[i], AlphaNumSpaceSlash)], 38, 8)
  IN  IF to # <<"C", "Q">> \/ Len(de) < 3 \/ ~Hashable(c11) THEN Failed
      ELSE [ok |-> TRUE, bits |-> Zeros(12) \o SubSeq(BitsOf(n58), 7, 64) \o Zeros(3)
                                    \o Bits(1, 1) \o Bits(4, 3)]

ftx_message_encode(text, n22) ==
  LET to    == FirstToken(text)
      de    == FirstToken(AfterToken(text))
      extra == FirstToken(AfterToken(AfterToken(text)))
      std   == ftx_message_encode_std(to, de, extra, n22)
  IN  IF Len(to) > 11 \/ Len(de) > 11 \/ Len(extra) > 19 THEN Failed
      ELSE IF std.ok THEN std
      ELSE ftx_message_encode_nonstd(to, de)

\* Mutant: a text of thirteen characters loses the last one.
packtext77_short(text) ==
  LET body == SubSeq(Trim(text) \o [i \in 1..13 |-> "space"], 1, 12) \o <<"space">>
      Index(c) == IF Contains(FullTable, c) THEN nchar(c, FullTable) ELSE 0
  IN  Tail(BitsOf(Packed([i \in 1..13 |-> Index(body[i])], 42, 9))) \o Zeros(6)

\* Thirteen characters in base 42; one that the table lacks becomes a space.
packtext77(text) ==
  LET body == SubSeq(Trim(text) \o [i \in 1..13 |-> "space"], 1, 13)
      Index(c) == IF Contains(FullTable, c) THEN nchar(c, FullTable) ELSE 0
  IN  Tail(BitsOf(Packed([i \in 1..13 |-> Index(body[i])], 42, 9))) \o Zeros(6)

-----------------------------------------------------------------------------
\* The decoder, without a table of callsigns: a hash reads "<...>".
Unknown == <<"<", ".", ".", ".", ">">>

SixCall(c6) ==
  IF SubSeq(c6, 1, 3) = <<"3", "D", "0">> /\ c6[4] # "space"
  THEN <<"3", "D", "A", "0">> \o Trim(DropFirst(c6, 3))
  ELSE IF c6[1] = "Q" /\ is_letter(c6[2]) THEN <<"3", "X">> \o Trim(Tail(c6))
  ELSE Trim(c6)

\* The six characters of a number, from the last one on.
SixOf(n) ==
  LET n5 == n \div 27   n4 == n5 \div 27   n3 == n4 \div 27   n2 == n3 \div 10   n1 == n2 \div 36
  IN  <<charn(n1 % 37, AlphaNumSpace), charn(n2 % 36, AlphaNum), charn(n3 % 10, Digits),
        charn(n4 % 27, LettersSpace), charn(n5 % 27, LettersSpace), charn(n % 27, LettersSpace)>>

unpack28(n28, ip, i3) ==
  LET suffix == IF ip = 0 THEN <<>> ELSE <<"/", IF i3 = 1 THEN "R" ELSE "P">>
  IN  IF n28 <= 2 THEN Tokens[n28 + 1]
      ELSE IF n28 < NTOKENS         THEN <<"?">>  \* "CQ" with more
      ELSE IF n28 < NTOKENS + MAX22 THEN Unknown
      ELSE SixCall(SixOf(n28 - NTOKENS - MAX22)) \o suffix

unpackgrid(igrid4, ir) ==
  LET irpt == igrid4 - MAXGRID4
      flag == IF ir > 0 THEN <<"R">> ELSE <<>>
      grid == <<charn((igrid4 \div 1800) % 18, Letters), charn((igrid4 \div 100) % 18, Letters),
                charn((igrid4 \div 10) % 10, Digits), charn(igrid4 % 10, Digits)>>
  IN  IF irpt <= 0 THEN flag \o (IF ir > 0 THEN <<"space">> ELSE <<>>) \o grid
      ELSE IF irpt <= 4 THEN Specials[irpt]
      ELSE flag \o int_to_dd(irpt - 35)

\* The texts of the fields, for standard, nonstandard and free text messages.
ftx_message_decode(bits) ==
  LET i3 == Value(SubSeq(bits, 75, 77))
      n3 == Value(SubSeq(bits, 72, 74))
  IN  IF i3 \in {1, 2}
      THEN <<unpack28(Value(SubSeq(bits, 1, 28)), bits[29], i3),
             unpack28(Value(SubSeq(bits, 30, 57)), bits[58], i3),
             unpackgrid(Value(SubSeq(bits, 60, 74)), bits[59])>>
      ELSE IF i3 = 4
      THEN LET call == Trim(Unpack(BytesOf(Zeros(6) \o SubSeq(bits, 13, 70)), 11, AlphaNumSpaceSlash))
               cq   == bits[74] = 1
               hash == IF cq THEN <<"C", "Q">> ELSE Unknown
           IN  IF ~cq /\ bits[71] = 1 THEN <<call, hash>> ELSE <<hash, call>>
      ELSE IF i3 = 0 /\ n3 = 0
      THEN <<Trim(Unpack(BytesOf(Zeros(1) \o SubSeq(bits, 1, 71)), 13, FullTable))>>
      ELSE <<>>
=============================================================================
