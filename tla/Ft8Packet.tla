------------------------------ MODULE Ft8Packet ------------------------------
(***************************************************************************)
(* WSPRbeaconCreatePacket of WSPRbeacon.c: the packet of 79 tones that the *)
(* beacon makes of the stored callsign and locator, and what a receiver    *)
(* makes of the packet.                                                    *)
(***************************************************************************)
EXTENDS Ft8Message, Ft8Code

CONSTANTS
  Characters, \* with which texts are written
  Callsigns,  \* callsigns in the store: at most 11 characters, upper case
  Locators,   \* locators in the store: at most 6
  Hashes,     \* the 22-bit hashes that a callsign may have
  Residue     \* payloads that an uninitialised ftx_message_t may hold

ASSUME Ft8PacketAssumption ==
  /\ {"C", "Q", "space"} \subseteq Characters
  /\ \A c \in Callsigns : c \in Seq(Characters) /\ Len(c) <= 11
  /\ \A l \in Locators : l \in Seq(Characters) /\ Len(l) <= 6
  /\ Hashes \subseteq 0..(MAX22 - 1)
  /\ Residue \subseteq [1..77 -> {0, 1}]

VARIABLES
  call, loc,  \* _pu8_callsign, _pu8_locator
  payload,    \* msg.payload of the last packet
  tones       \* _pu8_outbuf

\* The packet that README.md prints for VU3CER in MK68; TLC evaluates it.
ASSUME ReadmePacket ==
  \A p \in {ftx_message_encode(<<"C", "Q", "space", "V", "U", "3", "C", "E", "R", "space", "M", "K", "6", "8">>,
                               n22).bits : n22 \in Hashes} :
    ft8_encode(p)
      = <<3, 1, 4, 0, 6, 5, 2>>
        \o <<0, 0, 0, 0, 0, 0, 0, 0, 1, 1, 4, 1, 7, 5, 4, 4, 4, 7, 1, 1, 2, 0, 5, 2, 0, 2, 7, 5, 0>>
        \o <<3, 1, 4, 0, 6, 5, 2>>
        \o <<6, 4, 7, 2, 6, 5, 1, 7, 5, 5, 7, 0, 2, 0, 7, 7, 5, 3, 2, 2, 3, 4, 1, 5, 1, 0, 2, 0, 0>>
        \o <<3, 1, 4, 0, 6, 5, 2>>

vars == <<call, loc, payload, tones>>

Init ==
  /\ call \in Callsigns /\ loc \in Locators
  /\ payload = <<>> /\ tones = <<>>

message_buffer == <<"C", "Q", "space">> \o call \o <<"space">> \o loc

\* ftx_message_encode, or free text if that fails and the text is short; if
\* it is not, a message is printed and the payload stays as it is.
Payloads(n22) ==
  LET std == ftx_message_encode(message_buffer, n22) IN
  IF std.ok THEN {std.bits}
  ELSE IF Len(message_buffer) <= 13 THEN {packtext77(message_buffer)}
  ELSE Residue

WSPRbeaconCreatePacket ==
  /\ \E p \in UNION {Payloads(n22) : n22 \in Hashes} : payload' = p /\ tones' = ft8_encode(p)
  /\ UNCHANGED <<call, loc>>

Next == WSPRbeaconCreatePacket

Spec == Init /\ [][Next]_vars

-----------------------------------------------------------------------------
Sent == tones # <<>>

Heard == ftx_message_decode(SubSeq(ReceivedCodeword(tones), 1, 77))

\* These are not issued: they are packed like 3DA0 and 3X with a letter.
StandsForAnother(c) ==
  IsPrefix(<<"3", "D", "0">>, c) \/ (c[1] = "Q" /\ is_letter(c[2]))

\* "1-2 letter/digit prefix (at least one letter), 1 digit area code, 1-3 letter
\* suffix", message.h 79, with the prefixes 3DA and 3XA to 3XZ.
IsBasecall(c) ==
  \E k \in 1..3 :
    LET prefix == SubSeq(c, 1, k) IN
    /\ Len(c) \in (k + 2)..(k + 4)
    /\ is_digit(c[k + 1])
    /\ \A i \in (k + 2)..Len(c) : is_letter(c[i])
    /\ IF k < 3
       THEN /\ \A i \in 1..k : Contains(AlphaNum, prefix[i])
            /\ \E i \in 1..k : is_letter(prefix[i])
            /\ ~StandsForAnother(c)
       ELSE \/ prefix = <<"3", "D", "A">> /\ c[4] = "0"
            \/ SubSeq(prefix, 1, 2) = <<"3", "X">> /\ is_letter(prefix[3])

IsStandard(c) ==
  IsBasecall(IF Len(c) > 2 /\ HasSuffix(c) THEN SubSeq(c, 1, Len(c) - 2) ELSE c)

(***************************************************************************)
(* Whatever the payload, the tones are a packet for every receiver: the    *)
(* three synchronisation patterns are in place, all 83 parity checks of    *)
(* the table of the receiving side and the CRC hold, and the payload is    *)
(* what the receiver finds in it.                                          *)
(***************************************************************************)
SentIsPacket ==
  Sent => /\ InSync(tones)
          /\ ParityOK(ReceivedCodeword(tones))
          /\ CrcOK(ReceivedCodeword(tones))
          /\ SubSeq(ReceivedCodeword(tones), 1, 77) = payload

(***************************************************************************)
(* The standard callsigns that message.h defines, with or without a        *)
(* suffix, reach a receiver that has never heard them before, with the     *)
(* first four characters of the locator.                                   *)
(***************************************************************************)
StandardReadable ==
  Sent /\ IsStandard(call) /\ IsGrid(loc)
    => Heard = <<<<"C", "Q">>, call, SubSeq(loc, 1, 4)>>

(***************************************************************************)
(* A message that is sent as free text is read as it stands, but for       *)
(* spaces at its ends, if all of its characters are in the table.          *)
(***************************************************************************)
SentAsText ==
  /\ Sent /\ Len(message_buffer) <= 13
  /\ \A i \in DOMAIN message_buffer : Contains(FullTable, message_buffer[i])
  /\ \A n22 \in Hashes : ~ftx_message_encode(message_buffer, n22).ok

TextReadable == SentAsText => Heard = <<Trim(message_buffer)>>

(***************************************************************************)
(* No station is taken for another one: whatever its callsign, a receiver  *)
(* that has not heard it before reads it, or knows that it cannot.  A      *)
(* nonstandard callsign is replaced by its hash (message.c:718), although  *)
(* message.h:35 has a type of message that would carry it in full.         *)
(***************************************************************************)
NeverMistaken ==
  Sent /\ Len(call) \in 3..11 /\ Hashable(call) /\ ~Contains(call, "space") /\ ~Contains(Tokens, call)
    /\ ~StandsForAnother(call)
    => Len(Heard) = 3 /\ Heard[2] \in {call, Unknown}
=============================================================================
