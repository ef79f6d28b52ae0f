---------------------------- MODULE MCSetupServers ----------------------------
(***************************************************************************)
(* The servers with six forms: a plain one, one with every character that  *)
(* the query encodes, one that spells an encoded character, one with an    *)
(* empty password, one that fills every array to the last byte, and one    *)
(* with a callsign that is a byte too long; and queries that lack a field, *)
(* or give one twice, too long the first time.  Names end at,              *)
(* before and after the limits of a label, a name and a message, and       *)
(* messages end in the name, behind it, and behind a further record.       *)
(***************************************************************************)
EXTENDS SetupServers

MCCharacters ==
  {"a", "b", "p", "v", "u", "m", "k", "V", "U", "M", "K", "B", "D", "2", "3", "5", "6",
   "space", "&", "%", "+", "=", "7074000", "28074000"}

MCAscii == {<<"&", "2", "6">>, <<"%", "2", "5">>, <<"+", "2", "B">>, <<"=", "3", "D">>}

MCRoom == [n \in TextNames |-> CASE n = "callsign=" -> 12 [] n = "locator=" -> 7 [] OTHER -> 64]

\* A text of this length.
Long(c, length) == [i \in 1..length |-> c]

MCForms ==
  {[ssid |-> <<"a", "b">>, password |-> <<"p">>, callsign |-> <<"v", "u", "3">>,
    locator |-> <<"m", "k">>, frequency |-> <<"7074000">>],
   [ssid |-> <<"a", "space", "&", "+">>, password |-> <<"=", "%", "&">>, callsign |-> <<"V", "U", "3">>,
    locator |-> <<"M", "k">>, frequency |-> <<"28074000">>],
   [ssid |-> <<"%", "2", "6">>, password |-> <<"+", "2", "B", "%">>, callsign |-> <<"v", "k", "3">>,
    locator |-> <<"m", "K">>, frequency |-> <<"7074000">>],
   [ssid |-> <<"a">>, password |-> <<>>, callsign |-> <<"v">>, locator |-> <<"m">>,
    frequency |-> <<"7074000">>],
   [ssid |-> Long("space", 63), password |-> Long("%", 63), callsign |-> Long("v", 11),
    locator |-> Long("m", 6), frequency |-> <<"7074000">>],
   [ssid |-> <<"a">>, password |-> <<"p">>, callsign |-> Long("v", 12), locator |-> <<"m">>,
    frequency |-> <<"7074000">>]}

MCPartial ==
  {<<>>, <<"ssid=", "a", "&", "password=", "p", "&", "callsign=", "v">>,
   <<"locator=">> \o Long("m", 7) \o <<"&", "locator=", "m">>}

MCPageLen == [p \in Pages |-> 1]

MCNames ==
  {<<0>>, <<3, 7, 3, 0>>, <<63, 63, 63, 61, 0>>, <<63, 63, 63, 62, 0>>, <<64, 0>>, <<3, 192, 12>>,
   <<63, 63, 63, 63, 63>>}

MCSizes(labels) ==
  LET name == HeaderSize + Span(labels)
  IN {HeaderSize - 4, HeaderSize, HeaderSize + 2, name - 2} \cup
     IF Last(labels) = 0 THEN {name + 2, name + 4, name + 15, MAX_DNS_MSG_SIZE, 512} ELSE {name}

MCMessages ==
  UNION {[size : MCSizes(labels), response : BOOLEAN, opcode : {0, 4}, questions : 0..2,
          labels : {labels}] : labels \in MCNames}
=============================================================================
