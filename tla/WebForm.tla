------------------------------ MODULE WebForm ------------------------------
(***************************************************************************)
(* The query string of the set-up form, wifi_setup.c: what a browser makes *)
(* of the fields, and what tcp_server_recv reads from it.  A text is a     *)
(* sequence of characters, one byte each, of which a space and a whole     *)
(* frequency are one; a query is a sequence of characters and of names of  *)
(* fields, with their "=".                                                 *)
(***************************************************************************)
EXTENDS Naturals, SequencesExt

CONSTANTS
  Characters,  \* with which texts are written
  Ascii,       \* those that a query encodes, with the two digits that stand for them
  Room         \* the sizes of decoded_ssid, decoded_password, decoded_callsign, decoded_locator

TextNames == {"ssid=", "password=", "callsign=", "locator="}
Names     == TextNames \cup {"frequency="}
Texts     == Seq(Characters)

\* A parameter that is not there.
Missing == <<"missing">>

ASSUME WebFormAssumption ==
  /\ {"space", "&", "%", "+"} \subseteq Characters /\ Characters \cap (Names \cup {"missing"}) = {}
  /\ Ascii \subseteq (Characters \ {"space"}) \X (Characters \ {"&"}) \X (Characters \ {"&"})
  /\ {"&", "%", "+"} \subseteq {t[1] : t \in Ascii}
  /\ \A t, u \in Ascii : t[1] = u[1] <=> t[2] = u[2] /\ t[3] = u[3]
  /\ Room \in [TextNames -> Nat \ {0}]

UpperCase == [k \in {"k", "m", "v"} |-> CASE k = "k" -> "K" [] k = "m" -> "M" [] k = "v" -> "V"]

\* strtol of two digits.
HexChar(h, l) == (CHOOSE t \in Ascii : t[2] = h /\ t[3] = l)[1]

\* "%" with two characters behind it is the character they encode, "+" is a space.
Takes(src, i) == IF src[i] = "%" /\ i + 2 <= Len(src) THEN 3 ELSE 1
Char(src, i) ==
  CASE src[i] = "+"      -> "space"
    [] Takes(src, i) = 3 -> HexChar(src[i + 1], src[i + 2])
    [] OTHER             -> src[i]

\* What is written to dst from each character of src on.
Decoded(src) ==
  LET from[i \in 1..(Len(src) + 1)] ==
        IF i > Len(src) THEN <<>> ELSE <<Char(src, i)>> \o from[i + Takes(src, i)]
  IN from
url_decode(src) == Decoded(src)[1]

\* Where the parameters of a query begin, and where the one at s ends.
Begins(query) == {1} \cup {i + 1 : i \in {j \in DOMAIN query : query[j] = "&"}}
EndOf(query, s) == Min({i \in DOMAIN query : i >= s /\ query[i] = "&"} \cup {Len(query) + 1}) - 1

\* The text of a parameter; of two with the same name the last one counts.
Named(query, name) == {s \in Begins(query) : s <= Len(query) /\ query[s] = name}
TextAt(query, s) == SubSeq(query, s + 1, EndOf(query, s))
Param(query, name) ==
  IF Named(query, name) = {} THEN Missing ELSE TextAt(query, Max(Named(query, name)))

Field(query, name) ==
  LET text == Param(query, name) IN IF text = Missing THEN Missing ELSE url_decode(text)

\* The four texts are there and not empty.
Complete(query) == \A name \in TextNames : Field(query, name) \notin {Missing, <<>>}

\* Mutant: each array is a byte short.
OverrunsOneEarly(query) ==
  \E name \in TextNames : \E s \in Named(query, name) :
    Len(url_decode(TextAt(query, s))) + 1 >= Room[name]

\* url_decode writes a text, of which each %xx is one byte, and the zero behind
\* it, however short the array is; a parameter that comes twice is decoded twice.
Overruns(query) ==
  \E name \in TextNames : \E s \in Named(query, name) :
    Len(url_decode(TextAt(query, s))) >= Room[name]

\* toupper of the C library.
Upper(c) == IF c \in DOMAIN UpperCase THEN UpperCase[c] ELSE c

\* The copy in upper case, cut to leave a byte of the array for the zero.
toupper(text, size) ==
  [i \in 1..(IF Len(text) < size THEN Len(text) ELSE size - 1) |-> Upper(text[i])]

\* What wifi_setup_save_config hands to flashmem_write_config; its own arrays
\* for callsign and locator are as large as those of the decoded texts.
Config(query) ==
  [ssid      |-> Field(query, "ssid="),
   password  |-> Field(query, "password="),
   callsign  |-> toupper(Field(query, "callsign="), Room["callsign="]),
   locator   |-> toupper(Field(query, "locator="), Room["locator="]),
   frequency |-> IF Param(query, "frequency=") = Missing THEN <<"28075500">> ELSE Param(query, "frequency=")]

-----------------------------------------------------------------------------
\* The browser: application/x-www-form-urlencoded, fields in the order of the
\* form.
EncodeChar(c) ==
  CASE c = "space"                   -> <<"+">>
    [] \E t \in Ascii : t[1] = c -> LET t == CHOOSE t \in Ascii : t[1] = c IN <<"%", t[2], t[3]>>
    [] OTHER                         -> <<c>>

Encoded(text) ==
  LET from[i \in 1..(Len(text) + 1)] ==
        IF i > Len(text) THEN <<>> ELSE EncodeChar(text[i]) \o from[i + 1]
  IN from
Encode(text) == Encoded(text)[1]

With(query, name, text) == query \o <<"&", name>> \o text

Query(form) ==
  LET ssid     == <<"ssid=">> \o Encode(form.ssid)
      password == With(ssid, "password=", Encode(form.password))
      callsign == With(password, "callsign=", Encode(form.callsign))
      locator  == With(callsign, "locator=", Encode(form.locator))
  IN With(locator, "frequency=", form.frequency)
=============================================================================
