----------------------------- MODULE MCFt8Packet -----------------------------
(***************************************************************************)
(* Callsigns of every form for TLC: each prefix with each area digit and   *)
(* each rest, among them all the exceptions of pack_basecall.              *)
(***************************************************************************)
EXTENDS Ft8Packet

MCCharacters == {FullTable[i] : i \in DOMAIN FullTable} \cup {"<", "underscore"}

MCPrefixes == {<<"K">>, <<"V", "U">>, <<"9">>, <<"9", "A">>, <<"A", "1">>, <<"3", "D", "A">>,
               <<"3", "X", "Z">>, <<"3", "X">>, <<"P", "J", "4", "/", "K">>}
MCRests == {<<>>, <<"Z">>, <<"C", "E", "R">>, <<"A", "B", "C", "D">>, <<"A", "/", "P">>,
            <<"C", "E", "R", "/", "R">>}
MCOthers == {<<"K", "-", "1", "A">>, <<"K", "-", "1", "A", "B">>, <<"K", "underscore", "1">>, <<"<", "K", "1", "A">>, <<"Q", "R", "Z">>,
             <<"K", "1", "space", "A">>}

MCCallsigns == {p \o <<d>> \o r : p \in MCPrefixes, d \in {"0", "3"}, r \in MCRests} \cup MCOthers

MCLocators == {<<"M", "K", "6", "8">>, <<"R", "R", "9", "9", "X", "X">>, <<"A", "A", "0", "0">>,
               <<"R", "R", "7", "3">>, <<"F", "N", "4">>, <<"R", "-", "1", "5">>}

MCHashes == {0, MAX22 - 1}

\* Each single bit: the code is linear.
MCResidue == {[i \in 1..77 |-> IF i = k THEN 1 ELSE 0] : k \in 0..77}
=============================================================================
