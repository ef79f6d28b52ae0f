---------------------------- MODULE MCFlashConfig ----------------------------
(***************************************************************************)
(* FlashConfig with three configurations: two that differ in every field,  *)
(* and one whose SSID is too long.                                         *)
(***************************************************************************)
EXTENDS FlashConfig

MCConfigs ==
  {[ssid |-> 1, password |-> 2, callsign |-> 1, locator |-> 2, frequency |-> 0],
   [ssid |-> 2, password |-> 1, callsign |-> 2, locator |-> 1, frequency |-> 2],
   [ssid |-> LongSsid, password |-> 1, callsign |-> 1, locator |-> 1, frequency |-> 2]}
=============================================================================
