----------------------------- MODULE FlashConfig -----------------------------
(***************************************************************************)
(* The configuration record of util/flashmem.c in its flash sector:        *)
(* flashmem_write_config erases the sector, programs the record, and reads *)
(* it back; the power may fail between any two of these steps and in the   *)
(* middle of an erase or a program operation, when each cell of the flash  *)
(* may or may not have taken its new value.                                *)
(*                                                                         *)
(* A cell of the model has two bits.  Each field of the record is one      *)
(* cell, and the 32-bit checksum is three, the least significant first.    *)
(* Erased cells read all ones; programming can only clear bits.            *)
(***************************************************************************)
EXTENDS Naturals, FiniteSets

CONSTANTS
  Texts,     \* what a text field of the web form can be, if it fits
  LongSsid,  \* an SSID that wifi_config_t has no room for ...
  CutSsid,   \* ... and what is left of it
  Freqs,     \* the frequencies of the form
  Magic,     \* FLASH_CONFIG_MAGIC
  Configs    \* the configurations flashmem_write_config is called with

Ones == 3
Cell == 0..Ones
Data == {"magic", "ssid", "password", "callsign", "locator", "frequency"}
Sums == {"sum0", "sum1", "sum2"}
Record == [Data \cup Sums -> Cell]

ASSUME FlashConfigAssumption ==
  /\ Texts \subseteq Cell \ {Ones} /\ CutSsid \in Texts /\ LongSsid \notin Cell
  /\ Freqs \subseteq Cell
  /\ Magic \in Cell \ {Ones}
  /\ Configs \subseteq [ssid : Texts \cup {LongSsid}, password : Texts, callsign : Texts,
                         locator : Texts, frequency : Freqs]

NoConfig == [ssid |-> LongSsid]

Erased == [c \in Data \cup Sums |-> Ones]

\* The byte sum of everything before the checksum.
calculate_checksum(r) ==
  r["magic"] + r["ssid"] + r["password"] + r["callsign"] + r["locator"] + r["frequency"]

\* The fields of the record: strncpy cuts what is too long.
Fields(cfg) ==
  [magic |-> Magic, ssid |-> IF cfg.ssid = LongSsid THEN CutSsid ELSE cfg.ssid, password |-> cfg.password,
   callsign |-> cfg.callsign, locator |-> cfg.locator, frequency |-> cfg.frequency]

\* The record of the fields with a checksum.
Complete(fields, sum) ==
  LET digits == [sum0 |-> sum % 4, sum1 |-> (sum \div 4) % 4, sum2 |-> sum \div 16]
  IN [c \in Data \cup Sums |-> IF c \in Data THEN fields[c] ELSE digits[c]]

\* Mutant: the frequency is stored after the checksum was computed.
SumBeforeFrequency(cfg) ==
  Complete(Fields(cfg), calculate_checksum([Fields(cfg) EXCEPT !.frequency = 0]))

\* The record that flashmem_write_config builds.
RecordOf(cfg) == Complete(Fields(cfg), calculate_checksum(Fields(cfg)))

\* Mutant: the checksum is not compared.
MagicOnly(r) == r["magic"] = Magic

\* The tests all three read functions make before they copy a field out.
Valid(r) ==
  /\ r["magic"] = Magic
  /\ r["sum0"] + 4 * r["sum1"] + 16 * r["sum2"] = calculate_checksum(r)

\* What the three read functions return of a valid record.
Read(r) == [ssid |-> r["ssid"], password |-> r["password"], callsign |-> r["callsign"],
            locator |-> r["locator"], frequency |-> r["frequency"]]

\* Programming clears bits of a cell: a bitwise and of two-bit values.
Programmed(old, new) == (old % 2) * (new % 2) + 2 * ((old \div 2) * (new \div 2))

VARIABLES
  flash,    \* the cells of the record in the sector
  pc,       \* where flashmem_write_config is; "off" without power
  arg,      \* its arguments
  result,   \* what it returned last
  saved,    \* history: the configuration last reported as saved, until the
            \* next write begins
  written   \* history: the records built so far

vars == <<flash, pc, arg, result, saved, written>>

Init ==
  /\ flash = Erased
  /\ pc = "ready"
  /\ arg = NoConfig
  /\ result = "none"
  /\ saved = NoConfig
  /\ written = {}

\* The call builds the record and disables interrupts.
flashmem_write_config(cfg) ==
  /\ pc = "ready"
  /\ arg' = cfg
  /\ pc' = "erase"
  /\ result' = "none"
  /\ saved' = NoConfig
  /\ written' = written \cup {RecordOf(cfg)}
  /\ UNCHANGED flash

\* Mutant: the record is programmed over the old one.
SkipErase ==
  /\ pc = "erase"
  /\ pc' = "program"
  /\ UNCHANGED <<flash, arg, result, saved, written>>

Erase ==
  /\ pc = "erase"
  /\ flash' = Erased
  /\ pc' = "program"
  /\ UNCHANGED <<arg, result, saved, written>>

AfterProgram == [c \in DOMAIN flash |-> Programmed(flash[c], RecordOf(arg)[c])]

Program ==
  /\ pc = "program"
  /\ flash' = AfterProgram
  /\ pc' = "verify"
  /\ UNCHANGED <<arg, result, saved, written>>

\* Mutant: what is read back is only tested for being valid.
VerifyChecksum ==
  /\ pc = "verify"
  /\ IF Valid(flash)
     THEN result' = "ok" /\ saved' = arg
     ELSE result' = "failed" /\ UNCHANGED saved
  /\ pc' = "ready"
  /\ UNCHANGED <<flash, arg, written>>

\* The record is read back and compared with the arguments as they were given.
Verify ==
  /\ pc = "verify"
  /\ IF Valid(flash) /\ Read(flash) = arg
     THEN result' = "ok" /\ saved' = arg
     ELSE result' = "failed" /\ UNCHANGED saved
  /\ pc' = "ready"
  /\ UNCHANGED <<flash, arg, written>>

\* What an interrupted operation leaves: any of its cells may not be done.
Torn(after) ==
  {[c \in DOMAIN flash |-> IF c \in done THEN after[c] ELSE flash[c]] :
     done \in SUBSET (DOMAIN flash)}

PowerFails ==
  /\ pc # "off"
  /\ flash' \in CASE pc = "erase"   -> Torn(Erased)
                  [] pc = "program" -> Torn(AfterProgram)
                  [] OTHER          -> {flash}
  /\ pc' = "off"
  /\ result' = "none"
  /\ UNCHANGED <<arg, saved, written>>

PowerReturns ==
  /\ pc = "off"
  /\ pc' = "ready"
  /\ UNCHANGED <<flash, arg, result, saved, written>>

Next ==
  \/ \E cfg \in Configs : flashmem_write_config(cfg)
  \/ Erase \/ Program \/ Verify
  \/ PowerFails \/ PowerReturns

Spec == Init /\ [][Next]_vars

-----------------------------------------------------------------------------
TypeOK ==
  /\ flash \in Record
  /\ pc \in {"ready", "erase", "program", "verify", "off"}
  /\ arg \in Configs \cup {NoConfig}
  /\ result \in {"none", "ok", "failed"}
  /\ saved \in Configs \cup {NoConfig}
  /\ written \subseteq Record

Missing(r) == {c \in Data \cup Sums : flash[c] # r[c]}

(***************************************************************************)
(* Whatever the power failures, a record the read functions accept is one  *)
(* that was built by flashmem_write_config, or such a record with two or   *)
(* more cells that still, or again, read all ones: fields of two records   *)
(* never mix, and the loss of a single cell is always noticed.             *)
(***************************************************************************)
AcceptedNearlyWhole ==
  Valid(flash) =>
    \E r \in written :
      /\ \A c \in Missing(r) : flash[c] = Ones
      /\ Cardinality(Missing(r)) # 1

(***************************************************************************)
(* A configuration reported as saved is what every later read returns,     *)
(* through any number of power failures, until the next write begins.      *)
(***************************************************************************)
SavedIsDurable == saved # NoConfig => Valid(flash) /\ Read(flash) = saved

(***************************************************************************)
(* The verification fails only for an SSID that does not fit.              *)
(***************************************************************************)
FailsOnlyIfTooLong == result = "failed" => arg.ssid = LongSsid

(***************************************************************************)
(* The sector with its cells, checksum and power failures is the store     *)
(* that the rest of the firmware takes it for: module Station relies on    *)
(* ConfigStore.                                                            *)
(***************************************************************************)
Store == INSTANCE ConfigStore WITH
  Records <- [DOMAIN Read(Erased) -> Cell],
  None    <- NoConfig,
  Kept    <- [cfg \in Configs |-> Read(RecordOf(cfg))],
  store   <- IF Valid(flash) THEN Read(flash) ELSE NoConfig,
  phase   <- IF pc \in {"ready", "off"} THEN "idle" ELSE pc

ImplementsStore == Store!Spec
=============================================================================
