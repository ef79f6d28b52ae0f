-------------------------- MODULE FlashConfig_proofs --------------------------
(***************************************************************************)
(* Proofs about the configuration record, for any texts, any magic number  *)
(* and any configurations, with the power failing at any time.             *)
(***************************************************************************)
EXTENDS FlashConfig, FiniteSetTheorems, TLAPS

\* The sector where flashmem_write_config has got to.
IInv ==
  /\ TypeOK
  /\ pc \in {"erase", "program", "verify"} => arg \in Configs /\ saved = NoConfig
  /\ pc = "program" => flash = Erased
  /\ pc = "verify" => flash = RecordOf(arg)
  /\ SavedIsDurable
  /\ FailsOnlyIfTooLong

-----------------------------------------------------------------------------
LEMMA Cells ==
  /\ Data \cup Sums = {"magic", "ssid", "password", "callsign", "locator", "frequency",
                       "sum0", "sum1", "sum2"}
  /\ Cell = 0..3 /\ Magic \in 0..2
  BY FlashConfigAssumption DEF Data, Sums, Cell, Ones

LEMMA ConfigFields ==
  ASSUME NEW cfg \in Configs
  PROVE  /\ Fields(cfg) \in [Data -> Cell]
         /\ cfg.ssid # LongSsid => cfg.ssid \in Cell
         /\ cfg.password \in Cell /\ cfg.callsign \in Cell /\ cfg.locator \in Cell /\ cfg.frequency \in Cell
  <1>1. cfg \in [ssid : Texts \cup {LongSsid}, password : Texts, callsign : Texts,
                 locator : Texts, frequency : Freqs]
    BY FlashConfigAssumption
  <1>2. Texts \subseteq Cell /\ CutSsid \in Cell /\ Freqs \subseteq Cell /\ Magic \in Cell
    BY FlashConfigAssumption
  <1>3. /\ cfg.ssid # LongSsid => cfg.ssid \in Cell
        /\ cfg.password \in Cell /\ cfg.callsign \in Cell /\ cfg.locator \in Cell /\ cfg.frequency \in Cell
    BY <1>1, <1>2
  <1>4. Fields(cfg) \in [Data -> Cell]
    BY <1>2, <1>3 DEF Fields, Data
  <1> QED
    BY <1>3, <1>4

LEMMA DigitsAreCells ==
  ASSUME NEW sum \in 0..18
  PROVE  /\ sum % 4 \in 0..3 /\ (sum \div 4) % 4 \in 0..3 /\ sum \div 16 \in 0..3
         /\ (sum % 4) + 4 * ((sum \div 4) % 4) + 16 * (sum \div 16) = sum
  OBVIOUS

\* The record has the fields it was built from, and their sum.
LEMMA BuiltRecord ==
  ASSUME NEW cfg \in Configs
  PROVE  /\ RecordOf(cfg) \in Record
         /\ \A c \in Data : RecordOf(cfg)[c] = Fields(cfg)[c]
         /\ Valid(RecordOf(cfg))
  <1> DEFINE fields == Fields(cfg)
             sum == calculate_checksum(fields)
             digits == [sum0 |-> sum % 4, sum1 |-> (sum \div 4) % 4, sum2 |-> sum \div 16]
  <1>1. fields \in [Data -> Cell] /\ DOMAIN fields = Data
    BY ConfigFields
  <1>2. sum \in 0..18 /\ fields["magic"] = Magic
    <2>1. fields["magic"] = Magic /\ Magic \in 0..2
      BY FlashConfigAssumption DEF Fields, Cell, Ones
    <2>2. /\ fields["ssid"] \in 0..3 /\ fields["password"] \in 0..3 /\ fields["callsign"] \in 0..3
          /\ fields["locator"] \in 0..3 /\ fields["frequency"] \in 0..3
      BY <1>1 DEF Data, Cell, Ones
    <2> HIDE DEF fields
    <2>3. calculate_checksum(fields) \in 0..18
      BY <2>1, <2>2 DEF calculate_checksum
    <2> QED
      BY <2>1, <2>3
  <1>3. /\ DOMAIN digits = Sums /\ digits["sum0"] = sum % 4
        /\ digits["sum1"] = (sum \div 4) % 4 /\ digits["sum2"] = sum \div 16
    <2> HIDE DEF sum
    <2> QED
      BY DEF Sums
  <1> HIDE DEF fields, sum, digits
  <1>4. RecordOf(cfg) = [c \in Data \cup Sums |-> IF c \in Data THEN fields[c] ELSE digits[c]]
    BY Zenon DEF RecordOf, Complete, fields, digits, sum
  <1>5. sum % 4 \in Cell /\ (sum \div 4) % 4 \in Cell /\ sum \div 16 \in Cell
    BY <1>2, DigitsAreCells DEF Cell, Ones
  <1>6. RecordOf(cfg) \in Record
    <2>1. \A c \in Sums : digits[c] \in Cell
      BY <1>3, <1>5 DEF Sums
    <2> QED
      BY <1>1, <1>4, <2>1 DEF Record
  <1>7. \A c \in Data : RecordOf(cfg)[c] = fields[c]
    BY <1>4
  <1>8. calculate_checksum(RecordOf(cfg)) = sum
    BY <1>7 DEF calculate_checksum, Data, sum
  <1>9. /\ RecordOf(cfg)["sum0"] = sum % 4 /\ RecordOf(cfg)["sum1"] = (sum \div 4) % 4
        /\ RecordOf(cfg)["sum2"] = sum \div 16
    BY <1>3, <1>4 DEF Data, Sums
  <1>10. Valid(RecordOf(cfg))
    BY <1>2, <1>7, <1>8, <1>9, DigitsAreCells DEF Valid, Data
  <1> QED
    BY <1>6, <1>7, <1>10 DEF fields

\* Reading the record returns what was written, unless the SSID was cut.
LEMMA ReadBack ==
  ASSUME NEW cfg \in Configs
  PROVE  /\ Read(RecordOf(cfg)).ssid = Fields(cfg).ssid
         /\ cfg.ssid # LongSsid => Read(RecordOf(cfg)) = cfg
         /\ cfg.ssid = LongSsid => Read(RecordOf(cfg)) # cfg
  <1> DEFINE r == RecordOf(cfg)
  <1>1. /\ r["ssid"] = (IF cfg.ssid = LongSsid THEN CutSsid ELSE cfg.ssid) /\ r["password"] = cfg.password
        /\ r["callsign"] = cfg.callsign /\ r["locator"] = cfg.locator /\ r["frequency"] = cfg.frequency
    BY BuiltRecord DEF Fields, Data
  <1>2. cfg = [ssid |-> cfg.ssid, password |-> cfg.password, callsign |-> cfg.callsign,
               locator |-> cfg.locator, frequency |-> cfg.frequency]
    BY FlashConfigAssumption
  <1>3. CutSsid # LongSsid
    BY FlashConfigAssumption
  <1> HIDE DEF r
  <1>4. /\ Read(r).ssid = r["ssid"]
        /\ cfg.ssid # LongSsid => Read(r) = cfg
        /\ cfg.ssid = LongSsid => Read(r) # cfg
    BY <1>1, <1>2, <1>3 DEF Read
  <1> QED
    BY <1>1, <1>4 DEF r, Fields

-----------------------------------------------------------------------------
LEMMA ErasedRecord == Erased \in Record /\ ~Valid(Erased)
  <1>1. Erased \in Record
    BY DEF Erased, Record, Cell, Ones
  <1>2. Erased["magic"] = 3
    BY DEF Erased, Data, Ones
  <1> QED
    BY <1>1, <1>2, Cells DEF Valid

LEMMA OnesTakeAll ==
  ASSUME NEW new \in 0..3
  PROVE  Programmed(3, new) = new
  BY DEF Programmed

\* Programming an erased sector gives the record, any other one some record.
LEMMA ProgramRecord ==
  ASSUME IInv, pc = "program"
  PROVE  AfterProgram = RecordOf(arg) /\ RecordOf(arg) \in Record
  <1>1. arg \in Configs /\ flash = Erased
    BY DEF IInv
  <1>2. RecordOf(arg) \in Record
    BY <1>1, BuiltRecord
  <1>3. DOMAIN flash = Data \cup Sums /\ \A c \in Data \cup Sums : flash[c] = 3
    BY <1>1 DEF Erased, Ones
  <1>4. \A c \in Data \cup Sums : Programmed(flash[c], RecordOf(arg)[c]) = RecordOf(arg)[c]
    BY <1>2, <1>3, OnesTakeAll DEF Record, Cell, Ones
  <1>5. AfterProgram = [c \in Data \cup Sums |-> RecordOf(arg)[c]]
    BY <1>3, <1>4 DEF AfterProgram
  <1> QED
    BY <1>2, <1>5 DEF Record

LEMMA TornRecord ==
  ASSUME flash \in Record, NEW after \in Record
  PROVE  Torn(after) \subseteq Record
  BY DEF Torn, Record

-----------------------------------------------------------------------------
LEMMA InitIInv == Init => IInv
  <1> SUFFICES ASSUME Init PROVE IInv
    OBVIOUS
  <1>1. TypeOK
    BY ErasedRecord DEF Init, TypeOK
  <1> QED
    BY <1>1 DEF Init, IInv, SavedIsDurable, FailsOnlyIfTooLong

LEMMA WriteKeeps ==
  ASSUME IInv, NEW cfg \in Configs, flashmem_write_config(cfg)
  PROVE  IInv'
  <1>1. RecordOf(cfg) \in Record
    BY BuiltRecord
  <1>2. TypeOK'
    BY <1>1 DEF flashmem_write_config, IInv, TypeOK
  <1> QED
    BY <1>2 DEF flashmem_write_config, IInv, SavedIsDurable, FailsOnlyIfTooLong

LEMMA EraseKeeps ==
  ASSUME IInv, Erase
  PROVE  IInv'
  <1>1. TypeOK'
    BY ErasedRecord DEF Erase, IInv, TypeOK
  <1> QED
    BY <1>1 DEF Erase, IInv, SavedIsDurable, FailsOnlyIfTooLong

LEMMA ProgramKeeps ==
  ASSUME IInv, Program
  PROVE  IInv'
  <1>1. flash' = RecordOf(arg) /\ RecordOf(arg) \in Record
    BY ProgramRecord DEF Program
  <1>2. TypeOK'
    BY <1>1 DEF Program, IInv, TypeOK
  <1> QED
    BY <1>1, <1>2 DEF Program, IInv, SavedIsDurable, FailsOnlyIfTooLong

LEMMA VerifyKeeps ==
  ASSUME IInv, Verify
  PROVE  IInv'
  <1>1. arg \in Configs /\ flash = RecordOf(arg) /\ Valid(flash)
    BY BuiltRecord DEF Verify, IInv
  <1>2. arg.ssid # LongSsid => Read(flash) = arg
    BY <1>1, ReadBack
  <1>3. TypeOK'
    BY <1>1 DEF Verify, IInv, TypeOK
  <1>4. SavedIsDurable'
    BY DEF Verify, IInv, SavedIsDurable
  <1>5. FailsOnlyIfTooLong'
    BY <1>1, <1>2 DEF Verify, FailsOnlyIfTooLong
  <1> QED
    BY <1>3, <1>4, <1>5 DEF Verify, IInv

LEMMA PowerFailsKeeps ==
  ASSUME IInv, PowerFails
  PROVE  IInv'
  <1>1. /\ pc' = "off" /\ result' = "none" /\ arg' = arg /\ saved' = saved /\ written' = written
        /\ pc = "erase" => flash' \in Torn(Erased)
        /\ pc = "program" => flash' \in Torn(AfterProgram)
        /\ pc \notin {"erase", "program"} => flash' = flash
    BY DEF PowerFails
  <1>2. flash' \in Record
    <2>1. CASE pc = "erase"
      BY <1>1, <2>1, ErasedRecord, TornRecord DEF IInv, TypeOK
    <2>2. CASE pc = "program"
      BY <1>1, <2>2, ProgramRecord, TornRecord DEF IInv, TypeOK
    <2>3. CASE pc \notin {"erase", "program"}
      BY <1>1, <2>3 DEF IInv, TypeOK
    <2> QED
      BY <2>1, <2>2, <2>3
  <1>3. TypeOK'
    BY <1>1, <1>2 DEF IInv, TypeOK
  <1>4. SavedIsDurable'
    BY <1>1 DEF IInv, SavedIsDurable
  <1> QED
    BY <1>1, <1>3, <1>4 DEF IInv, FailsOnlyIfTooLong

LEMMA ReturnKeeps ==
  ASSUME IInv, PowerReturns \/ UNCHANGED vars
  PROVE  IInv'
  BY DEF PowerReturns, vars, IInv, TypeOK, SavedIsDurable, FailsOnlyIfTooLong

THEOREM Invariance == Spec => []IInv
  <1>1. IInv /\ [Next]_vars => IInv'
    BY WriteKeeps, EraseKeeps, ProgramKeeps, VerifyKeeps, PowerFailsKeeps, ReturnKeeps DEF Next
  <1> QED
    BY InitIInv, <1>1, PTL DEF Spec

-----------------------------------------------------------------------------
\* The types, for all texts and configurations.
THEOREM TypeCorrect == Spec => []TypeOK
  <1>1. IInv => TypeOK
    BY DEF IInv
  <1> QED
    BY Invariance, <1>1, PTL

\* A configuration that was reported as saved is read back until the next write.
THEOREM SavedStays == Spec => []SavedIsDurable
  <1>1. IInv => SavedIsDurable
    BY DEF IInv
  <1> QED
    BY Invariance, <1>1, PTL

\* Only an SSID that does not fit makes the verification fail.
THEOREM OnlyLongFails == Spec => []FailsOnlyIfTooLong
  <1>1. IInv => FailsOnlyIfTooLong
    BY DEF IInv
  <1> QED
    BY Invariance, <1>1, PTL

-----------------------------------------------------------------------------
(***************************************************************************)
(* The sector implements the abstract store.                               *)
(***************************************************************************)
stored == IF Valid(flash) THEN Read(flash) ELSE NoConfig

phase == IF pc \in {"ready", "off"} THEN "idle" ELSE pc

LEMMA InitImplements == Init => Store!Init
  <1> SUFFICES ASSUME Init PROVE Store!Init
    OBVIOUS
  <1>1. stored = NoConfig /\ phase = "idle"
    BY ErasedRecord DEF Init, stored, phase
  <1> QED
    BY <1>1 DEF Store!Init, stored, phase

LEMMA StepImplements ==
  ASSUME IInv, IInv', [Next]_vars
  PROVE  [Store!Next]_(Store!vars)
  <1> USE DEF phase
  <1>1. ASSUME NEW cfg \in Configs, flashmem_write_config(cfg) PROVE Store!Next
    <2>1. phase = "idle" /\ phase' = "erase" /\ arg' = cfg /\ stored' = stored
      BY <1>1 DEF flashmem_write_config, stored
    <2>2. Store!Write(cfg)
      BY <2>1 DEF Store!Write, stored
    <2> QED
      BY <2>2 DEF Store!Next
  <1>2. CASE Erase
    <2>1. phase = "erase" /\ phase' = "program" /\ arg' = arg /\ stored' = NoConfig
      BY <1>2, ErasedRecord DEF Erase, stored
    <2>2. Store!Erase
      BY <2>1 DEF Store!Erase, stored
    <2> QED
      BY <2>2 DEF Store!Next
  <1>3. CASE Program
    <2>1. phase = "program" /\ phase' = "verify" /\ arg' = arg /\ arg \in Configs
      BY <1>3 DEF Program, IInv
    <2>2. stored' = Read(RecordOf(arg))
      BY <1>3, <2>1, ProgramRecord, BuiltRecord DEF Program, stored
    <2>3. Store!Program
      BY <2>1, <2>2 DEF Store!Program, stored
    <2> QED
      BY <2>3 DEF Store!Next
  <1>4. CASE Verify
    <2>1. phase = "verify" /\ phase' = "idle" /\ arg' = arg /\ stored' = stored
      BY <1>4 DEF Verify, stored
    <2>2. Store!Verify
      BY <2>1 DEF Store!Verify, stored
    <2> QED
      BY <2>2 DEF Store!Next
  <1>5. CASE PowerFails
    <2>1. /\ phase' = "idle" /\ arg' = arg
          /\ phase \notin {"erase", "program"} => stored' = stored
      BY <1>5 DEF PowerFails, stored
    <2>2. stored' \in [DOMAIN Read(Erased) -> Cell] \cup {NoConfig}
      <3>1. flash' \in Record
        BY DEF IInv, TypeOK
      <3>2. Read(flash') \in [DOMAIN Read(Erased) -> Cell]
        BY <3>1 DEF Read, Record, Data
      <3> QED
        BY <3>2 DEF stored
    <2>3. Store!Interrupted
      BY <2>1, <2>2 DEF Store!Interrupted, stored
    <2> QED
      BY <2>3 DEF Store!Next
  <1>6. CASE PowerReturns \/ UNCHANGED vars
    <2>1. phase' = phase /\ arg' = arg /\ stored' = stored
      BY <1>6 DEF PowerReturns, vars, stored
    <2> QED
      BY <2>1 DEF Store!vars, stored
  <1> QED
    BY <1>1, <1>2, <1>3, <1>4, <1>5, <1>6 DEF Next

\* Every behaviour of the sector is one of the abstract store.
THEOREM Implementation == Spec => ImplementsStore
  <1>1. IInv /\ IInv' /\ [Next]_vars => [Store!Next]_(Store!vars)
    BY StepImplements
  <1> QED
    BY InitImplements, Invariance, <1>1, PTL DEF Spec, ImplementsStore, Store!Spec

-----------------------------------------------------------------------------
(***************************************************************************)
(* What the sector holds, between operations and after one was cut short:  *)
(* erased cells, or one of the records that were built with some of its    *)
(* cells erased, never cells of two records.                               *)
(***************************************************************************)
PartOf(r) == \A c \in Data \cup Sums : flash[c] \in {r[c], Ones}

NearInv ==
  /\ written \subseteq {RecordOf(cfg) : cfg \in Configs}
  /\ pc \in {"erase", "program", "verify"} => RecordOf(arg) \in written
  /\ flash = Erased \/ \E r \in written : PartOf(r)

\* An erase cut short leaves what was there with more cells erased.
LEMMA TornErase ==
  ASSUME TypeOK, NearInv, flash' \in Torn(Erased), written' = written
  PROVE  flash' = Erased \/ \E r \in written : PartOf(r)'
  <1>1. DOMAIN flash = Data \cup Sums
    BY DEF TypeOK, Record
  <1>2. PICK done \in SUBSET (Data \cup Sums) :
          flash' = [c \in Data \cup Sums |-> IF c \in done THEN Erased[c] ELSE flash[c]]
    BY <1>1 DEF Torn
  <1>3. \A c \in Data \cup Sums : Erased[c] = Ones
    BY DEF Erased
  <1>4. \A c \in Data \cup Sums : flash'[c] \in {flash[c], Ones}
    BY <1>2, <1>3
  <1>5. CASE flash = Erased
    <2>1. flash' = [c \in Data \cup Sums |-> Ones]
      BY <1>2, <1>3, <1>5
    <2> QED
      BY <2>1 DEF Erased
  <1>6. ASSUME NEW r \in written, PartOf(r) PROVE \A c \in Data \cup Sums : flash'[c] \in {r[c], Ones}
    BY <1>4, <1>6 DEF PartOf
  <1> QED
    BY <1>5, <1>6 DEF NearInv, PartOf

\* Programming an erased sector that is cut short leaves part of the record.
LEMMA TornProgram ==
  ASSUME IInv, NearInv, pc = "program", flash' \in Torn(AfterProgram), written' = written
  PROVE  \E r \in written : PartOf(r)'
  <1>1. DOMAIN flash = Data \cup Sums /\ flash = Erased /\ AfterProgram = RecordOf(arg)
    BY ProgramRecord DEF IInv, TypeOK, Record
  <1>2. PICK done \in SUBSET (Data \cup Sums) :
          flash' = [c \in Data \cup Sums |-> IF c \in done THEN AfterProgram[c] ELSE flash[c]]
    BY <1>1 DEF Torn
  <1>3. PICK r \in written : r = RecordOf(arg)
    BY DEF NearInv
  <1>4. \A c \in Data \cup Sums : flash'[c] \in {r[c], Ones}
    BY <1>1, <1>2, <1>3 DEF Erased
  <1> QED
    BY <1>4 DEF PartOf

LEMMA NearStep ==
  ASSUME IInv, NearInv, [Next]_vars
  PROVE  NearInv'
  <1>1. ASSUME NEW cfg \in Configs, flashmem_write_config(cfg) PROVE NearInv'
    <2>1. flash' = flash /\ arg' = cfg /\ written' = written \cup {RecordOf(cfg)}
      BY <1>1 DEF flashmem_write_config
    <2>2. flash' = Erased \/ \E r \in written' : PartOf(r)'
      BY <2>1 DEF NearInv, PartOf
    <2>3. written' \subseteq {RecordOf(c) : c \in Configs}
      BY <2>1 DEF NearInv
    <2>4. RecordOf(cfg)' = RecordOf(cfg)
      OBVIOUS
    <2>5. RecordOf(arg') \in written'
      BY <2>1
    <2> QED
      BY <2>2, <2>3, <2>5 DEF NearInv
  <1>2. CASE Erase
    BY <1>2 DEF Erase, NearInv
  <1>3. CASE Program
    <2>1. flash' = RecordOf(arg) /\ UNCHANGED <<arg, written>> /\ RecordOf(arg) \in written
      BY <1>3, ProgramRecord DEF Program, NearInv
    <2>2. PICK r \in written' : r = RecordOf(arg)
      BY <2>1
    <2>3. PartOf(r)'
      BY <2>1, <2>2 DEF PartOf
    <2> QED
      BY <2>1, <2>3 DEF NearInv
  <1>4. CASE Verify
    BY <1>4 DEF Verify, NearInv, PartOf
  <1>5. CASE PowerFails
    <2>1. /\ pc' = "off" /\ UNCHANGED <<arg, written>>
          /\ pc = "erase" => flash' \in Torn(Erased)
          /\ pc = "program" => flash' \in Torn(AfterProgram)
          /\ pc \notin {"erase", "program"} => flash' = flash
      BY <1>5 DEF PowerFails
    <2>2. CASE pc = "erase"
      BY <2>1, <2>2, TornErase DEF NearInv, IInv
    <2>3. CASE pc = "program"
      BY <2>1, <2>3, TornProgram DEF NearInv
    <2>4. CASE pc \notin {"erase", "program"}
      BY <2>1, <2>4 DEF NearInv, PartOf
    <2> QED
      BY <2>2, <2>3, <2>4
  <1>6. CASE PowerReturns \/ UNCHANGED vars
    BY <1>6 DEF PowerReturns, vars, NearInv, PartOf
  <1> QED
    BY <1>1, <1>2, <1>3, <1>4, <1>5, <1>6 DEF Next

LEMMA NearCorrect == Spec => []NearInv
  <1>1. Init => NearInv
    BY DEF Init, NearInv
  <1>2. IInv /\ NearInv /\ [Next]_vars => NearInv'
    BY NearStep
  <1> QED
    BY <1>1, <1>2, Invariance, PTL DEF Spec

LEMMA CellsAreFinite == IsFiniteSet(Data \cup Sums)
  <1>1. IsFiniteSet({"magic"})
    BY FS_Singleton
  <1>2. \A T : IsFiniteSet(T) => \A x : IsFiniteSet(T \cup {x})
    BY FS_AddElement
  <1>3. IsFiniteSet({"magic", "ssid", "password", "callsign", "locator"})
    <2>1. ((({"magic"} \cup {"ssid"}) \cup {"password"}) \cup {"callsign"}) \cup {"locator"}
            = {"magic", "ssid", "password", "callsign", "locator"}
      OBVIOUS
    <2>2. IsFiniteSet(((({"magic"} \cup {"ssid"}) \cup {"password"}) \cup {"callsign"}) \cup {"locator"})
      BY <1>1, <1>2
    <2> QED
      BY <2>1, <2>2
  <1>4. ((({"magic", "ssid", "password", "callsign", "locator"}
            \cup {"frequency"}) \cup {"sum0"}) \cup {"sum1"}) \cup {"sum2"} = Data \cup Sums
    BY DEF Data, Sums
  <1>5. IsFiniteSet(((({"magic", "ssid", "password", "callsign", "locator"}
                        \cup {"frequency"}) \cup {"sum0"}) \cup {"sum1"}) \cup {"sum2"})
    BY <1>2, <1>3
  <1> QED
    BY <1>4, <1>5

\* A single erased cell shows: of two valid records that are equal but for
\* one cell, that cell is not a larger number in one of them.
LEMMA OneCellShows ==
  ASSUME NEW r \in Record, NEW f \in Record, Valid(r), Valid(f), NEW c \in Data \cup Sums,
         \A d \in (Data \cup Sums) \ {c} : f[d] = r[d]
  PROVE  f[c] = r[c]
  <1>1. \A d \in Data \cup Sums : r[d] \in 0..3 /\ f[d] \in 0..3
    BY DEF Record, Cell, Ones
  <1>2. /\ r["magic"] = f["magic"]
        /\ r["sum0"] + 4 * r["sum1"] + 16 * r["sum2"] =
             r["magic"] + r["ssid"] + r["password"] + r["callsign"] + r["locator"] + r["frequency"]
        /\ f["sum0"] + 4 * f["sum1"] + 16 * f["sum2"] =
             f["magic"] + f["ssid"] + f["password"] + f["callsign"] + f["locator"] + f["frequency"]
    BY DEF Valid, calculate_checksum
  <1>3. \A d \in {"magic", "ssid", "password", "callsign", "locator", "frequency", "sum0", "sum1", "sum2"} :
          r[d] \in 0..3 /\ f[d] \in 0..3 /\ (d # c => f[d] = r[d])
    BY <1>1, Cells
  <1> QED
    BY <1>2, <1>3, Cells

(***************************************************************************)
(* Whatever the power failures, an accepted record is one that was built,  *)
(* or one with two or more of its cells erased: operations that are cut    *)
(* short never mix two records, and the sum shows the loss of any one cell.*)
(***************************************************************************)
THEOREM AcceptedIsNearlyWhole == Spec => []AcceptedNearlyWhole
  <1>1. TypeOK /\ NearInv => AcceptedNearlyWhole
    <2> SUFFICES ASSUME TypeOK, NearInv, Valid(flash)
                 PROVE  \E r \in written : /\ \A c \in Missing(r) : flash[c] = Ones
                                          /\ Cardinality(Missing(r)) # 1
      BY DEF AcceptedNearlyWhole
    <2>1. flash # Erased
      BY ErasedRecord
    <2>2. PICK r \in written : PartOf(r)
      BY <2>1 DEF NearInv
    <2>3. r \in Record /\ Valid(r)
      BY BuiltRecord DEF NearInv
    <2>4. \A c \in Missing(r) : flash[c] = Ones
      BY <2>2 DEF PartOf, Missing
    <2>5. ASSUME NEW c, Missing(r) = {c} PROVE FALSE
      <3>1. c \in Data \cup Sums /\ flash[c] # r[c] /\ \A d \in (Data \cup Sums) \ {c} : flash[d] = r[d]
        BY <2>5 DEF Missing
      <3> QED
        BY <2>3, <3>1, OneCellShows DEF TypeOK
    <2>6. IsFiniteSet(Missing(r))
      <3>1. Missing(r) \subseteq Data \cup Sums
        BY DEF Missing
      <3> QED
        BY <3>1, CellsAreFinite, FS_Subset
    <2>7. Cardinality(Missing(r)) # 1
      BY <2>5, <2>6, FS_Singleton
    <2> QED
      BY <2>4, <2>7
  <1> QED
    BY <1>1, TypeCorrect, NearCorrect, PTL
=============================================================================
