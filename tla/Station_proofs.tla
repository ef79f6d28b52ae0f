---------------------------- MODULE Station_proofs ----------------------------
(***************************************************************************)
(* Proofs about the station's life, for any number of attempts to join the *)
(* network and of power failures, with hardware that starts or does not.   *)
(***************************************************************************)
EXTENDS Station, TLAPS

\* main has left the wait loop, or will at its next look.
Leaving ==
  \/ pc \in {"done", "resetting"}
  \/ pc \in {"wait", "recheck"} /\ apActive = FALSE

\* What makes LeavesApConfigured inductive: a record that was programmed is
\* there, and once the loop is left only a further write takes it away.
IInv ==
  /\ TypeOK
  /\ pc = "connect" => retry < MaxRetries
  /\ http = "verify" => flash # "none"
  /\ Leaving /\ http # "program" => flash # "none"

LEMMA InitIInv == Init => IInv
  <1> SUFFICES ASSUME Init PROVE IInv
    OBVIOUS
  <1>1. 0 \in 0..MaxRetries /\ 0 \in 0..MaxOutages
    BY StationAssumption
  <1> QED
    BY <1>1 DEF Init, IInv, TypeOK, Leaving

\* A step of main changes neither the flash nor a request.
LEMMA MainKeeps ==
  ASSUME IInv, MainStep
  PROVE  IInv'
  <1> USE DEF At
  <1>1. CASE Boot
    BY <1>1 DEF Boot, IInv, TypeOK, Leaving
  <1>2. CASE StationInit
    BY <1>2, StationAssumption DEF StationInit, InitWifi, web, IInv, TypeOK, Leaving
  <1>3. CASE Connect
    BY <1>3, StationAssumption DEF Connect, web, IInv, TypeOK, Leaving
  <1>4. CASE RunNtpStuff
    BY <1>4 DEF RunNtpStuff, web, IInv, TypeOK, Leaving
  <1>5. CASE TxInit
    BY <1>5 DEF TxInit, web, IInv, TypeOK, Leaving
  <1>6. CASE StartApMode
    BY <1>6 DEF StartApMode, web, IInv, TypeOK, Leaving
  <1>7. CASE ApInit
    BY <1>7 DEF ApInit, InitWifi, web, IInv, TypeOK, Leaving
  <1>8. CASE ApOpen
    BY <1>8 DEF ApOpen, IInv, TypeOK, Leaving
  <1>9. CASE ApMark
    BY <1>9 DEF ApMark, web, IInv, TypeOK, Leaving
  <1>10. CASE WaitForSetup
    BY <1>10 DEF WaitForSetup, wifi_setup_is_setup_complete, web, IInv, TypeOK, Leaving
  <1>11. CASE Reboot
    BY <1>11 DEF Reboot, web, IInv, TypeOK, Leaving
  <1> QED
    BY <1>1, <1>2, <1>3, <1>4, <1>5, <1>6, <1>7, <1>8, <1>9, <1>10, <1>11 DEF MainStep

LEMMA HttpKeeps ==
  ASSUME IInv, HttpStep \/ \E f \in {"good", "wrong", "long"} : Save(f)
  PROVE  IInv'
  <1>1. ASSUME NEW f \in {"good", "wrong", "long"}, Save(f) PROVE IInv'
    BY <1>1 DEF Save, Store!Write, IInv, TypeOK, Leaving
  <1>2. CASE FlashErase
    BY <1>2 DEF FlashErase, Store!Erase, IInv, TypeOK, Leaving
  <1>3. CASE FlashProgram
    BY <1>3 DEF FlashProgram, Store!Program, IInv, TypeOK, Leaving
  <1>4. CASE Verified
    <2>1. /\ flash # "none" /\ flash' = flash /\ http' = "idle" /\ form' = form
          /\ pc' = pc /\ retry' = retry /\ server' = server /\ outages' = outages
      <3>1. /\ http = "verify" /\ http' = "idle" /\ flash' = flash /\ form' = form
            /\ pc' = pc /\ retry' = retry /\ server' = server /\ outages' = outages
        BY <1>4, Zenon DEF Verified, Store!Verify
      <3> QED
        BY <3>1 DEF IInv
    <2>2. apActive' \in BOOLEAN /\ promised' \in BOOLEAN
      BY <1>4, Zenon DEF Verified, Store!Fits
    <2> QED
      BY <2>1, <2>2 DEF IInv, TypeOK, Leaving
  <1> QED
    BY <1>1, <1>2, <1>3, <1>4 DEF HttpStep

LEMMA RestartKeeps ==
  ASSUME IInv, WatchdogResets \/ PowerCycle
  PROVE  IInv'
  <1>1. /\ flash' \in {"none", "good", "wrong"} /\ http' = "idle" /\ form' = form
        /\ pc' = "boot" /\ retry' = 0 /\ apActive' = FALSE /\ server' = FALSE
    BY DEF WatchdogResets, PowerCycle, Restart, Store!Interrupted, IInv, TypeOK
  <1>2. promised' \in BOOLEAN
    BY DEF WatchdogResets, PowerCycle, IInv, TypeOK
  <1>3. outages' \in 0..MaxOutages
    <2>1. outages \in 0..MaxOutages /\ MaxOutages \in Nat
      BY StationAssumption DEF IInv, TypeOK
    <2>2. outages' = outages \/ (outages < MaxOutages /\ outages' = outages + 1)
      BY DEF WatchdogResets, PowerCycle
    <2> QED
      BY <2>1, <2>2
  <1>4. 0 \in 0..MaxRetries
    BY StationAssumption
  <1> QED
    BY <1>1, <1>2, <1>3, <1>4 DEF IInv, TypeOK, Leaving

LEMMA StutterKeeps ==
  ASSUME IInv, UNCHANGED vars
  PROVE  IInv'
  BY DEF vars, web, IInv, TypeOK, Leaving

THEOREM Invariance == Spec => []IInv
  <1>1. IInv /\ [Next]_vars => IInv'
    BY MainKeeps, HttpKeeps, RestartKeeps, StutterKeeps DEF Next
  <1> QED
    BY InitIInv, <1>1, PTL DEF Spec

-----------------------------------------------------------------------------
\* The types, for every bound on attempts and power failures.
THEOREM TypeCorrect == Spec => []TypeOK
  <1>1. IInv => TypeOK
    BY DEF IInv
  <1> QED
    BY Invariance, <1>1, PTL

\* main resets the chip only when a configuration is stored or being rewritten.
THEOREM ResetsConfigured == Spec => []LeavesApConfigured
  <1>1. IInv => LeavesApConfigured
    BY DEF IInv, Leaving, LeavesApConfigured
  <1> QED
    BY Invariance, <1>1, PTL

-----------------------------------------------------------------------------
\* A reset or a power failure is an interruption of the store; of all other
\* steps only those of the request write to the flash.
LEMMA StoreStep == Next => [Store!Next]_(Store!vars)
  <1>1. MainStep => UNCHANGED Store!vars
    BY DEF MainStep, Boot, StationInit, Connect, RunNtpStuff, TxInit, StartApMode, ApInit, ApOpen,
           ApMark, WaitForSetup, Reboot, At, web, Store!vars
  <1>2. ASSUME NEW f \in {"good", "wrong", "long"}, Save(f) PROVE Store!Next
    BY <1>2 DEF Save, Store!Next
  <1>3. HttpStep => Store!Next
    BY DEF HttpStep, FlashErase, FlashProgram, Verified, Store!Next
  <1>4. WatchdogResets \/ PowerCycle => Store!Next
    BY DEF WatchdogResets, PowerCycle, Restart, Store!Next
  <1> QED
    BY <1>1, <1>2, <1>3, <1>4 DEF Next

\* What main() and the web server do to the flash is what the configuration
\* store allows, which is what the flash sector implements: the record that
\* the station finds at a boot is what FlashConfig proves of a record.
THEOREM StationUsesStore == Spec => Store!Spec
  <1>1. Init => Store!Init
    BY DEF Init, Store!Init
  <1>2. [Next]_vars => [Store!Next]_(Store!vars)
    <2>1. UNCHANGED vars => UNCHANGED Store!vars
      BY DEF vars, web, Store!vars
    <2> QED
      BY <2>1, StoreStep
  <1> QED
    BY <1>1, <1>2, PTL DEF Spec, Store!Spec
=============================================================================
