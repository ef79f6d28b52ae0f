------------------------------- MODULE Station -------------------------------
(***************************************************************************)
(* The life of the station: main() of main.c from power-up, with the       *)
(* set-up mode of wifi_setup.c.  With a stored configuration it joins the  *)
(* network, asks for the time, leaves, and transmits for ever; without     *)
(* one, or when the network cannot be joined, it opens an access point     *)
(* with a web form, waits for the form to be saved, and resets itself.     *)
(*                                                                         *)
(* The web server's callbacks run in the background interrupt of the Wi-Fi *)
(* driver, on the core that runs main(): while a request is being handled  *)
(* main() stands still, but a reset or a power failure may cut it short.   *)
(* The flash is the store of module ConfigStore, which FlashConfig         *)
(* implements, with records reduced to what the next boot makes of them.   *)
(***************************************************************************)
EXTENDS Naturals

CONSTANTS
  MaxRetries,  \* max_retries, 3
  HwFails,     \* whether the Wi-Fi chip or the TCP stack may refuse to start
  MaxOutages   \* bound of the model: how often the power fails

ASSUME StationAssumption ==
  MaxRetries \in Nat \ {0} /\ HwFails \in BOOLEAN /\ MaxOutages \in Nat

VARIABLES
  flash,     \* "none": no valid record; "good": of a network that exists and
             \* lets us in; "wrong": of one that does not
  pc,        \* where main() is
  retry,     \* retry_count
  apActive,  \* g_ctx->ap_mode_active
  server,    \* the web server listens
  http,      \* the request being handled: "idle", "erase", "program", "verify"
  form,      \* what it saves: "good", "wrong", or "long" (the SSID is too long)
  promised,  \* history: the page shown last is "Setup Complete!", and the
             \* reset it announces has not come yet
  outages    \* history: how often the power has failed

web  == <<server, http, form, promised>>
vars == <<flash, pc, retry, apActive, web, outages>>

Init ==
  /\ flash = "none"
  /\ pc = "boot"
  /\ retry = 0
  /\ apActive = FALSE /\ server = FALSE
  /\ http = "idle" /\ form = "good" /\ promised = FALSE
  /\ outages = 0

\* main() runs only when no interrupt does.
At(label) == pc = label /\ http = "idle"

\* cyw43_arch_init is called and succeeds or not.
InitWifi(ok, bad) == pc' = ok \/ (HwFails /\ pc' = bad)

-----------------------------------------------------------------------------
\* Power-up: wifi_setup_init, then wifi_setup_has_credentials and the reads.
Boot ==
  /\ At("boot")
  /\ apActive' = FALSE
  /\ pc' = IF flash = "none" THEN "ap" ELSE "sta_init"
  /\ promised' = FALSE
  /\ UNCHANGED <<flash, retry, server, http, form, outages>>

StationInit ==
  /\ At("sta_init")
  /\ InitWifi("connect", "ap")
  /\ retry' = 0
  /\ UNCHANGED <<flash, apActive, web, outages>>

\* Mutant: the failed attempt is not counted.
ConnectUncounted ==
  /\ At("connect")
  /\ \/ /\ flash = "good"
        /\ pc' = "ntp"
        /\ UNCHANGED retry
     \/ /\ UNCHANGED retry
        /\ pc' = IF retry' >= MaxRetries THEN "ap" ELSE "connect"
  /\ UNCHANGED <<flash, apActive, web, outages>>

\* One attempt; also the right network may be out of reach.
Connect ==
  /\ At("connect")
  /\ \/ /\ flash = "good"
        /\ pc' = "ntp"
        /\ UNCHANGED retry
     \/ /\ retry' = retry + 1
        /\ pc' = IF retry' >= MaxRetries THEN "ap" ELSE "connect"
  /\ UNCHANGED <<flash, apActive, web, outages>>

\* run_ntp_stuff gives the answer one second and has no result; cyw43_wifi_leave;
\* return 0.  What the answer does to the clock is in NtpSync.
RunNtpStuff ==
  /\ At("ntp")
  /\ pc' = "tx_init"
  /\ UNCHANGED <<flash, retry, apActive, web, outages>>

\* PioDCOInit and WSPRbeaconInit, core 1 is launched, the TX loop entered.
TxInit ==
  /\ At("tx_init")
  /\ \/ pc' = "tx"
     \/ HwFails /\ pc' = "halted"
  /\ UNCHANGED <<flash, retry, apActive, web, outages>>

\* start_ap_mode: a context of its own, then wifi_setup_start_ap.
StartApMode ==
  /\ At("ap")
  /\ apActive' = FALSE
  /\ pc' = "ap_init"
  /\ UNCHANGED <<flash, retry, web, outages>>

ApInit ==
  /\ At("ap_init")
  /\ InitWifi("ap_open", "halted")
  /\ UNCHANGED <<flash, retry, apActive, web, outages>>

\* From the call of tcp_server_open on, requests are handled.
ApOpen ==
  /\ At("ap_open")
  /\ \/ server' = TRUE /\ pc' = "ap_mark"
     \/ HwFails /\ server' = FALSE /\ pc' = "halted"
  /\ UNCHANGED <<flash, retry, apActive, http, form, promised, outages>>

\* Mutant: the mode is not recorded.
ApUnmarked ==
  /\ At("ap_mark")
  /\ pc' = "wait"
  /\ UNCHANGED <<flash, retry, apActive, web, outages>>

ApMark ==
  /\ At("ap_mark")
  /\ apActive' = TRUE
  /\ pc' = "wait"
  /\ UNCHANGED <<flash, retry, web, outages>>

wifi_setup_is_setup_complete == ~apActive

\* The condition of the wait loop, and the test after its sleep.
WaitForSetup ==
  /\ At("wait") \/ At("recheck")
  /\ pc' = CASE wifi_setup_is_setup_complete -> "done"
             [] pc = "wait"                  -> "recheck"
             [] OTHER                        -> "wait"
  /\ UNCHANGED <<flash, retry, apActive, web, outages>>

\* Mutant: main() returns without a reset.
ReturnOnly ==
  /\ At("done")
  /\ pc' = "halted"
  /\ UNCHANGED <<flash, retry, apActive, web, outages>>

\* Two seconds later, watchdog_reboot with a delay; main() returns.
Reboot ==
  /\ At("done")
  /\ pc' = "resetting"
  /\ UNCHANGED <<flash, retry, apActive, web, outages>>

-----------------------------------------------------------------------------
\* The record of an SSID that was cut off names a network that does not exist.
Store == INSTANCE ConfigStore WITH
  Configs <- {"good", "wrong", "long"},
  Records <- {"good", "wrong"},
  None    <- "none",
  Kept    <- [f \in {"good", "wrong", "long"} |-> IF f = "good" THEN "good" ELSE "wrong"],
  store   <- flash, phase <- http, arg <- form

\* tcp_server_recv: a complete form arrives and flashmem_write_config starts.
Save(f) ==
  /\ server /\ Store!Write(f)
  /\ UNCHANGED <<pc, retry, apActive, server, promised, outages>>

FlashErase ==
  /\ Store!Erase
  /\ UNCHANGED <<pc, retry, apActive, server, promised, outages>>

FlashProgram ==
  /\ Store!Program
  /\ UNCHANGED <<pc, retry, apActive, server, promised, outages>>

\* wifi_setup_save_config returns and the page is sent.
Verified ==
  /\ Store!Verify
  /\ apActive' = (apActive /\ ~Store!Fits(form))
  /\ promised' = Store!Fits(form)
  /\ UNCHANGED <<pc, retry, server, outages>>

-----------------------------------------------------------------------------
Restart ==
  /\ Store!Interrupted
  /\ pc' = "boot"
  /\ retry' = 0
  /\ apActive' = FALSE /\ server' = FALSE

\* The watchdog resets the chip, whatever runs then.
WatchdogResets ==
  /\ pc = "resetting"
  /\ Restart
  /\ UNCHANGED <<promised, outages>>

\* The power fails and returns; the promise of the page is off.
PowerCycle ==
  /\ outages < MaxOutages
  /\ outages' = outages + 1
  /\ Restart
  /\ promised' = FALSE

MainStep ==
  \/ Boot \/ StationInit \/ Connect \/ RunNtpStuff \/ TxInit
  \/ StartApMode \/ ApInit \/ ApOpen \/ ApMark \/ WaitForSetup \/ Reboot

HttpStep == FlashErase \/ FlashProgram \/ Verified

Next ==
  \/ MainStep
  \/ \E f \in {"good", "wrong", "long"} : Save(f)
  \/ HttpStep
  \/ WatchdogResets
  \/ PowerCycle

\* The core executes, a request that came in is handled, the watchdog fires.
\* Requests may keep coming, but not so densely that main() never runs.
Fairness == SF_vars(MainStep) /\ WF_vars(HttpStep) /\ WF_vars(WatchdogResets)

Spec == Init /\ [][Next]_vars /\ Fairness

-----------------------------------------------------------------------------
TypeOK ==
  /\ flash \in {"none", "good", "wrong"}
  /\ pc \in {"boot", "sta_init", "connect", "ntp", "tx_init", "tx", "ap", "ap_init", "ap_open",
             "ap_mark", "wait", "recheck", "done", "resetting", "halted"}
  /\ retry \in 0..MaxRetries
  /\ apActive \in BOOLEAN /\ server \in BOOLEAN
  /\ http \in {"idle", "erase", "program", "verify"}
  /\ form \in {"good", "wrong", "long"} /\ promised \in BOOLEAN
  /\ outages \in 0..MaxOutages

(***************************************************************************)
(* In set-up mode the wait loop is left only after a form was saved: main  *)
(* does not reset the chip while the flash holds no configuration, unless  *)
(* a further request is rewriting it at that moment.                       *)
(***************************************************************************)
LeavesApConfigured ==
  pc \in {"done", "resetting"} /\ http # "program" => flash # "none"

(***************************************************************************)
(* Every boot ends on the air or, with no record or a network that cannot  *)
(* be joined, in set-up mode with the form on offer, unless the hardware   *)
(* refuses to start: the station never tries one network for ever.         *)
(***************************************************************************)
ReachesAirOrSetup == pc = "boot" ~> (pc = "tx" \/ server \/ pc = "halted")

(***************************************************************************)
(* A form saved while main waits for it makes the station boot again.      *)
(***************************************************************************)
SavedWhileWaitingReboots ==
  (pc \in {"wait", "recheck"} /\ ~apActive) ~> pc = "boot"

(***************************************************************************)
(* wifi_setup.c:251: "Device will reboot and start FT8 transmission."      *)
(* After that page the station boots again.                                *)
(***************************************************************************)
PromiseKept == promised ~> (pc = "boot" \/ ~promised)
=============================================================================
