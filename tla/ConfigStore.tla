----------------------------- MODULE ConfigStore -----------------------------
(***************************************************************************)
(* What the configuration store of util/flashmem.c promises its callers:   *)
(* it holds a record or none; a write removes the old record, stores what  *)
(* the record has room for, and reports whether that was everything.  When *)
(* the power fails in the middle of the first two steps, nothing is        *)
(* promised of the record until the next write; otherwise it stays.        *)
(***************************************************************************)

CONSTANTS
  Configs,  \* what the store is asked to keep
  Records,  \* what reading it may return ...
  None,     \* ... unless there is no valid record
  Kept      \* the record that a configuration becomes

VARIABLES
  store,  \* the record, or None
  phase,  \* the next step of the write that is going on, or "idle"
  arg     \* what is written

vars == <<store, phase, arg>>

Init == store \in Records \cup {None} /\ phase = "idle"

\* The record holds everything, and the caller is told so.
Fits(cfg) == Kept[cfg] = cfg

Write(cfg) == phase = "idle" /\ phase' = "erase" /\ arg' = cfg /\ UNCHANGED store

Erase == phase = "erase" /\ phase' = "program" /\ store' = None /\ UNCHANGED arg

Program == phase = "program" /\ phase' = "verify" /\ store' = Kept[arg] /\ UNCHANGED arg

Verify == phase = "verify" /\ phase' = "idle" /\ UNCHANGED <<store, arg>>

\* The power fails, or the chip is reset.
Interrupted ==
  /\ store' \in IF phase \in {"erase", "program"} THEN Records \cup {None} ELSE {store}
  /\ phase' = "idle"
  /\ UNCHANGED arg

Next == (\E cfg \in Configs : Write(cfg)) \/ Erase \/ Program \/ Verify \/ Interrupted

Spec == Init /\ [][Next]_vars
=============================================================================
