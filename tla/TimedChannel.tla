---------------------------- MODULE TimedChannel ----------------------------
(***************************************************************************)
(* The symbol FIFO with the timer that drives it.  TxChannelISR is one     *)
(* function: it pops a symbol, the action of TxChannel, and sets the next  *)
(* alarm, the action of SymbolTimer.  The counter runs on its own, and the *)
(* stores of the main loop take no time that it can show.                  *)
(***************************************************************************)
EXTENDS TxChannel, SymbolTimer

timedVars == <<vars, timerVars>>

\* WSPRbeaconInit calls TxChannelInit.
TimedInit == Init /\ TimerInit

Handler == TxChannelISR /\ NextAlarm

MainLoop ==
  /\ \/ \E p \in Packets : WSPRbeaconCreatePacket(p)
     \/ WSPRbeaconSendPacket
  /\ UNCHANGED timerVars

TimePasses == Tick /\ UNCHANGED vars

TimedNext == Handler \/ MainLoop \/ TimePasses

\* The counter runs, an interrupt that was raised is handled, and a started
\* WSPRbeaconSendPacket returns.
TimedFairness ==
  /\ WF_timedVars(TimePasses)
  /\ WF_timedVars(Handler)
  /\ WF_timedVars(WSPRbeaconSendPacket /\ UNCHANGED timerVars)

TimedSpec == TimedInit /\ [][TimedNext]_timedVars /\ TimedFairness
=============================================================================
