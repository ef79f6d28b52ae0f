------------------------------- MODULE NtpSync -------------------------------
(***************************************************************************)
(* The time fetch, run_ntp_stuff of main.c, and the use the transmission   *)
(* loop makes of the time.  main() asks for the server's address, sleeps   *)
(* for a second, frees its state and leaves the network.  The callbacks of *)
(* the resolver, of the UDP socket and of the alarm run as interrupts      *)
(* between any two steps of main(), and nothing unregisters them.          *)
(*                                                                         *)
(* Time is counted in units, Second of them to a second.  The server's     *)
(* clock is exact; an answer may be lost, late, or arrive more than once.  *)
(***************************************************************************)
EXTENDS Integers

CONSTANTS
  Second,    \* units in a second
  Window,    \* how long run_ntp_stuff sleeps: a second
  Late,      \* how late a sleep may end
  Resend,    \* NTP_RESEND_TIME: ten seconds
  Delta,     \* NTP_DELTA
  Era,       \* 2^32, the span of the server's seconds
  MaxTime    \* bound of the model: units from the start of the fetch

ASSUME NtpSyncAssumption ==
  /\ {Second, Window, Resend, Delta, Era, MaxTime} \subseteq Nat \ {0}
  /\ Late \in Nat
  /\ Window + Late < Resend /\ MaxTime < Second * Era

VARIABLES
  phase,       \* the true time, since 1970, when the fetch starts
  now,         \* powman_timer_get_ms(), from the same moment
  pc,          \* where main() is
  wake,        \* when the sleep of run_ntp_stuff ends
  block,       \* whose the memory of the NTP_T is: "none", "ntp", "free", "tx"
  alarm,       \* when the alarm fires, 0 if it is not set
  dns,         \* the resolver owes a callback
  joined,      \* the network is joined
  asked,       \* a request has been sent
  answers,     \* what the server has answered: seconds since 1900 modulo Era
  have,        \* have_ntp_time
  ntp_time, powman_sync_ms,
  cur,         \* current_powman_ms of the loop
  time,        \* current_time of the loop, -1 before the first round
  inTime,      \* history: an answer was accepted while the fetch was waiting
  stray,       \* history: a callback wrote to memory of the transmitter
  missed       \* history: the alarm fired when the fetch was over

netw  == <<dns, joined, asked, answers>>
sync  == <<have, ntp_time, powman_sync_ms>>
loop  == <<cur, time>>
vars  == <<phase, now, pc, wake, block, alarm, netw, sync, loop, inTime, stray, missed>>

Init ==
  /\ phase \in 0..(Second * Era - MaxTime - 1)
  /\ now = 0
  /\ pc = "init" /\ wake = 0
  /\ block = "none" /\ alarm = 0
  /\ dns = FALSE /\ joined = TRUE /\ asked = FALSE /\ answers = {}
  /\ have = FALSE /\ ntp_time = 0 /\ powman_sync_ms = 0
  /\ cur = 0 /\ time = -1
  /\ inTime = FALSE /\ stray = FALSE /\ missed = FALSE

-----------------------------------------------------------------------------
\* The end of a request, ntp_result: the alarm is cancelled, by the number the
\* state holds.  Memory that was freed may hold any number.
ntp_result_ends ==
  /\ \/ alarm' = 0
     \/ block # "ntp" /\ UNCHANGED alarm
  /\ stray' = (stray \/ block = "tx")

ntp_result_failed == ntp_result_ends /\ UNCHANGED <<sync, inTime>>

\* Mutant: the alarm is left running.
KeepsAlarm(t) ==
  /\ ntp_time' = t /\ powman_sync_ms' = now /\ have' = TRUE
  /\ inTime' = (inTime \/ block = "ntp")
  /\ stray' = (stray \/ block = "tx")
  /\ UNCHANGED alarm

\* Mutant: the moment of the answer is recorded for the first answer only.
SyncOnce(t) ==
  /\ ntp_time' = t /\ have' = TRUE
  /\ powman_sync_ms' = IF have THEN powman_sync_ms ELSE now
  /\ inTime' = (inTime \/ block = "ntp")
  /\ ntp_result_ends

ntp_result_ok(t) ==
  /\ ntp_time' = t /\ powman_sync_ms' = now /\ have' = TRUE
  /\ inTime' = (inTime \/ block = "ntp")
  /\ ntp_result_ends

\* seconds_since_1900 - NTP_DELTA, in 32 bits.
Since1970(s) == (s - Delta) % Era

-----------------------------------------------------------------------------
\* ntp_init fails, or the alarm is set and dns_gethostbyname called, which
\* knows the address (ERR_OK), will call back, or fails.
NtpInitFails ==
  /\ pc = "init"
  /\ pc' = "leave"
  /\ UNCHANGED <<phase, now, wake, block, alarm, netw, sync, loop, inTime, stray, missed>>

NtpInit ==
  /\ pc = "init"
  /\ block' = "ntp"
  /\ alarm' = now + Resend
  /\ pc' = "lookup"
  /\ UNCHANGED <<phase, now, wake, netw, sync, loop, inTime, stray, missed>>

Lookup ==
  /\ pc = "lookup"
  /\ pc' = "sleep"
  /\ wake' = now + Window
  /\ \/ asked' = TRUE /\ UNCHANGED <<dns, sync, alarm, inTime, stray>>
     \/ dns' = TRUE /\ UNCHANGED <<asked, sync, alarm, inTime, stray>>
     \/ ntp_result_failed /\ UNCHANGED <<dns, asked>>
  /\ UNCHANGED <<phase, now, block, joined, answers, loop, missed>>

\* The sleep of a second ends; free(state).
Free ==
  /\ pc = "sleep" /\ now >= wake
  /\ block' = "free"
  /\ pc' = "leave"
  /\ UNCHANGED <<phase, now, wake, alarm, netw, sync, loop, inTime, stray, missed>>

\* Mutant: the station stays on the network.
StayJoined ==
  /\ pc = "leave"
  /\ pc' = "beacon"
  /\ UNCHANGED <<phase, now, wake, block, alarm, netw, sync, loop, inTime, stray, missed>>

\* cyw43_wifi_leave.
Leave ==
  /\ pc = "leave"
  /\ joined' = FALSE
  /\ pc' = "beacon"
  /\ UNCHANGED <<phase, now, wake, block, alarm, dns, asked, answers, sync, loop,
                 inTime, stray, missed>>

\* WSPRbeaconInit allocates its contexts; the allocator may reuse the block.
BeaconInit ==
  /\ pc = "beacon"
  /\ block' \in IF block = "free" THEN {"free", "tx"} ELSE {block}
  /\ pc' = "read"
  /\ UNCHANGED <<phase, now, wake, alarm, netw, sync, loop, inTime, stray, missed>>

\* The loop reads the clock, and then what the callbacks have left.
ReadClock ==
  /\ pc = "read"
  /\ cur' = now
  /\ pc' = "compute"
  /\ UNCHANGED <<phase, now, wake, block, alarm, netw, sync, time, inTime, stray, missed>>

Compute ==
  /\ pc = "compute"
  /\ time' = ntp_time + (cur - powman_sync_ms) \div Second
  /\ pc' = "read"
  /\ UNCHANGED <<phase, now, wake, block, alarm, netw, sync, cur, inTime, stray, missed>>

-----------------------------------------------------------------------------
\* ntp_dns_found, with an address or without.
DnsFound ==
  /\ dns /\ joined
  /\ dns' = FALSE
  /\ asked' = TRUE
  /\ stray' = (stray \/ block = "tx")
  /\ UNCHANGED <<phase, now, pc, wake, block, alarm, joined, answers, sync, loop,
                 inTime, missed>>

DnsFailed ==
  /\ dns
  /\ dns' = FALSE
  /\ ntp_result_failed
  /\ UNCHANGED <<phase, now, pc, wake, block, joined, asked, answers, loop, missed>>

\* The request, or a copy of it, reaches the server, which answers.
ServerAnswers ==
  /\ asked /\ joined
  /\ answers' = answers \cup {((phase + now) \div Second + Delta) % Era}
  /\ UNCHANGED <<phase, now, pc, wake, block, alarm, dns, joined, asked, sync, loop,
                 inTime, stray, missed>>

\* ntp_recv with an answer, or a copy of it.
Recv ==
  /\ joined
  /\ \E s \in answers : ntp_result_ok(Since1970(s))
  /\ UNCHANGED <<phase, now, pc, wake, block, netw, loop, missed>>

\* ntp_recv with a packet of another sender or kind; or with a good one, when
\* the address it is compared with was freed.
RecvInvalid ==
  /\ joined /\ block \in {"ntp", "free"}
  /\ ntp_result_failed
  /\ UNCHANGED <<phase, now, pc, wake, block, netw, loop, missed>>

\* ntp_failed_handler.
AlarmFires ==
  /\ alarm # 0 /\ now >= alarm
  /\ alarm' = 0
  /\ stray' = (stray \/ block = "tx")
  /\ missed' = (missed \/ block # "ntp")
  /\ UNCHANGED <<phase, now, pc, wake, block, netw, sync, loop, inTime>>

\* Time passes while main() sleeps, or is interrupted between the two reads,
\* and no alarm is due.
Tick ==
  /\ now < MaxTime
  /\ \/ pc = "sleep" /\ now < wake + Late
     \/ pc \in {"read", "compute"}
  /\ alarm = 0 \/ now < alarm
  /\ now' = now + 1
  /\ UNCHANGED <<phase, pc, wake, block, alarm, netw, sync, loop, inTime, stray, missed>>

Next ==
  \/ NtpInitFails \/ NtpInit \/ Lookup \/ Free \/ Leave \/ BeaconInit
  \/ ReadClock \/ Compute
  \/ DnsFound \/ DnsFailed \/ ServerAnswers \/ Recv \/ RecvInvalid
  \/ AlarmFires \/ Tick

Spec == Init /\ [][Next]_vars

-----------------------------------------------------------------------------
TypeOK ==
  /\ phase \in 0..(Second * Era) /\ now \in 0..MaxTime
  /\ pc \in {"init", "lookup", "sleep", "leave", "beacon", "read", "compute"}
  /\ wake \in 0..(MaxTime + Window)
  /\ block \in {"none", "ntp", "free", "tx"}
  /\ alarm \in 0..(MaxTime + Resend)
  /\ dns \in BOOLEAN /\ joined \in BOOLEAN /\ asked \in BOOLEAN /\ have \in BOOLEAN
  /\ inTime \in BOOLEAN /\ stray \in BOOLEAN /\ missed \in BOOLEAN
  /\ answers \subseteq 0..(Era - 1)
  /\ ntp_time \in 0..(Era - 1) /\ powman_sync_ms \in 0..MaxTime
  /\ cur \in 0..MaxTime /\ time \in Int

(***************************************************************************)
(* The time the transmission loop computes is never ahead of the true time *)
(* and lags by less than three seconds, across the end of the server's     *)
(* 32-bit era, and however late, repeated or reordered the answers are:    *)
(* one for the fraction of a second that is dropped, one for the way of    *)
(* the answer, one for the fraction the loop drops.                        *)
(***************************************************************************)
MaxLag == 2 * (Second - 1) + Window + Late

LagBounded ==
  have /\ pc = "read" /\ time >= 0 => phase + cur - Second * time \in 0..MaxLag

(***************************************************************************)
(* The loop subtracts two unsigned times; the moment of the answer is      *)
(* never later than the clock it has read, although the answer is handled  *)
(* in an interrupt that may come between the two reads.                    *)
(***************************************************************************)
ElapsedNonNegative == pc = "compute" => powman_sync_ms <= cur

(***************************************************************************)
(* An answer that comes while the fetch waits for it settles the matter:   *)
(* no callback writes to the freed state once it belongs to someone else.  *)
(***************************************************************************)
AnsweredIsSafe == ~(inTime /\ stray)

(***************************************************************************)
(* The alarm, set "in case udp requests are lost", finds the fetch that    *)
(* set it still waiting.                                                   *)
(***************************************************************************)
AlarmServesFetch == ~missed
=============================================================================
