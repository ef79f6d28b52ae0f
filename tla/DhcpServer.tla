----------------------------- MODULE DhcpServer -----------------------------
(***************************************************************************)
(* The DHCP server of the set-up mode, dhcpserver/dhcpserver.c.  Its state *)
(* is the lease table; a message is handled in one callback.  The server   *)
(* is the only party modelled: any client may send any message at any      *)
(* time, which covers lost, repeated and reordered messages.               *)
(*                                                                         *)
(* cyw43_hal_ticks_ms() wraps at ClkSpan; a lease stores the upper half of *)
(* its expiry time, in units of Grain, and is taken to end with the unit.  *)
(***************************************************************************)
EXTENDS Naturals, FiniteSetsExt

CONSTANTS
  Clients,  \* the hardware addresses of the clients
  NoMac,    \* the all-zero address of a free entry
  MaxIp,    \* DHCPS_MAX_IP: 8
  ClkSpan,  \* 2^32 ms
  Grain,    \* 2^16 ms
  Lease     \* DEFAULT_LEASE_TIME_S, in the same unit

Slots == 0..(MaxIp - 1)

ASSUME DhcpServerAssumption ==
  /\ NoMac \notin Clients
  /\ MaxIp \in Nat \ {0}
  /\ {ClkSpan, Grain, Lease} \subseteq Nat \ {0}
  /\ ClkSpan % (2 * Grain) = 0
  /\ Lease + Grain < ClkSpan \div 2

VARIABLES
  mac, expiry,  \* the lease table: lease[i].mac, lease[i].expiry
  now,          \* cyw43_hal_ticks_ms()
  reply,        \* the answer to the last message, slot MaxIp for none
  left,         \* history: how long each client may still use each address
  idle          \* history: time since an address was acknowledged, at most ClkSpan

table   == <<mac, expiry>>
history == <<left, idle>>
vars    == <<table, now, reply, history>>

\* dhcp_server_init; the clock has been running for some time.
Init ==
  /\ mac = [s \in Slots |-> NoMac]
  /\ expiry = [s \in Slots |-> 0]
  /\ now \in 0..(ClkSpan - 1)
  /\ reply = [type |-> "none", to |-> NoMac, slot |-> MaxIp]
  /\ left = [c \in Clients |-> [s \in Slots |-> 0]]
  /\ idle = [s \in Slots |-> ClkSpan]

\* Mutant: the lease ends when its last unit begins.
ExpiredEarly(s) == (ClkSpan + expiry[s] * Grain - now) % ClkSpan >= ClkSpan \div 2

\* Mutant: the times are compared as they are, not their difference.
ExpiredUnsigned(s) == expiry[s] * Grain + Grain - 1 < now

\* (int32_t)(expiry - now) < 0, expiry with its lower half all ones.
Expired(s) ==
  (ClkSpan + expiry[s] * Grain + Grain - 1 - now) % ClkSpan >= ClkSpan \div 2

Free(s) == mac[s] = NoMac

Answer(type, c, s) == reply' = [type |-> type, to |-> c, slot |-> s]

\* Mutant: when no entry is left, the first one is offered.
DiscoverAnyhow(c) ==
  LET own    == {s \in Slots : mac[s] = c}
      unused == {s \in Slots : Free(s) \/ Expired(s)}
      before == {s \in unused : \A o \in own : s < o}
  IN
  /\ mac' = IF before = {} THEN mac ELSE [mac EXCEPT ![Min(before)] = NoMac]
  /\ CASE own # {}                  -> Answer("offer", c, Min(own))
       [] own = {} /\ before # {}   -> Answer("offer", c, Min(before))
       [] OTHER                     -> Answer("offer", c, 0)
  /\ UNCHANGED <<expiry, now, history>>

\* Mutant: an entry of the client is cleared to be offered anew.
DiscoverClearsOwn(c) ==
  LET unused == {s \in Slots : mac[s] \in {c, NoMac} \/ Expired(s)} IN
  /\ mac' = IF unused = {} THEN mac ELSE [mac EXCEPT ![Min(unused)] = NoMac]
  /\ IF unused = {} THEN Answer("ignored", c, MaxIp) ELSE Answer("offer", c, Min(unused))
  /\ UNCHANGED <<expiry, now, history>>

\* The client's own entry if it has one, or the first that is free or
\* expired; the loop clears the expired one also when it goes on to find the
\* client's own entry behind it.
Discover(c) ==
  LET own    == {s \in Slots : mac[s] = c}
      unused == {s \in Slots : Free(s) \/ Expired(s)}
      before == {s \in unused : \A o \in own : s < o}
  IN
  /\ mac' = IF before = {} THEN mac ELSE [mac EXCEPT ![Min(before)] = NoMac]
  /\ CASE own # {}                  -> Answer("offer", c, Min(own))
       [] own = {} /\ before # {}   -> Answer("offer", c, Min(before))
       [] OTHER                     -> Answer("ignored", c, MaxIp)
  /\ UNCHANGED <<expiry, now, history>>

\* A DHCPREQUEST with option 50: the address it names, MaxIp standing for one
\* of another network or out of range, is acknowledged if it is the client's or
\* free.
Request(c, s) ==
  /\ IF s \in Slots /\ mac[s] \in {c, NoMac}
     THEN /\ mac' = [mac EXCEPT ![s] = c]
          /\ expiry' = [expiry EXCEPT ![s] = ((now + Lease) % ClkSpan) \div Grain]
          /\ Answer("ack", c, s)
          /\ left' = [left EXCEPT ![c][s] = Lease]
          /\ idle' = [idle EXCEPT ![s] = 0]
     ELSE /\ Answer("ignored", c, MaxIp)
          /\ UNCHANGED <<table, history>>
  /\ UNCHANGED now

\* A DHCPREQUEST without option 50, as a client sends that renews or rebinds its
\* lease and names the address in ciaddr: it is ignored, the lease runs on.
Renew(c) ==
  /\ Answer("ignored", c, MaxIp)
  /\ UNCHANGED <<table, now, history>>

Tick ==
  /\ now' = (now + 1) % ClkSpan
  /\ left' = [c \in Clients |-> [s \in Slots |->
                IF left[c][s] = 0 THEN 0 ELSE left[c][s] - 1]]
  /\ idle' = [s \in Slots |-> IF idle[s] = ClkSpan THEN ClkSpan ELSE idle[s] + 1]
  /\ reply' = [reply EXCEPT !.type = "none"]
  /\ UNCHANGED table

Next ==
  \/ \E c \in Clients : Discover(c) \/ Renew(c)
  \/ \E c \in Clients, s \in 0..MaxIp : Request(c, s)
  \/ Tick

Spec == Init /\ [][Next]_vars

-----------------------------------------------------------------------------
TypeOK ==
  /\ mac \in [Slots -> Clients \cup {NoMac}]
  /\ expiry \in [Slots -> 0..(ClkSpan \div Grain - 1)]
  /\ now \in 0..(ClkSpan - 1)
  /\ reply \in [type : {"none", "offer", "ack", "ignored"}, to : Clients \cup {NoMac},
                slot : 0..MaxIp]
  /\ left \in [Clients -> [Slots -> 0..Lease]]
  /\ idle \in [Slots -> 0..ClkSpan]

(***************************************************************************)
(* No two clients may use the same address at the same time, however often *)
(* the clock wraps.                                                        *)
(***************************************************************************)
NoSharedLease ==
  \A s \in Slots, c, d \in Clients : left[c][s] > 0 /\ left[d][s] > 0 => c = d

(***************************************************************************)
(* An address is offered only while no other client may use it.            *)
(***************************************************************************)
OfferFree ==
  reply.type = "offer" => \A c \in Clients \ {reply.to} : left[c][reply.slot] = 0

(***************************************************************************)
(* While a client may use an address it is never turned away from it: the  *)
(* DHCPREQUEST that names the address in option 50 is acknowledged, and a  *)
(* DHCPDISCOVER, with which the client has to start over as its renewals   *)
(* are ignored, is answered by the offer of an entry that stays its own.   *)
(***************************************************************************)
HolderKeepsAddress ==
  [][\A c \in Clients, s \in Slots : left[c][s] > 0 =>
       /\ Request(c, s) => left'[c][s] = Lease
       /\ Discover(c) => reply'.type = "offer" /\ mac'[reply'.slot] = c]_vars

(***************************************************************************)
(* A DHCPDISCOVER stays unanswered only when each address was acknowledged *)
(* less than a lease and a grain ago, or so long ago that its expiry time  *)
(* lies more than half the clock's span back and seems to lie ahead.       *)
(***************************************************************************)
RefusedOnlyIfTaken ==
  [][\A c \in Clients : Discover(c) /\ reply'.type = "ignored" =>
       \A s \in Slots : idle[s] < Lease + Grain \/ idle[s] > Lease + ClkSpan \div 2]_vars
=============================================================================
