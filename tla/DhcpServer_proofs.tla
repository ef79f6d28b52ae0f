-------------------------- MODULE DhcpServer_proofs --------------------------
(***************************************************************************)
(* Proofs about the lease table, for any number of clients and addresses,  *)
(* and any span of the clock, grain of the expiry times and lease that the *)
(* assumption allows.                                                      *)
(***************************************************************************)
EXTENDS DhcpServer, WellFoundedInduction, TLAPS

\* The constants one by one.
LEMMA ConstantTypes ==
  /\ MaxIp \in Nat \ {0} /\ ClkSpan \in Nat \ {0} /\ Grain \in Nat \ {0} /\ Lease \in Nat \ {0}
  /\ ClkSpan % (2 * Grain) = 0 /\ Lease + Grain < ClkSpan \div 2
  BY DhcpServerAssumption

-----------------------------------------------------------------------------
\* The first of some addresses is one of them.
LEMMA FirstSlot ==
  ASSUME NEW S \in SUBSET Slots, S # {}
  PROVE  Min(S) \in S
  <1> DEFINE R == {p \in Nat \X Nat : p[1] < p[2]}
  <1>1. S \subseteq Nat
    BY ConstantTypes DEF Slots
  <1>2. IsWellFoundedOn(R, Nat)
    BY NatLessThanWellFounded DEF OpToRel
  <1>3. PICK x \in S : \A y \in S : ~(<<y, x>> \in R)
    BY <1>1, <1>2, WFMin
  <1>4. ASSUME NEW y \in S PROVE x <= y
    <2>1. <<y, x>> \in Nat \X Nat /\ y \in Nat /\ x \in Nat
      BY <1>1
    <2>2. ~(y < x)
      BY <1>3, <2>1
    <2> QED
      BY <2>1, <2>2
  <1> QED
    BY <1>4 DEF Min

\* Half of the span, and the number of grains in it, are whole.
LEMMA Grains ==
  \E m \in Nat \ {0} : /\ ClkSpan = 2 * (Grain * m)
                       /\ ClkSpan \div Grain = 2 * m
                       /\ ClkSpan \div 2 = Grain * m
  <1> DEFINE m == ClkSpan \div (2 * Grain)
  <1>1. m \in Nat /\ ClkSpan = (2 * Grain) * m
    BY ConstantTypes
  <1>2. Grain * m \in Nat /\ ClkSpan = 2 * (Grain * m) /\ ClkSpan = Grain * (2 * m)
    BY <1>1, ConstantTypes
  <1> HIDE DEF m
  <1>3. ClkSpan \div 2 = Grain * m
    BY <1>2
  <1>4. ClkSpan \div Grain = 2 * m
    BY <1>1, <1>2, ConstantTypes
  <1>5. m # 0
    BY <1>2, ConstantTypes
  <1> QED
    BY <1>1, <1>2, <1>3, <1>4, <1>5

\* The end of the unit of time an expiry value stands for.
End(e) == e * Grain + Grain - 1

\* A moment t lies in the unit t \div Grain, which ends before the clock wraps.
LEMMA UnitOf ==
  ASSUME NEW t \in 0..(ClkSpan - 1)
  PROVE  /\ t \div Grain \in 0..(ClkSpan \div Grain - 1)
         /\ End(t \div Grain) \in t..(t + Grain - 1)
         /\ End(t \div Grain) \in 0..(ClkSpan - 1)
  <1> USE ConstantTypes
  <1> DEFINE q == t \div Grain
  <1>1. PICK m \in Nat \ {0} : ClkSpan = 2 * (Grain * m) /\ ClkSpan \div Grain = 2 * m
    BY Grains
  <1>2. q \in Nat /\ q * Grain \in Nat /\ q * Grain <= t /\ t < q * Grain + Grain
    OBVIOUS
  <1> HIDE DEF q
  <1>3. q < 2 * m
    BY <1>1, <1>2
  <1>4. q * Grain + Grain <= ClkSpan
    <2>1. (q + 1) * Grain <= (2 * m) * Grain
      BY <1>2, <1>3
    <2>2. (q + 1) * Grain = q * Grain + Grain /\ (2 * m) * Grain = ClkSpan
      BY <1>1, <1>2
    <2> QED
      BY <2>1, <2>2
  <1>5. q \in 0..(ClkSpan \div Grain - 1)
    BY <1>1, <1>2, <1>3
  <1>6. q * Grain + Grain - 1 \in t..(t + Grain - 1) /\ q * Grain + Grain - 1 \in 0..(ClkSpan - 1)
    BY <1>2, <1>4
  <1> QED
    BY <1>5, <1>6 DEF End, q

\* The unit of an expiry value ends before the clock wraps.
LEMMA EndInSpan ==
  ASSUME NEW e \in 0..(ClkSpan \div Grain - 1)
  PROVE  End(e) \in 0..(ClkSpan - 1)
  <1> USE ConstantTypes
  <1>1. PICK m \in Nat \ {0} : ClkSpan = 2 * (Grain * m) /\ ClkSpan \div Grain = 2 * m
    BY Grains
  <1>2. e \in Nat /\ e < 2 * m /\ e * Grain \in Nat
    BY <1>1
  <1>3. (e + 1) * Grain <= (2 * m) * Grain
    BY <1>1, <1>2
  <1>4. (e + 1) * Grain = e * Grain + Grain /\ (2 * m) * Grain = ClkSpan
    BY <1>1, <1>2
  <1> QED
    BY <1>2, <1>3, <1>4 DEF End

\* The difference of two moments, modulo the span, when it is less than half.
LEMMA Modulo ==
  ASSUME NEW k \in Nat, k < ClkSpan, NEW x, x = k \/ x = ClkSpan + k
  PROVE  x % ClkSpan = k
  BY ConstantTypes

-----------------------------------------------------------------------------
(***************************************************************************)
(* A client that may use an address for some time yet owns its entry, and  *)
(* the expiry time lies ahead by at least that time and less than half the *)
(* clock's span, with the clock wrapping in between or not.                *)
(***************************************************************************)
Ahead(s, k) == now + k = End(expiry[s]) \/ now + k = End(expiry[s]) + ClkSpan

LeaseInv ==
  \A c \in Clients, s \in Slots : left[c][s] > 0 =>
    /\ mac[s] = c
    /\ \E k \in left[c][s]..(Lease + Grain - 1) : Ahead(s, k)

IInv == TypeOK /\ LeaseInv /\ OfferFree

\* An address that a client may use is in its entry, and has not expired.
LEMMA InUse ==
  ASSUME TypeOK, LeaseInv, NEW c \in Clients, NEW s \in Slots, left[c][s] > 0
  PROVE  mac[s] = c /\ ~Free(s) /\ ~Expired(s)
  <1> USE ConstantTypes
  <1>1. mac[s] = c /\ mac[s] # NoMac
    BY DhcpServerAssumption DEF LeaseInv
  <1>2. PICK k \in left[c][s]..(Lease + Grain - 1) : Ahead(s, k)
    BY DEF LeaseInv
  <1>3. left[c][s] \in Nat /\ now \in Nat /\ expiry[s] \in Nat
    BY DEF TypeOK
  <1>4. k \in Nat /\ k < ClkSpan \div 2 /\ k < ClkSpan
    BY <1>2, <1>3
  <1> DEFINE e == expiry[s] * Grain
  <1>5. e \in Nat
    BY <1>3
  <1>6. now + k = e + Grain - 1 \/ now + k = e + Grain - 1 + ClkSpan
    BY <1>2 DEF Ahead, End
  <1> HIDE DEF e
  <1> DEFINE x == ClkSpan + e + Grain - 1 - now
  <1>7. x = k \/ x = ClkSpan + k
    BY <1>3, <1>4, <1>5, <1>6
  <1> HIDE DEF x
  <1>8. x % ClkSpan = k
    BY <1>4, <1>7, Modulo
  <1>9. ~Expired(s)
    BY <1>4, <1>8 DEF Expired, x, e
  <1> QED
    BY <1>1, <1>9 DEF Free

-----------------------------------------------------------------------------
LEMMA Initially == Init => IInv
  <1> SUFFICES ASSUME Init PROVE IInv
    OBVIOUS
  <1> USE ConstantTypes DEF Init
  <1>1. ClkSpan \div Grain - 1 \in Nat
    BY Grains
  <1>2. TypeOK
    BY <1>1 DEF TypeOK, Slots
  <1>3. LeaseInv
    BY DEF LeaseInv
  <1>4. OfferFree
    BY DEF OfferFree
  <1> QED
    BY <1>2, <1>3, <1>4 DEF IInv

\* A DHCPDISCOVER clears no entry of an address that is in use, and offers
\* none.
LEMMA DiscoverStep ==
  ASSUME IInv, NEW c \in Clients, Discover(c)
  PROVE  IInv'
  <1> USE ConstantTypes
  <1> DEFINE own    == {s \in Slots : mac[s] = c}
             unused == {s \in Slots : Free(s) \/ Expired(s)}
             before == {s \in unused : \A o \in own : s < o}
  <1>1. \A d \in Clients, s \in before : ~(left[d][s] > 0)
    BY InUse DEF IInv
  <1>2. before # {} => Min(before) \in before
    BY FirstSlot
  <1>3. own # {} => Min(own) \in own
    BY FirstSlot
  <1>4. /\ mac' = IF before = {} THEN mac ELSE [mac EXCEPT ![Min(before)] = NoMac]
        /\ \/ own # {} /\ reply' = [type |-> "offer", to |-> c, slot |-> Min(own)]
           \/ /\ own = {} /\ before # {}
              /\ reply' = [type |-> "offer", to |-> c, slot |-> Min(before)]
           \/ reply' = [type |-> "ignored", to |-> c, slot |-> MaxIp]
        /\ UNCHANGED <<expiry, now, left, idle>>
    BY DEF Discover, Answer, history
  <1>5. own \subseteq Slots /\ before \subseteq Slots /\ \A s \in own : mac[s] = c
    OBVIOUS
  <1> HIDE DEF own, before
  <1>6. TypeOK'
    <2>1. mac' \in [Slots -> Clients \cup {NoMac}]
      BY <1>4 DEF IInv, TypeOK
    <2>2. Slots \subseteq 0..MaxIp
      BY DEF Slots
    <2>3. reply' \in [type : {"none", "offer", "ack", "ignored"}, to : Clients \cup {NoMac},
                      slot : 0..MaxIp]
      <3>1. PICK type \in {"offer", "ignored"}, s \in 0..MaxIp :
              reply' = [type |-> type, to |-> c, slot |-> s]
        <4>1. MaxIp \in 0..MaxIp
          OBVIOUS
        <4>2. (own # {} => Min(own) \in 0..MaxIp) /\ (before # {} => Min(before) \in 0..MaxIp)
          BY <1>2, <1>3, <1>5, <2>2
        <4> QED
          BY <1>4, <4>1, <4>2, Zenon
      <3> QED
        BY <3>1
    <2> QED
      BY <1>4, <2>1, <2>3 DEF IInv, TypeOK
  <1>7. LeaseInv'
    <2> SUFFICES ASSUME NEW d \in Clients, NEW s \in Slots, left'[d][s] > 0
                 PROVE  mac'[s] = d /\ \E k \in left'[d][s]..(Lease + Grain - 1) : Ahead(s, k)'
      BY DEF LeaseInv
    <2>1. left[d][s] > 0
      BY <1>4
    <2>2. mac[s] = d /\ \E k \in left[d][s]..(Lease + Grain - 1) : Ahead(s, k)
      BY <2>1 DEF IInv, LeaseInv
    <2>3. s \notin before
      BY <1>1, <2>1
    <2>4. mac'[s] = d
      BY <1>2, <1>4, <2>2, <2>3 DEF IInv, TypeOK
    <2> QED
      BY <1>4, <2>2, <2>4 DEF Ahead
  <1>8. OfferFree'
    <2> SUFFICES ASSUME reply'.type = "offer", NEW d \in Clients, d # c
                 PROVE  reply'.to = c /\ left[d][reply'.slot] = 0
      BY <1>4 DEF OfferFree
    <2>1. \A s \in Slots : left[d][s] \in Nat
      BY DEF IInv, TypeOK
    <2>2. CASE own # {} /\ reply' = [type |-> "offer", to |-> c, slot |-> Min(own)]
      <3>1. mac[Min(own)] # d /\ Min(own) \in Slots
        BY <1>3, <1>5, <2>2
      <3>2. ~(left[d][Min(own)] > 0)
        BY <3>1 DEF IInv, LeaseInv
      <3> QED
        BY <2>1, <2>2, <3>1, <3>2
    <2>3. CASE before # {} /\ reply' = [type |-> "offer", to |-> c, slot |-> Min(before)]
      <3>1. Min(before) \in Slots /\ ~(left[d][Min(before)] > 0)
        BY <1>1, <1>2, <1>5, <2>3
      <3> QED
        BY <2>1, <2>3, <3>1
    <2> QED
      BY <1>4, <2>2, <2>3
  <1> QED
    BY <1>6, <1>7, <1>8 DEF IInv

\* A DHCPREQUEST gives out an address that no other client may use.
LEMMA RequestStep ==
  ASSUME IInv, NEW c \in Clients, NEW a \in 0..MaxIp, Request(c, a)
  PROVE  IInv'
  <1> USE ConstantTypes
  <1>1. CASE a \in Slots /\ mac[a] \in {c, NoMac}
    <2> DEFINE t == (now + Lease) % ClkSpan
    <2>1. /\ mac' = [mac EXCEPT ![a] = c]
          /\ expiry' = [expiry EXCEPT ![a] = t \div Grain]
          /\ reply' = [type |-> "ack", to |-> c, slot |-> a]
          /\ left' = [left EXCEPT ![c][a] = Lease]
          /\ idle' = [idle EXCEPT ![a] = 0]
          /\ now' = now
      BY <1>1 DEF Request, Answer
    <2>2. now \in 0..(ClkSpan - 1) /\ Lease < ClkSpan
      BY DEF IInv, TypeOK
    <2>3. t \in 0..(ClkSpan - 1) /\ (t = now + Lease \/ t = now + Lease - ClkSpan)
      BY <2>2
    <2> HIDE DEF t
    <2>4. TypeOK'
      <3>1. t \div Grain \in 0..(ClkSpan \div Grain - 1)
        BY <2>3, UnitOf
      <3>2. left' \in [Clients -> [Slots -> 0..Lease]]
        BY <1>1, <2>1 DEF IInv, TypeOK
      <3>3. idle' \in [Slots -> 0..ClkSpan]
        BY <1>1, <2>1 DEF IInv, TypeOK
      <3>4. mac' \in [Slots -> Clients \cup {NoMac}]
        BY <1>1, <2>1 DEF IInv, TypeOK
      <3>5. expiry' \in [Slots -> 0..(ClkSpan \div Grain - 1)]
        BY <1>1, <2>1, <3>1 DEF IInv, TypeOK
      <3> QED
        BY <2>1, <2>2, <3>2, <3>3, <3>4, <3>5 DEF TypeOK
    <2>5. LeaseInv'
      <3> SUFFICES ASSUME NEW d \in Clients, NEW s \in Slots, left'[d][s] > 0
                   PROVE  mac'[s] = d /\ \E k \in left'[d][s]..(Lease + Grain - 1) : Ahead(s, k)'
        BY DEF LeaseInv
      <3>1. CASE d = c /\ s = a
        <4>1. left'[d][s] = Lease /\ mac'[s] = d /\ expiry'[s] = t \div Grain
          BY <1>1, <2>1, <3>1 DEF IInv, TypeOK
        <4>2. End(t \div Grain) \in t..(t + Grain - 1)
          BY <2>3, UnitOf
        <4> DEFINE k == Lease + (End(t \div Grain) - t)
        <4>3. k \in Lease..(Lease + Grain - 1)
          BY <2>3, <4>2
        <4>4. now + k = End(t \div Grain) \/ now + k = End(t \div Grain) + ClkSpan
          BY <2>2, <2>3, <4>2
        <4> QED
          BY <2>1, <4>1, <4>3, <4>4 DEF Ahead
      <3>2. CASE d # c \/ s # a
        <4>1. left'[d][s] = left[d][s]
          BY <2>1, <3>2 DEF IInv, TypeOK
        <4>2. mac[s] = d /\ \E k \in left[d][s]..(Lease + Grain - 1) : Ahead(s, k)
          BY <4>1 DEF IInv, LeaseInv
        <4>3. s # a
          BY <1>1, <3>2, <4>2, DhcpServerAssumption
        <4>4. mac'[s] = mac[s] /\ expiry'[s] = expiry[s]
          BY <2>1, <4>3 DEF IInv, TypeOK
        <4> QED
          BY <2>1, <4>1, <4>2, <4>4 DEF Ahead
      <3> QED
        BY <3>1, <3>2
    <2>6. OfferFree'
      BY <2>1 DEF OfferFree
    <2> QED
      BY <2>4, <2>5, <2>6 DEF IInv
  <1>2. CASE ~(a \in Slots /\ mac[a] \in {c, NoMac})
    <2>1. reply' = [type |-> "ignored", to |-> c, slot |-> MaxIp] /\ UNCHANGED <<mac, expiry, now, left, idle>>
      BY <1>2 DEF Request, Answer, table, history
    <2> QED
      BY <2>1 DEF IInv, TypeOK, LeaseInv, Ahead, OfferFree
  <1> QED
    BY <1>1, <1>2

\* An ignored renewal changes nothing but the answer.
LEMMA RenewStep ==
  ASSUME IInv, NEW c \in Clients, Renew(c)
  PROVE  IInv'
  <1>1. /\ reply' = [type |-> "ignored", to |-> c, slot |-> MaxIp]
        /\ UNCHANGED <<mac, expiry, now, left, idle>>
    BY DEF Renew, Answer, table, history
  <1> QED
    BY <1>1, ConstantTypes DEF IInv, TypeOK, LeaseInv, Ahead, OfferFree

\* With the clock, the time left and the distance of the expiry time shrink
\* alike.
LEMMA TickStep == IInv /\ Tick => IInv'
  <1> SUFFICES ASSUME IInv, Tick PROVE IInv'
    OBVIOUS
  <1> USE ConstantTypes
  <1>1. /\ now \in 0..(ClkSpan - 1)
        /\ now' = (now + 1) % ClkSpan
        /\ mac' = mac /\ expiry' = expiry
    BY DEF IInv, TypeOK, Tick, table
  <1>2. now' \in 0..(ClkSpan - 1) /\ (now' = now + 1 \/ now' = now + 1 - ClkSpan)
    BY <1>1
  <1>3. TypeOK'
    <2>1. left' \in [Clients -> [Slots -> 0..Lease]]
      <3>1. \A n \in 0..Lease : (IF n = 0 THEN 0 ELSE n - 1) \in 0..Lease
        OBVIOUS
      <3>2. \A d \in Clients, s \in Slots : left[d][s] \in 0..Lease
        BY DEF IInv, TypeOK
      <3> QED
        BY <3>1, <3>2 DEF Tick
    <2>2. idle' \in [Slots -> 0..ClkSpan]
      <3>1. \A n \in 0..ClkSpan : (IF n = ClkSpan THEN ClkSpan ELSE n + 1) \in 0..ClkSpan
        OBVIOUS
      <3>2. \A s \in Slots : idle[s] \in 0..ClkSpan
        BY DEF IInv, TypeOK
      <3> QED
        BY <3>1, <3>2 DEF Tick
    <2>3. reply' \in [type : {"none", "offer", "ack", "ignored"}, to : Clients \cup {NoMac},
                      slot : 0..MaxIp]
      BY DEF IInv, TypeOK, Tick
    <2> QED
      BY <1>1, <1>2, <2>1, <2>2, <2>3 DEF IInv, TypeOK
  <1>4. LeaseInv'
    <2> SUFFICES ASSUME NEW d \in Clients, NEW s \in Slots, left'[d][s] > 0
                 PROVE  mac'[s] = d /\ \E k \in left'[d][s]..(Lease + Grain - 1) : Ahead(s, k)'
      BY DEF LeaseInv
    <2>1. left[d][s] \in Nat /\ left[d][s] > 0 /\ left'[d][s] = left[d][s] - 1
      BY DEF IInv, TypeOK, Tick
    <2>2. mac[s] = d
      BY <2>1 DEF IInv, LeaseInv
    <2>3. PICK k \in left[d][s]..(Lease + Grain - 1) : Ahead(s, k)
      BY <2>1 DEF IInv, LeaseInv
    <2>4. k \in Nat /\ k - 1 \in left'[d][s]..(Lease + Grain - 1)
      BY <2>1, <2>3
    <2>5. End(expiry[s]) \in 0..(ClkSpan - 1)
      BY EndInSpan DEF IInv, TypeOK
    <2>6. now' + (k - 1) = End(expiry[s]) \/ now' + (k - 1) = End(expiry[s]) + ClkSpan
      BY <1>1, <1>2, <2>1, <2>3, <2>4, <2>5 DEF Ahead
    <2> QED
      BY <1>1, <2>2, <2>4, <2>6 DEF Ahead
  <1>5. OfferFree'
    BY DEF OfferFree, Tick, IInv, TypeOK
  <1> QED
    BY <1>3, <1>4, <1>5 DEF IInv

-----------------------------------------------------------------------------
(***************************************************************************)
(* IInv is an inductive invariant of the server.                           *)
(***************************************************************************)
THEOREM Invariance == Spec => []IInv
  <1>1. IInv /\ [Next]_vars => IInv'
    <2> SUFFICES ASSUME IInv, [Next]_vars PROVE IInv'
      OBVIOUS
    <2>1. CASE UNCHANGED vars
      BY <2>1 DEF IInv, TypeOK, LeaseInv, Ahead, OfferFree, vars, table, history
    <2> QED
      BY <2>1, DiscoverStep, RenewStep, RequestStep, TickStep DEF Next
  <1> QED
    BY Initially, <1>1, PTL DEF Spec

(***************************************************************************)
(* Every entry, expiry value and answer keeps its type, the expiry value   *)
(* its sixteen bits.                                                       *)
(***************************************************************************)
THEOREM TypeCorrect == Spec => []TypeOK
  BY Invariance, PTL DEF IInv

(***************************************************************************)
(* No two clients may use the same address at the same time.               *)
(***************************************************************************)
THEOREM LeasesAreExclusive == Spec => []NoSharedLease
  <1>1. IInv => NoSharedLease
    BY DEF IInv, LeaseInv, NoSharedLease
  <1> QED
    BY Invariance, <1>1, PTL

(***************************************************************************)
(* An address is offered only while no other client may use it.            *)
(***************************************************************************)
THEOREM OffersAreFree == Spec => []OfferFree
  BY Invariance, PTL DEF IInv

\* A client that may use an address is offered an entry, and it stays the
\* client's own: the entries that are cleared lie before its first one.
LEMMA DiscoverOffersOwn ==
  ASSUME TypeOK, LeaseInv, NEW c \in Clients, NEW s \in Slots, left[c][s] > 0, Discover(c)
  PROVE  reply'.type = "offer" /\ mac'[reply'.slot] = c
  <1> USE ConstantTypes
  <1> DEFINE own    == {o \in Slots : mac[o] = c}
             unused == {o \in Slots : Free(o) \/ Expired(o)}
             before == {o \in unused : \A p \in own : o < p}
  <1>1. s \in own
    BY DEF LeaseInv
  <1>2. Min(own) \in own
    BY <1>1, FirstSlot
  <1>3. before # {} => Min(before) \in before
    BY FirstSlot
  <1>4. /\ mac' = IF before = {} THEN mac ELSE [mac EXCEPT ![Min(before)] = NoMac]
        /\ reply' = [type |-> "offer", to |-> c, slot |-> Min(own)]
    BY <1>1 DEF Discover, Answer
  <1>5. Min(own) \in Slots /\ mac[Min(own)] = c
    BY <1>2
  <1>6. before # {} => Min(before) < Min(own) /\ Min(before) \in Slots
    BY <1>2, <1>3
  <1> HIDE DEF own, before
  <1>7. Min(own) \in Nat /\ (before # {} => Min(before) # Min(own))
    BY <1>5, <1>6 DEF Slots
  <1> QED
    BY <1>4, <1>5, <1>6, <1>7 DEF TypeOK

(***************************************************************************)
(* A client that may still use an address gets it again when it names it   *)
(* in option 50, and is offered an entry of its own when it starts over,   *)
(* as it must when its renewals without option 50 have been ignored.       *)
(***************************************************************************)
THEOREM HoldersKeepTheirAddress == Spec => HolderKeepsAddress
  <1>1. ASSUME IInv, NEW c \in Clients, NEW s \in Slots, left[c][s] > 0, Request(c, s)
        PROVE  left'[c][s] = Lease
    <2>1. mac[s] = c
      BY <1>1 DEF IInv, LeaseInv
    <2>2. left' = [left EXCEPT ![c][s] = Lease]
      BY <1>1, <2>1 DEF Request
    <2> QED
      BY <1>1, <2>2 DEF IInv, TypeOK
  <1>2. ASSUME IInv, NEW c \in Clients, NEW s \in Slots, left[c][s] > 0, Discover(c)
        PROVE  reply'.type = "offer" /\ mac'[reply'.slot] = c
    BY <1>2, DiscoverOffersOwn DEF IInv
  <1>3. IInv => [\A c \in Clients, s \in Slots : left[c][s] > 0 =>
                   /\ Request(c, s) => left'[c][s] = Lease
                   /\ Discover(c) => reply'.type = "offer" /\ mac'[reply'.slot] = c]_vars
    BY <1>1, <1>2
  <1> QED
    BY Invariance, <1>3, PTL DEF HolderKeepsAddress

-----------------------------------------------------------------------------
(***************************************************************************)
(* The expiry time of an entry that was acknowledged less than a span of   *)
(* the clock ago is a lease, and the rest of a grain, after that moment:   *)
(* ahead of the clock by that less the time since, but for a multiple of   *)
(* the span.                                                               *)
(***************************************************************************)
Aged(s, rest, laps) ==
  End(expiry[s]) = now + (Lease + rest - idle[s]) + laps /\ laps \in {0 - ClkSpan, 0, ClkSpan}

AgeInv ==
  \A s \in Slots : idle[s] < ClkSpan =>
    \E rest \in 0..(Grain - 1), laps \in Int : Aged(s, rest, laps)

LEMMA AgeRequest ==
  ASSUME TypeOK, AgeInv, NEW c \in Clients, NEW a \in 0..MaxIp, Request(c, a)
  PROVE  AgeInv'
  <1> USE ConstantTypes
  <1>1. CASE a \in Slots /\ mac[a] \in {c, NoMac}
    <2> DEFINE t == (now + Lease) % ClkSpan
    <2>1. /\ expiry' = [expiry EXCEPT ![a] = t \div Grain]
          /\ idle' = [idle EXCEPT ![a] = 0] /\ now' = now
      BY <1>1 DEF Request
    <2>2. now \in 0..(ClkSpan - 1) /\ Lease < ClkSpan
      BY DEF TypeOK
    <2>3. t \in 0..(ClkSpan - 1) /\ (t = now + Lease \/ t = now + Lease - ClkSpan)
      BY <2>2
    <2> HIDE DEF t
    <2> SUFFICES ASSUME NEW s \in Slots, idle'[s] < ClkSpan
                 PROVE  \E rest \in 0..(Grain - 1), laps \in Int : Aged(s, rest, laps)'
      BY DEF AgeInv
    <2>4. CASE s = a
      <3>1. idle'[s] = 0 /\ expiry'[s] = t \div Grain
        BY <2>1, <2>4 DEF TypeOK
      <3>2. End(t \div Grain) \in t..(t + Grain - 1)
        BY <2>3, UnitOf
      <3>3. PICK rest \in 0..(Grain - 1) : End(t \div Grain) = t + rest
        <4>1. End(t \div Grain) - t \in 0..(Grain - 1) /\ End(t \div Grain) = t + (End(t \div Grain) - t)
          BY <2>3, <3>2
        <4> QED
          BY <4>1
      <3>4. PICK laps \in {0 - ClkSpan, 0, ClkSpan} : t = now + Lease + laps
        BY <2>2, <2>3
      <3>5. laps \in Int /\ End(t \div Grain) = now + (Lease + rest - 0) + laps
        BY <2>2, <2>3, <3>3, <3>4
      <3>6. Aged(s, rest, laps)'
        BY <2>1, <3>1, <3>4, <3>5 DEF Aged
      <3> QED
        BY <3>3, <3>5, <3>6
    <2>5. CASE s # a
      <3>1. idle'[s] = idle[s] /\ expiry'[s] = expiry[s]
        BY <2>1, <2>5 DEF TypeOK
      <3>2. PICK rest \in 0..(Grain - 1), laps \in Int : Aged(s, rest, laps)
        BY <3>1 DEF AgeInv
      <3>3. Aged(s, rest, laps)'
        BY <2>1, <3>1, <3>2 DEF Aged
      <3> QED
        BY <3>3
    <2> QED
      BY <2>4, <2>5
  <1>2. CASE ~(a \in Slots /\ mac[a] \in {c, NoMac})
    <2>1. UNCHANGED <<expiry, now, idle>>
      BY <1>2 DEF Request, table, history
    <2> QED
      BY <2>1 DEF AgeInv, Aged
  <1> QED
    BY <1>1, <1>2

\* The clock and the age grow alike; the wrap of the clock adds a span.
LEMMA AgeTick ==
  ASSUME TypeOK, AgeInv, Tick
  PROVE  AgeInv'
  <1> USE ConstantTypes
  <1> SUFFICES ASSUME NEW s \in Slots, idle'[s] < ClkSpan
               PROVE  \E rest \in 0..(Grain - 1), laps \in Int : Aged(s, rest, laps)'
    BY DEF AgeInv
  <1>1. now \in 0..(ClkSpan - 1) /\ idle[s] \in 0..ClkSpan /\ now' = (now + 1) % ClkSpan
    BY DEF TypeOK, Tick
  <1>2. idle[s] < ClkSpan /\ idle'[s] = idle[s] + 1
    BY <1>1 DEF Tick
  <1>3. expiry'[s] = expiry[s] /\ End(expiry[s]) \in 0..(ClkSpan - 1)
    BY EndInSpan DEF Tick, TypeOK, table
  <1>4. PICK rest \in 0..(Grain - 1), laps \in Int : Aged(s, rest, laps)
    BY <1>2 DEF AgeInv
  <1> DEFINE e == End(expiry[s])
             i == idle[s]
             j == idle'[s]
  <1>5. e = now + (Lease + rest - i) + laps /\ laps \in {0 - ClkSpan, 0, ClkSpan}
    BY <1>4 DEF Aged
  <1>6. e \in 0..(ClkSpan - 1) /\ i \in Nat /\ j = i + 1 /\ j < ClkSpan
    BY <1>1, <1>2, <1>3
  <1> HIDE DEF e, i, j
  <1>7. CASE now + 1 < ClkSpan
    <2>1. now' = now + 1
      BY <1>1, <1>7
    <2>2. e = now' + (Lease + rest - j) + laps
      BY <1>1, <1>5, <1>6, <2>1
    <2>3. Aged(s, rest, laps)'
      BY <1>3, <1>5, <2>2 DEF Aged, e, j
    <2> QED
      BY <2>3
  <1>8. CASE now + 1 = ClkSpan
    <2>1. now' = 0
      BY <1>1, <1>8
    <2>2. e = now' + (Lease + rest - j) + (laps + ClkSpan)
      BY <1>1, <1>5, <1>6, <1>8, <2>1
    <2>3. laps # ClkSpan
      BY <1>1, <1>5, <1>6, <1>8
    <2>4. laps + ClkSpan \in Int /\ laps + ClkSpan \in {0 - ClkSpan, 0, ClkSpan}
      BY <1>5, <2>3
    <2>5. Aged(s, rest, laps + ClkSpan)'
      BY <1>3, <2>2, <2>4 DEF Aged, e, j
    <2> QED
      BY <2>4, <2>5
  <1> QED
    BY <1>1, <1>7, <1>8

LEMMA AgeCorrect == Spec => []AgeInv
  <1>1. Init => AgeInv
    <2> SUFFICES ASSUME Init, NEW s \in Slots PROVE ~(idle[s] < ClkSpan)
      BY DEF AgeInv
    <2> QED
      BY ConstantTypes DEF Init
  <1>2. TypeOK /\ AgeInv /\ [Next]_vars => AgeInv'
    <2> SUFFICES ASSUME TypeOK, AgeInv, [Next]_vars PROVE AgeInv'
      OBVIOUS
    <2>1. ASSUME NEW c \in Clients, Discover(c) \/ Renew(c) PROVE AgeInv'
      BY <2>1 DEF Discover, Renew, AgeInv, Aged, table, history
    <2>2. CASE UNCHANGED vars
      BY <2>2 DEF AgeInv, Aged, vars, table, history
    <2> QED
      BY <2>1, <2>2, AgeRequest, AgeTick DEF Next
  <1> QED
    BY <1>1, <1>2, TypeCorrect, PTL DEF Spec

\* An entry that does not look expired is in its lease, or more than half
\* the span past its end.
LEMMA LooksAlive ==
  ASSUME TypeOK, AgeInv, NEW s \in Slots, ~Expired(s)
  PROVE  idle[s] < Lease + Grain \/ idle[s] > Lease + ClkSpan \div 2
  <1> USE ConstantTypes
  <1> DEFINE half == ClkSpan \div 2
  <1>1. half \in Nat /\ ClkSpan = half + half /\ Lease + Grain < half
    <2>1. PICK m \in Nat \ {0} : ClkSpan = 2 * (Grain * m) /\ ClkSpan \div 2 = Grain * m
      BY Grains
    <2>2. Grain * m \in Nat
      OBVIOUS
    <2> QED
      BY <2>1, <2>2
  <1>2. now \in 0..(ClkSpan - 1) /\ idle[s] \in 0..ClkSpan /\ expiry[s] \in Nat
    BY DEF TypeOK
  <1> HIDE DEF half
  <1>3. CASE idle[s] = ClkSpan
    BY <1>1, <1>3 DEF half
  <1>4. CASE idle[s] < ClkSpan
    <2>1. PICK rest \in 0..(Grain - 1), laps \in Int : Aged(s, rest, laps)
      BY <1>4 DEF AgeInv
    <2> DEFINE e == expiry[s] * Grain
               i == idle[s]
               x == ClkSpan + e + Grain - 1 - now
               y == Lease + rest - i
    <2>2. e \in Nat
      BY <1>2
    <2>3. e + Grain - 1 = now + y + laps /\ laps \in {0 - ClkSpan, 0, ClkSpan}
      BY <2>1 DEF Aged, End
    <2>4. x % ClkSpan < half
      <3>1. x \in Int
        BY <1>2, <2>2
      <3>2. x % ClkSpan \in Int
        BY <3>1
      <3> QED
        BY <1>1, <3>2 DEF Expired, half
    <2>5. i \in Nat /\ i < ClkSpan
      BY <1>2, <1>4
    <2> HIDE DEF e, i
    <2>6. y \in Int /\ 0 - ClkSpan < y /\ y < ClkSpan
      BY <1>1, <2>5
    <2>7. x = ClkSpan + y + laps
      BY <1>2, <2>2, <2>3, <2>6
    <2> HIDE DEF x
    <2>8. CASE 0 <= y
      BY <2>5, <2>8 DEF i
    <2>9. CASE y < 0
      <3> DEFINE z == y + ClkSpan
      <3>1. z \in 0..(ClkSpan - 1)
        BY <2>6, <2>9
      <3>2. x \in {z - ClkSpan, z, z + ClkSpan}
        BY <2>3, <2>6, <2>7
      <3> HIDE DEF z
      <3>3. x % ClkSpan = z
        BY <3>1, <3>2
      <3>4. y + ClkSpan < half
        BY <2>4, <3>3 DEF z
      <3>5. i > Lease + half
        BY <1>1, <2>5, <3>4
      <3> QED
        BY <3>5 DEF i, half
    <2> QED
      BY <2>6, <2>8, <2>9
  <1> QED
    BY <1>2, <1>3, <1>4

(***************************************************************************)
(* A DHCPDISCOVER stays unanswered only when every address was             *)
(* acknowledged less than a lease and a grain ago, or so long ago that its *)
(* expiry time seems to lie ahead: what the signed comparison of 32 bits   *)
(* costs, and no more.                                                     *)
(***************************************************************************)
THEOREM RefusalsAreDue == Spec => RefusedOnlyIfTaken
  <1>1. ASSUME TypeOK, AgeInv, NEW c \in Clients, Discover(c), reply'.type = "ignored", NEW s \in Slots
        PROVE  idle[s] < Lease + Grain \/ idle[s] > Lease + ClkSpan \div 2
    <2> DEFINE own    == {o \in Slots : mac[o] = c}
               unused == {o \in Slots : Free(o) \/ Expired(o)}
               before == {u \in unused : \A o \in own : u < o}
    <2>1. \/ own # {} /\ reply' = [type |-> "offer", to |-> c, slot |-> Min(own)]
          \/ /\ own = {} /\ before # {}
             /\ reply' = [type |-> "offer", to |-> c, slot |-> Min(before)]
          \/ own = {} /\ before = {}
      BY <1>1 DEF Discover, Answer
    <2>2. own = {} /\ before = {}
      BY <1>1, <2>1
    <2>3. ~Expired(s)
      BY <2>2
    <2> QED
      BY <1>1, <2>3, LooksAlive
  <1>2. TypeOK /\ AgeInv =>
          [\A c \in Clients : Discover(c) /\ reply'.type = "ignored" =>
             \A s \in Slots : idle[s] < Lease + Grain \/ idle[s] > Lease + ClkSpan \div 2]_vars
    BY <1>1
  <1> QED
    BY TypeCorrect, AgeCorrect, <1>2, PTL DEF RefusedOnlyIfTaken
=============================================================================
