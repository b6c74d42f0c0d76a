---------------------------- MODULE NetTheorems ------------------------------
(***************************************************************************)
(* The network code, for every number of processes, hosts, slots and       *)
(* buffers: no path through UDP, ICMP, ARP and IP loses a buffer or frees  *)
(* one twice, a receiver and the input process do not miss each other, and *)
(* arp_resolve() neither returns a wrong address nor leaves an entry       *)
(* pending for ever.                                                       *)
(***************************************************************************)
EXTENDS Net, SharedLemmas

-----------------------------------------------------------------------------
(* The invariants.  A fault ends the model, so that all of them are about  *)
(* states without one.                                                     *)

\* Who may wait for a buffer.
Everyone == Callers \cup {NETIN}

Dests == Hosts \cup {OURSELF}

\* What the process of a call may be in the middle of.
InRecv(tab, slots) == [at : {"recv"}, tab : {tab}, slot : slots]
InArp == [at : {"arp"}, dest : Dests, slot : 1 .. ARP_SIZ, tries : Nat]
InGetbuf == [at : {"getbuf"}, proto : {"udp", "icmp"}, dest : Dests]
CallState ==
    {USER, [at |-> "wait"]} \cup InRecv("udp", 1 .. UDP_SLOTS) \cup InRecv("icmp", 1 .. ICMP_SLOTS)
      \cup InArp \cup InGetbuf

\* Entries of the tables; no packet is in the queue of a free one.
UdpRecord ==
    [state : {"FREE", "USED", "RECV"}, remip : Hosts \cup {ANY}, count : Nat,
     pid : Callers \cup {NONE}, owner : Callers \cup {NONE}]
IcmpRecord ==
    [state : {"FREE", "USED", "RECV"}, remip : Hosts \cup {ANY}, count : Nat, head : Nat,
     pid : Callers \cup {NONE}, owner : Callers \cup {NONE}]
UdpEntry == {e \in UdpRecord : e.state = "FREE" => e.count = 0}
IcmpEntry == {e \in IcmpRecord : e.state = "FREE" => e.count = 0}
ArpEntry ==
    [state : {"FREE", "PENDING", "RESOLVED"}, addr : Dests \cup {NONE}, haddr : Dests \cup {NONE},
     pid : Callers \cup {NONE}]

NetinPlaces == {"next", "getbuf", "read", "mkpkt", "queued"}

TablesTyped ==
    /\ udptab \in [1 .. UDP_SLOTS -> UdpEntry]
    /\ icmptab \in [1 .. ICMP_SLOTS -> IcmpEntry]
    /\ arpcache \in [1 .. ARP_SIZ -> ArpEntry]

CallsTyped ==
    /\ iqueue \in Seq(Dests)
    /\ doing \in [Callers -> CallState]
    /\ prmsg \in [Callers -> {NONE, "OK", "other"}]
    /\ netin \in [at : NetinPlaces, from : Dests \cup {NONE}]
    /\ netin.at = "mkpkt" => netin.from \in Dests

\* The processes that have called getbuf() and not returned from it.
Getting == {p \in Callers : doing[p].at = "getbuf"}
NetinGetting == IF netin.at \in {"getbuf", "mkpkt"} THEN {NETIN} ELSE {}
Seekers == Getting \cup NetinGetting

\* Processes with a buffer that nobody else has to give them.
Resolving == {p \in Callers : doing[p].at = "arp"}
NetinHas == IF netin.at \in {"read", "queued", "mkpkt"} THEN 1 ELSE 0

PoolSound == SemOf(pool, Everyone, Seekers) /\ pool.used

Conserved ==
    permits(pool, Seekers) + Queued + Len(iqueue) + NetinHas + Cardinality(Resolving) = nbufs

Sound == TablesTyped /\ CallsTyped /\ PoolSound /\ Conserved

NetInv == fault = "none" => Sound

\* A process in udp_recv() has the slot to itself.  Until it has a message, it
\* is the one that udp_in() will tell; once it is told, the packet is there.
RecvSound ==
    \A p \in Callers : doing[p].at = "recv" /\ doing[p].tab = "udp" =>
       LET e == udptab[doing[p].slot] IN
          /\ e.state # "FREE" /\ e.owner = p
          /\ prmsg[p] = NONE => e.state = "RECV" /\ e.pid = p /\ e.count = 0
          /\ prmsg[p] = "OK" => e.count > 0

\* The process a slot names waits for it.
TellsWaiter(tab, name) ==
    \A s \in DOMAIN tab : tab[s].state = "RECV" =>
       LET q == tab[s].pid IN
          q \in Callers /\ doing[q].at = "recv" /\ doing[q].tab = name /\ doing[q].slot = s

\* The process a pending entry names waits for it, without a message.
PendingSound ==
    \A s \in DOMAIN arpcache : arpcache[s].state = "PENDING" =>
       LET q == arpcache[s].pid IN
          q \in Callers /\ doing[q].at = "arp" /\ doing[q].slot = s /\ prmsg[q] = NONE

\* The entry of a process in arp_resolve() is pending until it has a message,
\* and then resolved unless it was given away.
ResolvingSound ==
    \A p \in Resolving :
       LET e == arpcache[doing[p].slot] IN
          IF prmsg[p] = NONE THEN e.state = "PENDING" /\ e.pid = p
          ELSE e.pid = p => e.haddr = e.addr

WaitSound ==
    /\ RecvSound /\ TellsWaiter(udptab, "udp") /\ TellsWaiter(icmptab, "icmp")
    /\ PendingSound /\ ResolvingSound

\* A queue of UDP is not read where no packet is.
ServedInv == fault # "udp" /\ (fault = "none" => Sound /\ WaitSound)

-----------------------------------------------------------------------------
(* Sets of processes, and packets in the queues.                           *)

\* The processes that use the network are finitely many.
LEMMA EveryoneFinite ==
    /\ IsFiniteSet(Callers) /\ IsFiniteSet(Everyone)
    /\ IPOUT \in Callers /\ NETIN \notin Callers /\ NONE \notin Callers
<1>1. IsFiniteSet(Callers)
  BY NetAssumption, FS_AddElement DEF Callers
<1>2. IsFiniteSet(Everyone)
  BY <1>1, FS_AddElement DEF Everyone
<1> QED BY <1>1, <1>2, NetAssumption DEF Callers

\* The first slot with a property is one of them.
LEMMA FirstIn ==
    ASSUME NEW T, T \in SUBSET Nat
    PROVE  T # {} => First(T) \in T
<1> SUFFICES ASSUME T # {} PROVE First(T) \in T
  OBVIOUS
<1>1. \E m \in T : \A n \in T : m <= n
  BY LeastNat
<1> QED BY <1>1 DEF First

\* The same for slots of a table.
LEMMA FirstSlot ==
    ASSUME NEW n \in Nat, NEW T, T \subseteq 1 .. n, NEW f, f = First(T)
    PROVE  (f = 0 /\ T = {}) \/ (f # 0 /\ f \in T /\ f \in 1 .. n)
<1>1. CASE T = {}
  BY <1>1 DEF First
<1>2. CASE T # {}
  <2>1. f \in T
    <3>1. T \in SUBSET Nat
      OBVIOUS
    <3> QED BY <1>2, <3>1, FirstIn
  <2> QED BY <2>1
<1> QED BY <1>1, <1>2

\* The places of one slot.
LEMMA PlacesOfSlot ==
    ASSUME NEW i, NEW c \in Nat
    PROVE  IsFiniteSet({i} \X (1 .. c)) /\ Cardinality({i} \X (1 .. c)) = c
<1>1. IsFiniteSet({i}) /\ Cardinality({i}) = 1
  BY FS_Singleton
<1>2. IsFiniteSet(1 .. c) /\ Cardinality(1 .. c) = c
  BY FS_Interval
<1>3. IsFiniteSet({i} \X (1 .. c)) /\ Cardinality({i} \X (1 .. c)) = Cardinality({i}) * Cardinality(1 .. c)
  BY <1>1, <1>2, FS_Product
<1> QED BY <1>1, <1>2, <1>3

\* The counts of a table with n slots are numbers.
Counted(tab, n) == DOMAIN tab = 1 .. n /\ \A i \in 1 .. n : tab[i].count \in Nat

\* Tables hold finitely many packets.
LEMMA PlacesFinite ==
    ASSUME NEW n \in Nat, NEW tab, Counted(tab, n)
    PROVE  IsFiniteSet(Places(tab)) /\ Cardinality(Places(tab)) \in Nat
<1> DEFINE f == [i \in 1 .. n |-> {i} \X (1 .. tab[i].count)]
           R == {{i} \X (1 .. tab[i].count) : i \in 1 .. n}
<1>1. IsFiniteSet(1 .. n)
  BY FS_Interval
<1>2. \A Z \in R : IsFiniteSet(Z)
  <2>1. \A i \in 1 .. n : IsFiniteSet({i} \X (1 .. tab[i].count))
    BY PlacesOfSlot DEF Counted
  <2> QED BY <2>1
<1>3. f \in [1 .. n -> R] /\ \A r \in R : \E i \in 1 .. n : f[i] = r
  OBVIOUS
<1>4. Places(tab) = UNION R
  BY DEF Places, Counted
<1> HIDE DEF f, R
<1>5. f \in Surjection(1 .. n, R)
  BY <1>3 DEF Surjection
<1>6. IsFiniteSet(R)
  BY <1>1, <1>5, FS_Surjection
<1>7. IsFiniteSet(Places(tab))
  BY <1>2, <1>4, <1>6, FS_UNION
<1> QED BY <1>7, FS_CardinalityType

\* The packets of a table when one slot changes.
LEMMA PlacesChange ==
    ASSUME NEW n \in Nat, NEW tab, Counted(tab, n), NEW new, Counted(new, n),
           NEW s \in 1 .. n, \A i \in (1 .. n) \ {s} : new[i].count = tab[i].count
    PROVE  Cardinality(Places(new)) + tab[s].count = Cardinality(Places(tab)) + new[s].count
<1> DEFINE A == {s} \X (1 .. tab[s].count)
           B == {s} \X (1 .. new[s].count)
           R == {x \in Places(tab) : x[1] # s}
<1>1. IsFiniteSet(A) /\ Cardinality(A) = tab[s].count
  BY PlacesOfSlot DEF Counted
<1>2. IsFiniteSet(B) /\ Cardinality(B) = new[s].count
  BY PlacesOfSlot DEF Counted
<1>3. \A x \in Places(tab) : x[1] \in 1 .. n /\ x \in {x[1]} \X (1 .. tab[x[1]].count)
  BY DEF Places, Counted
<1>4. \A x \in Places(new) : x[1] \in 1 .. n /\ x \in {x[1]} \X (1 .. new[x[1]].count)
  BY DEF Places, Counted
<1>5. \A x : x \in A => x \in Places(tab) /\ x[1] = s
  BY DEF Places, Counted
<1>6. \A x : x \in B => x \in Places(new) /\ x[1] = s
  BY DEF Places, Counted
<1>7. Places(tab) = R \cup A /\ R \cap A = {}
  <2>1. \A x \in Places(tab) : x \in R \/ x \in A
    BY <1>3
  <2>2. \A x \in R : x \in Places(tab) /\ x[1] # s
    OBVIOUS
  <2> HIDE DEF A, R
  <2> QED BY <1>5, <2>1, <2>2
<1>8. \A x \in Places(new) : x \in R \/ x \in B
  <2> SUFFICES ASSUME NEW x \in Places(new), x[1] # s PROVE x \in R
    BY <1>4
  <2>1. x[1] \in 1 .. n /\ x \in {x[1]} \X (1 .. tab[x[1]].count)
    BY <1>4
  <2> QED BY <2>1 DEF Places, Counted
<1>9. \A x \in R : x \in Places(new) /\ x[1] # s
  <2> SUFFICES ASSUME NEW x \in Places(tab), x[1] # s PROVE x \in Places(new)
    OBVIOUS
  <2>1. x[1] \in 1 .. n /\ x \in {x[1]} \X (1 .. new[x[1]].count)
    BY <1>3
  <2> QED BY <2>1 DEF Places, Counted
<1>10. Places(new) = R \cup B /\ R \cap B = {}
  <2> HIDE DEF B, R
  <2> QED BY <1>6, <1>8, <1>9
<1>11. IsFiniteSet(Places(tab)) /\ R \subseteq Places(tab)
  BY PlacesFinite
<1> HIDE DEF A, B, R
<1>12. IsFiniteSet(R) /\ Cardinality(R) \in Nat
  BY <1>11, FS_Subset, FS_CardinalityType
<1>13. Cardinality(Places(tab)) = Cardinality(R) + tab[s].count
  <2>1. Cardinality(R \cup A) = Cardinality(R) + Cardinality(A) - Cardinality(R \cap A)
    BY <1>1, <1>12, FS_Union
  <2>2. Cardinality(R \cap A) = 0 /\ tab[s].count \in Nat
    BY <1>7, FS_EmptySet DEF Counted
  <2> QED BY <1>1, <1>7, <1>12, <2>1, <2>2
<1>14. Cardinality(Places(new)) = Cardinality(R) + new[s].count
  <2>1. Cardinality(R \cup B) = Cardinality(R) + Cardinality(B) - Cardinality(R \cap B)
    BY <1>2, <1>12, FS_Union
  <2>2. Cardinality(R \cap B) = 0 /\ new[s].count \in Nat
    BY <1>10, FS_EmptySet DEF Counted
  <2> QED BY <1>2, <1>10, <1>12, <2>1, <2>2
<1> QED BY <1>12, <1>13, <1>14 DEF Counted

-----------------------------------------------------------------------------
(* What the parts of a step do.                                            *)

\* What an entry of each kind says, by where it is.
LEMMA CallFacts ==
    ASSUME NEW d \in CallState
    PROVE  /\ d.at \in {"user", "wait", "recv", "arp", "getbuf"}
           /\ d.at = "recv" => d.tab \in {"udp", "icmp"}
           /\ d.at = "recv" /\ d.tab = "udp" => d.slot \in 1 .. UDP_SLOTS
           /\ d.at = "recv" /\ d.tab = "icmp" => d.slot \in 1 .. ICMP_SLOTS
           /\ d.at = "arp" => d \in InArp /\ d.dest \in Dests /\ d.slot \in 1 .. ARP_SIZ
           /\ d.at = "getbuf" => d.dest \in Dests
BY DEF CallState, USER, InRecv, InArp, InGetbuf

\* p goes on to be in the middle of something else.
LEMMA Moves ==
    ASSUME CallsTyped, NEW p \in Callers, NEW w \in CallState, does(p, w)
    PROVE  /\ doing' \in [Callers -> CallState] /\ doing'[p] = w
           /\ \A q \in Callers \ {p} : doing'[q] = doing[q]
           /\ Getting' = IF w.at = "getbuf" THEN Getting \cup {p} ELSE Getting \ {p}
           /\ Resolving' = IF w.at = "arp" THEN Resolving \cup {p} ELSE Resolving \ {p}
<1>1. /\ doing' \in [Callers -> CallState] /\ doing'[p] = w
      /\ \A q \in Callers \ {p} : doing'[q] = doing[q]
  BY DEF CallsTyped, does
<1> QED BY <1>1 DEF Getting, Resolving

\* How many resolve an address then.
LEMMA MoveCount ==
    ASSUME CallsTyped, NEW p \in Callers, NEW w \in CallState, does(p, w)
    PROVE  Cardinality(Resolving') + (IF doing[p].at = "arp" THEN 1 ELSE 0)
             = Cardinality(Resolving) + (IF w.at = "arp" THEN 1 ELSE 0)
<1>1. Resolving' = IF w.at = "arp" THEN Resolving \cup {p} ELSE Resolving \ {p}
  BY Moves
<1>2. doing[p].at = "arp" <=> p \in Resolving
  BY DEF Resolving
<1> DEFINE R == Resolving
           n == Resolving'
<1>3. IsFiniteSet(R) /\ Cardinality(R) \in Nat
  BY EveryoneFinite, FS_Subset, FS_CardinalityType DEF Resolving
<1>4. n = IF w.at = "arp" THEN R \cup {p} ELSE R \ {p}
  BY <1>1
<1>5. Cardinality(R \cup {p}) = IF p \in R THEN Cardinality(R) ELSE Cardinality(R) + 1
  BY <1>3, FS_AddElement
<1>6. Cardinality(R \ {p}) = IF p \in R THEN Cardinality(R) - 1 ELSE Cardinality(R)
  BY <1>3, FS_RemoveElement
<1>7. Cardinality(n) + (IF p \in R THEN 1 ELSE 0) = Cardinality(R) + (IF w.at = "arp" THEN 1 ELSE 0)
  <2> HIDE DEF R, n
  <2>1. CASE w.at = "arp"
    BY <1>3, <1>4, <1>5, <2>1
  <2>2. CASE w.at # "arp"
    BY <1>3, <1>4, <1>6, <2>2
  <2> QED BY <2>1, <2>2
<1> QED BY <1>2, <1>7

\* Slot s of UDP becomes an entry with the state st, c packets, and the
\* processes q that waits and o that owns it.
UdpSlot(s, st, c, q, o) ==
    /\ udptab' \in [1 .. UDP_SLOTS -> UdpEntry]
    /\ udptab'[s].state = st /\ udptab'[s].count = c /\ udptab'[s].pid = q /\ udptab'[s].owner = o
    /\ \A i \in (1 .. UDP_SLOTS) \ {s} : udptab'[i] = udptab[i]

\* The same for ICMP.
IcmpSlot(s, st, c, q, o) ==
    /\ icmptab' \in [1 .. ICMP_SLOTS -> IcmpEntry]
    /\ icmptab'[s].state = st /\ icmptab'[s].count = c /\ icmptab'[s].pid = q /\ icmptab'[s].owner = o
    /\ \A i \in (1 .. ICMP_SLOTS) \ {s} : icmptab'[i] = icmptab[i]

\* Packets in the queues of UDP then.
LEMMA UdpPlaces ==
    ASSUME TablesTyped, NEW s \in 1 .. UDP_SLOTS, NEW st, NEW c, NEW q, NEW o, UdpSlot(s, st, c, q, o)
    PROVE  Cardinality(Places(udptab')) + udptab[s].count = Cardinality(Places(udptab)) + c
<1> DEFINE new == udptab'
           n == UDP_SLOTS
<1>1. n \in Nat
  BY NetAssumption
<1>2. /\ Counted(udptab, n) /\ Counted(new, n)
      /\ \A i \in (1 .. n) \ {s} : new[i].count = udptab[i].count
      /\ new[s].count = c /\ s \in 1 .. n
  BY DEF TablesTyped, UdpSlot, UdpEntry, UdpRecord, Counted
<1> HIDE DEF new, n
<1>3. Cardinality(Places(new)) + udptab[s].count = Cardinality(Places(udptab)) + new[s].count
  BY <1>1, <1>2, PlacesChange
<1> QED BY <1>2, <1>3 DEF new

\* Packets in the queues of ICMP then.
LEMMA IcmpPlaces ==
    ASSUME TablesTyped, NEW s \in 1 .. ICMP_SLOTS, NEW st, NEW c, NEW q, NEW o, IcmpSlot(s, st, c, q, o)
    PROVE  Cardinality(Places(icmptab')) + icmptab[s].count = Cardinality(Places(icmptab)) + c
<1> DEFINE new == icmptab'
           n == ICMP_SLOTS
<1>1. n \in Nat
  BY NetAssumption
<1>2. /\ Counted(icmptab, n) /\ Counted(new, n)
      /\ \A i \in (1 .. n) \ {s} : new[i].count = icmptab[i].count
      /\ new[s].count = c /\ s \in 1 .. n
  BY DEF TablesTyped, IcmpSlot, IcmpEntry, IcmpRecord, Counted
<1> HIDE DEF new, n
<1>3. Cardinality(Places(new)) + icmptab[s].count = Cardinality(Places(icmptab)) + new[s].count
  BY <1>1, <1>2, PlacesChange
<1> QED BY <1>2, <1>3 DEF new

\* All buffers, but for the free ones.
Elsewhere ==
    Cardinality(Places(udptab)) + Cardinality(Places(icmptab)) + Len(iqueue) + NetinHas
      + Cardinality(Resolving)

\* The counts are numbers.
LEMMA Counts ==
    ASSUME TablesTyped, CallsTyped
    PROVE  /\ Cardinality(Places(udptab)) \in Nat /\ Cardinality(Places(icmptab)) \in Nat
           /\ Len(iqueue) \in Nat /\ NetinHas \in Nat /\ Cardinality(Resolving) \in Nat
           /\ Elsewhere \in Nat
<1>1. UDP_SLOTS \in Nat /\ ICMP_SLOTS \in Nat
  BY NetAssumption
<1>2. Counted(udptab, UDP_SLOTS) /\ Counted(icmptab, ICMP_SLOTS)
  BY DEF TablesTyped, UdpEntry, UdpRecord, IcmpEntry, IcmpRecord, Counted
<1>3. Cardinality(Places(udptab)) \in Nat /\ Cardinality(Places(icmptab)) \in Nat
  BY <1>1, <1>2, PlacesFinite
<1>4. Cardinality(Resolving) \in Nat
  BY EveryoneFinite, FS_Subset, FS_CardinalityType DEF Resolving
<1>5. Len(iqueue) \in Nat /\ NetinHas \in Nat
  BY DEF CallsTyped, NetinHas
<1> QED BY <1>3, <1>4, <1>5 DEF Elsewhere

\* So they are after a step.
LEMMA CountsNext ==
    ASSUME TablesTyped', CallsTyped'
    PROVE  /\ Cardinality(Places(udptab')) \in Nat /\ Cardinality(Places(icmptab')) \in Nat
           /\ Len(iqueue') \in Nat /\ NetinHas' \in Nat /\ Cardinality(Resolving') \in Nat
           /\ Elsewhere' \in Nat
<1>1. UDP_SLOTS \in Nat /\ ICMP_SLOTS \in Nat
  BY NetAssumption
<1>2. Counted(udptab', UDP_SLOTS) /\ Counted(icmptab', ICMP_SLOTS)
  BY DEF TablesTyped, UdpEntry, UdpRecord, IcmpEntry, IcmpRecord, Counted
<1>3. Cardinality(Places(udptab')) \in Nat /\ Cardinality(Places(icmptab')) \in Nat
  BY <1>1, <1>2, PlacesFinite
<1>4. Cardinality(Resolving') \in Nat
  BY EveryoneFinite, FS_Subset, FS_CardinalityType DEF Resolving
<1>5. Len(iqueue') \in Nat /\ NetinHas' \in Nat
  BY DEF CallsTyped, NetinHas
<1> QED BY <1>3, <1>4, <1>5 DEF Elsewhere

\* A step is sound when it keeps the sum.
LEMMA Rebalance ==
    ASSUME Sound, TablesTyped', CallsTyped', SemOf(pool', Everyone, Seekers'), pool'.used,
           permits(pool', Seekers') + Elsewhere' = permits(pool, Seekers) + Elsewhere
    PROVE  Sound'
<1>1. permits(pool, Seekers) + Elsewhere = nbufs
  <2>1. permits(pool, Seekers) \in Nat
    BY EveryoneFinite, PermitsNat DEF Sound, PoolSound
  <2> QED BY <2>1, Counts DEF Sound, Conserved, Queued, Elsewhere
<1>2. permits(pool', Seekers') \in Nat
  BY EveryoneFinite, PermitsNat
<1>3. permits(pool', Seekers') + Queued' + Len(iqueue') + NetinHas' + Cardinality(Resolving')
        = permits(pool', Seekers') + Elsewhere'
  BY <1>2, CountsNext DEF Elsewhere, Queued
<1> QED BY <1>1, <1>3 DEF Sound, PoolSound, Conserved

\* A step that frees n buffers, m of which somebody had been given.
LEMMA Freed ==
    ASSUME Sound, NEW n \in Nat, NEW W, NEW m \in Nat, SemOf(pool, Everyone, W),
           permits(pool, Seekers) = permits(pool, W) + m,
           pool' = signaledN(pool, n), Seekers' = W, TablesTyped', CallsTyped',
           Elsewhere' + n = Elsewhere + m
    PROVE  Sound'
<1>1. /\ SemOf(signaledN(pool, n), Everyone, W) /\ signaledN(pool, n).used
      /\ permits(signaledN(pool, n), W) = permits(pool, W) + n
  BY EveryoneFinite, PermitsSignaledN DEF Sound, PoolSound
<1>2. permits(pool, W) \in Nat
  BY EveryoneFinite, PermitsNat
<1>3. Elsewhere \in Nat /\ Elsewhere' \in Nat
  BY Counts, CountsNext DEF Sound
<1>4. permits(pool', Seekers') = permits(pool, W) + n
  BY <1>1
<1>5. permits(pool', Seekers') + Elsewhere' = permits(pool, Seekers) + Elsewhere
  <2> DEFINE a == permits(pool, Seekers)
             b == permits(pool, W)
             c == permits(pool', Seekers')
             d == Elsewhere
             e == Elsewhere'
  <2>1. a = b + m /\ c = b + n /\ e + n = d + m /\ b \in Nat /\ d \in Nat /\ e \in Nat
    BY <1>2, <1>3, <1>4
  <2> HIDE DEF a, b, c, d, e
  <2>2. c + e = a + d
    BY <2>1
  <2> QED BY <2>2 DEF a, c, d, e
<1> QED BY <1>1, <1>5, Rebalance

\* A step that frees n buffers nobody waited for.
LEMMA FreedOnly ==
    ASSUME Sound, NEW n \in Nat, pool' = signaledN(pool, n), Seekers' = Seekers,
           TablesTyped', CallsTyped', Elsewhere' + n = Elsewhere
    PROVE  Sound'
<1>1. SemOf(pool, Everyone, Seekers) /\ permits(pool, Seekers) \in Nat
  BY EveryoneFinite, PermitsNat DEF Sound, PoolSound
<1>2. permits(pool, Seekers) = permits(pool, Seekers) + 0
  BY <1>1
<1>3. Elsewhere' + n = Elsewhere + 0 /\ 0 \in Nat
  BY Counts DEF Sound
<1> QED BY <1>1, <1>2, <1>3, Freed

\* A step of a process that was given a buffer.
LEMMA Takes ==
    ASSUME Sound, NEW p \in Seekers, ~waitsOn(p, pool)
    PROVE  /\ SemOf(pool, Everyone, Seekers \ {p})
           /\ permits(pool, Seekers) = permits(pool, Seekers \ {p}) + 1
BY EveryoneFinite, PermitsTaken DEF Sound, PoolSound

\* A step that leaves the pool alone.
LEMMA PoolKept ==
    ASSUME Sound, pool' = pool, Seekers' = Seekers, TablesTyped', CallsTyped', Elsewhere' = Elsewhere
    PROVE  Sound'
<1>1. SemOf(pool', Everyone, Seekers') /\ pool'.used
  BY DEF Sound, PoolSound
<1> QED BY <1>1, Rebalance

\* A step of a process that was given a buffer and keeps it.
LEMMA TakenOnly ==
    ASSUME Sound, NEW p \in Seekers, ~waitsOn(p, pool), pool' = pool, Seekers' = Seekers \ {p},
           TablesTyped', CallsTyped', Elsewhere' = Elsewhere + 1
    PROVE  Sound'
<1>1. /\ SemOf(pool, Everyone, Seekers \ {p})
      /\ permits(pool, Seekers) = permits(pool, Seekers \ {p}) + 1
  BY Takes
<1>2. SemOf(pool', Everyone, Seekers') /\ pool'.used
  BY <1>1 DEF Sound, PoolSound
<1>3. permits(pool, Seekers \ {p}) \in Nat /\ Elsewhere \in Nat
  BY <1>1, EveryoneFinite, PermitsNat, Counts DEF Sound
<1>4. permits(pool', Seekers') + Elsewhere' = permits(pool, Seekers) + Elsewhere
  BY <1>1, <1>3
<1> QED BY <1>2, <1>4, Rebalance

\* getbuf(), which may have to wait.
LEMMA Seeks ==
    ASSUME Sound, NEW p \in Everyone, p \notin Seekers, pool' = waitbuf(p),
           Seekers' = Seekers \cup {p}, TablesTyped', CallsTyped', Elsewhere' = Elsewhere
    PROVE  Sound'
<1>1. SemOf(pool, Everyone, Seekers) /\ pool.used
  BY DEF Sound, PoolSound
<1>2. p \in Everyone \ Seekers /\ pool' = IF passes(pool) THEN passed(pool) ELSE blocked(pool, p)
  BY DEF waitbuf
<1>3. /\ SemOf(pool', Everyone, Seekers \cup {p}) /\ pool'.used
      /\ permits(pool', Seekers \cup {p}) = permits(pool, Seekers)
  BY <1>1, <1>2, EveryoneFinite, PermitsWait
<1> QED BY <1>3, Rebalance

-----------------------------------------------------------------------------
(* What each operation does to its table.                                  *)

\* Slots that match a packet are slots.
LEMMA MatchingSlot ==
    ASSUME TablesTyped, NEW h, NEW s, s = First(matching(h)), s # 0
    PROVE  s \in 1 .. UDP_SLOTS /\ udptab[s].state # "FREE"
<1>1. UDP_SLOTS \in Nat /\ matching(h) \subseteq 1 .. UDP_SLOTS
  BY NetAssumption DEF TablesTyped, matching
<1>2. s \in matching(h) /\ s \in 1 .. UDP_SLOTS
  BY <1>1, FirstSlot
<1> QED BY <1>2 DEF matching

\* Slot s gets the state st, the count c and the waiter q.
LEMMA UdpSet ==
    ASSUME TablesTyped, NEW s \in 1 .. UDP_SLOTS, NEW st \in {"FREE", "USED", "RECV"}, NEW c \in Nat,
           NEW q \in Callers \cup {NONE}, st = "FREE" => c = 0,
           udptab' = [udptab EXCEPT ![s] = [udptab[s] EXCEPT !.state = st, !.count = c, !.pid = q]]
    PROVE  UdpSlot(s, st, c, q, udptab[s].owner)
<1> DEFINE e == [udptab[s] EXCEPT !.state = st, !.count = c, !.pid = q]
<1>1. /\ e \in UdpRecord /\ e.state = st /\ e.count = c /\ e.pid = q /\ e.owner = udptab[s].owner
  BY DEF TablesTyped, UdpEntry, UdpRecord
<1>2. e \in UdpEntry
  BY <1>1 DEF UdpEntry
<1>3. udptab' = [udptab EXCEPT ![s] = e]
  OBVIOUS
<1> HIDE DEF e
<1> QED BY <1>1, <1>2, <1>3 DEF TablesTyped, UdpSlot

\* udp_in() puts a packet into slot s.
LEMMA UdpInSlot ==
    ASSUME TablesTyped, NEW s \in 1 .. UDP_SLOTS,
           udptab' = [udptab EXCEPT ![s].count = @ + 1, ![s].state = "USED"]
    PROVE  UdpSlot(s, "USED", udptab[s].count + 1, udptab[s].pid, udptab[s].owner)
<1> DEFINE c == udptab[s].count + 1
           q == udptab[s].pid
<1>1. c \in Nat /\ q \in Callers \cup {NONE}
  BY DEF TablesTyped, UdpEntry, UdpRecord
<1>2. udptab' = [udptab EXCEPT ![s] = [udptab[s] EXCEPT !.state = "USED", !.count = c, !.pid = q]]
  BY DEF TablesTyped, UdpEntry, UdpRecord
<1> HIDE DEF c, q
<1>3. UdpSlot(s, "USED", c, q, udptab[s].owner)
  BY <1>1, <1>2, UdpSet
<1> QED BY <1>3 DEF c, q

\* udp_recv() takes one out.
LEMMA UdpTakeSlot ==
    ASSUME TablesTyped, NEW s \in 1 .. UDP_SLOTS, udpTake(s), fault = "none", fault' = "none"
    PROVE  /\ udptab[s].count > 0
           /\ UdpSlot(s, "USED", udptab[s].count - 1, udptab[s].pid, udptab[s].owner)
<1>1. udptab[s].count \in Nat /\ udptab[s].count # 0 /\ udptab[s].pid \in Callers \cup {NONE}
  BY DEF TablesTyped, UdpEntry, UdpRecord, udpTake
<1> DEFINE c == udptab[s].count - 1
           q == udptab[s].pid
<1>2. c \in Nat /\ q \in Callers \cup {NONE}
  BY <1>1
<1>3. udptab' = [udptab EXCEPT ![s] = [udptab[s] EXCEPT !.state = "USED", !.count = c, !.pid = q]]
  BY DEF TablesTyped, UdpEntry, UdpRecord, udpTake
<1> HIDE DEF c, q
<1>4. UdpSlot(s, "USED", c, q, udptab[s].owner)
  BY <1>2, <1>3, UdpSet
<1> QED BY <1>1, <1>4 DEF c, q

\* A process starts to wait at slot s.
LEMMA UdpWaitSlot ==
    ASSUME TablesTyped, NEW s \in 1 .. UDP_SLOTS, NEW p \in Callers,
           udptab' = [udptab EXCEPT ![s].state = "RECV", ![s].pid = p]
    PROVE  UdpSlot(s, "RECV", udptab[s].count, p, udptab[s].owner)
<1> DEFINE c == udptab[s].count
           q == p
<1>1. c \in Nat /\ q \in Callers \cup {NONE}
  BY DEF TablesTyped, UdpEntry, UdpRecord
<1>2. udptab' = [udptab EXCEPT ![s] = [udptab[s] EXCEPT !.state = "RECV", !.count = c, !.pid = q]]
  BY DEF TablesTyped, UdpEntry, UdpRecord
<1> HIDE DEF c, q
<1>3. UdpSlot(s, "RECV", c, q, udptab[s].owner)
  BY <1>1, <1>2, UdpSet
<1> QED BY <1>3 DEF c, q

\* Its wait is over without a packet.
LEMMA UdpEndSlot ==
    ASSUME TablesTyped, NEW s \in 1 .. UDP_SLOTS, udptab' = [udptab EXCEPT ![s].state = "USED"]
    PROVE  UdpSlot(s, "USED", udptab[s].count, udptab[s].pid, udptab[s].owner)
<1> DEFINE c == udptab[s].count
           q == udptab[s].pid
<1>1. c \in Nat /\ q \in Callers \cup {NONE}
  BY DEF TablesTyped, UdpEntry, UdpRecord
<1>2. udptab' = [udptab EXCEPT ![s] = [udptab[s] EXCEPT !.state = "USED", !.count = c, !.pid = q]]
  BY DEF TablesTyped, UdpEntry, UdpRecord
<1> HIDE DEF c, q
<1>3. UdpSlot(s, "USED", c, q, udptab[s].owner)
  BY <1>1, <1>2, UdpSet
<1> QED BY <1>3 DEF c, q

\* udp_release()
LEMMA UdpReleaseSlot ==
    ASSUME TablesTyped, NEW s \in 1 .. UDP_SLOTS,
           udptab' = [udptab EXCEPT ![s].count = 0, ![s].state = "FREE"]
    PROVE  UdpSlot(s, "FREE", 0, udptab[s].pid, udptab[s].owner)
<1> DEFINE c == 0
           q == udptab[s].pid
<1>1. c = 0 /\ c \in Nat /\ q \in Callers \cup {NONE}
  BY DEF TablesTyped, UdpEntry, UdpRecord
<1>2. udptab' = [udptab EXCEPT ![s] = [udptab[s] EXCEPT !.state = "FREE", !.count = c, !.pid = q]]
  BY DEF TablesTyped, UdpEntry, UdpRecord
<1> HIDE DEF c, q
<1>3. UdpSlot(s, "FREE", c, q, udptab[s].owner)
  BY <1>1, <1>2, UdpSet
<1> QED BY <1>3 DEF c, q

\* udp_register() takes a free slot, in which there may be packets.
LEMMA UdpRegisterSlot ==
    ASSUME TablesTyped, NEW p \in Callers, NEW h \in Hosts \cup {ANY}, udp_register(p, h)
    PROVE  \E s \in 1 .. UDP_SLOTS : udptab[s].state = "FREE" /\ UdpSlot(s, "USED", 0, NONE, p)
<1> DEFINE T == {i \in DOMAIN udptab : udptab[i].state = "FREE"}
           s == First(T)
           e == [state |-> "USED", remip |-> h, count |-> 0, pid |-> NONE, owner |-> p]
<1>1. s # 0 /\ udptab' = [udptab EXCEPT ![s] = e]
  BY DEF udp_register
<1>2. UDP_SLOTS \in Nat /\ T \subseteq 1 .. UDP_SLOTS
  BY NetAssumption DEF TablesTyped
<1> HIDE DEF T
<1>3. s \in T /\ s \in 1 .. UDP_SLOTS
  BY <1>1, <1>2, FirstSlot
<1>4. e \in UdpEntry
  BY DEF UdpEntry, UdpRecord
<1> HIDE DEF s
<1>5. UdpSlot(s, "USED", 0, NONE, p)
  BY <1>1, <1>3, <1>4 DEF TablesTyped, UdpSlot
<1>6. udptab[s].state = "FREE"
  BY <1>3 DEF T
<1> QED BY <1>3, <1>5, <1>6

\* Slot s gets the state st, the count c, the waiter q and the head hd.
LEMMA IcmpSet ==
    ASSUME TablesTyped, NEW s \in 1 .. ICMP_SLOTS, NEW st \in {"FREE", "USED", "RECV"}, NEW c \in Nat,
           NEW q \in Callers \cup {NONE}, NEW hd \in Nat, st = "FREE" => c = 0,
           icmptab' = [icmptab EXCEPT ![s] = [icmptab[s] EXCEPT !.state = st, !.count = c, !.pid = q,
                                                                !.head = hd]]
    PROVE  IcmpSlot(s, st, c, q, icmptab[s].owner)
<1> DEFINE e == [icmptab[s] EXCEPT !.state = st, !.count = c, !.pid = q, !.head = hd]
<1>1. /\ e \in IcmpRecord /\ e.state = st /\ e.count = c /\ e.pid = q /\ e.owner = icmptab[s].owner
  BY DEF TablesTyped, IcmpEntry, IcmpRecord
<1>2. e \in IcmpEntry
  BY <1>1 DEF IcmpEntry
<1>3. icmptab' = [icmptab EXCEPT ![s] = e]
  OBVIOUS
<1> HIDE DEF e
<1> QED BY <1>1, <1>2, <1>3 DEF TablesTyped, IcmpSlot

\* icmp_in() puts a reply into slot s.
LEMMA IcmpInSlot ==
    ASSUME TablesTyped, NEW s \in 1 .. ICMP_SLOTS,
           icmptab' = [icmptab EXCEPT ![s].count = @ + 1, ![s].state = "USED"]
    PROVE  IcmpSlot(s, "USED", icmptab[s].count + 1, icmptab[s].pid, icmptab[s].owner)
<1> DEFINE c == icmptab[s].count + 1
           q == icmptab[s].pid
           h == icmptab[s].head
<1>1. c \in Nat /\ q \in Callers \cup {NONE} /\ h \in Nat
  BY DEF TablesTyped, IcmpEntry, IcmpRecord
<1>2. icmptab' = [icmptab EXCEPT ![s] = [icmptab[s] EXCEPT !.state = "USED", !.count = c, !.pid = q, !.head = h]]
  BY DEF TablesTyped, IcmpEntry, IcmpRecord
<1> HIDE DEF c, q, h
<1>3. IcmpSlot(s, "USED", c, q, icmptab[s].owner)
  BY <1>1, <1>2, IcmpSet
<1> QED BY <1>3 DEF c, q

\* icmp_recv() takes one out.
LEMMA IcmpTakeSlot ==
    ASSUME TablesTyped, NEW s \in 1 .. ICMP_SLOTS, icmpTake(s), fault = "none", fault' = "none"
    PROVE  /\ icmptab[s].count > 0
           /\ IcmpSlot(s, "USED", icmptab[s].count - 1, icmptab[s].pid, icmptab[s].owner)
<1>1. /\ icmptab[s].count \in Nat /\ icmptab[s].count # 0 /\ icmptab[s].head \in Nat
      /\ icmptab[s].pid \in Callers \cup {NONE}
  BY DEF TablesTyped, IcmpEntry, IcmpRecord, icmpTake
<1> DEFINE c == icmptab[s].count - 1
           q == icmptab[s].pid
           h == headAfter(icmptab[s], 1)
<1>2. c \in Nat /\ q \in Callers \cup {NONE}
  BY <1>1
<1>3. h \in Nat
  BY <1>1, NetAssumption DEF headAfter
<1>4. icmptab' = [icmptab EXCEPT ![s] = [icmptab[s] EXCEPT !.state = "USED", !.count = c, !.pid = q, !.head = h]]
  <2>1. icmptab' = [icmptab EXCEPT ![s].count = c, ![s].state = "USED", ![s].head = h]
    BY DEF icmpTake
  <2> HIDE DEF c, h
  <2> QED BY <2>1 DEF TablesTyped, IcmpEntry, IcmpRecord
<1> HIDE DEF c, q, h
<1>5. IcmpSlot(s, "USED", c, q, icmptab[s].owner)
  BY <1>2, <1>3, <1>4, IcmpSet
<1> QED BY <1>1, <1>5 DEF c, q

\* A process starts to wait at slot s.
LEMMA IcmpWaitSlot ==
    ASSUME TablesTyped, NEW s \in 1 .. ICMP_SLOTS, NEW p \in Callers,
           icmptab' = [icmptab EXCEPT ![s].state = "RECV", ![s].pid = p]
    PROVE  IcmpSlot(s, "RECV", icmptab[s].count, p, icmptab[s].owner)
<1> DEFINE c == icmptab[s].count
           q == p
           h == icmptab[s].head
<1>1. c \in Nat /\ q \in Callers \cup {NONE} /\ h \in Nat
  BY DEF TablesTyped, IcmpEntry, IcmpRecord
<1>2. icmptab' = [icmptab EXCEPT ![s] = [icmptab[s] EXCEPT !.state = "RECV", !.count = c, !.pid = q, !.head = h]]
  BY DEF TablesTyped, IcmpEntry, IcmpRecord
<1> HIDE DEF c, q, h
<1>3. IcmpSlot(s, "RECV", c, q, icmptab[s].owner)
  BY <1>1, <1>2, IcmpSet
<1> QED BY <1>3 DEF c, q

\* Its wait is over without a packet.
LEMMA IcmpEndSlot ==
    ASSUME TablesTyped, NEW s \in 1 .. ICMP_SLOTS, icmptab' = [icmptab EXCEPT ![s].state = "USED"]
    PROVE  IcmpSlot(s, "USED", icmptab[s].count, icmptab[s].pid, icmptab[s].owner)
<1> DEFINE c == icmptab[s].count
           q == icmptab[s].pid
           h == icmptab[s].head
<1>1. c \in Nat /\ q \in Callers \cup {NONE} /\ h \in Nat
  BY DEF TablesTyped, IcmpEntry, IcmpRecord
<1>2. icmptab' = [icmptab EXCEPT ![s] = [icmptab[s] EXCEPT !.state = "USED", !.count = c, !.pid = q, !.head = h]]
  BY DEF TablesTyped, IcmpEntry, IcmpRecord
<1> HIDE DEF c, q, h
<1>3. IcmpSlot(s, "USED", c, q, icmptab[s].owner)
  BY <1>1, <1>2, IcmpSet
<1> QED BY <1>3 DEF c, q

\* icmp_release()
LEMMA IcmpReleaseSlot ==
    ASSUME TablesTyped, NEW s \in 1 .. ICMP_SLOTS,
           icmptab' = [icmptab EXCEPT ![s].count = 0, ![s].state = "FREE"]
    PROVE  IcmpSlot(s, "FREE", 0, icmptab[s].pid, icmptab[s].owner)
<1> DEFINE c == 0
           q == icmptab[s].pid
           h == icmptab[s].head
<1>1. c = 0 /\ c \in Nat /\ q \in Callers \cup {NONE} /\ h \in Nat
  BY DEF TablesTyped, IcmpEntry, IcmpRecord
<1>2. icmptab' = [icmptab EXCEPT ![s] = [icmptab[s] EXCEPT !.state = "FREE", !.count = c, !.pid = q, !.head = h]]
  BY DEF TablesTyped, IcmpEntry, IcmpRecord
<1> HIDE DEF c, q, h
<1>3. IcmpSlot(s, "FREE", c, q, icmptab[s].owner)
  BY <1>1, <1>2, IcmpSet
<1> QED BY <1>3 DEF c, q

\* icmp_register()
LEMMA IcmpRegisterSlot ==
    ASSUME TablesTyped, NEW p \in Callers, NEW h \in Hosts, icmp_register(p, h)
    PROVE  \E s \in 1 .. ICMP_SLOTS : icmptab[s].state = "FREE" /\ IcmpSlot(s, "USED", 0, NONE, p)
<1> DEFINE T == {i \in DOMAIN icmptab : icmptab[i].state = "FREE"}
           s == First(T)
           e == [state |-> "USED", remip |-> h, count |-> 0, head |-> 0, pid |-> NONE, owner |-> p]
<1>1. s # 0 /\ icmptab' = [icmptab EXCEPT ![s] = e]
  BY DEF icmp_register
<1>2. ICMP_SLOTS \in Nat /\ T \subseteq 1 .. ICMP_SLOTS
  BY NetAssumption DEF TablesTyped
<1> HIDE DEF T
<1>3. s \in T /\ s \in 1 .. ICMP_SLOTS
  BY <1>1, <1>2, FirstSlot
<1>4. e \in IcmpEntry
  BY DEF IcmpEntry, IcmpRecord
<1> HIDE DEF s
<1>5. IcmpSlot(s, "USED", 0, NONE, p)
  BY <1>1, <1>3, <1>4 DEF TablesTyped, IcmpSlot
<1>6. icmptab[s].state = "FREE"
  BY <1>3 DEF T
<1> QED BY <1>3, <1>5, <1>6

\* The tables stay typed when one slot changes.
LEMMA TablesNext ==
    ASSUME TablesTyped,
           udptab' \in [1 .. UDP_SLOTS -> UdpEntry] \/ udptab' = udptab,
           icmptab' \in [1 .. ICMP_SLOTS -> IcmpEntry] \/ icmptab' = icmptab,
           arpcache' \in [1 .. ARP_SIZ -> ArpEntry] \/ arpcache' = arpcache
    PROVE  TablesTyped'
BY DEF TablesTyped

-----------------------------------------------------------------------------
(* No step loses a buffer.  First the parts that several steps have.       *)

\* What else a step of netin leaves alone.
NetinMoves(place) ==
    /\ doing' = doing /\ netin' \in [at : NetinPlaces, from : Dests \cup {NONE}]
    /\ netin'.at = place
    /\ place = "mkpkt" => netin'.from \in Dests

\* netin keeps what it holds, or gives it up; it waits for a buffer or not.
LEMMA NetinSets ==
    ASSUME CallsTyped, NEW w \in NetinPlaces, NetinMoves(w)
    PROVE  /\ Getting' = Getting /\ Resolving' = Resolving
           /\ NetinGetting' = (IF w \in {"getbuf", "mkpkt"} THEN {NETIN} ELSE {})
           /\ NetinHas' = (IF w \in {"read", "queued", "mkpkt"} THEN 1 ELSE 0)
           /\ Seekers' = Getting \cup (IF w \in {"getbuf", "mkpkt"} THEN {NETIN} ELSE {})
           /\ NETIN \notin Getting
           /\ NETIN \in Seekers <=> netin.at \in {"getbuf", "mkpkt"}
           /\ Seekers \ {NETIN} = Getting
           /\ netin.at \notin {"getbuf", "mkpkt"} => Seekers = Getting
<1>1. NETIN \notin Getting
  BY EveryoneFinite DEF Getting
<1>2. Getting' = Getting /\ Resolving' = Resolving
  BY DEF NetinMoves, Getting, Resolving
<1>3. /\ NetinGetting' = (IF w \in {"getbuf", "mkpkt"} THEN {NETIN} ELSE {})
      /\ NetinHas' = (IF w \in {"read", "queued", "mkpkt"} THEN 1 ELSE 0)
  BY DEF NetinMoves, NetinGetting, NetinHas
<1> QED BY <1>1, <1>2, <1>3 DEF Seekers, NetinGetting

\* A packet that is dropped, received or freed by netin.
LEMMA NetinFrees ==
    ASSUME Sound, netin.at \in {"read", "queued"}, NetinMoves("next"), freebuf(1),
           TablesTyped', CallsTyped', iqueue' = iqueue, Places(udptab') = Places(udptab),
           Places(icmptab') = Places(icmptab)
    PROVE  Sound'
<1>1. CallsTyped /\ "next" \in NetinPlaces
  BY DEF Sound, NetinPlaces
<1>2. Seekers' = Seekers /\ Resolving' = Resolving /\ NetinHas' = 0
  BY <1>1, NetinSets
<1>3. NetinHas = 1
  BY DEF NetinHas
<1>4. Elsewhere' + 1 = Elsewhere
  BY <1>2, <1>3, Counts DEF Sound, Elsewhere
<1> QED BY <1>2, <1>4, FreedOnly DEF freebuf

\* A packet that is put into a queue by netin.
LEMMA NetinQueues ==
    ASSUME Sound, netin.at = "read", NetinMoves("next"), pool' = pool,
           TablesTyped', CallsTyped', iqueue' = iqueue,
           Cardinality(Places(udptab')) + Cardinality(Places(icmptab'))
             = Cardinality(Places(udptab)) + Cardinality(Places(icmptab)) + 1
    PROVE  Sound'
<1>1. CallsTyped /\ "next" \in NetinPlaces
  BY DEF Sound, NetinPlaces
<1>2. Seekers' = Seekers /\ Resolving' = Resolving /\ NetinHas' = 0
  BY <1>1, NetinSets
<1>3. NetinHas = 1
  BY DEF NetinHas
<1>4. Elsewhere' = Elsewhere
  BY <1>2, <1>3, Counts, CountsNext DEF Sound, Elsewhere
<1> QED BY <1>2, <1>4, PoolKept

\* Every message is one of the three.
LEMMA SendTyped ==
    ASSUME CallsTyped, NEW p, send(p, "OK"), p \in Callers \cup {NONE}
    PROVE  /\ prmsg' \in [Callers -> {NONE, "OK", "other"}]
           /\ \A q \in Callers : q # p => prmsg'[q] = prmsg[q]
           /\ p \in Callers => prmsg'[p] = IF prmsg[p] # NONE THEN prmsg[p] ELSE "OK"
BY EveryoneFinite DEF CallsTyped, send

\* next
LEMMA NextMoves ==
    ASSUME CallsTyped, next, doing' = doing
    PROVE  NetinMoves("next")
BY DEF next, NetinMoves, NetinPlaces

-----------------------------------------------------------------------------
(* The steps of netin.                                                     *)

\* netinGetbuf
LEMMA GetbufSound ==
    ASSUME Sound, netinGetbuf
    PROVE  Sound'
<1>1. CallsTyped /\ netin.at = "next" /\ netin \in [at : NetinPlaces, from : Dests \cup {NONE}]
  BY DEF Sound, CallsTyped, netinGetbuf, NetinAt
<1>2. /\ pool' = waitbuf(NETIN) /\ netin' = [netin EXCEPT !.at = IF passes(pool) THEN "read" ELSE "getbuf"]
      /\ udptab' = udptab /\ icmptab' = icmptab /\ arpcache' = arpcache /\ iqueue' = iqueue
      /\ doing' = doing /\ prmsg' = prmsg
  BY DEF netinGetbuf
<1>3. TablesTyped'
  BY <1>2 DEF Sound, TablesTyped
<1> DEFINE w == IF passes(pool) THEN "read" ELSE "getbuf"
<1>4. NetinMoves(w) /\ w \in NetinPlaces
  BY <1>1, <1>2 DEF NetinMoves, NetinPlaces
<1>5. CallsTyped'
  BY <1>1, <1>2, <1>4 DEF CallsTyped, NetinMoves
<1>6. Places(udptab') = Places(udptab) /\ Places(icmptab') = Places(icmptab)
  BY <1>2
<1>7. NetinHas = 0
  BY <1>1 DEF NetinHas
<1>8. NETIN \in Everyone /\ NETIN \notin Seekers /\ Seekers = Getting
  BY <1>1, <1>4, NetinSets DEF Everyone
<1>9. CASE passes(pool)
  <2>1. w = "read" /\ pool' = passed(pool)
    BY <1>2, <1>9 DEF waitbuf
  <2>2. Seekers' = Seekers /\ Resolving' = Resolving /\ NetinHas' = 1
    BY <1>1, <1>4, <1>8, <2>1, NetinSets
  <2>3. /\ SemOf(passed(pool), Everyone, Seekers) /\ passed(pool).used
        /\ permits(pool, Seekers) = permits(passed(pool), Seekers) + 1
    BY <1>9, EveryoneFinite, PermitsPassed DEF Sound, PoolSound
  <2>4. Elsewhere' = Elsewhere + 1
    BY <1>2, <1>6, <1>7, <2>2, Counts DEF Sound, Elsewhere
  <2>5. permits(passed(pool), Seekers) \in Nat /\ Elsewhere \in Nat
    BY <2>3, EveryoneFinite, PermitsNat, Counts DEF Sound
  <2>6. permits(pool', Seekers') + Elsewhere' = permits(pool, Seekers) + Elsewhere
    BY <2>1, <2>2, <2>3, <2>4, <2>5
  <2>7. SemOf(pool', Everyone, Seekers') /\ pool'.used
    BY <2>1, <2>2, <2>3
  <2> QED BY <1>3, <1>5, <2>6, <2>7, Rebalance
<1>10. CASE ~passes(pool)
  <2>1. w = "getbuf"
    BY <1>10
  <2>2. Seekers' = Seekers \cup {NETIN} /\ Resolving' = Resolving /\ NetinHas' = 0
    BY <1>1, <1>4, <1>8, <2>1, NetinSets
  <2>3. Elsewhere' = Elsewhere
    BY <1>2, <1>6, <1>7, <2>2 DEF Elsewhere
  <2> QED BY <1>2, <1>3, <1>5, <1>8, <2>2, <2>3, Seeks
<1> QED BY <1>9, <1>10

\* netinGot
LEMMA GotSound ==
    ASSUME Sound, netinGot
    PROVE  Sound'
<1>1. /\ CallsTyped /\ netin.at = "getbuf" /\ netin \in [at : NetinPlaces, from : Dests \cup {NONE}]
      /\ ~waitsOn(NETIN, pool)
  BY DEF Sound, CallsTyped, netinGot, NetinAt
<1>2. /\ pool' = pool /\ netin' = [netin EXCEPT !.at = "read"]
      /\ udptab' = udptab /\ icmptab' = icmptab /\ arpcache' = arpcache /\ iqueue' = iqueue
      /\ doing' = doing /\ prmsg' = prmsg
  BY DEF netinGot
<1>3. NetinMoves("read") /\ "read" \in NetinPlaces
  BY <1>1, <1>2 DEF NetinMoves, NetinPlaces
<1>4. TablesTyped' /\ CallsTyped'
  BY <1>1, <1>2, <1>3 DEF Sound, TablesTyped, CallsTyped, NetinMoves
<1>5. /\ Seekers' = Seekers \ {NETIN} /\ NETIN \in Seekers /\ Resolving' = Resolving /\ NetinHas' = 1
  BY <1>1, <1>3, NetinSets
<1>6. NetinHas = 0 /\ Places(udptab') = Places(udptab) /\ Places(icmptab') = Places(icmptab)
  BY <1>1, <1>2 DEF NetinHas
<1>7. Elsewhere' = Elsewhere + 1
  BY <1>2, <1>5, <1>6, Counts DEF Sound, Elsewhere
<1> QED BY <1>1, <1>2, <1>4, <1>5, <1>7, TakenOnly

\* netinArp
LEMMA NetinArpSound ==
    ASSUME Sound, NEW h \in Hosts, NEW ours \in BOOLEAN, netinArp(h, ours), TablesTyped',
           prmsg' \in [Callers -> {NONE, "OK", "other"}]
    PROVE  Sound'
<1>1. /\ CallsTyped /\ netin.at = "read" /\ next /\ freebuf(1) /\ iqueue' = iqueue /\ doing' = doing
      /\ udptab' = udptab /\ icmptab' = icmptab
  BY DEF Sound, netinArp, NetinAt, arp_in
<1>2. NetinMoves("next")
  BY <1>1, NextMoves
<1>3. CallsTyped'
  BY <1>1, <1>2 DEF CallsTyped, NetinMoves
<1> QED BY <1>1, <1>2, <1>3, NetinFrees

\* netinDrop
LEMMA DropSound ==
    ASSUME Sound, netinDrop
    PROVE  Sound'
<1>1. /\ CallsTyped /\ netin.at = "read" /\ next /\ freebuf(1) /\ iqueue' = iqueue /\ doing' = doing
      /\ udptab' = udptab /\ icmptab' = icmptab /\ arpcache' = arpcache /\ prmsg' = prmsg
  BY DEF Sound, netinDrop, NetinAt
<1>2. NetinMoves("next")
  BY <1>1, NextMoves
<1>3. CallsTyped' /\ TablesTyped'
  BY <1>1, <1>2 DEF Sound, TablesTyped, CallsTyped, NetinMoves
<1> QED BY <1>1, <1>2, <1>3, NetinFrees

\* netinEchoEnd
LEMMA EchoEndSound ==
    ASSUME Sound, netinEchoEnd
    PROVE  Sound'
<1>1. /\ CallsTyped /\ netin.at = "queued" /\ next /\ freebuf(1) /\ iqueue' = iqueue /\ doing' = doing
      /\ udptab' = udptab /\ icmptab' = icmptab /\ arpcache' = arpcache /\ prmsg' = prmsg
  BY DEF Sound, netinEchoEnd, NetinAt
<1>2. NetinMoves("next")
  BY <1>1, NextMoves
<1>3. CallsTyped' /\ TablesTyped'
  BY <1>1, <1>2 DEF Sound, TablesTyped, CallsTyped, NetinMoves
<1> QED BY <1>1, <1>2, <1>3, NetinFrees

\* netinUdp
LEMMA NetinUdpSound ==
    ASSUME Sound, NEW h \in Hosts, netinUdp(h)
    PROVE  Sound'
<1>1. /\ CallsTyped /\ TablesTyped /\ netin.at = "read" /\ next /\ udp_in(h) /\ iqueue' = iqueue
      /\ doing' = doing /\ icmptab' = icmptab /\ arpcache' = arpcache
  BY DEF Sound, netinUdp, NetinAt, udp_in
<1>2. NetinMoves("next")
  BY <1>1, NextMoves
<1> DEFINE s == First(matching(h))
<1> HIDE DEF s
<1>3. CASE /\ s # 0 /\ udptab' = [udptab EXCEPT ![s].count = @ + 1, ![s].state = "USED"]
           /\ send(waiter(udptab[s]), "OK") /\ pool' = pool
  <2>1. s \in 1 .. UDP_SLOTS
    BY <1>1, <1>3, MatchingSlot DEF s
  <2>2. UdpSlot(s, "USED", udptab[s].count + 1, udptab[s].pid, udptab[s].owner)
    BY <1>1, <1>3, <2>1, UdpInSlot
  <2>3. Cardinality(Places(udptab')) + udptab[s].count = Cardinality(Places(udptab)) + (udptab[s].count + 1)
    BY <1>1, <2>1, <2>2, UdpPlaces
  <2>4. udptab[s].count \in Nat /\ waiter(udptab[s]) \in Callers \cup {NONE}
    BY <1>1, <2>1 DEF TablesTyped, UdpEntry, UdpRecord, waiter
  <2>5. prmsg' \in [Callers -> {NONE, "OK", "other"}]
    BY <1>1, <1>3, <2>4, SendTyped
  <2>6. TablesTyped' /\ CallsTyped'
    BY <1>1, <1>2, <2>2, <2>5 DEF TablesTyped, UdpSlot, CallsTyped, NetinMoves
  <2>7. Cardinality(Places(udptab')) + Cardinality(Places(icmptab'))
             = Cardinality(Places(udptab)) + Cardinality(Places(icmptab)) + 1
    <3> DEFINE a == Cardinality(Places(udptab))
               b == Cardinality(Places(udptab'))
               c == udptab[s].count
               d == Cardinality(Places(icmptab))
    <3>1. a \in Nat /\ d \in Nat
      BY <1>1, Counts
    <3>2. b \in Nat
      BY <2>6, CountsNext
    <3>3. c \in Nat /\ b + c = a + (c + 1) /\ Cardinality(Places(icmptab')) = d
      BY <1>1, <2>3, <2>4
    <3> HIDE DEF a, b, c, d
    <3>4. b + d = a + d + 1 /\ d + b = d + a + 1
      BY <3>1, <3>2, <3>3
    <3> QED BY <3>3, <3>4 DEF a, b, d
  <2> QED BY <1>1, <1>2, <1>3, <2>6, <2>7, NetinQueues
<1>4. CASE s = 0 /\ freebuf(1) /\ udptab' = udptab /\ prmsg' = prmsg
  <2>1. TablesTyped' /\ CallsTyped'
    BY <1>1, <1>2, <1>4 DEF TablesTyped, CallsTyped, NetinMoves
  <2> QED BY <1>1, <1>2, <1>4, <2>1, NetinFrees
<1> QED BY <1>1, <1>3, <1>4 DEF udp_in, s

\* netinReply
LEMMA ReplySound ==
    ASSUME Sound, NEW h \in Hosts, NEW s \in DOMAIN icmptab, netinReply(h, s)
    PROVE  Sound'
<1>1. /\ CallsTyped /\ TablesTyped /\ netin.at = "read" /\ next /\ echoReply(h, s) /\ iqueue' = iqueue
      /\ doing' = doing /\ udptab' = udptab /\ arpcache' = arpcache /\ s \in 1 .. ICMP_SLOTS
  BY DEF Sound, netinReply, NetinAt, echoReply, TablesTyped
<1>2. NetinMoves("next")
  BY <1>1, NextMoves
<1>3. CASE /\ icmptab' = [icmptab EXCEPT ![s].count = @ + 1, ![s].state = "USED"]
           /\ send(IF icmptab[s].state = "RECV" THEN icmptab[s].pid ELSE NONE, "OK") /\ pool' = pool
  <2>2. IcmpSlot(s, "USED", icmptab[s].count + 1, icmptab[s].pid, icmptab[s].owner)
    BY <1>1, <1>3, IcmpInSlot
  <2>3. Cardinality(Places(icmptab')) + icmptab[s].count = Cardinality(Places(icmptab)) + (icmptab[s].count + 1)
    BY <1>1, <2>2, IcmpPlaces
  <2> DEFINE q == IF icmptab[s].state = "RECV" THEN icmptab[s].pid ELSE NONE
  <2>4. icmptab[s].count \in Nat /\ q \in Callers \cup {NONE}
    BY <1>1 DEF TablesTyped, IcmpEntry, IcmpRecord
  <2>5. prmsg' \in [Callers -> {NONE, "OK", "other"}]
    <3>1. send(q, "OK")
      BY <1>3
    <3> HIDE DEF q
    <3> QED BY <1>1, <2>4, <3>1, SendTyped
  <2>6. TablesTyped' /\ CallsTyped'
    BY <1>1, <1>2, <2>2, <2>5 DEF TablesTyped, IcmpSlot, CallsTyped, NetinMoves
  <2>7. Cardinality(Places(udptab')) + Cardinality(Places(icmptab'))
             = Cardinality(Places(udptab)) + Cardinality(Places(icmptab)) + 1
    <3> DEFINE a == Cardinality(Places(icmptab))
               b == Cardinality(Places(icmptab'))
               c == icmptab[s].count
               d == Cardinality(Places(udptab))
    <3>1. a \in Nat /\ d \in Nat
      BY <1>1, Counts
    <3>2. b \in Nat
      BY <2>6, CountsNext
    <3>3. c \in Nat /\ b + c = a + (c + 1) /\ Cardinality(Places(udptab')) = d
      BY <1>1, <2>3, <2>4
    <3> HIDE DEF a, b, c, d
    <3>4. b + d = a + d + 1 /\ d + b = d + a + 1
      BY <3>1, <3>2, <3>3
    <3> QED BY <3>3, <3>4 DEF a, b, d
  <2> QED BY <1>1, <1>2, <1>3, <2>6, <2>7, NetinQueues
<1>4. CASE freebuf(1) /\ icmptab' = icmptab /\ prmsg' = prmsg
  <2>1. TablesTyped' /\ CallsTyped'
    BY <1>1, <1>2, <1>4 DEF TablesTyped, CallsTyped, NetinMoves
  <2> QED BY <1>1, <1>2, <1>4, <2>1, NetinFrees
<1> QED BY <1>1, <1>3, <1>4 DEF echoReply

\* netinEcho
LEMMA EchoSound ==
    ASSUME Sound, NEW h \in Hosts, netinEcho(h)
    PROVE  Sound'
<1>1. /\ CallsTyped /\ netin.at = "read" /\ pool' = waitbuf(NETIN) /\ netin' = [at |-> "mkpkt", from |-> h]
      /\ udptab' = udptab /\ icmptab' = icmptab /\ arpcache' = arpcache /\ iqueue' = iqueue
      /\ doing' = doing /\ prmsg' = prmsg
  BY DEF Sound, netinEcho, NetinAt
<1>2. NetinMoves("mkpkt") /\ "mkpkt" \in NetinPlaces
  BY <1>1 DEF NetinMoves, NetinPlaces, Dests
<1>3. TablesTyped' /\ CallsTyped'
  BY <1>1, <1>2 DEF Sound, TablesTyped, CallsTyped, NetinMoves
<1>4. /\ Seekers' = Seekers \cup {NETIN} /\ NETIN \notin Seekers /\ NETIN \in Everyone
      /\ Resolving' = Resolving /\ NetinHas' = 1
  BY <1>1, <1>2, NetinSets DEF Everyone
<1>5. NetinHas = 1 /\ Places(udptab') = Places(udptab) /\ Places(icmptab') = Places(icmptab)
  BY <1>1 DEF NetinHas
<1>6. Elsewhere' = Elsewhere
  BY <1>1, <1>4, <1>5 DEF Elsewhere
<1> QED BY <1>1, <1>3, <1>4, <1>6, Seeks

\* netinEnqueue
LEMMA EnqueueSound ==
    ASSUME Sound, netinEnqueue
    PROVE  Sound'
<1>1. /\ CallsTyped /\ netin.at = "mkpkt" /\ ~waitsOn(NETIN, pool) /\ netin' = [at |-> "queued", from |-> NONE]
      /\ udptab' = udptab /\ icmptab' = icmptab /\ arpcache' = arpcache
      /\ doing' = doing /\ prmsg' = prmsg /\ netin.from \in Dests /\ iqueue \in Seq(Dests)
  BY DEF Sound, CallsTyped, netinEnqueue, NetinAt
<1>2. NetinMoves("queued") /\ "queued" \in NetinPlaces
  BY <1>1 DEF NetinMoves, NetinPlaces
<1>3. TablesTyped'
  BY <1>1 DEF Sound, TablesTyped
<1>4. iqueue' \in Seq(Dests) => CallsTyped'
  BY <1>1, <1>2 DEF CallsTyped, NetinMoves
<1>5. /\ Seekers' = Seekers \ {NETIN} /\ NETIN \in Seekers
      /\ Resolving' = Resolving /\ NetinHas' = 1
  BY <1>1, <1>2, NetinSets
<1>6. NetinHas = 1 /\ Places(udptab') = Places(udptab) /\ Places(icmptab') = Places(icmptab)
  BY <1>1 DEF NetinHas
<1>7. CASE freebuf(1) /\ iqueue' = iqueue
  <2>1. Elsewhere' + 1 = Elsewhere + 1
    BY <1>5, <1>6, <1>7 DEF Elsewhere
  <2>2. /\ SemOf(pool, Everyone, Seekers \ {NETIN})
        /\ permits(pool, Seekers) = permits(pool, Seekers \ {NETIN}) + 1
    BY <1>1, <1>5, Takes
  <2>3. pool' = signaledN(pool, 1) /\ CallsTyped'
    BY <1>1, <1>4, <1>7 DEF freebuf
  <2> QED BY <1>3, <1>5, <2>1, <2>2, <2>3, Freed
<1>8. CASE iqueue' = Append(iqueue, netin.from) /\ pool' = pool
  <2>1. iqueue' \in Seq(Dests) /\ Len(iqueue') = Len(iqueue) + 1
    BY <1>1, <1>8
  <2>2. Elsewhere' = Elsewhere + 1
    BY <1>5, <1>6, <2>1, Counts DEF Sound, Elsewhere
  <2> QED BY <1>1, <1>3, <1>4, <1>5, <1>8, <2>1, <2>2, TakenOnly
<1> QED BY <1>7, <1>8 DEF netinEnqueue

-----------------------------------------------------------------------------
(* The calls.                                                              *)

\* Packets that are queued somewhere.
InQueues == Cardinality(Places(udptab)) + Cardinality(Places(icmptab)) + Len(iqueue)

\* They are numbers, before and after a step.
LEMMA QueueCounts ==
    ASSUME TablesTyped, CallsTyped, TablesTyped', CallsTyped'
    PROVE  InQueues \in Nat /\ InQueues' \in Nat
BY SMTT(30), Counts, CountsNext DEF InQueues

\* What a step of process p does to those who wait for a buffer or have one.
LEMMA CallSets ==
    ASSUME CallsTyped, NEW p \in Callers, NEW w \in CallState, does(p, w), netin' = netin
    PROVE  /\ Seekers' = (IF w.at = "getbuf" THEN Seekers \cup {p} ELSE Seekers \ {p})
           /\ p \in Seekers <=> doing[p].at = "getbuf"
           /\ doing[p].at # "getbuf" /\ w.at # "getbuf" => Seekers' = Seekers
           /\ p \in Everyone /\ NetinHas' = NetinHas
<1>1. p # NETIN
  BY EveryoneFinite
<1>2. Getting' = IF w.at = "getbuf" THEN Getting \cup {p} ELSE Getting \ {p}
  BY Moves
<1>3. NetinGetting' = NetinGetting /\ NetinHas' = NetinHas /\ p \notin NetinGetting
  BY <1>1 DEF NetinGetting, NetinHas
<1>4. p \in Getting <=> doing[p].at = "getbuf"
  BY DEF Getting
<1> QED BY <1>2, <1>3, <1>4 DEF Seekers, Everyone

\* What it does to the sum.
LEMMA CallElsewhere ==
    ASSUME Sound, TablesTyped', CallsTyped', NEW p \in Callers, NEW w \in CallState, does(p, w),
           netin' = netin, NEW m \in Int, InQueues' = InQueues + m
    PROVE  Elsewhere' + (IF doing[p].at = "arp" THEN 1 ELSE 0)
             = Elsewhere + m + (IF w.at = "arp" THEN 1 ELSE 0)
<1> DEFINE r == Cardinality(Resolving)
           r1 == Cardinality(Resolving')
           x == IF doing[p].at = "arp" THEN 1 ELSE 0
           y == IF w.at = "arp" THEN 1 ELSE 0
<1>1. r1 + x = r + y /\ x \in Nat /\ y \in Nat
  BY MoveCount DEF Sound
<1>2. NetinHas' = NetinHas
  BY CallSets DEF Sound
<1>3. r \in Nat /\ r1 \in Nat /\ NetinHas \in Nat /\ InQueues \in Nat /\ InQueues' \in Nat
  BY Counts, CountsNext, QueueCounts DEF Sound
<1>4. Elsewhere = InQueues + NetinHas + r /\ Elsewhere' = InQueues' + NetinHas' + r1
  BY DEF Elsewhere, InQueues
<1> HIDE DEF r, r1, x, y
<1>5. Elsewhere' + x = Elsewhere + m + y
  BY <1>1, <1>2, <1>3, <1>4
<1> QED BY <1>5 DEF x, y

\* A process that had a buffer frees it, or one from a queue.
LEMMA CallFrees ==
    ASSUME Sound, TablesTyped', CallsTyped', NEW p \in Callers, NEW w \in CallState, does(p, w),
           netin' = netin, NEW n \in Nat, NEW k \in Nat, InQueues' + k = InQueues,
           n = k + (IF doing[p].at = "arp" THEN 1 ELSE 0),
           pool' = signaledN(pool, n), doing[p].at # "getbuf", w.at \notin {"arp", "getbuf"}
    PROVE  Sound'
<1>1. Seekers' = Seekers
  BY CallSets DEF Sound
<1> DEFINE x == IF doing[p].at = "arp" THEN 1 ELSE 0
           m == 0 - k
<1>2. m \in Int /\ InQueues' = InQueues + m
  BY QueueCounts DEF Sound
<1>3. (IF w.at = "arp" THEN 1 ELSE 0) = 0
  OBVIOUS
<1>4. Elsewhere' + x = Elsewhere + m + 0
  <2> HIDE DEF m
  <2> QED BY <1>2, <1>3, CallElsewhere
<1>5. Elsewhere \in Nat /\ Elsewhere' \in Nat /\ x \in Nat
  BY Counts, CountsNext DEF Sound
<1>6. Elsewhere' + n = Elsewhere
  <2> DEFINE a == Elsewhere
             b == Elsewhere'
  <2>1. n = k + x /\ b + x = a + (0 - k) + 0 /\ a \in Nat /\ b \in Nat /\ x \in Nat
    BY <1>4, <1>5
  <2> HIDE DEF a, b, x, m
  <2>2. b + n = a
    BY <2>1
  <2> QED BY <2>2 DEF a, b
<1> QED BY <1>1, <1>6, FreedOnly

\* A process that had no buffer and gets none.
LEMMA CallOnly ==
    ASSUME Sound, TablesTyped', CallsTyped', NEW p \in Callers, NEW w \in CallState, does(p, w),
           netin' = netin, pool' = pool, InQueues' = InQueues, doing[p].at # "getbuf", w.at # "getbuf",
           doing[p].at = "arp" <=> w.at = "arp"
    PROVE  Sound'
<1>1. Seekers' = Seekers
  BY CallSets DEF Sound
<1>2. InQueues' = InQueues + 0
  BY QueueCounts DEF Sound
<1>3. Elsewhere' = Elsewhere
  <2> DEFINE x == IF doing[p].at = "arp" THEN 1 ELSE 0
             y == IF w.at = "arp" THEN 1 ELSE 0
  <2>1. Elsewhere' + x = Elsewhere + 0 + y
    BY <1>2, CallElsewhere
  <2>2. x = y /\ x \in Nat
    OBVIOUS
  <2>3. Elsewhere \in Nat /\ Elsewhere' \in Nat
    BY Counts, CountsNext DEF Sound
  <2> DEFINE a == Elsewhere
             b == Elsewhere'
  <2>4. b + x = a + 0 + y /\ x = y /\ x \in Nat /\ a \in Nat /\ b \in Nat
    BY <2>1, <2>2, <2>3
  <2> HIDE DEF a, b, x, y
  <2>5. b = a
    BY <2>4
  <2> QED BY <2>5 DEF a, b
<1> QED BY <1>1, <1>3, PoolKept

\* A process asks for a buffer.
LEMMA CallSeeks ==
    ASSUME Sound, TablesTyped', CallsTyped', NEW p \in Callers, NEW w \in CallState, does(p, w),
           netin' = netin, pool' = waitbuf(p), InQueues' = InQueues,
           doing[p].at \notin {"getbuf", "arp"}, w.at = "getbuf"
    PROVE  Sound'
<1>1. Seekers' = Seekers \cup {p} /\ p \notin Seekers /\ p \in Everyone
  BY CallSets DEF Sound
<1>2. InQueues' = InQueues + 0
  BY QueueCounts DEF Sound
<1>3. Elsewhere' = Elsewhere
  <2>1. Elsewhere' + 0 = Elsewhere + 0 + 0
    BY <1>2, CallElsewhere
  <2> QED BY <2>1, Counts, CountsNext DEF Sound
<1> QED BY <1>1, <1>3, Seeks

\* A process that was given a buffer frees it: k packets more are queued.
LEMMA GivenFrees ==
    ASSUME Sound, TablesTyped', CallsTyped', NEW p \in Callers, NEW w \in CallState, does(p, w),
           netin' = netin, doing[p].at = "getbuf", ~waitsOn(p, pool), w.at \notin {"arp", "getbuf"},
           pool' = signaledN(pool, 1), InQueues' = InQueues
    PROVE  Sound'
<1>1. Seekers' = Seekers \ {p} /\ p \in Seekers
  BY CallSets DEF Sound
<1>2. InQueues' = InQueues + 0
  BY QueueCounts DEF Sound
<1>3. Elsewhere' + 1 = Elsewhere + 1
  <2>1. Elsewhere' + 0 = Elsewhere + 0 + 0
    BY <1>2, CallElsewhere
  <2> QED BY <2>1, Counts, CountsNext DEF Sound
<1>4. /\ SemOf(pool, Everyone, Seekers \ {p})
      /\ permits(pool, Seekers) = permits(pool, Seekers \ {p}) + 1
  BY <1>1, Takes
<1> QED BY <1>1, <1>3, <1>4, Freed

\* It keeps the buffer, or puts it into a queue.
LEMMA GivenKeeps ==
    ASSUME Sound, TablesTyped', CallsTyped', NEW p \in Callers, NEW w \in CallState, does(p, w),
           netin' = netin, doing[p].at = "getbuf", ~waitsOn(p, pool), w.at # "getbuf", pool' = pool,
           InQueues' = InQueues + (IF w.at = "arp" THEN 0 ELSE 1)
    PROVE  Sound'
<1>1. Seekers' = Seekers \ {p} /\ p \in Seekers
  BY CallSets DEF Sound
<1>2. Elsewhere' = Elsewhere + 1
  <2> DEFINE m == IF w.at = "arp" THEN 0 ELSE 1
             y == IF w.at = "arp" THEN 1 ELSE 0
  <2>1. m \in Int /\ InQueues' = InQueues + m
    OBVIOUS
  <2>2. m + y = 1 /\ y \in Int
    OBVIOUS
  <2>3. (IF doing[p].at = "arp" THEN 1 ELSE 0) = 0
    OBVIOUS
  <2> HIDE DEF m
  <2>4. Elsewhere' + 0 = Elsewhere + m + y
    BY <2>1, <2>3, CallElsewhere
  <2> HIDE DEF y
  <2> QED BY SMTT(30), <2>1, <2>2, <2>4, Counts, CountsNext DEF Sound
<1> QED BY <1>1, <1>2, TakenOnly

\* What a process may go on to.
LEMMA UserState ==
    /\ USER \in CallState /\ USER.at = "user"
    /\ [at |-> "wait"] \in CallState /\ [at |-> "wait"].at = "wait"
BY DEF USER, CallState

\* recvclr() leaves messages what they are.
LEMMA RecvClr ==
    ASSUME CallsTyped, NEW p \in Callers, recvclr(p)
    PROVE  /\ prmsg' \in [Callers -> {NONE, "OK", "other"}] /\ prmsg'[p] = NONE
           /\ \A q \in Callers \ {p} : prmsg'[q] = prmsg[q]
BY DEF CallsTyped, recvclr

\* What is typed after a step of a call.
LEMMA CallTyped ==
    ASSUME CallsTyped, NEW p \in Callers, NEW w \in CallState, does(p, w), netin' = netin,
           iqueue' \in Seq(Dests), prmsg' \in [Callers -> {NONE, "OK", "other"}]
    PROVE  CallsTyped'
<1>1. doing' \in [Callers -> CallState]
  BY Moves
<1> QED BY <1>1 DEF CallsTyped

\* The queues when one slot of UDP changes.
LEMMA UdpQueues ==
    ASSUME Sound, NEW s \in 1 .. UDP_SLOTS, NEW st, NEW c \in Nat, NEW q, NEW o, UdpSlot(s, st, c, q, o),
           icmptab' = icmptab, iqueue' = iqueue
    PROVE  udptab[s].count \in Nat /\ InQueues' + udptab[s].count = InQueues + c
<1> DEFINE a == Cardinality(Places(udptab))
           b == Cardinality(Places(udptab'))
           d == Cardinality(Places(icmptab))
           k == udptab[s].count
<1>1. TablesTyped /\ CallsTyped
  BY DEF Sound
<1>2. b + k = a + c
  BY <1>1, UdpPlaces
<1>3. a \in Nat /\ d \in Nat /\ Len(iqueue) \in Nat
  BY <1>1, Counts
<1>4. k \in Nat /\ Counted(udptab', UDP_SLOTS) /\ UDP_SLOTS \in Nat
  BY <1>1, NetAssumption DEF TablesTyped, UdpEntry, UdpRecord, Counted, UdpSlot
<1>5. b \in Nat
  BY <1>4, PlacesFinite
<1>6. InQueues = a + d + Len(iqueue) /\ InQueues' = b + d + Len(iqueue)
  BY DEF InQueues
<1> HIDE DEF a, b, d, k
<1>7. InQueues' + k = InQueues + c
  BY <1>2, <1>3, <1>4, <1>5, <1>6
<1> QED BY <1>4, <1>7 DEF k

\* The queues when one slot of ICMP changes.
LEMMA IcmpQueues ==
    ASSUME Sound, NEW s \in 1 .. ICMP_SLOTS, NEW st, NEW c \in Nat, NEW q, NEW o, IcmpSlot(s, st, c, q, o),
           udptab' = udptab, iqueue' = iqueue
    PROVE  icmptab[s].count \in Nat /\ InQueues' + icmptab[s].count = InQueues + c
<1> DEFINE a == Cardinality(Places(icmptab))
           b == Cardinality(Places(icmptab'))
           d == Cardinality(Places(udptab))
           k == icmptab[s].count
<1>1. TablesTyped /\ CallsTyped
  BY DEF Sound
<1>2. b + k = a + c
  BY <1>1, IcmpPlaces
<1>3. a \in Nat /\ d \in Nat /\ Len(iqueue) \in Nat
  BY <1>1, Counts
<1>4. k \in Nat /\ Counted(icmptab', ICMP_SLOTS) /\ ICMP_SLOTS \in Nat
  BY <1>1, NetAssumption DEF TablesTyped, IcmpEntry, IcmpRecord, Counted, IcmpSlot
<1>5. b \in Nat
  BY <1>4, PlacesFinite
<1>6. InQueues = d + a + Len(iqueue) /\ InQueues' = d + b + Len(iqueue)
  BY DEF InQueues
<1> HIDE DEF a, b, d, k
<1>7. InQueues' + k = InQueues + c
  BY <1>2, <1>3, <1>4, <1>5, <1>6
<1> QED BY <1>4, <1>7 DEF k

\* udp_register
LEMMA UdpRegisterSound ==
    ASSUME Sound, NEW p \in Procs, NEW h \in Hosts \cup {ANY}, udp_register(p, h)
    PROVE  Sound'
<1>1. p \in Callers /\ TablesTyped /\ CallsTyped
  BY DEF Sound, Callers
<1>2. PICK s \in 1 .. UDP_SLOTS : udptab[s].state = "FREE" /\ UdpSlot(s, "USED", 0, NONE, p)
  BY <1>1, UdpRegisterSlot
<1>3. /\ pool' = pool /\ icmptab' = icmptab /\ arpcache' = arpcache /\ iqueue' = iqueue
      /\ doing' = doing /\ prmsg' = prmsg /\ netin' = netin
  BY DEF udp_register
<1>4. TablesTyped' /\ CallsTyped'
  BY <1>1, <1>2, <1>3 DEF TablesTyped, CallsTyped, UdpSlot
<1>5. udptab[s].count = 0
  BY <1>1, <1>2 DEF TablesTyped, UdpEntry
<1>6. InQueues' + 0 = InQueues + 0
  BY <1>2, <1>3, <1>5, UdpQueues
<1>7. InQueues' = InQueues
  BY <1>1, <1>4, <1>6, QueueCounts
<1>8. Seekers' = Seekers /\ NetinHas' = NetinHas /\ Resolving' = Resolving
  BY <1>3 DEF Seekers, Getting, NetinGetting, NetinHas, Resolving
<1>9. Elsewhere' = Elsewhere
  BY <1>7, <1>8 DEF Elsewhere, InQueues
<1> QED BY <1>3, <1>4, <1>8, <1>9, PoolKept

\* A packet is taken from slot s of UDP, by a process that stays or comes
\* where it holds no buffer.
LEMMA UdpTakeSound ==
    ASSUME Sound, NEW s \in 1 .. UDP_SLOTS, udpTake(s), fault = "none", fault' = "none",
           CallsTyped', icmptab' = icmptab, arpcache' = arpcache, iqueue' = iqueue, netin' = netin,
           NEW p \in Callers, NEW w \in CallState, does(p, w), doing[p].at \notin {"getbuf", "arp"},
           w.at \notin {"getbuf", "arp"}
    PROVE  Sound'
<1> DEFINE k == udptab[s].count
           c == k - 1
<1>1. k > 0 /\ UdpSlot(s, "USED", c, udptab[s].pid, udptab[s].owner)
  BY UdpTakeSlot DEF Sound
<1>2. k \in Nat /\ c \in Nat
  BY <1>1 DEF Sound, TablesTyped, UdpEntry, UdpRecord
<1>3. TablesTyped'
  BY <1>1 DEF Sound, TablesTyped, UdpSlot
<1> HIDE DEF c
<1>4. InQueues' + k = InQueues + c
  BY <1>1, <1>2, UdpQueues
<1>5. InQueues' + 1 = InQueues
  <2> DEFINE a == InQueues
             b == InQueues'
  <2>1. a \in Nat /\ b \in Nat /\ b + k = a + c /\ c = k - 1
    BY <1>3, <1>4, QueueCounts DEF Sound, c
  <2> HIDE DEF a, b, k
  <2>2. b + 1 = a
    BY <1>2, <2>1
  <2> QED BY <2>2 DEF a, b
<1>6. pool' = signaledN(pool, 1)
  BY DEF udpTake, freebuf
<1>7. 1 = 1 + (IF doing[p].at = "arp" THEN 1 ELSE 0)
  OBVIOUS
<1> QED BY <1>3, <1>5, <1>6, <1>7, CallFrees

\* The same for ICMP.
LEMMA IcmpTakeSound ==
    ASSUME Sound, NEW s \in 1 .. ICMP_SLOTS, icmpTake(s), fault = "none", fault' = "none",
           CallsTyped', udptab' = udptab, arpcache' = arpcache, iqueue' = iqueue, netin' = netin,
           NEW p \in Callers, NEW w \in CallState, does(p, w), doing[p].at \notin {"getbuf", "arp"},
           w.at \notin {"getbuf", "arp"}
    PROVE  Sound'
<1> DEFINE k == icmptab[s].count
           c == k - 1
<1>1. k > 0 /\ IcmpSlot(s, "USED", c, icmptab[s].pid, icmptab[s].owner)
  BY IcmpTakeSlot DEF Sound
<1>2. k \in Nat /\ c \in Nat
  BY <1>1 DEF Sound, TablesTyped, IcmpEntry, IcmpRecord
<1>3. TablesTyped'
  BY <1>1 DEF Sound, TablesTyped, IcmpSlot
<1> HIDE DEF c
<1>4. InQueues' + k = InQueues + c
  BY <1>1, <1>2, IcmpQueues
<1>5. InQueues' + 1 = InQueues
  <2> DEFINE a == InQueues
             b == InQueues'
  <2>1. a \in Nat /\ b \in Nat /\ b + k = a + c /\ c = k - 1
    BY <1>3, <1>4, QueueCounts DEF Sound, c
  <2> HIDE DEF a, b, k
  <2>2. b + 1 = a
    BY <1>2, <2>1
  <2> QED BY <2>2 DEF a, b
<1>6. pool' = signaledN(pool, 1)
  BY DEF icmpTake, freebuf
<1>7. 1 = 1 + (IF doing[p].at = "arp" THEN 1 ELSE 0)
  OBVIOUS
<1> QED BY <1>3, <1>5, <1>6, <1>7, CallFrees

\* A process that does nothing new.
LEMMA Stays ==
    ASSUME CallsTyped, NEW p \in Callers, doing' = doing
    PROVE  does(p, doing[p]) /\ doing[p] \in CallState
BY DEF CallsTyped, does

\* udp_recv
LEMMA UdpRecvSound ==
    ASSUME Sound, NEW p \in Procs, NEW s \in DOMAIN udptab, udp_recv(p, s), fault' = "none"
    PROVE  Sound'
<1>1. /\ p \in Callers /\ TablesTyped /\ CallsTyped /\ s \in 1 .. UDP_SLOTS /\ fault = "none"
      /\ doing[p].at = "user"
  BY DEF Sound, Callers, TablesTyped, udp_recv, Stands
<1>2. icmptab' = icmptab /\ arpcache' = arpcache /\ iqueue' = iqueue /\ netin' = netin
  BY DEF udp_recv
<1>3. CASE udpTake(s) /\ doing' = doing /\ prmsg' = prmsg
  <2>1. CallsTyped' /\ does(p, doing[p]) /\ doing[p] \in CallState
    BY <1>1, <1>2, <1>3, Stays DEF CallsTyped
  <2> QED BY <1>1, <1>2, <1>3, <2>1, UdpTakeSound
<1>4. CASE /\ udptab[s].count = 0
           /\ udptab' = [udptab EXCEPT ![s].state = "RECV", ![s].pid = p]
           /\ recvclr(p)
           /\ does(p, [at |-> "recv", tab |-> "udp", slot |-> s])
           /\ pool' = pool
  <2> DEFINE w == [at |-> "recv", tab |-> "udp", slot |-> s]
  <2>1. UdpSlot(s, "RECV", 0, p, udptab[s].owner)
    BY <1>1, <1>4, UdpWaitSlot
  <2>2. TablesTyped'
    BY <1>1, <1>2, <2>1 DEF TablesTyped, UdpSlot
  <2>3. w \in CallState /\ w.at = "recv"
    BY <1>1 DEF CallState, InRecv
  <2>4. does(p, w)
    BY <1>4
  <2> HIDE DEF w
  <2>5. prmsg' \in [Callers -> {NONE, "OK", "other"}] /\ iqueue' \in Seq(Dests)
    BY <1>1, <1>2, <1>4, RecvClr DEF CallsTyped
  <2>6. CallsTyped'
    BY <1>1, <1>2, <2>3, <2>4, <2>5, CallTyped
  <2>7. InQueues' + 0 = InQueues + 0
    BY <1>1, <1>2, <1>4, <2>1, UdpQueues
  <2>8. InQueues' = InQueues
    BY <1>1, <2>2, <2>6, <2>7, QueueCounts
  <2> QED BY <1>1, <1>2, <1>4, <2>2, <2>3, <2>4, <2>6, <2>8, CallOnly
<1> QED BY <1>3, <1>4 DEF udp_recv

\* udp_recvEnd
LEMMA UdpRecvEndSound ==
    ASSUME Sound, NEW p \in Procs, udp_recvEnd(p), fault' = "none"
    PROVE  Sound'
<1> DEFINE s == doing[p].slot
<1>1. /\ p \in Callers /\ TablesTyped /\ CallsTyped /\ fault = "none" /\ doing[p] \in CallState
      /\ doing[p].at = "recv" /\ doing[p].tab = "udp" /\ does(p, USER) /\ recvclr(p)
  BY DEF Sound, Callers, CallsTyped, udp_recvEnd, Stands
<1>2. icmptab' = icmptab /\ arpcache' = arpcache /\ iqueue' = iqueue /\ netin' = netin
  BY DEF udp_recvEnd
<1>3. s \in 1 .. UDP_SLOTS
  BY <1>1, CallFacts
<1> HIDE DEF s
<1>4. prmsg' \in [Callers -> {NONE, "OK", "other"}] /\ iqueue' \in Seq(Dests)
  BY <1>1, <1>2, RecvClr DEF CallsTyped
<1>5. CallsTyped'
  BY <1>1, <1>2, <1>4, UserState, CallTyped
<1>6. CASE udpTake(s)
  BY <1>1, <1>2, <1>3, <1>5, <1>6, UserState, UdpTakeSound
<1>7. CASE udptab' = [udptab EXCEPT ![s].state = "USED"] /\ pool' = pool
  <2>1. UdpSlot(s, "USED", udptab[s].count, udptab[s].pid, udptab[s].owner)
    BY <1>1, <1>3, <1>7, UdpEndSlot
  <2>2. TablesTyped' /\ udptab[s].count \in Nat
    BY <1>1, <1>2, <1>3, <2>1 DEF TablesTyped, UdpSlot, UdpEntry, UdpRecord
  <2>3. InQueues' + udptab[s].count = InQueues + udptab[s].count
    BY <1>2, <1>3, <2>1, <2>2, UdpQueues
  <2>4. InQueues' = InQueues
    BY <1>1, <1>5, <2>2, <2>3, QueueCounts
  <2> QED BY <1>1, <1>2, <1>5, <1>7, <2>2, <2>4, UserState, CallOnly
<1> QED BY <1>6, <1>7 DEF udp_recvEnd, s

\* udp_release
LEMMA UdpReleaseSound ==
    ASSUME Sound, NEW p \in Procs, NEW s \in DOMAIN udptab, udp_release(p, s)
    PROVE  Sound'
<1>1. /\ p \in Callers /\ TablesTyped /\ CallsTyped /\ s \in 1 .. UDP_SLOTS /\ doing[p].at = "user"
  BY DEF Sound, Callers, TablesTyped, udp_release, Stands
<1>2. /\ icmptab' = icmptab /\ arpcache' = arpcache /\ iqueue' = iqueue /\ netin' = netin
      /\ doing' = doing /\ prmsg' = prmsg /\ pool' = signaledN(pool, udptab[s].count)
      /\ udptab' = [udptab EXCEPT ![s].count = 0, ![s].state = "FREE"]
  BY DEF udp_release, freebuf, released
<1>3. UdpSlot(s, "FREE", 0, udptab[s].pid, udptab[s].owner)
  BY <1>1, <1>2, UdpReleaseSlot
<1>4. TablesTyped' /\ CallsTyped' /\ udptab[s].count \in Nat
  BY <1>1, <1>2, <1>3 DEF TablesTyped, UdpSlot, CallsTyped, UdpEntry, UdpRecord
<1>5. InQueues' + udptab[s].count = InQueues + 0
  BY <1>1, <1>2, <1>3, UdpQueues
<1>6. InQueues' + udptab[s].count = InQueues
  BY <1>1, <1>4, <1>5, QueueCounts
<1>7. udptab[s].count = udptab[s].count + (IF doing[p].at = "arp" THEN 1 ELSE 0)
  BY <1>1, <1>4
<1>8. does(p, doing[p]) /\ doing[p] \in CallState
  BY <1>1, <1>2, Stays
<1> QED BY <1>1, <1>2, <1>4, <1>6, <1>7, <1>8, CallFrees

\* udp_send and icmp_send
LEMMA SendSound ==
    ASSUME Sound, NEW p \in Procs, NEW h \in Dests, NEW w, w \in InGetbuf, doing[p].at = "user",
           pool' = waitbuf(p), does(p, w), udptab' = udptab, icmptab' = icmptab,
           arpcache' = arpcache, iqueue' = iqueue, prmsg' = prmsg, netin' = netin
    PROVE  Sound'
<1>1. p \in Callers /\ TablesTyped /\ CallsTyped /\ w \in CallState /\ w.at = "getbuf"
  BY DEF Sound, Callers, CallState, InGetbuf
<1>2. TablesTyped'
  BY <1>1 DEF TablesTyped
<1>3. iqueue' \in Seq(Dests) /\ prmsg' \in [Callers -> {NONE, "OK", "other"}]
  BY <1>1 DEF CallsTyped
<1>4. CallsTyped'
  BY <1>1, <1>3, CallTyped
<1>5. InQueues' = InQueues
  BY DEF InQueues
<1> QED BY <1>1, <1>2, <1>4, <1>5, CallSeeks

\* icmp_register
LEMMA IcmpRegisterSound ==
    ASSUME Sound, NEW p \in Procs, NEW h \in Hosts, icmp_register(p, h)
    PROVE  Sound'
<1>1. p \in Callers /\ TablesTyped /\ CallsTyped
  BY DEF Sound, Callers
<1>2. PICK s \in 1 .. ICMP_SLOTS : icmptab[s].state = "FREE" /\ IcmpSlot(s, "USED", 0, NONE, p)
  BY <1>1, IcmpRegisterSlot
<1>3. /\ pool' = pool /\ udptab' = udptab /\ arpcache' = arpcache /\ iqueue' = iqueue
      /\ doing' = doing /\ prmsg' = prmsg /\ netin' = netin
  BY DEF icmp_register
<1>4. TablesTyped' /\ CallsTyped'
  BY <1>1, <1>2, <1>3 DEF TablesTyped, CallsTyped, IcmpSlot
<1>5. icmptab[s].count = 0
  BY <1>1, <1>2 DEF TablesTyped, IcmpEntry
<1>6. InQueues' + 0 = InQueues + 0
  BY <1>2, <1>3, <1>5, IcmpQueues
<1>7. InQueues' = InQueues
  BY <1>1, <1>4, <1>6, QueueCounts
<1>8. Seekers' = Seekers /\ NetinHas' = NetinHas /\ Resolving' = Resolving
  BY <1>3 DEF Seekers, Getting, NetinGetting, NetinHas, Resolving
<1>9. Elsewhere' = Elsewhere
  BY <1>7, <1>8 DEF Elsewhere, InQueues
<1> QED BY <1>3, <1>4, <1>8, <1>9, PoolKept

\* icmp_recv
LEMMA IcmpRecvSound ==
    ASSUME Sound, NEW p \in Procs, NEW s \in DOMAIN icmptab, icmp_recv(p, s), fault' = "none"
    PROVE  Sound'
<1>1. /\ p \in Callers /\ TablesTyped /\ CallsTyped /\ s \in 1 .. ICMP_SLOTS /\ fault = "none"
      /\ doing[p].at = "user"
  BY DEF Sound, Callers, TablesTyped, icmp_recv, Stands
<1>2. udptab' = udptab /\ arpcache' = arpcache /\ iqueue' = iqueue /\ netin' = netin
  BY DEF icmp_recv
<1>3. CASE icmpTake(s) /\ doing' = doing /\ prmsg' = prmsg
  <2>1. CallsTyped' /\ does(p, doing[p]) /\ doing[p] \in CallState
    BY <1>1, <1>2, <1>3, Stays DEF CallsTyped
  <2> QED BY <1>1, <1>2, <1>3, <2>1, IcmpTakeSound
<1>4. CASE /\ icmptab[s].count = 0
           /\ icmptab' = [icmptab EXCEPT ![s].state = "RECV", ![s].pid = p]
           /\ recvclr(p)
           /\ does(p, [at |-> "recv", tab |-> "icmp", slot |-> s])
           /\ pool' = pool
  <2> DEFINE w == [at |-> "recv", tab |-> "icmp", slot |-> s]
  <2>1. IcmpSlot(s, "RECV", 0, p, icmptab[s].owner)
    BY <1>1, <1>4, IcmpWaitSlot
  <2>2. TablesTyped'
    BY <1>1, <1>2, <2>1 DEF TablesTyped, IcmpSlot
  <2>3. w \in CallState /\ w.at = "recv"
    BY <1>1 DEF CallState, InRecv
  <2>4. does(p, w)
    BY <1>4
  <2> HIDE DEF w
  <2>5. prmsg' \in [Callers -> {NONE, "OK", "other"}] /\ iqueue' \in Seq(Dests)
    BY <1>1, <1>2, <1>4, RecvClr DEF CallsTyped
  <2>6. CallsTyped'
    BY <1>1, <1>2, <2>3, <2>4, <2>5, CallTyped
  <2>7. InQueues' + 0 = InQueues + 0
    BY <1>1, <1>2, <1>4, <2>1, IcmpQueues
  <2>8. InQueues' = InQueues
    BY <1>1, <2>2, <2>6, <2>7, QueueCounts
  <2> QED BY <1>1, <1>2, <1>4, <2>2, <2>3, <2>4, <2>6, <2>8, CallOnly
<1> QED BY <1>3, <1>4 DEF icmp_recv

\* icmp_recvEnd
LEMMA IcmpRecvEndSound ==
    ASSUME Sound, NEW p \in Procs, icmp_recvEnd(p), fault' = "none"
    PROVE  Sound'
<1> DEFINE s == doing[p].slot
<1>1. /\ p \in Callers /\ TablesTyped /\ CallsTyped /\ fault = "none" /\ doing[p] \in CallState
      /\ doing[p].at = "recv" /\ doing[p].tab = "icmp" /\ does(p, USER) /\ recvclr(p)
  BY DEF Sound, Callers, CallsTyped, icmp_recvEnd, Stands
<1>2. udptab' = udptab /\ arpcache' = arpcache /\ iqueue' = iqueue /\ netin' = netin
  BY DEF icmp_recvEnd
<1>3. s \in 1 .. ICMP_SLOTS
  BY <1>1, CallFacts
<1> HIDE DEF s
<1>4. prmsg' \in [Callers -> {NONE, "OK", "other"}] /\ iqueue' \in Seq(Dests)
  BY <1>1, <1>2, RecvClr DEF CallsTyped
<1>5. CallsTyped'
  BY <1>1, <1>2, <1>4, UserState, CallTyped
<1>6. CASE icmpTake(s)
  BY <1>1, <1>2, <1>3, <1>5, <1>6, UserState, IcmpTakeSound
<1>7. CASE icmptab' = [icmptab EXCEPT ![s].state = "USED"] /\ pool' = pool
  <2>1. IcmpSlot(s, "USED", icmptab[s].count, icmptab[s].pid, icmptab[s].owner)
    BY <1>1, <1>3, <1>7, IcmpEndSlot
  <2>2. TablesTyped' /\ icmptab[s].count \in Nat
    BY <1>1, <1>2, <1>3, <2>1 DEF TablesTyped, IcmpSlot, IcmpEntry, IcmpRecord
  <2>3. InQueues' + icmptab[s].count = InQueues + icmptab[s].count
    BY <1>2, <1>3, <2>1, <2>2, IcmpQueues
  <2>4. InQueues' = InQueues
    BY <1>1, <1>5, <2>2, <2>3, QueueCounts
  <2> QED BY <1>1, <1>2, <1>5, <1>7, <2>2, <2>4, UserState, CallOnly
<1> QED BY <1>6, <1>7 DEF icmp_recvEnd, s

\* icmp_release
LEMMA IcmpReleaseSound ==
    ASSUME Sound, NEW p \in Procs, NEW s \in DOMAIN icmptab, icmp_release(p, s)
    PROVE  Sound'
<1>1. /\ p \in Callers /\ TablesTyped /\ CallsTyped /\ s \in 1 .. ICMP_SLOTS /\ doing[p].at = "user"
  BY DEF Sound, Callers, TablesTyped, icmp_release, Stands
<1>2. /\ udptab' = udptab /\ arpcache' = arpcache /\ iqueue' = iqueue /\ netin' = netin
      /\ doing' = doing /\ prmsg' = prmsg /\ pool' = signaledN(pool, icmptab[s].count)
      /\ icmptab' = [icmptab EXCEPT ![s].count = 0, ![s].state = "FREE"]
  BY DEF icmp_release, freebuf
<1>3. IcmpSlot(s, "FREE", 0, icmptab[s].pid, icmptab[s].owner)
  BY <1>1, <1>2, IcmpReleaseSlot
<1>4. TablesTyped' /\ CallsTyped' /\ icmptab[s].count \in Nat
  BY <1>1, <1>2, <1>3 DEF TablesTyped, IcmpSlot, CallsTyped, IcmpEntry, IcmpRecord
<1>5. InQueues' + icmptab[s].count = InQueues + 0
  BY <1>1, <1>2, <1>3, IcmpQueues
<1>6. InQueues' + icmptab[s].count = InQueues
  BY <1>1, <1>4, <1>5, QueueCounts
<1>7. icmptab[s].count = icmptab[s].count + (IF doing[p].at = "arp" THEN 1 ELSE 0)
  BY <1>1, <1>4
<1>8. does(p, doing[p]) /\ doing[p] \in CallState
  BY <1>1, <1>2, Stays
<1> QED BY <1>1, <1>2, <1>4, <1>6, <1>7, <1>8, CallFrees

-----------------------------------------------------------------------------
(* Addresses and the output queue.                                         *)

\* arp_alloc() finds an entry that nobody waits for.
LEMMA AllocSlot ==
    ASSUME TablesTyped, arp_alloc # 0
    PROVE  /\ arp_alloc \in 1 .. ARP_SIZ
           /\ arpcache[arp_alloc].state \in {"FREE", "RESOLVED"}
<1> DEFINE F == Entries("FREE")
           R == Entries("RESOLVED")
<1>1. ARP_SIZ \in Nat /\ F \subseteq 1 .. ARP_SIZ /\ R \subseteq 1 .. ARP_SIZ
  BY NetAssumption DEF TablesTyped, Entries
<1>2. arp_alloc = IF F # {} THEN First(F) ELSE First(R)
  BY DEF arp_alloc
<1> HIDE DEF F, R
<1>3. CASE F # {}
  <2>1. arp_alloc \in F /\ arp_alloc \in 1 .. ARP_SIZ
    BY <1>1, <1>2, <1>3, FirstSlot
  <2> QED BY <2>1 DEF F, Entries
<1>4. CASE F = {}
  <2>1. arp_alloc \in R /\ arp_alloc \in 1 .. ARP_SIZ
    BY <1>1, <1>2, <1>4, FirstSlot
  <2> QED BY <2>1 DEF R, Entries
<1> QED BY <1>3, <1>4

\* The entry of a known host.
LEMMA KnownSlot ==
    ASSUME TablesTyped, NEW h, NEW s, s = First(Known(h))
    PROVE  /\ s # 0 => s \in 1 .. ARP_SIZ /\ arpcache[s].state # "FREE" /\ arpcache[s].addr = h
           /\ s = 0 => \A i \in 1 .. ARP_SIZ : arpcache[i].state = "FREE" \/ arpcache[i].addr # h
<1>1. ARP_SIZ \in Nat /\ Known(h) \subseteq 1 .. ARP_SIZ /\ DOMAIN arpcache = 1 .. ARP_SIZ
  BY NetAssumption DEF TablesTyped, Known
<1>2. (s = 0 /\ Known(h) = {}) \/ (s # 0 /\ s \in Known(h) /\ s \in 1 .. ARP_SIZ)
  BY <1>1, FirstSlot
<1> QED BY <1>1, <1>2 DEF Known

\* Entry s of the cache becomes e.
ArpSlot(s, e) ==
    /\ s \in 1 .. ARP_SIZ /\ arpcache' \in [1 .. ARP_SIZ -> ArpEntry]
    /\ arpcache'[s] = e /\ \A i \in (1 .. ARP_SIZ) \ {s} : arpcache'[i] = arpcache[i]

\* The entry of a request that p sends.
Request(p, h) == [state |-> "PENDING", addr |-> h, haddr |-> NONE, pid |-> p]

\* Where a process in arp_resolve() stands.
Resolves(h, s) == [at |-> "arp", dest |-> h, slot |-> s, tries |-> 1]

\* The two ways of arp_resolve().
LEMMA ResolveCases ==
    ASSUME TablesTyped, NEW p \in Callers, NEW h \in Dests, arp_resolve(p, h)
    PROVE  \/ resolved(p) /\ arpcache' = arpcache /\ prmsg' = prmsg
           \/ /\ ArpSlot(arp_alloc, Request(p, h))
              /\ arpcache[arp_alloc].state \in {"FREE", "RESOLVED"}
              /\ recvclr(p) /\ pool' = pool
              /\ Resolves(h, arp_alloc) \in CallState /\ does(p, Resolves(h, arp_alloc))
<1> SUFFICES ASSUME ~(resolved(p) /\ arpcache' = arpcache /\ prmsg' = prmsg)
             PROVE  /\ ArpSlot(arp_alloc, Request(p, h))
                    /\ arpcache[arp_alloc].state \in {"FREE", "RESOLVED"}
                    /\ recvclr(p) /\ pool' = pool
                    /\ Resolves(h, arp_alloc) \in CallState /\ does(p, Resolves(h, arp_alloc))
  OBVIOUS
<1>1. /\ arp_alloc # 0 /\ recvclr(p) /\ pool' = pool
      /\ arpcache' = [arpcache EXCEPT ![arp_alloc] = Request(p, h)]
      /\ does(p, Resolves(h, arp_alloc))
  BY DEF arp_resolve, Request, Resolves
<1>2. arp_alloc \in 1 .. ARP_SIZ /\ arpcache[arp_alloc].state \in {"FREE", "RESOLVED"}
  BY <1>1, AllocSlot
<1>3. Request(p, h) \in ArpEntry
  BY DEF Request, ArpEntry
<1>4. ArpSlot(arp_alloc, Request(p, h))
  BY <1>1, <1>2, <1>3 DEF ArpSlot, TablesTyped
<1>5. Resolves(h, arp_alloc) \in CallState
  BY <1>2 DEF Resolves, CallState, InArp
<1> QED BY <1>1, <1>2, <1>4, <1>5

\* Where the caller of arp_resolve() goes on.
Onward(p) == IF p = IPOUT THEN [at |-> "wait"] ELSE USER

\* It is a place without a buffer.
LEMMA OnwardState ==
    ASSUME NEW p
    PROVE  Onward(p) \in CallState /\ Onward(p).at \in {"wait", "user"}
BY UserState DEF Onward

\* resolved
LEMMA ResolvedDoes ==
    ASSUME NEW p, resolved(p)
    PROVE  does(p, Onward(p)) /\ pool' = signaledN(pool, 1)
BY DEF resolved, Onward, freebuf

\* ip_send
LEMMA IpSendSound ==
    ASSUME Sound, NEW p \in Procs, ip_send(p)
    PROVE  Sound'
<1> DEFINE d == doing[p]
<1>1. /\ p \in Callers /\ TablesTyped /\ CallsTyped /\ d.at = "getbuf" /\ ~waitsOn(p, pool)
      /\ d \in CallState /\ iqueue' = iqueue /\ netin' = netin
  BY DEF Sound, Callers, CallsTyped, ip_send, Stands
<1>2. d.dest \in Dests
  BY <1>1, CallFacts
<1>3. iqueue' \in Seq(Dests)
  BY <1>1 DEF CallsTyped
<1>4. CASE udp_in(OURSELF) /\ does(p, USER) /\ arpcache' = arpcache
  <2> DEFINE s == First(matching(OURSELF))
  <2>1. icmptab' = icmptab
    BY <1>4 DEF udp_in
  <2> HIDE DEF s
  <2>2. CASE /\ s # 0 /\ udptab' = [udptab EXCEPT ![s].count = @ + 1, ![s].state = "USED"]
             /\ send(waiter(udptab[s]), "OK") /\ pool' = pool
    <3>1. s \in 1 .. UDP_SLOTS
      BY <1>1, <2>2, MatchingSlot DEF s
    <3>2. UdpSlot(s, "USED", udptab[s].count + 1, udptab[s].pid, udptab[s].owner)
      BY <1>1, <2>2, <3>1, UdpInSlot
    <3>3. udptab[s].count \in Nat /\ udptab[s].count + 1 \in Nat /\ waiter(udptab[s]) \in Callers \cup {NONE}
      BY <1>1, <3>1 DEF TablesTyped, UdpEntry, UdpRecord, waiter
    <3>4. prmsg' \in [Callers -> {NONE, "OK", "other"}]
      BY <1>1, <2>2, <3>3, SendTyped
    <3>5. TablesTyped'
      BY <1>1, <1>4, <2>1, <3>2 DEF TablesTyped, UdpSlot
    <3>6. CallsTyped'
      BY <1>1, <1>3, <1>4, <3>4, UserState, CallTyped
    <3> DEFINE k == udptab[s].count
               c == udptab[s].count + 1
    <3>7. InQueues' + k = InQueues + c
      BY <1>1, <2>1, <3>1, <3>2, <3>3, UdpQueues
    <3>8. InQueues' = InQueues + 1
      <4> DEFINE a == InQueues
                 b == InQueues'
      <4>1. a \in Nat /\ b \in Nat /\ k \in Nat /\ b + k = a + (k + 1)
        BY <1>1, <3>3, <3>5, <3>6, <3>7, QueueCounts
      <4> HIDE DEF a, b, k
      <4>2. b = a + 1
        BY <4>1
      <4> QED BY <4>2 DEF a, b
    <3> QED BY <1>1, <1>4, <2>2, <3>5, <3>6, <3>8, UserState, GivenKeeps
  <2>3. CASE freebuf(1) /\ udptab' = udptab /\ prmsg' = prmsg
    <3>1. TablesTyped' /\ prmsg' \in [Callers -> {NONE, "OK", "other"}]
      BY <1>1, <1>4, <2>1, <2>3 DEF TablesTyped, CallsTyped
    <3>2. CallsTyped'
      BY <1>1, <1>3, <1>4, <3>1, UserState, CallTyped
    <3>3. InQueues' = InQueues /\ pool' = signaledN(pool, 1)
      BY <1>1, <2>1, <2>3 DEF InQueues, freebuf
    <3> QED BY <1>1, <1>4, <3>1, <3>2, <3>3, UserState, GivenFrees
  <2> QED BY <1>4, <2>2, <2>3 DEF udp_in, s
<1>5. CASE arp_resolve(p, d.dest)
  <2> DEFINE h == d.dest
  <2>1. udptab' = udptab /\ icmptab' = icmptab /\ InQueues' = InQueues
    BY <1>1, <1>5 DEF arp_resolve, InQueues
  <2> HIDE DEF h
  <2>2. arp_resolve(p, h) /\ h \in Dests
    BY <1>2, <1>5 DEF h
  <2>3. CASE resolved(p) /\ arpcache' = arpcache /\ prmsg' = prmsg
    <3>1. TablesTyped' /\ prmsg' \in [Callers -> {NONE, "OK", "other"}]
      BY <1>1, <2>1, <2>3 DEF TablesTyped, CallsTyped
    <3>2. does(p, Onward(p)) /\ pool' = signaledN(pool, 1)
      BY <2>3, ResolvedDoes
    <3>3. CallsTyped'
      BY <1>1, <1>3, <3>1, <3>2, OnwardState, CallTyped
    <3> QED BY <1>1, <2>1, <3>1, <3>2, <3>3, OnwardState, GivenFrees
  <2>4. CASE /\ ArpSlot(arp_alloc, Request(p, h)) /\ recvclr(p) /\ pool' = pool
             /\ Resolves(h, arp_alloc) \in CallState /\ does(p, Resolves(h, arp_alloc))
    <3> DEFINE w == Resolves(h, arp_alloc)
    <3>1. TablesTyped' /\ prmsg' \in [Callers -> {NONE, "OK", "other"}]
      BY <1>1, <2>1, <2>4, RecvClr DEF TablesTyped, ArpSlot
    <3>2. w \in CallState /\ w.at = "arp" /\ does(p, w)
      BY <2>4 DEF Resolves
    <3> HIDE DEF w
    <3>3. CallsTyped'
      BY <1>1, <1>3, <3>1, <3>2, CallTyped
    <3>4. InQueues' = InQueues + (IF w.at = "arp" THEN 0 ELSE 1)
      BY <1>1, <2>1, <3>1, <3>2, <3>3, QueueCounts
    <3> QED BY <1>1, <2>4, <3>1, <3>2, <3>3, <3>4, GivenKeeps
  <2> QED BY <1>1, <2>2, <2>3, <2>4, ResolveCases
<1> QED BY <1>4, <1>5 DEF ip_send

\* ipout
LEMMA IpoutSound ==
    ASSUME Sound, ipout
    PROVE  Sound'
<1>1. /\ IPOUT \in Callers /\ TablesTyped /\ CallsTyped /\ doing[IPOUT].at = "wait" /\ iqueue # <<>>
      /\ iqueue' = Tail(iqueue) /\ netin' = netin /\ arp_resolve(IPOUT, Head(iqueue))
      /\ iqueue \in Seq(Dests)
  BY DEF Sound, Callers, CallsTyped, ipout, Stands
<1>2. Head(iqueue) \in Dests /\ iqueue' \in Seq(Dests) /\ Len(iqueue') + 1 = Len(iqueue)
  BY <1>1
<1> DEFINE h == Head(iqueue)
<1>3. udptab' = udptab /\ icmptab' = icmptab
  BY <1>1 DEF arp_resolve
<1>4. InQueues' + 1 = InQueues
  BY <1>1, <1>2, <1>3, Counts DEF InQueues
<1> HIDE DEF h
<1>5. arp_resolve(IPOUT, h) /\ h \in Dests
  BY <1>1, <1>2 DEF h
<1>6. CASE resolved(IPOUT) /\ arpcache' = arpcache /\ prmsg' = prmsg
  <2>1. TablesTyped' /\ prmsg' \in [Callers -> {NONE, "OK", "other"}]
    BY <1>1, <1>3, <1>6 DEF TablesTyped, CallsTyped
  <2>2. does(IPOUT, Onward(IPOUT)) /\ pool' = signaledN(pool, 1)
    BY <1>6, ResolvedDoes
  <2>3. CallsTyped'
    BY <1>1, <1>2, <2>1, <2>2, OnwardState, CallTyped
  <2>4. 1 = 1 + (IF doing[IPOUT].at = "arp" THEN 1 ELSE 0)
    BY <1>1
  <2>5. Onward(IPOUT) \in CallState /\ Onward(IPOUT).at \notin {"arp", "getbuf"}
    BY OnwardState
  <2> QED BY <1>1, <1>4, <2>1, <2>2, <2>3, <2>4, <2>5, CallFrees
<1>7. CASE /\ ArpSlot(arp_alloc, Request(IPOUT, h)) /\ recvclr(IPOUT) /\ pool' = pool
           /\ Resolves(h, arp_alloc) \in CallState /\ does(IPOUT, Resolves(h, arp_alloc))
  <2> DEFINE w == Resolves(h, arp_alloc)
  <2>1. TablesTyped' /\ prmsg' \in [Callers -> {NONE, "OK", "other"}]
    BY <1>1, <1>3, <1>7, RecvClr DEF TablesTyped, ArpSlot
  <2>2. w \in CallState /\ w.at = "arp" /\ does(IPOUT, w)
    BY <1>7 DEF Resolves
  <2> HIDE DEF w
  <2>3. CallsTyped'
    BY <1>1, <1>2, <2>1, <2>2, CallTyped
  <2>4. Seekers' = Seekers
    BY <1>1, <2>2, CallSets
  <2> DEFINE m == 0 - 1
  <2>5. m \in Int /\ InQueues' = InQueues + m
    BY <1>1, <1>4, <2>1, <2>3, QueueCounts
  <2>6. (IF doing[IPOUT].at = "arp" THEN 1 ELSE 0) = 0 /\ (IF w.at = "arp" THEN 1 ELSE 0) = 1
    BY <1>1, <2>2
  <2>7. Elsewhere' + 0 = Elsewhere + m + 1
    <3> HIDE DEF m
    <3> QED BY <1>1, <2>1, <2>2, <2>3, <2>5, <2>6, CallElsewhere
  <2>8. Elsewhere' = Elsewhere
    <3> DEFINE a == Elsewhere
               b == Elsewhere'
    <3>1. a \in Nat /\ b \in Nat /\ b + 0 = a + (0 - 1) + 1
      BY <1>1, <2>1, <2>3, <2>7, Counts, CountsNext
    <3> HIDE DEF a, b, m
    <3>2. b = a
      BY <3>1
    <3> QED BY <3>2 DEF a, b
  <2> QED BY <1>7, <2>1, <2>3, <2>4, <2>8, PoolKept
<1> QED BY <1>1, <1>5, <1>6, <1>7, ResolveCases

\* The three ways arp_resolve() goes on after a wait.
LEMMA ArpEndCases ==
    ASSUME TablesTyped, NEW p \in Callers, arpEnd(p), doing[p] \in InArp
    PROVE  \/ prmsg[p] # NONE /\ resolved(p) /\ arpcache' = arpcache
           \/ /\ prmsg[p] = NONE /\ arpcache' = arpcache /\ pool' = pool
              /\ \E w \in InArp : does(p, w) /\ w.slot = doing[p].slot /\ w.dest = doing[p].dest
           \/ /\ prmsg[p] = NONE /\ resolved(p)
              /\ ArpSlot(doing[p].slot, invalidated(arpcache[doing[p].slot]))
<1> DEFINE d == doing[p]
<1>1. d.slot \in 1 .. ARP_SIZ /\ d.tries \in Nat
  BY DEF InArp
<1>2. CASE prmsg[p] = NONE /\ pool' = pool /\ arpcache' = arpcache /\ does(p, [d EXCEPT !.tries = @ + 1])
  <2> DEFINE w == [d EXCEPT !.tries = @ + 1]
  <2>1. w \in InArp /\ w.slot = d.slot /\ w.dest = d.dest
    BY <1>1 DEF InArp
  <2> QED BY <1>2, <2>1
<1>3. CASE /\ prmsg[p] = NONE /\ resolved(p)
           /\ arpcache' = [arpcache EXCEPT ![d.slot] = invalidated(@)]
  <2>1. invalidated(arpcache[d.slot]) \in ArpEntry
    BY <1>1 DEF invalidated, TablesTyped, ArpEntry
  <2>2. ArpSlot(d.slot, invalidated(arpcache[d.slot]))
    BY <1>1, <1>3, <2>1 DEF ArpSlot, TablesTyped
  <2> QED BY <1>3, <2>2
<1> QED BY <1>2, <1>3 DEF arpEnd

\* arpEnd
LEMMA ArpEndSound ==
    ASSUME Sound, NEW p \in Callers, arpEnd(p)
    PROVE  Sound'
<1>1. /\ TablesTyped /\ CallsTyped /\ doing[p].at = "arp" /\ doing[p] \in CallState
      /\ recvclr(p) /\ iqueue' = iqueue /\ netin' = netin /\ udptab' = udptab /\ icmptab' = icmptab
  BY DEF Sound, CallsTyped, arpEnd, Stands
<1>2. doing[p] \in InArp
  BY <1>1, CallFacts
<1>3. prmsg' \in [Callers -> {NONE, "OK", "other"}] /\ iqueue' \in Seq(Dests)
  BY <1>1, RecvClr DEF CallsTyped
<1>4. InQueues' = InQueues
  BY <1>1 DEF InQueues
<1>5. CASE resolved(p) /\ (arpcache' = arpcache \/ arpcache' \in [1 .. ARP_SIZ -> ArpEntry])
  <2>1. TablesTyped'
    BY <1>1, <1>5 DEF TablesTyped
  <2>2. does(p, Onward(p)) /\ pool' = signaledN(pool, 1)
    BY <1>5, ResolvedDoes
  <2>3. CallsTyped'
    BY <1>1, <1>3, <2>2, OnwardState, CallTyped
  <2>4. 1 = 0 + (IF doing[p].at = "arp" THEN 1 ELSE 0) /\ InQueues' + 0 = InQueues
    BY <1>1, <1>4, <2>1, <2>3, QueueCounts
  <2>5. Onward(p) \in CallState /\ Onward(p).at \notin {"arp", "getbuf"}
    BY OnwardState
  <2> QED BY <1>1, <2>1, <2>2, <2>3, <2>4, <2>5, CallFrees
<1>6. CASE /\ arpcache' = arpcache /\ pool' = pool
           /\ \E w \in InArp : does(p, w) /\ w.slot = doing[p].slot /\ w.dest = doing[p].dest
  <2>1. PICK w \in InArp : does(p, w)
    BY <1>6
  <2>2. w \in CallState /\ w.at = "arp"
    BY DEF CallState, InArp
  <2>3. TablesTyped'
    BY <1>1, <1>6 DEF TablesTyped
  <2>4. CallsTyped'
    BY <1>1, <1>3, <2>1, <2>2, CallTyped
  <2> QED BY <1>1, <1>4, <1>6, <2>1, <2>2, <2>3, <2>4, CallOnly
<1> QED BY <1>1, <1>2, <1>5, <1>6, ArpEndCases DEF ArpSlot

\* What arp_in() leaves in the cache, and whom it tells.
LEMMA ArpInCases ==
    ASSUME TablesTyped, CallsTyped, NEW h \in Hosts, NEW ours \in BOOLEAN, arp_in(h, ours)
    PROVE  \/ \E s \in 1 .. ARP_SIZ :
                 /\ arpcache[s].state # "FREE" /\ arpcache[s].addr = h
                 /\ ArpSlot(s, learnt(arpcache[s], h))
                 /\ send(IF arpcache[s].state = "PENDING" THEN arpcache[s].pid ELSE NONE, "OK")
           \/ \E s \in 1 .. ARP_SIZ :
                 /\ arpcache[s].state \in {"FREE", "RESOLVED"}
                 /\ ArpSlot(s, [state |-> "RESOLVED", addr |-> h, haddr |-> h, pid |-> NONE])
                 /\ prmsg' = prmsg
           \/ arpcache' = arpcache /\ prmsg' = prmsg
<1> DEFINE s == First(Known(h))
<1>0. h \in Dests
  BY DEF Dests
<1> HIDE DEF s
<1>1. CASE /\ s # 0 /\ arpcache' = [arpcache EXCEPT ![s] = learnt(@, h)]
           /\ send(IF arpcache[s].state = "PENDING" THEN arpcache[s].pid ELSE NONE, "OK")
  <2>1. s \in 1 .. ARP_SIZ /\ arpcache[s].state # "FREE" /\ arpcache[s].addr = h
    BY <1>1, KnownSlot DEF s
  <2>2. learnt(arpcache[s], h) \in ArpEntry
    BY <1>0, <2>1 DEF learnt, TablesTyped, ArpEntry
  <2>3. ArpSlot(s, learnt(arpcache[s], h))
    BY <1>1, <2>1, <2>2 DEF ArpSlot, TablesTyped
  <2> QED BY <1>1, <2>1, <2>3
<1>2. CASE /\ arp_alloc # 0 /\ prmsg' = prmsg
           /\ arpcache' = [arpcache EXCEPT ![arp_alloc] =
                             [state |-> "RESOLVED", addr |-> h, haddr |-> h, pid |-> NONE]]
  <2> DEFINE e == [state |-> "RESOLVED", addr |-> h, haddr |-> h, pid |-> NONE]
  <2>1. arp_alloc \in 1 .. ARP_SIZ /\ arpcache[arp_alloc].state \in {"FREE", "RESOLVED"}
    BY <1>2, AllocSlot
  <2>2. e \in ArpEntry
    BY <1>0 DEF ArpEntry
  <2>3. ArpSlot(arp_alloc, e)
    BY <1>2, <2>1, <2>2 DEF ArpSlot, TablesTyped
  <2> QED BY <1>2, <2>1, <2>3
<1> QED BY <1>1, <1>2 DEF arp_in, s

\* netinArp
LEMMA NetinArpStep ==
    ASSUME Sound, NEW h \in Hosts, NEW ours \in BOOLEAN, netinArp(h, ours)
    PROVE  Sound'
<1>1. TablesTyped /\ CallsTyped /\ arp_in(h, ours) /\ udptab' = udptab /\ icmptab' = icmptab
  BY DEF Sound, netinArp, arp_in
<1>2. prmsg \in [Callers -> {NONE, "OK", "other"}]
  BY <1>1 DEF CallsTyped
<1>3. ASSUME NEW s \in 1 .. ARP_SIZ,
             send(IF arpcache[s].state = "PENDING" THEN arpcache[s].pid ELSE NONE, "OK")
      PROVE  prmsg' \in [Callers -> {NONE, "OK", "other"}]
  <2> DEFINE q == IF arpcache[s].state = "PENDING" THEN arpcache[s].pid ELSE NONE
  <2>1. q \in Callers \cup {NONE} /\ send(q, "OK")
    BY <1>1, <1>3 DEF TablesTyped, ArpEntry
  <2> HIDE DEF q
  <2> QED BY <1>1, <2>1, SendTyped
<1>4. prmsg' \in [Callers -> {NONE, "OK", "other"}]
  BY <1>1, <1>2, <1>3, ArpInCases
<1>5. TablesTyped'
  BY <1>1, ArpInCases DEF TablesTyped, ArpSlot
<1> QED BY <1>4, <1>5, NetinArpSound

\* timeout and foreign
LEMMA MessageSound ==
    ASSUME Sound, NEW p \in Callers, timeout(p) \/ foreign(p)
    PROVE  Sound'
<1>1. /\ TablesTyped /\ CallsTyped /\ pool' = pool /\ udptab' = udptab /\ icmptab' = icmptab
      /\ arpcache' = arpcache /\ iqueue' = iqueue /\ doing' = doing /\ netin' = netin
      /\ prmsg' = prmsg \/ prmsg' = [prmsg EXCEPT ![p] = "other"]
  BY DEF Sound, timeout, foreign
<1>2. TablesTyped' /\ CallsTyped'
  BY <1>1 DEF TablesTyped, CallsTyped
<1>3. Seekers' = Seekers /\ NetinHas' = NetinHas /\ Resolving' = Resolving
  BY <1>1 DEF Seekers, Getting, NetinGetting, NetinHas, Resolving
<1>4. Elsewhere' = Elsewhere
  BY <1>1, <1>3 DEF Elsewhere
<1> QED BY <1>1, <1>2, <1>3, <1>4, PoolKept

-----------------------------------------------------------------------------
(* Initially, and in every step.                                           *)

\* net_init() leaves all the buffers free, but for the one of netin.
LEMMA NetInit ==
    ASSUME net_init
    PROVE  Sound
<1>1. nbufs - 1 \in Nat /\ nbufs \in Nat
  <2> DEFINE a == UDP_SLOTS * UDP_QSIZ
             b == ICMP_SLOTS * ICMP_QSIZ
  <2>1. UDP_SLOTS \in Nat /\ UDP_QSIZ \in Nat /\ ICMP_SLOTS \in Nat /\ ICMP_QSIZ \in Nat
    BY NetAssumption
  <2>2. a \in Nat /\ b \in Nat
    BY <2>1
  <2>3. nbufs = a + b + 1
    BY DEF nbufs
  <2> HIDE DEF a, b
  <2> QED BY <2>2, <2>3
<1>2. TablesTyped
  BY DEF net_init, TablesTyped, UdpEntry, UdpRecord, IcmpEntry, IcmpRecord, ArpEntry
<1>3. CallsTyped
  BY UserState DEF net_init, CallsTyped, NetinPlaces
<1>4. Getting = {} /\ Resolving = {}
  BY DEF net_init, Getting, Resolving, USER
<1>5. NetinGetting = {} /\ NetinHas = 1
  BY DEF net_init, NetinGetting, NetinHas
<1>6. Seekers = {}
  BY <1>4, <1>5 DEF Seekers
<1>7. pool = Sem(nbufs - 1)
  BY DEF net_init, Sem
<1>8. SemSound(pool, Everyone) /\ available(pool) = nbufs - 1 /\ pool.used /\ \A q : ~waitsOn(q, pool)
  BY <1>1, <1>7, SemNew
<1>9. SemOf(pool, Everyone, {}) /\ permits(pool, {}) = nbufs - 1
  BY <1>8, PermitsNew
<1>10. Places(udptab) = {} /\ Places(icmptab) = {}
  BY DEF net_init, Places
<1>11. Cardinality({}) = 0 /\ Len(iqueue) = 0
  BY FS_EmptySet DEF net_init
<1>12. Conserved
  <2> DEFINE n == nbufs
  <2>1. permits(pool, Seekers) = n - 1 /\ Queued = 0 /\ Len(iqueue) = 0 /\ NetinHas = 1
          /\ Cardinality(Resolving) = 0 /\ n \in Nat
    BY <1>1, <1>4, <1>5, <1>6, <1>9, <1>10, <1>11 DEF Queued
  <2> HIDE DEF n
  <2>2. permits(pool, Seekers) + Queued + Len(iqueue) + NetinHas + Cardinality(Resolving) = n
    BY <2>1
  <2> QED BY <2>2 DEF Conserved, n
<1> QED BY <1>2, <1>3, <1>6, <1>8, <1>9, <1>12 DEF Sound, PoolSound

\* A call that starts.
LEMMA CallingSound ==
    ASSUME Sound, NEW p \in Procs, Calling(p), fault' = "none"
    PROVE  Sound'
<1>1. CASE \E h \in Hosts \cup {ANY} : udp_register(p, h)
  BY <1>1, UdpRegisterSound
<1>2. CASE \E s \in DOMAIN udptab : udp_recv(p, s)
  BY <1>2, UdpRecvSound
<1>3. CASE \E s \in DOMAIN udptab : udp_release(p, s)
  BY <1>3, UdpReleaseSound
<1>4. CASE \E s \in DOMAIN udptab : \E h \in Hosts \cup {OURSELF} : udp_send(p, s, h)
  <2>1. PICK s \in DOMAIN udptab, h \in Hosts \cup {OURSELF} : udp_send(p, s, h)
    BY <1>4
  <2> DEFINE w == [at |-> "getbuf", proto |-> "udp", dest |-> h]
  <2>2. w \in InGetbuf /\ h \in Dests
    BY DEF InGetbuf, Dests
  <2>3. /\ doing[p].at = "user" /\ pool' = waitbuf(p) /\ does(p, w) /\ udptab' = udptab
        /\ icmptab' = icmptab /\ arpcache' = arpcache /\ iqueue' = iqueue /\ prmsg' = prmsg
        /\ netin' = netin
    BY <2>1 DEF udp_send, Stands
  <2> HIDE DEF w
  <2> QED BY <2>2, <2>3, SendSound
<1>5. CASE \E h \in Hosts : icmp_register(p, h)
  BY <1>5, IcmpRegisterSound
<1>6. CASE \E h \in Hosts : icmp_send(p, h)
  <2>1. PICK h \in Hosts : icmp_send(p, h)
    BY <1>6
  <2> DEFINE w == [at |-> "getbuf", proto |-> "icmp", dest |-> h]
  <2>2. w \in InGetbuf /\ h \in Dests
    BY DEF InGetbuf, Dests
  <2>3. /\ doing[p].at = "user" /\ pool' = waitbuf(p) /\ does(p, w) /\ udptab' = udptab
        /\ icmptab' = icmptab /\ arpcache' = arpcache /\ iqueue' = iqueue /\ prmsg' = prmsg
        /\ netin' = netin
    BY <2>1 DEF icmp_send, Stands
  <2> HIDE DEF w
  <2> QED BY <2>2, <2>3, SendSound
<1>7. CASE \E s \in DOMAIN icmptab : icmp_recv(p, s)
  BY <1>7, IcmpRecvSound
<1>8. CASE \E s \in DOMAIN icmptab : icmp_release(p, s)
  BY <1>8, IcmpReleaseSound
<1> QED BY <1>1, <1>2, <1>3, <1>4, <1>5, <1>6, <1>7, <1>8 DEF Calling, UdpCall, IcmpCall

\* A packet that comes.
LEMMA PacketSound ==
    ASSUME Sound, NetinPacket
    PROVE  Sound'
<1>1. CASE \E h \in Hosts : netinUdp(h)
  BY <1>1, NetinUdpSound
<1>2. CASE \E h \in Hosts : netinEcho(h)
  BY <1>2, EchoSound
<1>3. CASE \E h \in Hosts : \E ours \in BOOLEAN : netinArp(h, ours)
  BY <1>3, NetinArpStep
<1>4. CASE \E h \in Hosts : \E s \in DOMAIN icmptab : netinReply(h, s)
  BY <1>4, ReplySound
<1>5. CASE netinDrop
  BY <1>5, DropSound
<1> QED BY <1>1, <1>2, <1>3, <1>4, <1>5 DEF NetinPacket

\* Every step.
LEMMA NetStep ==
    ASSUME Sound, Next, fault' = "none"
    PROVE  Sound'
<1>1. CASE NetinStep
  BY <1>1, GetbufSound, GotSound, EnqueueSound, EchoEndSound DEF NetinStep
<1>2. CASE NetinPacket
  BY <1>2, PacketSound
<1>3. CASE ipout
  BY <1>3, IpoutSound
<1>4. CASE \E p \in Procs : Calling(p)
  BY <1>4, CallingSound
<1>5. CASE \E p \in Procs : Going(p)
  <2>1. PICK p \in Procs : Going(p)
    BY <1>5
  <2>2. p \in Callers
    BY DEF Callers
  <2> QED BY <2>1, <2>2, UdpRecvEndSound, IcmpRecvEndSound, IpSendSound, ArpEndSound DEF Going
<1>6. CASE arpEnd(IPOUT)
  <2>1. IPOUT \in Callers
    BY DEF Callers
  <2> QED BY <1>6, <2>1, ArpEndSound
<1>7. CASE \E p \in Callers : timeout(p) \/ foreign(p)
  BY <1>7, MessageSound
<1> QED BY <1>1, <1>2, <1>3, <1>4, <1>5, <1>6, <1>7 DEF Next

\* A fault is where the model ends.
LEMMA FaultEnds ==
    ASSUME Next
    PROVE  fault = "none"
<1>1. NetinStep \/ NetinPacket => fault = "none"
  BY DEF NetinStep, NetinPacket, netinGetbuf, netinGot, netinEnqueue, netinEchoEnd, netinArp, netinUdp,
         netinReply, netinDrop, netinEcho, NetinAt
<1>2. ipout => fault = "none"
  BY DEF ipout, Stands
<1>3. ASSUME NEW p, Calling(p) PROVE fault = "none"
  BY <1>3 DEF Calling, UdpCall, IcmpCall, udp_register, udp_recv, udp_release, udp_send,
              icmp_register, icmp_recv, icmp_release, icmp_send, Stands
<1>4. ASSUME NEW p, Going(p) PROVE fault = "none"
  BY <1>4 DEF Going, udp_recvEnd, icmp_recvEnd, ip_send, arpEnd, Stands
<1>5. ASSUME NEW p, timeout(p) \/ foreign(p) \/ arpEnd(p) PROVE fault = "none"
  BY <1>5 DEF timeout, foreign, arpEnd, Stands
<1> QED BY <1>1, <1>2, <1>3, <1>4, <1>5 DEF Next

\* NetInv is inductive.
LEMMA NetInvStep ==
    ASSUME NetInv, [Next]_netVars
    PROVE  NetInv'
<1>1. CASE Next
  BY <1>1, FaultEnds, NetStep DEF NetInv
<1>2. CASE UNCHANGED netVars
  BY <1>2 DEF netVars, NetInv, Sound, TablesTyped, CallsTyped, PoolSound, Conserved, Seekers, Getting,
              NetinGetting, Queued, NetinHas, Resolving
<1> QED BY <1>1, <1>2

\* The invariant accounts for every buffer as the property does.
LEMMA SoundConserves ==
    ASSUME Sound
    PROVE  available(pool) + Queued + Len(iqueue) + NetinHolds + Cardinality(Holding) = nbufs
<1> DEFINE G == {p \in Getting : ~waitsOn(p, pool)}
           R == Resolving
           N == {q \in NetinGetting : ~waitsOn(q, pool)}
<1>1. letGo(pool, Seekers) = G \cup N
  BY DEF letGo, Seekers
<1>2. NETIN \notin Callers /\ IsFiniteSet(Callers)
  BY EveryoneFinite
<1>3. G \subseteq Callers /\ R \subseteq Callers /\ N \subseteq {NETIN} /\ G \cap R = {}
  BY DEF Getting, Resolving, NetinGetting
<1>4. Holding = G \cup R
  <2>1. \A p \in Callers : doing[p].at = "arp" => ~waitsOn(p, pool)
    <3>1. \A p \in Callers : waitsOn(p, pool) => p \in Seekers
      BY DEF Sound, PoolSound, SemOf, Everyone
    <3>2. \A p \in Callers : p \in Seekers => doing[p].at = "getbuf"
      BY <1>2 DEF Seekers, Getting, NetinGetting
    <3> QED BY <3>1, <3>2
  <2> QED BY <2>1 DEF Holding, Getting, Resolving
<1> HIDE DEF G, R, N
<1>5. IsFiniteSet(G) /\ IsFiniteSet(R) /\ Cardinality(G) \in Nat /\ Cardinality(R) \in Nat
  BY <1>2, <1>3, FS_Subset, FS_CardinalityType
<1>6. Cardinality(Holding) = Cardinality(G) + Cardinality(R)
  <2>1. Cardinality(G \cup R) = Cardinality(G) + Cardinality(R) - Cardinality(G \cap R)
    BY <1>5, FS_Union
  <2>2. Cardinality(G \cap R) = 0
    BY <1>3, FS_EmptySet
  <2> QED BY <1>4, <1>5, <2>1, <2>2
<1>7. IsFiniteSet(N) /\ Cardinality(N) \in Nat
  <2>1. IsFiniteSet({NETIN})
    BY FS_Singleton
  <2> QED BY <1>3, <2>1, FS_Subset, FS_CardinalityType
<1>8. Cardinality(letGo(pool, Seekers)) = Cardinality(G) + Cardinality(N)
  <2>1. Cardinality(G \cup N) = Cardinality(G) + Cardinality(N) - Cardinality(G \cap N)
    BY <1>5, <1>7, FS_Union
  <2>2. G \cap N = {}
    BY <1>2, <1>3
  <2>3. Cardinality(G \cap N) = 0
    BY <2>2, FS_EmptySet
  <2> QED BY <1>1, <1>5, <1>7, <2>1, <2>3
<1>9. NetinHolds = NetinHas + Cardinality(N)
  <2>1. netin.at \in NetinPlaces
    BY DEF Sound, CallsTyped
  <2>2. Cardinality({}) = 0 /\ Cardinality({NETIN}) = 1
    BY FS_EmptySet, FS_Singleton
  <2>3. CASE netin.at \in {"getbuf", "mkpkt"} /\ ~waitsOn(NETIN, pool)
    <3>1. N = {NETIN}
      BY <2>3 DEF N, NetinGetting
    <3> QED BY <2>2, <2>3, <3>1 DEF NetinHolds, NetinHas
  <2>4. CASE ~(netin.at \in {"getbuf", "mkpkt"} /\ ~waitsOn(NETIN, pool))
    <3>1. N = {}
      BY <2>4 DEF N, NetinGetting
    <3> QED BY <2>1, <2>2, <2>4, <3>1 DEF NetinHolds, NetinHas, NetinPlaces
  <2> QED BY <2>3, <2>4
<1>10. available(pool) \in Nat
  BY EveryoneFinite, PermitsNat DEF Sound, PoolSound
<1>11. Queued \in Nat /\ Len(iqueue) \in Nat /\ NetinHas \in Nat
  BY Counts DEF Sound, Queued
<1>12. available(pool) + (Cardinality(G) + Cardinality(N)) + Queued + Len(iqueue) + NetinHas + Cardinality(R) = nbufs
  BY <1>8 DEF Sound, Conserved, permits, R
<1> DEFINE a == available(pool)
           g == Cardinality(G)
           n == Cardinality(N)
           u == Queued
           l == Len(iqueue)
           k == NetinHas
           r == Cardinality(R)
<1>13. a + u + l + (k + n) + (g + r) = nbufs
  <2>1. a + (g + n) + u + l + k + r = nbufs
    BY <1>12
  <2>2. a \in Nat /\ g \in Nat /\ n \in Nat /\ u \in Nat /\ l \in Nat /\ k \in Nat /\ r \in Nat
    BY <1>5, <1>7, <1>10, <1>11
  <2> HIDE DEF a, g, n, u, l, k, r
  <2> QED BY <2>1, <2>2
<1> QED BY <1>6, <1>9, <1>13

\* No path through UDP, ICMP, ARP and IP loses a network buffer or frees one
\* twice, whatever other processes use a slot and whoever sends messages, until
\* a full ICMP queue (icmp.c:86) or an empty place that is read stops the system.
THEOREM NoBufferLost == LiveSpec => []BuffersConserved
<1>1. net_init => NetInv
  BY NetInit DEF NetInv
<1>2. NetInv /\ [Next]_netVars => NetInv'
  BY NetInvStep
<1>3. NetInv => BuffersConserved
  BY SoundConserves DEF NetInv, BuffersConserved
<1> QED BY <1>1, <1>2, <1>3, PTL DEF LiveSpec

-----------------------------------------------------------------------------
(* Waiting.  A slot is used by its owner alone, and no foreign message     *)
(* comes to arp_resolve().                                                 *)

AtRecv(q, name) == doing[q].at = "recv" /\ doing[q].tab = name

\* The parts of the invariant that a step does not touch.
UdpKept ==
    /\ udptab' = udptab
    /\ \A q \in Callers : AtRecv(q, "udp") \/ AtRecv(q, "udp")' =>
          doing'[q] = doing[q] /\ prmsg'[q] \in {prmsg[q], "other"}
IcmpKept == icmptab' = icmptab /\ \A q \in Callers : AtRecv(q, "icmp") => doing'[q] = doing[q]
ArpKept ==
    /\ arpcache' = arpcache
    /\ \A q \in Callers : doing[q].at = "arp" \/ doing'[q].at = "arp" =>
          doing'[q] = doing[q] /\ prmsg'[q] = prmsg[q]

\* NONE is no message.
LEMMA NoMessage == NONE # "OK" /\ NONE # "other"
BY NetAssumption

\* A step that is not about UDP.
LEMMA KeepsUdp ==
    ASSUME WaitSound, UdpKept
    PROVE  RecvSound' /\ TellsWaiter(udptab, "udp")'
<1>1. RecvSound'
  BY NoMessage DEF WaitSound, UdpKept, RecvSound, AtRecv
<1>2. TellsWaiter(udptab, "udp")'
  BY DEF WaitSound, UdpKept, TellsWaiter, AtRecv
<1> QED BY <1>1, <1>2

\* A step that is not about ICMP.
LEMMA KeepsIcmp ==
    ASSUME WaitSound, IcmpKept
    PROVE  TellsWaiter(icmptab, "icmp")'
BY DEF WaitSound, IcmpKept, TellsWaiter, AtRecv

\* A step that is not about ARP.
LEMMA KeepsArp ==
    ASSUME WaitSound, ArpKept
    PROVE  PendingSound' /\ ResolvingSound'
<1>1. PendingSound'
  BY DEF WaitSound, ArpKept, PendingSound
<1>2. Resolving' = Resolving
  BY DEF ArpKept, Resolving
<1>3. ResolvingSound'
  BY <1>2 DEF WaitSound, ArpKept, ResolvingSound, Resolving
<1> QED BY <1>1, <1>3

\* A step in which a process goes from one place to another, and at none of
\* them waits for a message, or in which nobody moves.
LEMMA QuietWaits ==
    ASSUME WaitSound, udptab' = udptab, icmptab' = icmptab, arpcache' = arpcache, prmsg' = prmsg,
           \A q \in Callers : doing'[q] = doing[q] \/ {doing[q].at, doing'[q].at} \cap {"recv", "arp"} = {}
    PROVE  WaitSound'
<1>1. UdpKept
  BY DEF UdpKept, AtRecv
<1>2. IcmpKept
  BY DEF IcmpKept, AtRecv
<1>3. ArpKept
  BY DEF ArpKept
<1> QED BY <1>1, <1>2, <1>3, KeepsUdp, KeepsIcmp, KeepsArp DEF WaitSound

\* udp_in() puts a packet into slot s and tells the process that waits.
LEMMA UdpInWaits ==
    ASSUME TablesTyped, CallsTyped, WaitSound, NEW s \in 1 .. UDP_SLOTS, udptab[s].state # "FREE",
           UdpSlot(s, "USED", udptab[s].count + 1, udptab[s].pid, udptab[s].owner),
           send(waiter(udptab[s]), "OK"), icmptab' = icmptab, arpcache' = arpcache,
           \A q \in Callers : doing'[q] = doing[q] \/ {doing[q].at, doing'[q].at} \cap {"recv", "arp"} = {}
    PROVE  WaitSound'
<1> DEFINE r == waiter(udptab[s])
<1>0. udptab[s].count \in Nat /\ s \in DOMAIN udptab
  BY DEF TablesTyped, UdpEntry, UdpRecord
<1>1. r \in Callers \cup {NONE} /\ (udptab[s].state = "RECV" => r = udptab[s].pid)
      /\ (udptab[s].state # "RECV" => r = NONE)
  BY DEF TablesTyped, UdpEntry, UdpRecord, waiter
<1>2. r \in Callers => doing[r].at = "recv" /\ doing[r].tab = "udp" /\ doing[r].slot = s
  BY <1>0, <1>1, EveryoneFinite DEF WaitSound, TellsWaiter
<1>3. send(r, "OK")
  OBVIOUS
<1> HIDE DEF r
<1>4. /\ \A q \in Callers : q # r => prmsg'[q] = prmsg[q]
      /\ r \in Callers => prmsg'[r] = IF prmsg[r] # NONE THEN prmsg[r] ELSE "OK"
  BY <1>1, <1>3, SendTyped
<1>5. IcmpKept
  BY DEF IcmpKept, AtRecv
<1>6. ArpKept
  BY <1>2, <1>4 DEF ArpKept
<1>7. RecvSound'
  <2> SUFFICES ASSUME NEW q \in Callers, doing'[q].at = "recv", doing'[q].tab = "udp"
               PROVE  /\ udptab'[doing'[q].slot].state # "FREE" /\ udptab'[doing'[q].slot].owner = q
                      /\ prmsg'[q] = NONE => /\ udptab'[doing'[q].slot].state = "RECV"
                                             /\ udptab'[doing'[q].slot].pid = q
                                             /\ udptab'[doing'[q].slot].count = 0
                      /\ prmsg'[q] = "OK" => udptab'[doing'[q].slot].count > 0
    BY DEF RecvSound
  <2>1. doing'[q] = doing[q] /\ doing[q].slot \in 1 .. UDP_SLOTS
    BY CallFacts DEF CallsTyped
  <2> DEFINE i == doing[q].slot
  <2>2. /\ udptab[i].state # "FREE" /\ udptab[i].owner = q
        /\ prmsg[q] = NONE => udptab[i].state = "RECV" /\ udptab[i].pid = q /\ udptab[i].count = 0
        /\ prmsg[q] = "OK" => udptab[i].count > 0
    BY <2>1 DEF WaitSound, RecvSound
  <2>3. CASE i # s
    <3>1. q # r
      BY <1>2, <2>3
    <3>2. prmsg'[q] = prmsg[q] /\ udptab'[i] = udptab[i]
      BY <1>4, <2>1, <2>3, <3>1 DEF UdpSlot
    <3> QED BY <2>1, <2>2, <3>2
  <2>4. CASE i = s
    <3>1. /\ udptab'[i].state = "USED" /\ udptab'[i].owner = udptab[i].owner
          /\ udptab'[i].count = udptab[i].count + 1
      BY <2>4 DEF UdpSlot
    <3>2. udptab'[i].count > 0
      BY <1>0, <2>4, <3>1
    <3>3. prmsg'[q] # NONE
      <4>1. CASE prmsg[q] = NONE
        <5>1. q = r
          BY <1>1, <2>2, <2>4, <4>1
        <5> QED BY <1>4, <4>1, <5>1, NoMessage
      <4>2. CASE prmsg[q] # NONE
        BY <1>4, <4>2, NoMessage
      <4> QED BY <4>1, <4>2
    <3> QED BY <2>1, <2>2, <3>1, <3>2, <3>3
  <2> QED BY <2>3, <2>4
<1>8. TellsWaiter(udptab, "udp")'
  <2> SUFFICES ASSUME NEW i \in 1 .. UDP_SLOTS, udptab'[i].state = "RECV"
               PROVE  /\ udptab'[i].pid \in Callers /\ doing'[udptab'[i].pid].at = "recv"
                      /\ doing'[udptab'[i].pid].tab = "udp" /\ doing'[udptab'[i].pid].slot = i
    BY DEF TellsWaiter, UdpSlot
  <2>1. i # s /\ udptab'[i] = udptab[i] /\ i \in DOMAIN udptab
    BY DEF UdpSlot, TablesTyped
  <2>2. udptab[i].pid \in Callers /\ doing[udptab[i].pid].at = "recv"
        /\ doing[udptab[i].pid].tab = "udp" /\ doing[udptab[i].pid].slot = i
    BY <2>1 DEF WaitSound, TellsWaiter
  <2>3. doing'[udptab[i].pid] = doing[udptab[i].pid]
    BY <2>2
  <2> QED BY <2>1, <2>2, <2>3
<1> QED BY <1>5, <1>6, <1>7, <1>8, KeepsIcmp, KeepsArp DEF WaitSound

\* What p does with a slot of UDP that nobody else waits at.
LEMMA UdpOwnWaits ==
    ASSUME TablesTyped, CallsTyped, WaitSound, NEW p \in Callers, NEW s \in 1 .. UDP_SLOTS,
           udptab[s].state = "FREE" \/ udptab[s].owner = p,
           NEW st, NEW c, NEW q, NEW o, UdpSlot(s, st, c, q, o),
           \A r \in Callers \ {p} : doing'[r] = doing[r] /\ prmsg'[r] = prmsg[r],
           AtRecv(p, "udp") => doing[p].slot = s,
           IF st = "RECV"
             THEN c = 0 /\ q = p /\ o = p /\ AtRecv(p, "udp")' /\ doing'[p].slot = s /\ prmsg'[p] = NONE
             ELSE ~AtRecv(p, "udp")'
    PROVE  RecvSound' /\ TellsWaiter(udptab, "udp")'
<1>1. ASSUME NEW r \in Callers \ {p}, AtRecv(r, "udp")
      PROVE  doing[r].slot \in (1 .. UDP_SLOTS) \ {s}
  <2>1. doing[r].slot \in 1 .. UDP_SLOTS
    BY <1>1, CallFacts DEF CallsTyped, AtRecv
  <2>2. udptab[doing[r].slot].state # "FREE" /\ udptab[doing[r].slot].owner = r
    BY <1>1 DEF WaitSound, RecvSound, AtRecv
  <2> QED BY <2>1, <2>2
<1>2. RecvSound'
  <2> SUFFICES ASSUME NEW r \in Callers, doing'[r].at = "recv", doing'[r].tab = "udp"
               PROVE  /\ udptab'[doing'[r].slot].state # "FREE" /\ udptab'[doing'[r].slot].owner = r
                      /\ prmsg'[r] = NONE => /\ udptab'[doing'[r].slot].state = "RECV"
                                             /\ udptab'[doing'[r].slot].pid = r
                                             /\ udptab'[doing'[r].slot].count = 0
                      /\ prmsg'[r] = "OK" => udptab'[doing'[r].slot].count > 0
    BY DEF RecvSound
  <2>1. CASE r = p
    BY <2>1, NoMessage DEF AtRecv, UdpSlot
  <2>2. CASE r # p
    <3>1. doing'[r] = doing[r] /\ prmsg'[r] = prmsg[r] /\ AtRecv(r, "udp")
      BY <2>2 DEF AtRecv
    <3>2. udptab'[doing[r].slot] = udptab[doing[r].slot]
      BY <1>1, <2>2, <3>1 DEF UdpSlot
    <3> QED BY <3>1, <3>2 DEF WaitSound, RecvSound, AtRecv
  <2> QED BY <2>1, <2>2
<1>3. TellsWaiter(udptab, "udp")'
  <2> SUFFICES ASSUME NEW i \in 1 .. UDP_SLOTS, udptab'[i].state = "RECV"
               PROVE  /\ udptab'[i].pid \in Callers /\ doing'[udptab'[i].pid].at = "recv"
                      /\ doing'[udptab'[i].pid].tab = "udp" /\ doing'[udptab'[i].pid].slot = i
    BY DEF TellsWaiter, UdpSlot
  <2>1. CASE i = s
    BY <2>1 DEF UdpSlot, AtRecv
  <2>2. CASE i # s
    <3>1. udptab'[i] = udptab[i] /\ i \in DOMAIN udptab
      BY <2>2 DEF UdpSlot, TablesTyped
    <3>2. /\ udptab[i].pid \in Callers /\ AtRecv(udptab[i].pid, "udp") /\ doing[udptab[i].pid].slot = i
      BY <3>1 DEF WaitSound, TellsWaiter, AtRecv
    <3>3. udptab[i].pid # p
      BY <2>2, <3>2
    <3> QED BY <3>1, <3>2, <3>3 DEF AtRecv
  <2> QED BY <2>1, <2>2
<1> QED BY <1>2, <1>3

\* What p does with a slot of ICMP, or what comes there.
LEMMA IcmpOwnWaits ==
    ASSUME TablesTyped, CallsTyped, WaitSound, NEW p \in Callers, NEW s \in 1 .. ICMP_SLOTS,
           NEW st, NEW c, NEW q, NEW o, IcmpSlot(s, st, c, q, o),
           \A r \in Callers \ {p} : doing'[r] = doing[r],
           doing'[p] = doing[p] \/ (AtRecv(p, "icmp") => doing[p].slot = s),
           st = "RECV" => q = p /\ AtRecv(p, "icmp")' /\ doing'[p].slot = s
    PROVE  TellsWaiter(icmptab, "icmp")'
<1> SUFFICES ASSUME NEW i \in 1 .. ICMP_SLOTS, icmptab'[i].state = "RECV"
             PROVE  /\ icmptab'[i].pid \in Callers /\ doing'[icmptab'[i].pid].at = "recv"
                    /\ doing'[icmptab'[i].pid].tab = "icmp" /\ doing'[icmptab'[i].pid].slot = i
  BY DEF TellsWaiter, IcmpSlot
<1>1. CASE i = s
  BY <1>1 DEF IcmpSlot, AtRecv
<1>2. CASE i # s
  <2>1. icmptab'[i] = icmptab[i] /\ i \in DOMAIN icmptab
    BY <1>2 DEF IcmpSlot, TablesTyped
  <2>2. icmptab[i].pid \in Callers /\ AtRecv(icmptab[i].pid, "icmp") /\ doing[icmptab[i].pid].slot = i
    BY <2>1 DEF WaitSound, TellsWaiter, AtRecv
  <2>3. doing'[icmptab[i].pid] = doing[icmptab[i].pid]
    BY <1>2, <2>2
  <2> QED BY <2>1, <2>2, <2>3 DEF AtRecv
<1> QED BY <1>1, <1>2

\* arp_resolve() by p, which was neither receiving nor resolving.
LEMMA ResolveWaits ==
    ASSUME TablesTyped, CallsTyped, WaitSound, NEW p \in Callers, NEW h \in Dests, arp_resolve(p, h),
           doing[p].at \notin {"recv", "arp"}
    PROVE  WaitSound'
<1>1. udptab' = udptab /\ icmptab' = icmptab
  BY DEF arp_resolve
<1>2. CASE resolved(p) /\ arpcache' = arpcache /\ prmsg' = prmsg
  <2>1. /\ doing'[p].at \notin {"recv", "arp"} /\ \A q \in Callers \ {p} : doing'[q] = doing[q]
    BY <1>2, ResolvedDoes, OnwardState, Moves
  <2> QED BY <1>1, <1>2, <2>1, QuietWaits
<1>3. CASE /\ ArpSlot(arp_alloc, Request(p, h))
           /\ arpcache[arp_alloc].state \in {"FREE", "RESOLVED"}
           /\ recvclr(p) /\ pool' = pool
           /\ Resolves(h, arp_alloc) \in CallState /\ does(p, Resolves(h, arp_alloc))
  <2> DEFINE s == arp_alloc
  <2>1. /\ doing'[p] = Resolves(h, s) /\ \A q \in Callers \ {p} : doing'[q] = doing[q]
    BY <1>3, Moves
  <2>2. /\ prmsg'[p] = NONE /\ \A q \in Callers \ {p} : prmsg'[q] = prmsg[q]
    BY <1>3, RecvClr
  <2>3. /\ s \in 1 .. ARP_SIZ /\ arpcache'[s].state = "PENDING" /\ arpcache'[s].pid = p
        /\ \A i \in (1 .. ARP_SIZ) \ {s} : arpcache'[i] = arpcache[i]
        /\ DOMAIN arpcache = 1 .. ARP_SIZ /\ DOMAIN arpcache' = 1 .. ARP_SIZ
        /\ arpcache[s].state \in {"FREE", "RESOLVED"}
    BY <1>3 DEF ArpSlot, Request, TablesTyped
  <2>4. doing'[p].at = "arp" /\ doing'[p].slot = s
    BY <2>1 DEF Resolves
  <2> HIDE DEF s
  <2>5. UdpKept
    BY <1>1, <2>1, <2>2, <2>4 DEF UdpKept, AtRecv
  <2>6. IcmpKept
    BY <1>1, <2>1 DEF IcmpKept, AtRecv
  <2>7. PendingSound'
    <3> SUFFICES ASSUME NEW i \in 1 .. ARP_SIZ, arpcache'[i].state = "PENDING"
                 PROVE  /\ arpcache'[i].pid \in Callers /\ doing'[arpcache'[i].pid].at = "arp"
                        /\ doing'[arpcache'[i].pid].slot = i /\ prmsg'[arpcache'[i].pid] = NONE
      BY <2>3 DEF PendingSound
    <3>1. CASE i = s
      BY <2>2, <2>3, <2>4, <3>1
    <3>2. CASE i # s
      <4>1. arpcache'[i] = arpcache[i]
        BY <2>3, <3>2
      <4>2. /\ arpcache[i].pid \in Callers /\ doing[arpcache[i].pid].at = "arp"
            /\ doing[arpcache[i].pid].slot = i /\ prmsg[arpcache[i].pid] = NONE
        BY <2>3, <4>1 DEF WaitSound, PendingSound
      <4>3. arpcache[i].pid # p
        BY <4>2
      <4> QED BY <2>1, <2>2, <4>1, <4>2, <4>3
    <3> QED BY <3>1, <3>2
  <2>8. ResolvingSound'
    <3> SUFFICES ASSUME NEW q \in Callers, doing'[q].at = "arp"
                 PROVE  IF prmsg'[q] = NONE
                        THEN arpcache'[doing'[q].slot].state = "PENDING" /\ arpcache'[doing'[q].slot].pid = q
                        ELSE arpcache'[doing'[q].slot].pid = q
                               => arpcache'[doing'[q].slot].haddr = arpcache'[doing'[q].slot].addr
      BY DEF ResolvingSound, Resolving
    <3>1. CASE q = p
      BY <2>2, <2>3, <2>4, <3>1
    <3>2. CASE q # p
      <4>1. doing'[q] = doing[q] /\ prmsg'[q] = prmsg[q] /\ doing[q].slot \in 1 .. ARP_SIZ
        BY <2>1, <2>2, <3>2, CallFacts DEF CallsTyped
      <4>2. IF prmsg[q] = NONE
            THEN arpcache[doing[q].slot].state = "PENDING" /\ arpcache[doing[q].slot].pid = q
            ELSE arpcache[doing[q].slot].pid = q => arpcache[doing[q].slot].haddr = arpcache[doing[q].slot].addr
        BY <4>1 DEF WaitSound, ResolvingSound, Resolving
      <4>3. CASE doing[q].slot = s
        BY <2>3, <3>2, <4>1, <4>2, <4>3
      <4>4. CASE doing[q].slot # s
        BY <2>3, <4>1, <4>2, <4>4
      <4> QED BY <4>3, <4>4
    <3> QED BY <3>1, <3>2
  <2> QED BY <2>5, <2>6, <2>7, <2>8, KeepsUdp, KeepsIcmp DEF WaitSound
<1> QED BY <1>2, <1>3, ResolveCases

\* arp_resolve() goes on, or gives up.
LEMMA ArpEndWaits ==
    ASSUME TablesTyped, CallsTyped, WaitSound, NEW p \in Callers, arpEnd(p)
    PROVE  WaitSound'
<1>1. /\ doing[p].at = "arp" /\ doing[p] \in CallState /\ recvclr(p) /\ udptab' = udptab /\ icmptab' = icmptab
  BY DEF CallsTyped, arpEnd, Stands
<1>2. doing[p] \in InArp /\ doing[p].slot \in 1 .. ARP_SIZ
  BY <1>1, CallFacts
<1>3. prmsg'[p] = NONE /\ \A q \in Callers \ {p} : prmsg'[q] = prmsg[q]
  BY <1>1, RecvClr
<1> DEFINE s == doing[p].slot
<1>4. /\ IF prmsg[p] = NONE THEN arpcache[s].state = "PENDING" /\ arpcache[s].pid = p
         ELSE \A i \in 1 .. ARP_SIZ : arpcache[i].state = "PENDING" => arpcache[i].pid # p
      /\ DOMAIN arpcache = 1 .. ARP_SIZ
  BY <1>1 DEF WaitSound, ResolvingSound, PendingSound, Resolving, TablesTyped
<1> HIDE DEF s
<1>5. ASSUME NEW w \in CallState, does(p, w), w.at \in {"user", "wait", "arp"}
      PROVE  UdpKept /\ IcmpKept
  <2>1. doing'[p] = w /\ \A q \in Callers \ {p} : doing'[q] = doing[q]
    BY <1>5, Moves
  <2> QED BY <1>1, <1>3, <1>5, <2>1 DEF UdpKept, IcmpKept, AtRecv
<1>6. CASE prmsg[p] # NONE /\ resolved(p) /\ arpcache' = arpcache
  <2>1. does(p, Onward(p)) /\ Onward(p) \in CallState /\ Onward(p).at \in {"wait", "user"}
    BY <1>6, ResolvedDoes, OnwardState
  <2>2. doing'[p].at \in {"wait", "user"} /\ \A q \in Callers \ {p} : doing'[q] = doing[q]
    BY <2>1, Moves
  <2>3. PendingSound'
    <3> SUFFICES ASSUME NEW i \in 1 .. ARP_SIZ, arpcache[i].state = "PENDING"
                 PROVE  /\ arpcache[i].pid \in Callers /\ doing'[arpcache[i].pid].at = "arp"
                        /\ doing'[arpcache[i].pid].slot = i /\ prmsg'[arpcache[i].pid] = NONE
      BY <1>4, <1>6 DEF PendingSound
    <3>1. arpcache[i].pid \in Callers \ {p}
      BY <1>4, <1>6 DEF WaitSound, PendingSound
    <3> QED BY <1>3, <1>4, <2>2, <3>1 DEF WaitSound, PendingSound
  <2>4. ResolvingSound'
    BY <1>3, <1>6, <2>2 DEF WaitSound, ResolvingSound, Resolving
  <2> QED BY <1>5, <2>1, <2>3, <2>4, KeepsUdp, KeepsIcmp DEF WaitSound
<1>7. CASE /\ prmsg[p] = NONE /\ arpcache' = arpcache
           /\ \E w \in InArp : does(p, w) /\ w.slot = doing[p].slot /\ w.dest = doing[p].dest
  <2>1. PICK w \in InArp : does(p, w) /\ w.slot = doing[p].slot
    BY <1>7
  <2>2. w \in CallState /\ w.at = "arp"
    BY DEF CallState, InArp
  <2>3. doing'[p].at = "arp" /\ doing'[p].slot = doing[p].slot /\ \A q \in Callers \ {p} : doing'[q] = doing[q]
    BY <2>1, <2>2, Moves
  <2>4. \A q \in Callers : prmsg'[q] = prmsg[q] /\ doing'[q].at = doing[q].at
          /\ (doing[q].at = "arp" => doing'[q].slot = doing[q].slot)
    BY <1>1, <1>3, <1>7, <2>3
  <2>5. PendingSound'
    BY <1>7, <2>4 DEF WaitSound, PendingSound
  <2>6. ResolvingSound'
    BY <1>7, <2>4 DEF WaitSound, ResolvingSound, Resolving
  <2> QED BY <1>5, <2>1, <2>2, <2>5, <2>6, KeepsUdp, KeepsIcmp DEF WaitSound
<1>8. CASE prmsg[p] = NONE /\ resolved(p) /\ ArpSlot(s, invalidated(arpcache[s]))
  <2>1. does(p, Onward(p)) /\ Onward(p) \in CallState /\ Onward(p).at \in {"wait", "user"}
    BY <1>8, ResolvedDoes, OnwardState
  <2>2. doing'[p].at \in {"wait", "user"} /\ \A q \in Callers \ {p} : doing'[q] = doing[q]
    BY <2>1, Moves
  <2>3. /\ s \in 1 .. ARP_SIZ /\ arpcache'[s].state = "FREE" /\ arpcache'[s].pid = p
        /\ \A i \in (1 .. ARP_SIZ) \ {s} : arpcache'[i] = arpcache[i]
        /\ DOMAIN arpcache' = 1 .. ARP_SIZ
    BY <1>4, <1>8 DEF ArpSlot, invalidated, TablesTyped, ArpEntry
  <2>4. PendingSound'
    <3> SUFFICES ASSUME NEW i \in 1 .. ARP_SIZ, arpcache'[i].state = "PENDING"
                 PROVE  /\ arpcache'[i].pid \in Callers /\ doing'[arpcache'[i].pid].at = "arp"
                        /\ doing'[arpcache'[i].pid].slot = i /\ prmsg'[arpcache'[i].pid] = NONE
      BY <2>3 DEF PendingSound
    <3>1. i # s /\ arpcache'[i] = arpcache[i] /\ i \in DOMAIN arpcache
      BY <1>4, <2>3
    <3>2. /\ arpcache[i].pid \in Callers /\ doing[arpcache[i].pid].at = "arp"
          /\ doing[arpcache[i].pid].slot = i /\ prmsg[arpcache[i].pid] = NONE
      BY <3>1 DEF WaitSound, PendingSound
    <3>3. arpcache[i].pid # p
      BY <3>1, <3>2 DEF s
    <3> QED BY <1>3, <2>2, <3>1, <3>2, <3>3
  <2>5. ResolvingSound'
    <3> SUFFICES ASSUME NEW q \in Callers, doing'[q].at = "arp"
                 PROVE  IF prmsg'[q] = NONE
                        THEN arpcache'[doing'[q].slot].state = "PENDING" /\ arpcache'[doing'[q].slot].pid = q
                        ELSE arpcache'[doing'[q].slot].pid = q
                               => arpcache'[doing'[q].slot].haddr = arpcache'[doing'[q].slot].addr
      BY DEF ResolvingSound, Resolving
    <3>1. q # p
      BY <2>2
    <3>2. doing'[q] = doing[q] /\ prmsg'[q] = prmsg[q] /\ doing[q].slot \in 1 .. ARP_SIZ
      BY <1>3, <2>2, <3>1, CallFacts DEF CallsTyped
    <3>3. IF prmsg[q] = NONE
          THEN arpcache[doing[q].slot].state = "PENDING" /\ arpcache[doing[q].slot].pid = q
          ELSE arpcache[doing[q].slot].pid = q => arpcache[doing[q].slot].haddr = arpcache[doing[q].slot].addr
      BY <3>2 DEF WaitSound, ResolvingSound, Resolving
    <3>4. CASE doing[q].slot = s
      BY <1>4, <1>8, <2>3, <3>1, <3>2, <3>3, <3>4
    <3>5. CASE doing[q].slot # s
      BY <2>3, <3>2, <3>3, <3>5
    <3> QED BY <3>4, <3>5
  <2> QED BY <1>5, <2>1, <2>4, <2>5, KeepsUdp, KeepsIcmp DEF WaitSound
<1> QED BY <1>2, <1>6, <1>7, <1>8, ArpEndCases DEF s

\* arp_in() tells the process that waits for the address.
LEMMA ArpInWaits ==
    ASSUME TablesTyped, CallsTyped, WaitSound, NEW h \in Hosts, NEW ours \in BOOLEAN, arp_in(h, ours),
           doing' = doing
    PROVE  WaitSound'
<1>1. udptab' = udptab /\ icmptab' = icmptab /\ DOMAIN arpcache = 1 .. ARP_SIZ
  BY DEF arp_in, TablesTyped
<1>2. IcmpKept
  BY <1>1 DEF IcmpKept
<1>3. ASSUME NEW s \in 1 .. ARP_SIZ, arpcache[s].state # "FREE", arpcache[s].addr = h,
             ArpSlot(s, learnt(arpcache[s], h)),
             send(IF arpcache[s].state = "PENDING" THEN arpcache[s].pid ELSE NONE, "OK")
      PROVE  WaitSound'
  <2> DEFINE r == IF arpcache[s].state = "PENDING" THEN arpcache[s].pid ELSE NONE
  <2>1. r \in Callers \cup {NONE} /\ send(r, "OK")
    BY <1>3 DEF TablesTyped, ArpEntry
  <2>2. r \in Callers => /\ doing[r].at = "arp" /\ doing[r].slot = s /\ prmsg[r] = NONE
                         /\ arpcache[s].state = "PENDING" /\ arpcache[s].pid = r
    BY <1>1, <1>3, EveryoneFinite DEF WaitSound, PendingSound
  <2>3. arpcache[s].state = "PENDING" => r = arpcache[s].pid /\ r \in Callers
    BY <1>1, <1>3 DEF WaitSound, PendingSound
  <2> HIDE DEF r
  <2>4. /\ \A q \in Callers : q # r => prmsg'[q] = prmsg[q]
        /\ r \in Callers => prmsg'[r] = "OK"
    BY <2>1, <2>2, SendTyped
  <2>5. /\ arpcache'[s].state = "RESOLVED" /\ arpcache'[s].pid = arpcache[s].pid
        /\ arpcache'[s].haddr = h /\ arpcache'[s].addr = h
        /\ \A i \in (1 .. ARP_SIZ) \ {s} : arpcache'[i] = arpcache[i]
        /\ DOMAIN arpcache' = 1 .. ARP_SIZ
    BY <1>3 DEF ArpSlot, learnt, TablesTyped, ArpEntry
  <2>6. UdpKept
    BY <1>1, <2>2, <2>4 DEF UdpKept, AtRecv
  <2>7. PendingSound'
    <3> SUFFICES ASSUME NEW i \in 1 .. ARP_SIZ, arpcache'[i].state = "PENDING"
                 PROVE  /\ arpcache'[i].pid \in Callers /\ doing'[arpcache'[i].pid].at = "arp"
                        /\ doing'[arpcache'[i].pid].slot = i /\ prmsg'[arpcache'[i].pid] = NONE
      BY <2>5 DEF PendingSound
    <3>1. i # s /\ arpcache'[i] = arpcache[i] /\ i \in DOMAIN arpcache
      BY <1>1, <2>5
    <3>2. /\ arpcache[i].pid \in Callers /\ doing[arpcache[i].pid].at = "arp"
          /\ doing[arpcache[i].pid].slot = i /\ prmsg[arpcache[i].pid] = NONE
      BY <3>1 DEF WaitSound, PendingSound
    <3>3. arpcache[i].pid # r
      BY <2>2, <3>1, <3>2
    <3> QED BY <2>4, <3>1, <3>2, <3>3
  <2>8. ResolvingSound'
    <3> SUFFICES ASSUME NEW q \in Callers, doing[q].at = "arp"
                 PROVE  IF prmsg'[q] = NONE
                        THEN arpcache'[doing[q].slot].state = "PENDING" /\ arpcache'[doing[q].slot].pid = q
                        ELSE arpcache'[doing[q].slot].pid = q
                               => arpcache'[doing[q].slot].haddr = arpcache'[doing[q].slot].addr
      BY DEF ResolvingSound, Resolving
    <3>1. doing[q].slot \in 1 .. ARP_SIZ
      BY CallFacts DEF CallsTyped
    <3>2. IF prmsg[q] = NONE
          THEN arpcache[doing[q].slot].state = "PENDING" /\ arpcache[doing[q].slot].pid = q
          ELSE arpcache[doing[q].slot].pid = q => arpcache[doing[q].slot].haddr = arpcache[doing[q].slot].addr
      BY DEF WaitSound, ResolvingSound, Resolving
    <3>3. CASE doing[q].slot = s
      <4>1. CASE prmsg[q] = NONE
        <5>1. q = r /\ prmsg'[q] # NONE
          BY <2>3, <2>4, <3>2, <3>3, <4>1, NoMessage
        <5> QED BY <2>5, <3>3, <5>1
      <4>2. CASE prmsg[q] # NONE
        <5>1. prmsg'[q] # NONE
          BY <2>4, <4>2, NoMessage
        <5> QED BY <2>5, <3>3, <5>1
      <4> QED BY <4>1, <4>2
    <3>4. CASE doing[q].slot # s
      <4>1. q # r
        BY <2>2, <3>4
      <4> QED BY <2>4, <2>5, <3>1, <3>2, <3>4, <4>1
    <3> QED BY <3>3, <3>4
  <2> QED BY <1>2, <2>6, <2>7, <2>8, KeepsUdp, KeepsIcmp DEF WaitSound
<1>4. ASSUME NEW s \in 1 .. ARP_SIZ, arpcache[s].state \in {"FREE", "RESOLVED"},
             ArpSlot(s, [state |-> "RESOLVED", addr |-> h, haddr |-> h, pid |-> NONE]), prmsg' = prmsg
      PROVE  WaitSound'
  <2>1. /\ arpcache'[s].state = "RESOLVED" /\ arpcache'[s].pid = NONE
        /\ \A i \in (1 .. ARP_SIZ) \ {s} : arpcache'[i] = arpcache[i]
        /\ DOMAIN arpcache' = 1 .. ARP_SIZ
    BY <1>4 DEF ArpSlot
  <2>2. UdpKept
    BY <1>1, <1>4 DEF UdpKept
  <2>3. PendingSound'
    BY <1>1, <1>4, <2>1 DEF WaitSound, PendingSound
  <2>4. ResolvingSound'
    <3> SUFFICES ASSUME NEW q \in Callers, doing[q].at = "arp"
                 PROVE  IF prmsg[q] = NONE
                        THEN arpcache'[doing[q].slot].state = "PENDING" /\ arpcache'[doing[q].slot].pid = q
                        ELSE arpcache'[doing[q].slot].pid = q
                               => arpcache'[doing[q].slot].haddr = arpcache'[doing[q].slot].addr
      BY <1>4 DEF ResolvingSound, Resolving
    <3>1. doing[q].slot \in 1 .. ARP_SIZ /\ q # NONE
      BY CallFacts, EveryoneFinite DEF CallsTyped
    <3>2. IF prmsg[q] = NONE
          THEN arpcache[doing[q].slot].state = "PENDING" /\ arpcache[doing[q].slot].pid = q
          ELSE arpcache[doing[q].slot].pid = q => arpcache[doing[q].slot].haddr = arpcache[doing[q].slot].addr
      BY DEF WaitSound, ResolvingSound, Resolving
    <3>3. CASE doing[q].slot = s
      BY <1>4, <2>1, <3>1, <3>2, <3>3
    <3>4. CASE doing[q].slot # s
      BY <2>1, <3>1, <3>2, <3>4
    <3> QED BY <3>3, <3>4
  <2> QED BY <1>2, <2>2, <2>3, <2>4, KeepsUdp, KeepsIcmp DEF WaitSound
<1>5. CASE arpcache' = arpcache /\ prmsg' = prmsg
  BY <1>1, <1>5, QuietWaits
<1> QED BY <1>3, <1>4, <1>5, ArpInCases

\* A call of p, which clears its message when it comes to wait or has waited,
\* leaves the others alone.
LEMMA CallKeeps ==
    ASSUME CallsTyped, NEW p \in Callers, NEW w \in CallState, does(p, w),
           recvclr(p), doing[p].at # "arp", w.at # "arp"
    PROVE  /\ doing'[p] = w /\ \A r \in Callers \ {p} : doing'[r] = doing[r] /\ prmsg'[r] = prmsg[r]
           /\ arpcache' = arpcache => ArpKept
           /\ icmptab' = icmptab /\ ~AtRecv(p, "icmp") => IcmpKept
           /\ udptab' = udptab /\ ~AtRecv(p, "udp") /\ ~(w.at = "recv" /\ w.tab = "udp") => UdpKept
<1>1. doing'[p] = w /\ \A r \in Callers \ {p} : doing'[r] = doing[r]
  BY Moves
<1>2. \A r \in Callers \ {p} : prmsg'[r] = prmsg[r]
  BY RecvClr
<1>3. arpcache' = arpcache => ArpKept
  BY <1>1, <1>2 DEF ArpKept
<1>4. icmptab' = icmptab /\ ~AtRecv(p, "icmp") => IcmpKept
  BY <1>1 DEF IcmpKept, AtRecv
<1>5. udptab' = udptab /\ ~AtRecv(p, "udp") /\ ~(w.at = "recv" /\ w.tab = "udp") => UdpKept
  BY <1>1, <1>2 DEF UdpKept, AtRecv
<1> QED BY <1>1, <1>2, <1>3, <1>4, <1>5

\* Steps that do nothing a process waits for a message for.
LEMMA NetinWaits ==
    ASSUME WaitSound,
           \/ netinGetbuf \/ netinGot \/ netinDrop \/ netinEnqueue \/ netinEchoEnd
           \/ \E h \in Hosts : netinEcho(h)
           \/ \E p \in Callers : timeout(p)
    PROVE  WaitSound'
<1>1. /\ udptab' = udptab /\ icmptab' = icmptab /\ arpcache' = arpcache /\ prmsg' = prmsg
      /\ doing' = doing
  BY DEF netinGetbuf, netinGot, netinDrop, netinEnqueue, netinEchoEnd, netinEcho, timeout
<1> QED BY <1>1, QuietWaits

\* A call that needs a buffer.
LEMMA SendWaits ==
    ASSUME CallsTyped, WaitSound, NEW p \in Callers, NEW w \in InGetbuf, does(p, w), doing[p].at = "user",
           udptab' = udptab, icmptab' = icmptab, arpcache' = arpcache, prmsg' = prmsg
    PROVE  WaitSound'
<1>1. w \in CallState /\ w.at = "getbuf"
  BY DEF CallState, InGetbuf
<1>2. doing'[p] = w /\ \A q \in Callers \ {p} : doing'[q] = doing[q]
  BY <1>1, Moves
<1>3. \A q \in Callers : doing'[q] = doing[q] \/ {doing[q].at, doing'[q].at} \cap {"recv", "arp"} = {}
  BY <1>1, <1>2
<1> QED BY <1>3, QuietWaits

\* netinUdp, and ip_send to ourselves.
LEMMA UdpPacketWaits ==
    ASSUME TablesTyped, CallsTyped, WaitSound, NEW h, udp_in(h), arpcache' = arpcache,
           \A q \in Callers : doing'[q] = doing[q] \/ {doing[q].at, doing'[q].at} \cap {"recv", "arp"} = {}
    PROVE  WaitSound'
<1> DEFINE s == First(matching(h))
<1>1. icmptab' = icmptab
  BY DEF udp_in
<1> HIDE DEF s
<1>2. CASE /\ s # 0 /\ udptab' = [udptab EXCEPT ![s].count = @ + 1, ![s].state = "USED"]
           /\ send(waiter(udptab[s]), "OK")
  <2>1. s \in 1 .. UDP_SLOTS /\ udptab[s].state # "FREE"
    BY <1>2, MatchingSlot DEF s
  <2>2. UdpSlot(s, "USED", udptab[s].count + 1, udptab[s].pid, udptab[s].owner)
    BY <1>2, <2>1, UdpInSlot
  <2> QED BY <1>1, <1>2, <2>1, <2>2, UdpInWaits
<1>3. CASE udptab' = udptab /\ prmsg' = prmsg
  BY <1>1, <1>3, QuietWaits
<1> QED BY <1>2, <1>3 DEF udp_in, s

\* ip_send
LEMMA IpSendWaits ==
    ASSUME TablesTyped, CallsTyped, WaitSound, NEW p \in Callers, ip_send(p)
    PROVE  WaitSound'
<1>1. doing[p].at = "getbuf" /\ doing[p] \in CallState
  BY DEF CallsTyped, ip_send, Stands
<1>2. doing[p].dest \in Dests
  BY <1>1, CallFacts
<1>3. CASE udp_in(OURSELF) /\ does(p, USER) /\ arpcache' = arpcache
  <2>1. doing'[p].at = "user" /\ \A q \in Callers \ {p} : doing'[q] = doing[q]
    BY <1>3, UserState, Moves
  <2>2. \A q \in Callers : doing'[q] = doing[q] \/ {doing[q].at, doing'[q].at} \cap {"recv", "arp"} = {}
    BY <1>1, <2>1
  <2> QED BY <1>3, <2>2, UdpPacketWaits
<1>4. CASE arp_resolve(p, doing[p].dest)
  BY <1>1, <1>2, <1>4, ResolveWaits
<1> QED BY <1>3, <1>4 DEF ip_send

\* ipout
LEMMA IpoutWaits ==
    ASSUME TablesTyped, CallsTyped, WaitSound, ipout
    PROVE  WaitSound'
<1>1. IPOUT \in Callers /\ doing[IPOUT].at = "wait" /\ iqueue # <<>> /\ iqueue \in Seq(Dests)
  BY DEF CallsTyped, ipout, Stands, Callers
<1>2. Head(iqueue) \in Dests /\ arp_resolve(IPOUT, Head(iqueue))
  BY <1>1 DEF ipout
<1> QED BY <1>1, <1>2, ResolveWaits

\* udp_register
LEMMA UdpRegisterWaits ==
    ASSUME TablesTyped, CallsTyped, WaitSound, NEW p \in Callers, NEW h \in Hosts \cup {ANY},
           udp_register(p, h)
    PROVE  WaitSound'
<1>1. PICK s \in 1 .. UDP_SLOTS : udptab[s].state = "FREE" /\ UdpSlot(s, "USED", 0, NONE, p)
  BY UdpRegisterSlot
<1>2. /\ doing' = doing /\ prmsg' = prmsg /\ icmptab' = icmptab /\ arpcache' = arpcache
      /\ doing[p].at = "user"
  BY DEF udp_register, Stands
<1>3. ~AtRecv(p, "udp") /\ ~AtRecv(p, "udp")'
  BY <1>2 DEF AtRecv
<1>4. \A r \in Callers \ {p} : doing'[r] = doing[r] /\ prmsg'[r] = prmsg[r]
  BY <1>2
<1>5. RecvSound' /\ TellsWaiter(udptab, "udp")'
  BY <1>1, <1>3, <1>4, UdpOwnWaits
<1>6. IcmpKept /\ ArpKept
  BY <1>2 DEF IcmpKept, ArpKept
<1> QED BY <1>5, <1>6, KeepsIcmp, KeepsArp DEF WaitSound

\* udp_recv
LEMMA UdpRecvWaits ==
    ASSUME SharedSlots = FALSE, TablesTyped, CallsTyped, WaitSound, NEW p \in Callers,
           NEW s \in DOMAIN udptab, udp_recv(p, s), fault' = "none"
    PROVE  WaitSound'
<1>1. /\ s \in 1 .. UDP_SLOTS /\ fault = "none" /\ doing[p].at = "user" /\ udptab[s].owner = p
      /\ icmptab' = icmptab /\ arpcache' = arpcache
  BY DEF TablesTyped, udp_recv, Stands, Uses
<1>2. ~AtRecv(p, "udp") /\ ~AtRecv(p, "icmp")
  BY <1>1 DEF AtRecv
<1>3. CASE udpTake(s) /\ doing' = doing /\ prmsg' = prmsg
  <2>1. UdpSlot(s, "USED", udptab[s].count - 1, udptab[s].pid, udptab[s].owner)
    BY <1>1, <1>3, UdpTakeSlot
  <2>2. /\ ~AtRecv(p, "udp")' /\ \A r \in Callers \ {p} : doing'[r] = doing[r] /\ prmsg'[r] = prmsg[r]
    BY <1>1, <1>3 DEF AtRecv
  <2>3. RecvSound' /\ TellsWaiter(udptab, "udp")'
    BY <1>1, <1>2, <2>1, <2>2, UdpOwnWaits
  <2>4. IcmpKept /\ ArpKept
    BY <1>1, <1>3 DEF IcmpKept, ArpKept
  <2> QED BY <2>3, <2>4, KeepsIcmp, KeepsArp DEF WaitSound
<1>4. CASE /\ udptab[s].count = 0
           /\ udptab' = [udptab EXCEPT ![s].state = "RECV", ![s].pid = p]
           /\ recvclr(p)
           /\ does(p, [at |-> "recv", tab |-> "udp", slot |-> s])
  <2> DEFINE w == [at |-> "recv", tab |-> "udp", slot |-> s]
  <2>1. UdpSlot(s, "RECV", 0, p, p)
    BY <1>1, <1>4, UdpWaitSlot
  <2>2. w \in CallState /\ w.at = "recv" /\ w.tab = "udp" /\ w.slot = s /\ does(p, w)
    BY <1>1, <1>4 DEF CallState, InRecv
  <2> HIDE DEF w
  <2>3. /\ doing'[p] = w /\ \A r \in Callers \ {p} : doing'[r] = doing[r] /\ prmsg'[r] = prmsg[r]
        /\ ArpKept /\ IcmpKept
    BY <1>1, <1>2, <1>4, <2>2, CallKeeps
  <2>4. AtRecv(p, "udp")' /\ doing'[p].slot = s /\ prmsg'[p] = NONE
    BY <1>4, <2>2, <2>3, RecvClr DEF AtRecv
  <2>5. RecvSound' /\ TellsWaiter(udptab, "udp")'
    BY <1>1, <1>2, <2>1, <2>3, <2>4, UdpOwnWaits
  <2> QED BY <2>3, <2>5, KeepsIcmp, KeepsArp DEF WaitSound
<1> QED BY <1>3, <1>4 DEF udp_recv

\* A process that udp_in() has told finds a packet.
LEMMA PacketThere ==
    ASSUME CallsTyped, WaitSound, NEW p \in Callers, udp_recvEnd(p)
    PROVE  /\ doing[p].slot \in 1 .. UDP_SLOTS /\ udptab[doing[p].slot].owner = p
           /\ prmsg[p] = "OK" => udptab[doing[p].slot].count > 0
           /\ fault = "none" /\ fault' = "none"
<1>1. /\ doing[p].at = "recv" /\ doing[p].tab = "udp" /\ fault = "none" /\ doing[p] \in CallState
  BY DEF CallsTyped, udp_recvEnd, Stands
<1>2. doing[p].slot \in 1 .. UDP_SLOTS
  BY <1>1, CallFacts
<1>3. udptab[doing[p].slot].owner = p /\ (prmsg[p] = "OK" => udptab[doing[p].slot].count > 0)
  BY <1>1 DEF WaitSound, RecvSound
<1>4. fault' = "none"
  BY <1>1, <1>3 DEF udp_recvEnd, packetCame, udpTake
<1> QED BY <1>1, <1>2, <1>3, <1>4

\* udp_recvEnd
LEMMA UdpRecvEndWaits ==
    ASSUME TablesTyped, CallsTyped, WaitSound, NEW p \in Callers, udp_recvEnd(p)
    PROVE  WaitSound'
<1> DEFINE s == doing[p].slot
<1>1. /\ doing[p].at = "recv" /\ doing[p].tab = "udp" /\ recvclr(p) /\ does(p, USER)
      /\ icmptab' = icmptab /\ arpcache' = arpcache
  BY DEF udp_recvEnd, Stands
<1>2. s \in 1 .. UDP_SLOTS /\ udptab[s].owner = p /\ fault = "none" /\ fault' = "none"
  BY PacketThere
<1> HIDE DEF s
<1>3. /\ doing'[p] = USER /\ \A r \in Callers \ {p} : doing'[r] = doing[r] /\ prmsg'[r] = prmsg[r]
      /\ ArpKept /\ IcmpKept
  BY <1>1, UserState, CallKeeps DEF AtRecv
<1>4. ~AtRecv(p, "udp")' /\ (AtRecv(p, "udp") => doing[p].slot = s)
  BY <1>3 DEF AtRecv, USER, s
<1>5. RecvSound' /\ TellsWaiter(udptab, "udp")'
  <2>1. CASE udpTake(s)
    <3>1. UdpSlot(s, "USED", udptab[s].count - 1, udptab[s].pid, udptab[s].owner)
      BY <1>2, <2>1, UdpTakeSlot
    <3> QED BY <1>2, <1>3, <1>4, <3>1, UdpOwnWaits
  <2>2. CASE udptab' = [udptab EXCEPT ![s].state = "USED"]
    <3>1. UdpSlot(s, "USED", udptab[s].count, udptab[s].pid, udptab[s].owner)
      BY <1>2, <2>2, UdpEndSlot
    <3> QED BY <1>2, <1>3, <1>4, <3>1, UdpOwnWaits
  <2> QED BY <2>1, <2>2 DEF udp_recvEnd, s
<1> QED BY <1>3, <1>5, KeepsIcmp, KeepsArp DEF WaitSound

\* udp_release
LEMMA UdpReleaseWaits ==
    ASSUME SharedSlots = FALSE, TablesTyped, CallsTyped, WaitSound, NEW p \in Callers,
           NEW s \in DOMAIN udptab, udp_release(p, s)
    PROVE  WaitSound'
<1>1. /\ s \in 1 .. UDP_SLOTS /\ doing[p].at = "user" /\ udptab[s].owner = p
      /\ icmptab' = icmptab /\ arpcache' = arpcache /\ doing' = doing /\ prmsg' = prmsg
      /\ udptab' = [udptab EXCEPT ![s].count = 0, ![s].state = "FREE"]
  BY DEF TablesTyped, udp_release, Stands, Uses
<1>2. UdpSlot(s, "FREE", 0, udptab[s].pid, udptab[s].owner)
  BY <1>1, UdpReleaseSlot
<1>3. /\ ~AtRecv(p, "udp") /\ ~AtRecv(p, "udp")'
      /\ \A r \in Callers \ {p} : doing'[r] = doing[r] /\ prmsg'[r] = prmsg[r]
  BY <1>1 DEF AtRecv
<1>4. RecvSound' /\ TellsWaiter(udptab, "udp")'
  BY <1>1, <1>2, <1>3, UdpOwnWaits
<1>5. IcmpKept /\ ArpKept
  BY <1>1 DEF IcmpKept, ArpKept
<1> QED BY <1>4, <1>5, KeepsIcmp, KeepsArp DEF WaitSound

\* icmp_register
LEMMA IcmpRegisterWaits ==
    ASSUME TablesTyped, CallsTyped, WaitSound, NEW p \in Callers, NEW h \in Hosts, icmp_register(p, h)
    PROVE  WaitSound'
<1>1. PICK s \in 1 .. ICMP_SLOTS : icmptab[s].state = "FREE" /\ IcmpSlot(s, "USED", 0, NONE, p)
  BY IcmpRegisterSlot
<1>2. doing' = doing /\ prmsg' = prmsg /\ udptab' = udptab /\ arpcache' = arpcache
  BY DEF icmp_register
<1>3. doing'[p] = doing[p] /\ \A r \in Callers \ {p} : doing'[r] = doing[r]
  BY <1>2
<1>4. TellsWaiter(icmptab, "icmp")'
  BY <1>1, <1>3, IcmpOwnWaits
<1>5. UdpKept /\ ArpKept
  BY <1>2 DEF UdpKept, ArpKept, AtRecv
<1> QED BY <1>4, <1>5, KeepsUdp, KeepsArp DEF WaitSound

\* icmp_recv
LEMMA IcmpRecvWaits ==
    ASSUME TablesTyped, CallsTyped, WaitSound, NEW p \in Callers, NEW s \in DOMAIN icmptab,
           icmp_recv(p, s), fault' = "none"
    PROVE  WaitSound'
<1>1. /\ s \in 1 .. ICMP_SLOTS /\ fault = "none" /\ doing[p].at = "user"
      /\ udptab' = udptab /\ arpcache' = arpcache
  BY DEF TablesTyped, icmp_recv, Stands
<1>2. ~AtRecv(p, "udp") /\ ~AtRecv(p, "icmp")
  BY <1>1 DEF AtRecv
<1>3. CASE icmpTake(s) /\ doing' = doing /\ prmsg' = prmsg
  <2>1. IcmpSlot(s, "USED", icmptab[s].count - 1, icmptab[s].pid, icmptab[s].owner)
    BY <1>1, <1>3, IcmpTakeSlot
  <2>2. doing'[p] = doing[p] /\ \A r \in Callers \ {p} : doing'[r] = doing[r]
    BY <1>3
  <2>3. TellsWaiter(icmptab, "icmp")'
    BY <1>1, <2>1, <2>2, IcmpOwnWaits
  <2>4. UdpKept /\ ArpKept
    BY <1>1, <1>3 DEF UdpKept, ArpKept, AtRecv
  <2> QED BY <2>3, <2>4, KeepsUdp, KeepsArp DEF WaitSound
<1>4. CASE /\ icmptab' = [icmptab EXCEPT ![s].state = "RECV", ![s].pid = p]
           /\ recvclr(p)
           /\ does(p, [at |-> "recv", tab |-> "icmp", slot |-> s])
  <2> DEFINE w == [at |-> "recv", tab |-> "icmp", slot |-> s]
  <2>1. IcmpSlot(s, "RECV", icmptab[s].count, p, icmptab[s].owner)
    BY <1>1, <1>4, IcmpWaitSlot
  <2>2. w \in CallState /\ w.at = "recv" /\ w.tab = "icmp" /\ w.slot = s /\ does(p, w)
    BY <1>1, <1>4 DEF CallState, InRecv
  <2> HIDE DEF w
  <2>3. /\ doing'[p] = w /\ \A r \in Callers \ {p} : doing'[r] = doing[r] /\ prmsg'[r] = prmsg[r]
        /\ ArpKept /\ UdpKept
    BY <1>1, <1>2, <1>4, <2>2, CallKeeps
  <2>4. AtRecv(p, "icmp")' /\ doing'[p].slot = s
    BY <2>2, <2>3 DEF AtRecv
  <2>5. TellsWaiter(icmptab, "icmp")'
    BY <1>1, <1>2, <2>1, <2>3, <2>4, IcmpOwnWaits
  <2> QED BY <2>3, <2>5, KeepsUdp, KeepsArp DEF WaitSound
<1> QED BY <1>3, <1>4 DEF icmp_recv

\* icmp_recvEnd
LEMMA IcmpRecvEndWaits ==
    ASSUME TablesTyped, CallsTyped, WaitSound, NEW p \in Callers, icmp_recvEnd(p), fault' = "none"
    PROVE  WaitSound'
<1> DEFINE s == doing[p].slot
<1>1. /\ doing[p].at = "recv" /\ doing[p].tab = "icmp" /\ recvclr(p) /\ does(p, USER)
      /\ udptab' = udptab /\ arpcache' = arpcache /\ fault = "none" /\ doing[p] \in CallState
  BY DEF CallsTyped, icmp_recvEnd, Stands
<1>2. s \in 1 .. ICMP_SLOTS
  BY <1>1, CallFacts
<1> HIDE DEF s
<1>3. /\ doing'[p] = USER /\ \A r \in Callers \ {p} : doing'[r] = doing[r]
      /\ ArpKept /\ UdpKept
  BY <1>1, UserState, CallKeeps DEF AtRecv
<1>4. AtRecv(p, "icmp") => doing[p].slot = s
  BY DEF s
<1>5. CASE icmpTake(s)
  <2>1. IcmpSlot(s, "USED", icmptab[s].count - 1, icmptab[s].pid, icmptab[s].owner)
    BY <1>1, <1>2, <1>5, IcmpTakeSlot
  <2>2. TellsWaiter(icmptab, "icmp")'
    BY <1>2, <1>3, <1>4, <2>1, IcmpOwnWaits
  <2> QED BY <1>3, <2>2, KeepsUdp, KeepsArp DEF WaitSound
<1>6. CASE icmptab' = [icmptab EXCEPT ![s].state = "USED"]
  <2>1. IcmpSlot(s, "USED", icmptab[s].count, icmptab[s].pid, icmptab[s].owner)
    BY <1>2, <1>6, IcmpEndSlot
  <2>2. TellsWaiter(icmptab, "icmp")'
    BY <1>2, <1>3, <1>4, <2>1, IcmpOwnWaits
  <2> QED BY <1>3, <2>2, KeepsUdp, KeepsArp DEF WaitSound
<1> QED BY <1>5, <1>6 DEF icmp_recvEnd, s

\* icmp_release
LEMMA IcmpReleaseWaits ==
    ASSUME TablesTyped, CallsTyped, WaitSound, NEW p \in Callers, NEW s \in DOMAIN icmptab,
           icmp_release(p, s)
    PROVE  WaitSound'
<1>1. /\ s \in 1 .. ICMP_SLOTS /\ udptab' = udptab /\ arpcache' = arpcache
      /\ doing' = doing /\ prmsg' = prmsg
      /\ icmptab' = [icmptab EXCEPT ![s].count = 0, ![s].state = "FREE"]
  BY DEF TablesTyped, icmp_release
<1>2. IcmpSlot(s, "FREE", 0, icmptab[s].pid, icmptab[s].owner)
  BY <1>1, IcmpReleaseSlot
<1>3. doing'[p] = doing[p] /\ \A r \in Callers \ {p} : doing'[r] = doing[r]
  BY <1>1
<1>4. TellsWaiter(icmptab, "icmp")'
  BY <1>1, <1>2, <1>3, IcmpOwnWaits
<1>5. UdpKept /\ ArpKept
  BY <1>1 DEF UdpKept, ArpKept, AtRecv
<1> QED BY <1>4, <1>5, KeepsUdp, KeepsArp DEF WaitSound

\* netinReply tells the process that waits for a reply.
LEMMA ReplyWaits ==
    ASSUME TablesTyped, CallsTyped, WaitSound, NEW h \in Hosts, NEW s \in DOMAIN icmptab,
           netinReply(h, s)
    PROVE  WaitSound'
<1>1. /\ s \in 1 .. ICMP_SLOTS /\ udptab' = udptab /\ arpcache' = arpcache /\ doing' = doing
      /\ IPOUT \in Callers
  BY DEF TablesTyped, netinReply, echoReply, Callers
<1>2. CASE /\ icmptab' = [icmptab EXCEPT ![s].count = @ + 1, ![s].state = "USED"]
           /\ send(IF icmptab[s].state = "RECV" THEN icmptab[s].pid ELSE NONE, "OK")
  <2> DEFINE r == IF icmptab[s].state = "RECV" THEN icmptab[s].pid ELSE NONE
  <2>1. r \in Callers \cup {NONE} /\ send(r, "OK")
    BY <1>1, <1>2 DEF TablesTyped, IcmpEntry, IcmpRecord
  <2>2. r \in Callers => doing[r].at = "recv" /\ doing[r].tab = "icmp"
    BY EveryoneFinite DEF WaitSound, TellsWaiter
  <2> HIDE DEF r
  <2>3. \A q \in Callers : q # r => prmsg'[q] = prmsg[q]
    BY <2>1, SendTyped
  <2>4. UdpKept /\ ArpKept
    BY <1>1, <2>2, <2>3 DEF UdpKept, ArpKept, AtRecv
  <2>5. IcmpSlot(s, "USED", icmptab[s].count + 1, icmptab[s].pid, icmptab[s].owner)
    BY <1>1, <1>2, IcmpInSlot
  <2>6. doing'[IPOUT] = doing[IPOUT] /\ \A q \in Callers \ {IPOUT} : doing'[q] = doing[q]
    BY <1>1
  <2>7. TellsWaiter(icmptab, "icmp")'
    BY <1>1, <2>5, <2>6, IcmpOwnWaits
  <2> QED BY <2>4, <2>7, KeepsUdp, KeepsArp DEF WaitSound
<1>3. CASE icmptab' = icmptab /\ prmsg' = prmsg
  BY <1>1, <1>3, QuietWaits
<1> QED BY <1>2, <1>3 DEF netinReply, echoReply

\* A foreign message comes to a process in udp_recv() or icmp_recv().
LEMMA ForeignWaits ==
    ASSUME Foreign = FALSE, CallsTyped, WaitSound, NEW p \in Callers, foreign(p)
    PROVE  WaitSound'
<1>1. /\ doing[p].at = "recv" /\ prmsg' = [prmsg EXCEPT ![p] = "other"] /\ doing' = doing
      /\ udptab' = udptab /\ icmptab' = icmptab /\ arpcache' = arpcache
  BY DEF foreign
<1>2. \A q \in Callers : prmsg'[q] = IF q = p THEN "other" ELSE prmsg[q]
  BY <1>1 DEF CallsTyped
<1>3. UdpKept
  BY <1>1, <1>2 DEF UdpKept, AtRecv
<1>4. IcmpKept
  BY <1>1 DEF IcmpKept
<1>5. ArpKept
  BY <1>1, <1>2 DEF ArpKept
<1> QED BY <1>3, <1>4, <1>5, KeepsUdp, KeepsIcmp, KeepsArp DEF WaitSound

\* A call that starts.
LEMMA CallingWaits ==
    ASSUME SharedSlots = FALSE, TablesTyped, CallsTyped, WaitSound, NEW p \in Callers, Calling(p),
           fault' = "none"
    PROVE  WaitSound'
<1>1. CASE \E h \in Hosts \cup {ANY} : udp_register(p, h)
  BY <1>1, UdpRegisterWaits
<1>2. CASE \E s \in DOMAIN udptab : udp_recv(p, s)
  BY <1>2, UdpRecvWaits
<1>3. CASE \E s \in DOMAIN udptab : udp_release(p, s)
  BY <1>3, UdpReleaseWaits
<1>4. CASE \E s \in DOMAIN udptab : \E h \in Hosts \cup {OURSELF} : udp_send(p, s, h)
  <2>1. PICK s \in DOMAIN udptab, h \in Hosts \cup {OURSELF} : udp_send(p, s, h)
    BY <1>4
  <2> DEFINE w == [at |-> "getbuf", proto |-> "udp", dest |-> h]
  <2>2. w \in InGetbuf
    BY DEF InGetbuf, Dests
  <2>3. /\ doing[p].at = "user" /\ does(p, w) /\ udptab' = udptab /\ icmptab' = icmptab
        /\ arpcache' = arpcache /\ prmsg' = prmsg
    BY <2>1 DEF udp_send, Stands
  <2> HIDE DEF w
  <2> QED BY <2>2, <2>3, SendWaits
<1>5. CASE \E h \in Hosts : icmp_register(p, h)
  BY <1>5, IcmpRegisterWaits
<1>6. CASE \E h \in Hosts : icmp_send(p, h)
  <2>1. PICK h \in Hosts : icmp_send(p, h)
    BY <1>6
  <2> DEFINE w == [at |-> "getbuf", proto |-> "icmp", dest |-> h]
  <2>2. w \in InGetbuf
    BY DEF InGetbuf, Dests
  <2>3. /\ doing[p].at = "user" /\ does(p, w) /\ udptab' = udptab /\ icmptab' = icmptab
        /\ arpcache' = arpcache /\ prmsg' = prmsg
    BY <2>1 DEF icmp_send, Stands
  <2> HIDE DEF w
  <2> QED BY <2>2, <2>3, SendWaits
<1>7. CASE \E s \in DOMAIN icmptab : icmp_recv(p, s)
  BY <1>7, IcmpRecvWaits
<1>8. CASE \E s \in DOMAIN icmptab : icmp_release(p, s)
  BY <1>8, IcmpReleaseWaits
<1> QED BY <1>1, <1>2, <1>3, <1>4, <1>5, <1>6, <1>7, <1>8 DEF Calling, UdpCall, IcmpCall

\* A packet that comes.
LEMMA PacketWaits ==
    ASSUME TablesTyped, CallsTyped, WaitSound, NetinPacket
    PROVE  WaitSound'
<1>1. CASE \E h \in Hosts : netinUdp(h)
  <2>1. PICK h \in Hosts : netinUdp(h)
    BY <1>1
  <2>2. udp_in(h) /\ arpcache' = arpcache /\ doing' = doing
    BY <2>1 DEF netinUdp
  <2>3. \A q \in Callers : doing'[q] = doing[q] \/ {doing[q].at, doing'[q].at} \cap {"recv", "arp"} = {}
    BY <2>2
  <2> QED BY <2>2, <2>3, UdpPacketWaits
<1>2. CASE \E h \in Hosts : \E ours \in BOOLEAN : netinArp(h, ours)
  <2>1. PICK h \in Hosts, ours \in BOOLEAN : netinArp(h, ours)
    BY <1>2
  <2>2. arp_in(h, ours) /\ doing' = doing
    BY <2>1 DEF netinArp
  <2> QED BY <2>2, ArpInWaits
<1>3. CASE \E h \in Hosts : \E s \in DOMAIN icmptab : netinReply(h, s)
  BY <1>3, ReplyWaits
<1>4. CASE netinDrop \/ \E h \in Hosts : netinEcho(h)
  BY <1>4, NetinWaits
<1> QED BY <1>1, <1>2, <1>3, <1>4 DEF NetinPacket

\* Every step.
LEMMA WaitStep ==
    ASSUME SharedSlots = FALSE, Foreign = FALSE, Sound, WaitSound, Next, fault' = "none"
    PROVE  WaitSound'
<1>1. TablesTyped /\ CallsTyped
  BY DEF Sound
<1>2. CASE NetinStep
  BY <1>2, NetinWaits DEF NetinStep
<1>3. CASE NetinPacket
  BY <1>1, <1>3, PacketWaits
<1>4. CASE ipout
  BY <1>1, <1>4, IpoutWaits
<1>5. CASE \E p \in Procs : Calling(p)
  <2>1. PICK p \in Procs : Calling(p)
    BY <1>5
  <2>2. p \in Callers
    BY DEF Callers
  <2> QED BY <1>1, <2>1, <2>2, CallingWaits
<1>6. CASE \E p \in Procs : Going(p)
  <2>1. PICK p \in Procs : Going(p)
    BY <1>6
  <2>2. p \in Callers
    BY DEF Callers
  <2> QED BY <1>1, <2>1, <2>2, UdpRecvEndWaits, IcmpRecvEndWaits, IpSendWaits, ArpEndWaits DEF Going
<1>7. CASE arpEnd(IPOUT)
  <2>1. IPOUT \in Callers
    BY DEF Callers
  <2> QED BY <1>1, <1>7, <2>1, ArpEndWaits
<1>8. CASE \E p \in Callers : timeout(p)
  BY <1>8, NetinWaits
<1>9. CASE \E p \in Callers : foreign(p)
  BY <1>1, <1>9, ForeignWaits
<1> QED BY <1>2, <1>3, <1>4, <1>5, <1>6, <1>7, <1>8, <1>9 DEF Next

\* A queue of UDP is never read where no packet is.
LEMMA NoUdpFault ==
    ASSUME Sound, WaitSound, Next
    PROVE  fault' # "udp"
<1>1. fault = "none"
  BY FaultEnds
<1>2. CASE NetinStep \/ NetinPacket
  BY <1>1, <1>2 DEF NetinStep, NetinPacket, netinGetbuf, netinGot, netinEnqueue, netinEchoEnd, netinArp,
         netinUdp, netinReply, netinDrop, netinEcho, arp_in, echoReply
<1>3. CASE ipout \/ arpEnd(IPOUT) \/ \E p \in Callers : timeout(p) \/ foreign(p)
  BY <1>1, <1>3 DEF ipout, arp_resolve, arpEnd, timeout, foreign
<1>4. CASE \E p \in Procs : Calling(p)
  <2>1. PICK p \in Procs : Calling(p)
    BY <1>4
  <2>2. CASE \E s \in DOMAIN udptab : udp_recv(p, s)
    BY <1>1, <2>2 DEF udp_recv, udpTake
  <2>3. CASE IcmpCall(p)
    BY <1>1, <2>3 DEF IcmpCall, icmp_register, icmp_send, icmp_recv, icmp_release, icmpTake
  <2>4. CASE UdpCall(p) /\ ~\E s \in DOMAIN udptab : udp_recv(p, s)
    BY <1>1, <2>4 DEF UdpCall, udp_register, udp_release, udp_send
  <2> QED BY <2>1, <2>2, <2>3, <2>4 DEF Calling
<1>5. CASE \E p \in Procs : Going(p)
  <2>1. PICK p \in Procs : Going(p)
    BY <1>5
  <2>2. p \in Callers /\ CallsTyped
    BY DEF Callers, Sound
  <2>3. CASE udp_recvEnd(p)
    BY <2>2, <2>3, PacketThere
  <2>4. CASE icmp_recvEnd(p) \/ ip_send(p) \/ arpEnd(p)
    BY <1>1, <2>4 DEF icmp_recvEnd, icmpTake, ip_send, arp_resolve, arpEnd
  <2> QED BY <2>1, <2>3, <2>4 DEF Going
<1> QED BY <1>2, <1>3, <1>4, <1>5 DEF Next

\* Nobody waits at the start.
LEMMA ServedInit ==
    ASSUME net_init
    PROVE  ServedInv
<1>1. /\ \A p \in Callers : doing[p].at \in {"user", "wait"}
      /\ \A s \in DOMAIN udptab : udptab[s].state = "FREE"
      /\ \A s \in DOMAIN icmptab : icmptab[s].state = "FREE"
      /\ \A s \in DOMAIN arpcache : arpcache[s].state = "FREE"
  BY DEF net_init, USER
<1>2. RecvSound /\ TellsWaiter(udptab, "udp") /\ TellsWaiter(icmptab, "icmp") /\ PendingSound
  BY <1>1 DEF RecvSound, TellsWaiter, PendingSound
<1>3. ResolvingSound
  BY <1>1 DEF ResolvingSound, Resolving
<1>4. fault = "none"
  BY DEF net_init
<1> QED BY <1>2, <1>3, <1>4, NetInit DEF ServedInv, WaitSound

\* Every step keeps it.
LEMMA ServedStep ==
    ASSUME SharedSlots = FALSE, Foreign = FALSE, ServedInv, [Next]_netVars
    PROVE  ServedInv'
<1>1. CASE Next
  <2>1. fault = "none" /\ Sound /\ WaitSound
    BY <1>1, FaultEnds DEF ServedInv
  <2>2. fault' # "udp"
    BY <1>1, <2>1, NoUdpFault
  <2>3. fault' = "none" => Sound' /\ WaitSound'
    BY <1>1, <2>1, NetStep, WaitStep
  <2> QED BY <2>2, <2>3 DEF ServedInv
<1>2. CASE UNCHANGED netVars
  <2>1. Sound' <=> Sound
    BY <1>2 DEF netVars, Sound, TablesTyped, CallsTyped, PoolSound, Conserved, Seekers, Getting,
                NetinGetting, Queued, NetinHas, Resolving
  <2>2. WaitSound' <=> WaitSound
    BY <1>2 DEF netVars, WaitSound, RecvSound, TellsWaiter, PendingSound, ResolvingSound, Resolving
  <2> QED BY <1>2, <2>1, <2>2 DEF ServedInv, netVars
<1> QED BY <1>1, <1>2

\* A process that was told of a packet finds one, and one that was not and
\* whose time is not over is the one that will be told.
THEOREM ReceiversServed ==
    ASSUME SharedSlots = FALSE, Foreign = FALSE PROVE LiveSpec => []ReceiverServed
<1>1. net_init => ServedInv
  BY ServedInit
<1>2. ServedInv /\ [Next]_netVars => ServedInv'
  BY ServedStep
<1>3. ServedInv => ReceiverServed
  <2> SUFFICES ASSUME ServedInv, fault = "none", NEW p \in Procs,
                      doing[p].at = "recv", doing[p].tab = "udp", ~Woken(p)
               PROVE  /\ udptab[doing[p].slot].state = "RECV" /\ udptab[doing[p].slot].pid = p
                      /\ udptab[doing[p].slot].count = 0
    BY DEF ServedInv, ReceiverServed, ReceiverFindsPacket, ReceiverRegistered
  <2>1. p \in Callers /\ prmsg[p] = NONE
    BY DEF Callers, Woken
  <2> QED BY <2>1 DEF ServedInv, WaitSound, RecvSound
<1> QED BY <1>1, <1>2, <1>3, PTL DEF LiveSpec

\* No entry of the ARP cache stays pending when nobody waits for it: the
\* process whose request it is will have it resolved or freed.
THEOREM PendingsAwaited ==
    ASSUME SharedSlots = FALSE, Foreign = FALSE PROVE LiveSpec => []PendingAwaited
<1>1. net_init => ServedInv
  BY ServedInit
<1>2. ServedInv /\ [Next]_netVars => ServedInv'
  BY ServedStep
<1>3. ServedInv => PendingAwaited
  BY DEF ServedInv, WaitSound, PendingSound, PendingAwaited, Entries
<1> QED BY <1>1, <1>2, <1>3, PTL DEF LiveSpec

\* When arp_resolve() is told and the entry is still its own, it comes back with
\* the address of the host it was asked for; an entry that was given to another
\* host meanwhile (arp.c:148) is excepted.
THEOREM NeverWrongAddress ==
    ASSUME SharedSlots = FALSE, Foreign = FALSE PROVE LiveSpec => NeverUnresolved
<1>1. net_init => ServedInv
  BY ServedInit
<1>2. ServedInv /\ [Next]_netVars => ServedInv'
  BY ServedStep
<1> DEFINE Asked(p) == doing[p].at = "arp" /\ doing'[p].at # "arp" /\ prmsg[p] # NONE
           Right(p) == LET d == doing[p]
                           e == arpcache[d.slot]
                       IN  e.pid = p /\ e.addr = d.dest => e.haddr = d.dest
<1>3. ServedInv /\ [Next]_netVars => [\A p \in Callers : Asked(p) => Right(p)]_netVars
  <2> SUFFICES ASSUME ServedInv, Next, NEW p \in Callers, Asked(p) PROVE Right(p)
    OBVIOUS
  <2>1. WaitSound
    BY FaultEnds DEF ServedInv
  <2>2. p \in Resolving
    BY DEF Resolving
  <2> QED BY <2>1, <2>2 DEF WaitSound, ResolvingSound
<1> QED BY <1>1, <1>2, <1>3, PTL DEF LiveSpec, NeverUnresolved
=============================================================================
