------------------------------- MODULE NetState -------------------------------
(***************************************************************************)
(* What the parts of the network code share: the pool of network buffers,  *)
(* the tables of UDP, ICMP and ARP, the output queue, and where each       *)
(* process stands in its call.  A packet is what the code looks at: its    *)
(* type and the host it comes from or goes to.                             *)
(*                                                                         *)
(* Calls run with interrupts disabled and give up the CPU only where they  *)
(* wait: for a buffer, or for a message with a timeout.  The interface has *)
(* an address (ipvalid), and every host is on the local network.           *)
(***************************************************************************)
EXTENDS UserSem, FiniteSets

CONSTANTS
    Procs,          \* processes that use the network
    NETIN, IPOUT,   \* the processes net_init() creates
    Hosts,          \* other hosts
    NONE,
    UDP_SLOTS, UDP_QSIZ, ICMP_SLOTS, ICMP_QSIZ, ARP_SIZ, ARP_RETRY, IP_OQSIZ,
    Sessions,       \* what happens in a behaviour: sets of "udp", "icmp", "echo",
                    \* "arp" (packets and calls), "send" (processes send)
    Foreign         \* whether foreign messages come to arp_resolve() too

ASSUME NetAssumption ==
    /\ {NETIN, IPOUT, NONE} \cap (Procs \cup Hosts) = {}
    /\ NETIN # IPOUT /\ NONE \notin {NETIN, IPOUT, "OK", "other"} /\ IsFiniteSet(Procs)
    /\ {UDP_SLOTS, UDP_QSIZ, ICMP_SLOTS, ICMP_QSIZ, ARP_SIZ, ARP_RETRY, IP_OQSIZ} \subseteq Nat \ {0}
    /\ Foreign \in BOOLEAN

VARIABLES
    pool,       \* the semaphore of netbufpool: its count is the free buffers
    udptab, icmptab, arpcache,
    iqueue,     \* the IP output queue: destinations
    doing,      \* what each process but netin is in the middle of
    prmsg,      \* its message, or NONE
    expired,    \* processes whose timeout has come
    netin,      \* what netin does, and with which packet
    session,    \* what happens in this behaviour
    fault       \* a queue was read or written where no packet is

netVars ==
    <<pool, udptab, icmptab, arpcache, iqueue, doing, prmsg, expired, netin, session, fault>>

ANY  == "any"       \* remote address 0
USER == [at |-> "user"]
Callers == Procs \cup {IPOUT}

\* "nbufs = UDP_SLOTS * UDP_QSIZ + ICMP_SLOTS * ICMP_QSIZ + 1"
nbufs == UDP_SLOTS * UDP_QSIZ + ICMP_SLOTS * ICMP_QSIZ + 1

net_init ==
    /\ pool = [used |-> TRUE, count |-> nbufs - 1, queue |-> <<>>]
    /\ udptab = [s \in 1 .. UDP_SLOTS |->
                    [state |-> "FREE", remip |-> ANY, count |-> 0, pid |-> NONE, owner |-> NONE]]
    /\ icmptab = [s \in 1 .. ICMP_SLOTS |->
                    [state |-> "FREE", remip |-> ANY, count |-> 0, head |-> 0, pid |-> NONE,
                     owner |-> NONE]]
    /\ arpcache = [s \in 1 .. ARP_SIZ |->
                    [state |-> "FREE", addr |-> NONE, haddr |-> NONE, pid |-> NONE]]
    /\ iqueue = <<>>
    /\ doing = [p \in Callers |-> IF p = IPOUT THEN [at |-> "wait"] ELSE USER]
    /\ prmsg = [p \in Callers |-> NONE]
    /\ expired = {}
    /\ netin = [at |-> "read", from |-> NONE]
    /\ fault = "none"
    /\ session \in Sessions

-----------------------------------------------------------------------------
\* p is in its call at place, and the call can go on.
Stands(p, place) == fault = "none" /\ doing[p].at = place

does(p, what) == doing' = [doing EXCEPT ![p] = what]

\* getbuf() of a process that takes no time to get its buffer, and the steps
\* of one that may have to wait.
waitbuf(p) == IF passes(pool) THEN passed(pool) ELSE blocked(pool, p)

\* freebuf() of n buffers, one after the other.
freebuf(n) == pool' = signaledN(pool, n)

\* send(): a process that has a message gets no other one.
send(p, m) ==
    prmsg' = IF p = NONE THEN prmsg
             ELSE IF prmsg[p] # NONE THEN prmsg ELSE [prmsg EXCEPT ![p] = m]

\* recvclr() and recvtime() of a process that starts to wait.
recvclr(p) ==
    /\ prmsg' = [prmsg EXCEPT ![p] = NONE]
    /\ expired' = expired \ {p}

\* recvtime() returns: with the message if there is one, else with TIMEOUT.
Woken(p) == prmsg[p] # NONE \/ p \in expired

\* The clock ends the wait of p.
timeout(p) ==
    /\ fault = "none"
    /\ doing[p].at \in {"recv", "arp"} /\ prmsg[p] = NONE /\ p \notin expired
    /\ expired' = expired \cup {p}
    /\ UNCHANGED <<pool, udptab, icmptab, arpcache, iqueue, doing, prmsg, netin, session, fault>>

\* Some process sends p a message that is neither OK nor SYSERR.
foreign(p) ==
    /\ fault = "none"
    /\ doing[p].at = "recv" \/ (Foreign /\ doing[p].at = "arp")
    /\ p \notin expired /\ prmsg[p] = NONE
    /\ prmsg' = [prmsg EXCEPT ![p] = "other"]
    /\ UNCHANGED <<pool, udptab, icmptab, arpcache, iqueue, doing, expired, netin, session, fault>>

\* The first slot with the property, in the order of the table; 0 if none.
First(T) == IF T = {} THEN 0 ELSE CHOOSE s \in T : \A t \in T : s <= t
=============================================================================
