---------------------------------- MODULE Net ---------------------------------
(***************************************************************************)
(* The network input process and IP, net/net.c and net/ip.c, which tie     *)
(* UDP, ICMP and ARP together: netin gets a buffer, reads a packet into it *)
(* and hands it on; ipout sends what is in the output queue.  Packets may  *)
(* come in any order, more than once or not at all.                        *)
(***************************************************************************)
EXTENDS Udp, Icmp, Arp

OURSELF == "ourself"    \* our own address

-----------------------------------------------------------------------------
(* Sending by processes.                                                   *)

\* ip_send() by p, which has its buffer now: to ourselves, or to a host.
ip_send(p) ==
    LET d == doing[p] IN
    /\ Stands(p, "getbuf") /\ ~waitsOn(p, pool)
    /\ \/ /\ d.dest = OURSELF
          /\ udp_in(OURSELF)
          /\ does(p, USER)
          /\ UNCHANGED <<arpcache, expired, fault>>
       \/ /\ d.dest # OURSELF
          /\ arp_resolve(p, d.dest)
    /\ UNCHANGED <<iqueue, netin>>

-----------------------------------------------------------------------------
(* The output queue.                                                       *)

outputFull == Len(iqueue) >= IP_OQSIZ

\* ipout takes the first packet and resolves its address.
ipout ==
    /\ Stands(IPOUT, "wait") /\ iqueue # <<>>
    /\ iqueue' = Tail(iqueue)
    /\ arp_resolve(IPOUT, Head(iqueue))
    /\ UNCHANGED netin

-----------------------------------------------------------------------------
(* netin.  signal() in ip_enqueue() switches to ipout, which has the same  *)
(* priority, so that netin goes on when ipout has taken the packet.        *)

NetinAt(place) ==
    /\ fault = "none" /\ netin.at = place
    /\ doing[IPOUT].at = "wait" => iqueue = <<>>

next == netin' = [at |-> "next", from |-> NONE]

netinGetbuf ==
    /\ NetinAt("next")
    /\ pool' = waitbuf(NETIN)
    /\ netin' = [netin EXCEPT !.at = IF passes(pool) THEN "read" ELSE "getbuf"]
    /\ UNCHANGED <<udptab, icmptab, arpcache, iqueue, doing, prmsg, expired, session, fault>>

netinGot ==
    /\ NetinAt("getbuf") /\ ~waitsOn(NETIN, pool)
    /\ netin' = [netin EXCEPT !.at = "read"]
    /\ UNCHANGED <<pool, udptab, icmptab, arpcache, iqueue, doing, prmsg, expired, session, fault>>

netinArp(h, ours) ==
    /\ NetinAt("read")
    /\ arp_in(h, ours)
    /\ next
    /\ UNCHANGED <<iqueue, doing, expired>>

netinUdp(h) ==
    /\ NetinAt("read")
    /\ udp_in(h)
    /\ next
    /\ UNCHANGED <<arpcache, iqueue, doing, expired, fault>>

netinReply(h, s) ==
    /\ NetinAt("read")
    /\ echoReply(h, s)
    /\ next
    /\ UNCHANGED <<arpcache, iqueue, doing, expired>>

\* A packet ip_in() or netin() has no use for: a wrong checksum, version,
\* destination, protocol or type.
netinDrop ==
    /\ NetinAt("read")
    /\ freebuf(1)
    /\ next
    /\ UNCHANGED <<udptab, icmptab, arpcache, iqueue, doing, prmsg, expired, session, fault>>

\* icmp_in() of an echo request: icmp_mkpkt() needs a second buffer.
netinEcho(h) ==
    /\ NetinAt("read")
    /\ pool' = waitbuf(NETIN)
    /\ netin' = [at |-> "mkpkt", from |-> h]
    /\ UNCHANGED <<udptab, icmptab, arpcache, iqueue, doing, prmsg, expired, session, fault>>

\* ip_enqueue(): the reply is queued or freed.
netinEnqueue ==
    /\ NetinAt("mkpkt") /\ ~waitsOn(NETIN, pool)
    /\ \/ /\ outputFull
          /\ freebuf(1)
          /\ UNCHANGED iqueue
       \/ /\ ~outputFull
          /\ iqueue' = Append(iqueue, netin.from)
          /\ UNCHANGED pool
    /\ netin' = [at |-> "queued", from |-> NONE]
    /\ UNCHANGED <<udptab, icmptab, arpcache, doing, prmsg, expired, session, fault>>

\* The request is freed.
netinEchoEnd ==
    /\ NetinAt("queued")
    /\ freebuf(1)
    /\ next
    /\ UNCHANGED <<udptab, icmptab, arpcache, iqueue, doing, prmsg, expired, session, fault>>

-----------------------------------------------------------------------------
NetinStep == netinGetbuf \/ netinGot \/ netinEnqueue \/ netinEchoEnd

NetinPacket ==
    \/ \E h \in Hosts :
          \/ "udp" \in session /\ netinUdp(h)
          \/ "echo" \in session /\ netinEcho(h)
          \/ "arp" \in session /\ \E ours \in BOOLEAN : netinArp(h, ours)
          \/ "icmp" \in session /\ \E s \in DOMAIN icmptab : netinReply(h, s)
    \/ netinDrop

\* p goes on with its call.
Going(p) == udp_recvEnd(p) \/ icmp_recvEnd(p) \/ ip_send(p) \/ arpEnd(p)

UdpCall(p) ==
    \/ \E h \in Hosts \cup {ANY} : udp_register(p, h)
    \/ \E s \in DOMAIN udptab :
          \/ udp_recv(p, s) \/ udp_release(p, s)
          \/ "send" \in session /\ \E h \in Hosts \cup {OURSELF} : udp_send(p, s, h)

IcmpCall(p) ==
    \/ \E h \in Hosts : icmp_register(p, h) \/ ("send" \in session /\ icmp_send(p, h))
    \/ \E s \in DOMAIN icmptab : icmp_recv(p, s) \/ icmp_release(p, s)

Calling(p) ==
    \/ "udp" \in session /\ UdpCall(p)
    \/ "icmp" \in session /\ IcmpCall(p)

Next ==
    \/ NetinStep \/ NetinPacket \/ ipout
    \/ \E p \in Procs : Calling(p) \/ Going(p)
    \/ arpEnd(IPOUT)
    \/ \E p \in Callers : timeout(p) \/ foreign(p)

\* Timeouts come, and a process that need not wait gets the CPU.  Nobody has
\* to send a packet or to make a call.
LiveSpec ==
    /\ net_init /\ [][Next]_netVars
    /\ WF_netVars(NetinStep) /\ WF_netVars(ipout) /\ WF_netVars(arpEnd(IPOUT))
    /\ \A p \in Procs : WF_netVars(Going(p))
    /\ \A p \in Callers : WF_netVars(timeout(p))

\* For TLC: what a free entry, and one nobody waits on, still holds is not
\* looked at.
slotView(tab) ==
    [s \in DOMAIN tab |->
        CASE tab[s].state = "FREE" -> "FREE"
          [] tab[s].state = "USED" -> [tab[s] EXCEPT !.pid = NONE]
          [] OTHER -> tab[s]]
arpView == [s \in DOMAIN arpcache |-> IF arpcache[s].state = "FREE" THEN "FREE" ELSE arpcache[s]]
StateView ==
    <<pool, slotView(udptab), slotView(icmptab), arpView, iqueue, doing, prmsg, expired, netin,
      session, fault>>

-----------------------------------------------------------------------------
(* Properties.                                                             *)

\* Processes that have a buffer, inside their call.
Holding == {p \in Callers : doing[p].at \in {"arp", "getbuf"} /\ ~waitsOn(p, pool)}

NetinHolds ==
    CASE netin.at \in {"read", "queued"} -> 1
      [] netin.at = "mkpkt" -> IF waitsOn(NETIN, pool) THEN 1 ELSE 2
      [] netin.at = "getbuf" -> IF waitsOn(NETIN, pool) THEN 0 ELSE 1
      [] OTHER -> 0

\* Places of the queues that hold a packet.
Places(tab) == UNION {{s} \X (1 .. tab[s].count) : s \in DOMAIN tab}

Queued == Cardinality(Places(udptab)) + Cardinality(Places(icmptab))

\* Until a fault stops the system no path through UDP, ICMP, ARP and IP loses a
\* network buffer or frees one twice: each is free, with a process, or in exactly
\* one queue.  The faults are a full ICMP queue, whose oldest packet is then
\* overwritten and lost (icmp.c:86), and reading an empty place of a queue.
BuffersConserved ==
    fault = "none" =>
       available(pool) + Queued + Len(iqueue) + NetinHolds + Cardinality(Holding) = nbufs

\* A receiver that is told of a packet finds one, although its timeout, the
\* packet and the release of slots may come in any order.
ReceiverFindsPacket == fault # "udp"

\* A process that waits in udp_recv() and has neither message nor timeout is
\* the one udp_in() will tell, and no packet is there.
ReceiverRegistered ==
    fault = "none" =>
       \A p \in Procs :
          doing[p].at = "recv" /\ doing[p].tab = "udp" /\ ~Woken(p) =>
             LET e == udptab[doing[p].slot] IN e.state = "RECV" /\ e.pid = p /\ e.count = 0

\* udp_in() and udp_recv() do not miss each other: who waits will be told, and
\* who was told finds the packet.
ReceiverServed == ReceiverFindsPacket /\ ReceiverRegistered

\* When a process in arp_resolve() is told that the address is there, it is: as
\* long as the entry is its own, arp_resolve() returns the address of the host
\* it was asked for, over lost, late and repeated answers.  An entry that has
\* been given to another host before the process runs is excepted: what is
\* returned then (arp.c:148) may be the address of that other host.
NeverUnresolved ==
    [][ \A p \in Callers :
           LET d == doing[p]
               e == arpcache[d.slot]
           IN  (d.at = "arp" /\ doing'[p].at # "arp" /\ prmsg[p] # NONE)
                  => (e.pid = p /\ e.addr = d.dest => e.haddr = d.dest) ]_netVars

\* For every pending entry a process waits in arp_resolve(), which will have
\* it resolved or freed: otherwise the host could never be reached again.
PendingAwaited ==
    fault = "none" =>
       \A s \in Entries("PENDING") :
          LET d == doing[arpcache[s].pid] IN d.at = "arp" /\ d.slot = s

\* netin comes back to its read(), unless packets nobody has received hold
\* all the buffers but its own.
NetinGoesOn ==
    netin.at # "read" ~> \/ netin.at = "read" \/ fault # "none"
                         \/ Queued + NetinHolds = nbufs
=============================================================================
