---------------------------------- MODULE Arp ---------------------------------
(***************************************************************************)
(* net/arp.c: the cache of hardware addresses.  Hosts tell the truth, so   *)
(* that the hardware address of host h is h itself.                        *)
(***************************************************************************)
EXTENDS NetState

Entries(state) == {s \in DOMAIN arpcache : arpcache[s].state = state}
Known(h) == {s \in DOMAIN arpcache : arpcache[s].state # "FREE" /\ arpcache[s].addr = h}

\* arp_alloc(): a free entry, or else a resolved one; 0 if all are pending.
arp_alloc ==
    IF Entries("FREE") # {} THEN First(Entries("FREE")) ELSE First(Entries("RESOLVED"))

\* The caller of arp_resolve() goes on: ip_out() sends the packet, or there
\* was an error; in both cases the buffer is freed.
resolved(p) ==
    /\ does(p, IF p = IPOUT THEN [at |-> "wait"] ELSE USER)
    /\ freebuf(1)

\* arp_resolve() by p, which has a packet for h: the address is known, or it
\* is pending for another process or there is no entry, which are errors; or
\* p sends a request and waits.
arp_resolve(p, h) ==
    LET s == First(Known(h)) IN
    /\ \/ /\ s # 0 \/ arp_alloc = 0
          /\ resolved(p)
          /\ UNCHANGED <<arpcache, prmsg, expired>>
       \/ /\ s = 0 /\ arp_alloc # 0
          /\ arpcache' = [arpcache EXCEPT ![arp_alloc] =
                             [state |-> "PENDING", addr |-> h, haddr |-> NONE, pid |-> p]]
          /\ recvclr(p)
          /\ does(p, [at |-> "arp", dest |-> h, slot |-> arp_alloc, tries |-> 1])
          /\ UNCHANGED <<pool>>
    /\ UNCHANGED <<udptab, icmptab, session, fault>>

\* Mutant: the entry of a host that does not answer is kept.
unanswered(e) == e

\* "Invalidate cache entry"
invalidated(e) == [e EXCEPT !.state = "FREE"]

\* recvtime() has returned: any message ends the loop, a timeout sends the
\* request again.
arpEnd(p) ==
    LET d == doing[p] IN
    /\ Stands(p, "arp") /\ Woken(p)
    /\ \/ /\ prmsg[p] # NONE
          /\ resolved(p)
          /\ UNCHANGED arpcache
       \/ /\ prmsg[p] = NONE /\ d.tries < ARP_RETRY
          /\ does(p, [d EXCEPT !.tries = @ + 1])
          /\ UNCHANGED <<pool, arpcache>>
       \/ /\ prmsg[p] = NONE /\ d.tries = ARP_RETRY
          /\ arpcache' = [arpcache EXCEPT ![d.slot] = invalidated(@)]
          /\ resolved(p)
    /\ recvclr(p)
    /\ UNCHANGED <<udptab, icmptab, iqueue, netin, session, fault>>

\* Mutant: an entry that is pending keeps the address it has.
learntOld(e, h) ==
    [e EXCEPT !.haddr = IF e.state = "PENDING" THEN @ ELSE h, !.state = "RESOLVED"]

learnt(e, h) == [e EXCEPT !.haddr = h, !.state = "RESOLVED"]

\* arp_in() of a packet from h; ours: it is a request for our address.
arp_in(h, ours) ==
    LET s == First(Known(h)) IN
    /\ \/ /\ s # 0
          /\ arpcache' = [arpcache EXCEPT ![s] = learnt(@, h)]
          /\ send(IF arpcache[s].state = "PENDING" THEN arpcache[s].pid ELSE NONE, "OK")
       \/ /\ s = 0 /\ ours /\ arp_alloc # 0
          /\ arpcache' = [arpcache EXCEPT ![arp_alloc] =
                             [state |-> "RESOLVED", addr |-> h, haddr |-> h, pid |-> NONE]]
          /\ UNCHANGED prmsg
       \/ /\ s = 0 /\ (~ours \/ arp_alloc = 0)
          /\ UNCHANGED <<arpcache, prmsg>>
    /\ freebuf(1)
    /\ UNCHANGED <<udptab, icmptab, session, fault>>
=============================================================================
