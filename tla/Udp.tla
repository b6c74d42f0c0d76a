---------------------------------- MODULE Udp ---------------------------------
(***************************************************************************)
(* net/udp.c: the table of registered ports and the packets queued for     *)
(* them.  All packets have the same ports; slots differ by the remote      *)
(* address, which may be left open.                                        *)
(***************************************************************************)
EXTENDS NetState

\* A slot is used by the process that registered it, as in every program of
\* the repository.
CONSTANT SharedSlots    \* whether other processes may use it too

Uses(p, e) == SharedSlots \/ e.owner = p

\* Slots that udp_in() gives a packet from h to.
matching(h) ==
    {s \in DOMAIN udptab : /\ udptab[s].state # "FREE"
                           /\ udptab[s].remip \in {ANY, h}
                           /\ udptab[s].count < UDP_QSIZ}

\* Mutant: the slot is made USED before it is asked whether somebody waits.
waiterAfter(e) == NONE

\* The process udp_in() tells of a packet.
waiter(e) == IF e.state = "RECV" THEN e.pid ELSE NONE

\* udp_in() of a packet from h: the first slot that matches and has room
\* takes it, or its buffer is freed.
udp_in(h) ==
    LET s == First(matching(h)) IN
    /\ \/ /\ s # 0
          /\ udptab' = [udptab EXCEPT ![s].count = @ + 1, ![s].state = "USED"]
          /\ send(waiter(udptab[s]), "OK")
          /\ UNCHANGED pool
       \/ /\ s = 0
          /\ freebuf(1)
          /\ UNCHANGED <<udptab, prmsg>>
    /\ UNCHANGED <<icmptab, session>>

udp_register(p, remip) ==
    LET free == First({s \in DOMAIN udptab : udptab[s].state = "FREE"}) IN
    /\ Stands(p, "user")
    /\ \A s \in DOMAIN udptab : udptab[s].state # "FREE" => udptab[s].remip # remip
    /\ free # 0
    /\ udptab' = [udptab EXCEPT ![free] =
                     [state |-> "USED", remip |-> remip, count |-> 0, pid |-> NONE, owner |-> p]]
    /\ UNCHANGED <<pool, icmptab, arpcache, iqueue, doing, prmsg, expired, netin, session, fault>>

\* A packet is taken from slot s.  The count is not looked at again after a
\* wait.
udpTake(s) ==
    /\ udptab' = [udptab EXCEPT ![s].count = @ - 1, ![s].state = "USED"]
    /\ freebuf(1)
    /\ fault' = IF udptab[s].count = 0 THEN "udp" ELSE fault

\* udp_recv() and udp_recvaddr()
udp_recv(p, s) ==
    /\ Stands(p, "user")
    /\ udptab[s].state = "USED" /\ Uses(p, udptab[s])
    /\ \/ /\ udptab[s].count > 0
          /\ udpTake(s)
          /\ UNCHANGED <<doing, prmsg, expired>>
       \/ /\ udptab[s].count = 0
          /\ udptab' = [udptab EXCEPT ![s].state = "RECV", ![s].pid = p]
          /\ recvclr(p)
          /\ does(p, [at |-> "recv", tab |-> "udp", slot |-> s])
          /\ UNCHANGED <<pool, fault>>
    /\ UNCHANGED <<icmptab, arpcache, iqueue, netin, session>>

packetCame(p) == prmsg[p] = "OK"

\* The wait is over.  Without looking at it the slot is made USED.
udp_recvEnd(p) ==
    /\ Stands(p, "recv") /\ doing[p].tab = "udp"
    /\ Woken(p)
    /\ LET s == doing[p].slot IN
          \/ packetCame(p) /\ udpTake(s)
          \/ /\ ~packetCame(p)
             /\ udptab' = [udptab EXCEPT ![s].state = "USED"]
             /\ UNCHANGED <<pool, fault>>
    /\ recvclr(p)
    /\ does(p, USER)
    /\ UNCHANGED <<icmptab, arpcache, iqueue, netin, session>>

\* Mutant: the packets in the queue are forgotten.
releasedNone(e) == 0

\* Buffers that udp_release() frees.
released(e) == e.count

\* udp_release() asks only that the slot is in use; nobody is told.
udp_release(p, s) ==
    /\ Stands(p, "user")
    /\ udptab[s].state # "FREE" /\ Uses(p, udptab[s])
    /\ freebuf(released(udptab[s]))
    /\ udptab' = [udptab EXCEPT ![s].count = 0, ![s].state = "FREE"]
    /\ UNCHANGED <<icmptab, arpcache, iqueue, doing, prmsg, expired, netin, session, fault>>

\* udp_send() and udp_sendto(), up to the buffer.
udp_send(p, s, h) ==
    /\ Stands(p, "user")
    /\ udptab[s].state # "FREE" /\ Uses(p, udptab[s])
    /\ udptab[s].remip \in {ANY, h}
    /\ pool' = waitbuf(p)
    /\ does(p, [at |-> "getbuf", proto |-> "udp", dest |-> h])
    /\ UNCHANGED <<udptab, icmptab, arpcache, iqueue, prmsg, expired, netin, session, fault>>
=============================================================================
