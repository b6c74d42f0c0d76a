--------------------------------- MODULE Icmp ---------------------------------
(***************************************************************************)
(* net/icmp.c: echo requests are answered by netin, echo replies are       *)
(* queued for the process that registered for them.  A queue is a circular *)
(* array of ICMP_QSIZ places.  Nothing stops a reply when it is full, and  *)
(* the head goes back to 0 at ICMP_SLOTS: a place that is overwritten or   *)
(* outside the array ends the model (fault).                               *)
(***************************************************************************)
EXTENDS NetState

\* icmp_in() of an echo reply from h for slot s.
echoReply(h, s) ==
    LET e == icmptab[s] IN
    /\ \/ /\ e.state = "FREE" \/ e.remip # h
          /\ freebuf(1)
          /\ UNCHANGED <<icmptab, prmsg, fault>>
       \/ /\ e.state # "FREE" /\ e.remip = h
          /\ icmptab' = [icmptab EXCEPT ![s].count = @ + 1, ![s].state = "USED"]
          /\ send(IF e.state = "RECV" THEN e.pid ELSE NONE, "OK")
          /\ fault' = IF e.count = ICMP_QSIZ THEN "icmp" ELSE fault
          /\ UNCHANGED pool
    /\ UNCHANGED <<udptab, session>>

icmp_register(p, h) ==
    LET free == First({s \in DOMAIN icmptab : icmptab[s].state = "FREE"}) IN
    /\ Stands(p, "user")
    /\ \A s \in DOMAIN icmptab : icmptab[s].state # "FREE" => icmptab[s].remip # h
    /\ free # 0
    /\ icmptab' = [icmptab EXCEPT ![free] =
                      [state |-> "USED", remip |-> h, count |-> 0, head |-> 0, pid |-> NONE,
                       owner |-> p]]
    /\ UNCHANGED <<pool, udptab, arpcache, iqueue, doing, prmsg, expired, netin, session, fault>>

\* The head after n packets are taken: it wraps at the wrong constant.
headAfter(e, n) == (e.head + n) % ICMP_SLOTS

icmpTake(s) ==
    LET e == icmptab[s] IN
    /\ icmptab' = [icmptab EXCEPT ![s].count = @ - 1, ![s].state = "USED",
                                  ![s].head = headAfter(e, 1)]
    /\ freebuf(1)
    /\ fault' = IF e.count = 0 \/ e.head >= ICMP_QSIZ THEN "icmp" ELSE fault

icmp_recv(p, s) ==
    /\ Stands(p, "user")
    /\ icmptab[s].state = "USED" /\ icmptab[s].owner = p
    /\ \/ /\ icmptab[s].count > 0
          /\ icmpTake(s)
          /\ UNCHANGED <<doing, prmsg, expired>>
       \/ /\ icmptab[s].count = 0
          /\ icmptab' = [icmptab EXCEPT ![s].state = "RECV", ![s].pid = p]
          /\ recvclr(p)
          /\ does(p, [at |-> "recv", tab |-> "icmp", slot |-> s])
          /\ UNCHANGED <<pool, fault>>
    /\ UNCHANGED <<udptab, arpcache, iqueue, netin, session>>

icmp_recvEnd(p) ==
    /\ Stands(p, "recv") /\ doing[p].tab = "icmp"
    /\ Woken(p)
    /\ LET s == doing[p].slot IN
          \/ prmsg[p] = "OK" /\ icmpTake(s)
          \/ /\ prmsg[p] # "OK"
             /\ icmptab' = [icmptab EXCEPT ![s].state = "USED"]
             /\ UNCHANGED <<pool, fault>>
    /\ recvclr(p)
    /\ does(p, USER)
    /\ UNCHANGED <<udptab, arpcache, iqueue, netin, session>>

\* icmp_release() refuses a slot somebody waits on.
icmp_release(p, s) ==
    LET e == icmptab[s] IN
    /\ Stands(p, "user")
    /\ e.state = "USED" /\ e.owner = p
    /\ freebuf(e.count)
    /\ icmptab' = [icmptab EXCEPT ![s].count = 0, ![s].state = "FREE"]
    /\ fault' = IF \E k \in 0 .. e.count - 1 : headAfter(e, k) >= ICMP_QSIZ
                THEN "icmp" ELSE fault
    /\ UNCHANGED <<udptab, arpcache, iqueue, doing, prmsg, expired, netin, session>>

\* icmp_send(), up to the buffer of icmp_mkpkt().
icmp_send(p, h) ==
    /\ Stands(p, "user")
    /\ pool' = waitbuf(p)
    /\ does(p, [at |-> "getbuf", proto |-> "icmp", dest |-> h])
    /\ UNCHANGED <<udptab, icmptab, arpcache, iqueue, prmsg, expired, netin, session, fault>>
=============================================================================
