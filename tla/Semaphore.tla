------------------------------ MODULE Semaphore ------------------------------
(***************************************************************************)
(* Counting semaphores: wait.c, signal.c, signaln.c, semcreate.c,          *)
(* semdelete.c and semreset.c.  A call that returns SYSERR changes nothing *)
(* and is not an action.                                                   *)
(***************************************************************************)
EXTENDS KernelState

\* The value newsem() returns: the first free entry at or after nextsem, in
\* cyclic order; -1 (SYSERR) when the table is full.
newsem ==
    IF \A s \in Sids : sstate[s] # "FREE"
    THEN -1
    ELSE LET d == CHOOSE i \in 0 .. NSEM - 1 :
                     /\ sstate[wrap(nextsem + i, NSEM)] = "FREE"
                     /\ \A j \in 0 .. i - 1 : sstate[wrap(nextsem + j, NSEM)] # "FREE"
         IN  wrap(nextsem + d, NSEM)

semcreate(count) ==
    /\ Caller
    /\ count >= 0
    /\ newsem # -1
    /\ sstate' = [sstate EXCEPT ![newsem] = "USED"]
    /\ scount' = [scount EXCEPT ![newsem] = count]
    /\ nextsem' = wrap(newsem + 1, NSEM)
    /\ UNCHANGED <<prsem, squeue, schedVars, tabVars, msgVars, clkVars, ndefers, frame>>

\* --scount < 0 puts the caller at the end of the semaphore's queue.
wait(s) ==
    /\ Caller
    /\ sstate[s] = "USED"
    /\ scount' = [scount EXCEPT ![s] = @ - 1]
    /\ \/ /\ scount[s] > 0
          /\ UNCHANGED <<prsem, squeue, schedVars>>
       \/ /\ scount[s] <= 0
          /\ prsem' = [prsem EXCEPT ![currpid] = s]
          /\ squeue' = [squeue EXCEPT ![s] = enqueue(@, currpid)]
          /\ resched(ndefers, [prstate EXCEPT ![currpid] = "WAIT"], readylist, qkey, preempt)
    /\ UNCHANGED <<sstate, nextsem, tabVars, msgVars, clkVars, ndefers, frame>>

\* ready(dequeue(squeue)); ready() ignores the EMPTY of an empty queue.
readyFirst(s) ==
    IF squeue[s] = <<>>
    THEN UNCHANGED <<squeue, schedVars>>
    ELSE /\ squeue' = [squeue EXCEPT ![s] = Tail(@)]
         /\ ready(Head(squeue[s]), ndefers, prstate, qkey)

\* if (scount++ < 0) ready(dequeue(squeue)): one signal.
signalOnce(s) ==
    /\ scount' = [scount EXCEPT ![s] = @ + 1]
    /\ IF scount[s] < 0 THEN readyFirst(s) ELSE UNCHANGED <<squeue, schedVars>>

signal(s) ==
    /\ Caller
    /\ sstate[s] = "USED"
    /\ scount[s] < MaxCount
    /\ signalOnce(s)
    /\ UNCHANGED <<prsem, sstate, nextsem, tabVars, msgVars, clkVars, ndefers, frame>>

\* signaln(s, count), to the start of its loop.
signaln(s, count) ==
    /\ Caller
    /\ sstate[s] = "USED"
    /\ count >= 0
    /\ scount[s] + count <= MaxCount
    /\ deferStart
    /\ frame' = [frame EXCEPT ![currpid] = Frame("signaln", s, count)]
    /\ UNCHANGED <<prstate, readylist, qkey, currpid, preempt,
                   semVars, tabVars, msgVars, clkVars>>

signalnLoop ==
    LET f == frame[currpid] IN
    /\ Inside("signaln")
    /\ f.cnt > 0
    /\ signalOnce(f.tgt)
    /\ frame' = [frame EXCEPT ![currpid].cnt = @ - 1]
    /\ UNCHANGED <<prsem, sstate, nextsem, tabVars, msgVars, clkVars, ndefers>>

signalnEnd ==
    /\ Inside("signaln")
    /\ frame[currpid].cnt = 0
    /\ deferStop
    /\ frame' = [frame EXCEPT ![currpid] = UserFrame]
    /\ UNCHANGED <<semVars, tabVars, msgVars, clkVars>>

\* semdelete(s), to the start of its loop: the entry is free at once.
semdelete(s) ==
    /\ Caller
    /\ sstate[s] = "USED"
    /\ sstate' = [sstate EXCEPT ![s] = "FREE"]
    /\ deferStart
    /\ frame' = [frame EXCEPT ![currpid] = Frame("semdelete", s, 0)]
    /\ UNCHANGED <<prstate, readylist, qkey, currpid, preempt, prsem, scount, squeue,
                   nextsem, tabVars, msgVars, clkVars>>

\* while (scount++ < 0) ready(getfirst(squeue)): the test that ends the loop
\* increments the count too.
semdeleteLoop ==
    LET s == frame[currpid].tgt IN
    /\ Inside("semdelete")
    /\ scount' = [scount EXCEPT ![s] = @ + 1]
    /\ \/ /\ scount[s] < 0
          /\ readyFirst(s)
          /\ UNCHANGED <<ndefers, frame>>
       \/ /\ scount[s] >= 0
          /\ deferStop
          /\ frame' = [frame EXCEPT ![currpid] = UserFrame]
          /\ UNCHANGED squeue
    /\ UNCHANGED <<prsem, sstate, nextsem, tabVars, msgVars, clkVars>>

semreset(s, count) ==
    /\ Caller
    /\ count >= 0
    /\ sstate[s] = "USED"
    /\ deferStart
    /\ frame' = [frame EXCEPT ![currpid] = Frame("semreset", s, count)]
    /\ UNCHANGED <<prstate, readylist, qkey, currpid, preempt,
                   semVars, tabVars, msgVars, clkVars>>

semresetLoop ==
    LET f == frame[currpid] IN
    /\ Inside("semreset")
    /\ \/ /\ squeue[f.tgt] # <<>>
          /\ readyFirst(f.tgt)
          /\ UNCHANGED <<scount, ndefers, frame>>
       \/ /\ squeue[f.tgt] = <<>>
          /\ scount' = [scount EXCEPT ![f.tgt] = f.cnt]
          /\ deferStop
          /\ frame' = [frame EXCEPT ![currpid] = UserFrame]
          /\ UNCHANGED squeue
    /\ UNCHANGED <<prsem, sstate, nextsem, tabVars, msgVars, clkVars>>
=============================================================================
