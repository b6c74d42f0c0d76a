------------------------------- MODULE ProcMgr -------------------------------
(***************************************************************************)
(* Process management: create.c, kill.c (with exit.c, userret.c and        *)
(* xdone.c, which call it or are called by it), resume.c, suspend.c,       *)
(* yield.c and chprio.c.  All stacks have one size and the blocks of the   *)
(* heap that hold them are numbered by address.  close() of the console    *)
(* descriptors changes nothing.                                            *)
(***************************************************************************)
EXTENDS Message

\* The value newpid() returns: the first free entry at or after nextpid, in
\* cyclic order; -1 (SYSERR) when the table is full.
newpid ==
    IF \A p \in Pids : prstate[p] # "FREE"
    THEN -1
    ELSE LET d == CHOOSE i \in 0 .. NPROC - 1 :
                     /\ prstate[wrap(nextpid + i, NPROC)] = "FREE"
                     /\ \A j \in 0 .. i - 1 : prstate[wrap(nextpid + j, NPROC)] # "FREE"
         IN  wrap(nextpid + d, NPROC)

\* getstk() takes the free block that lies highest in memory.
getstk == Max(stkfree)

create(prio) ==
    LET p == newpid IN
    /\ Caller
    /\ p # -1
    /\ prio >= 1
    /\ stkfree # {}
    /\ stkfree' = stkfree \ {getstk}
    /\ prstkbase' = [prstkbase EXCEPT ![p] = getstk]
    /\ nextpid' = wrap(p + 1, NPROC)
    /\ prcount' = prcount + 1
    /\ prstate' = [prstate EXCEPT ![p] = "SUSP"]
    /\ prprio' = [prprio EXCEPT ![p] = prio]
    /\ prsem' = [prsem EXCEPT ![p] = NOSEM]
    /\ prparent' = [prparent EXCEPT ![p] = currpid]
    /\ prhasmsg' = [prhasmsg EXCEPT ![p] = FALSE]
    /\ frame' = [frame EXCEPT ![p] = UserFrame]
    /\ UNCHANGED <<readylist, qkey, currpid, preempt, attempt, halted, prmsg,
                   sstate, scount, squeue, nextsem, clkVars, ndefers>>

\* create() that fails after getstk() has succeeded: the table is full, or the
\* priority is bad and newpid() has moved on.  The stack is not returned.
createFails(prio) ==
    /\ Caller
    /\ newpid = -1 \/ prio < 1
    /\ stkfree # {}
    /\ stkfree' = stkfree \ {getstk}
    /\ nextpid' = IF newpid = -1 THEN nextpid ELSE wrap(newpid + 1, NPROC)
    /\ UNCHANGED <<prprio, prparent, prstkbase, prcount, halted, schedVars,
                   msgVars, semVars, clkVars, ndefers, frame>>

\* The test of --prcount: only the null process is left.
lastProcess(count) == count <= 1

\* Mutant: kill() does not look whether the table entry is in use.
killableFree(p) == p \in Pids /\ p # NULLPROC

\* The processes kill() does not refuse.
killable(p) == ~isbadpid(p) /\ p # NULLPROC

\* kill(p), through send(prparent, p), which may reschedule.  exit() and
\* userret() are kill(currpid).  When the count says that no user process is
\* left, xdone() halts the processor.
kill(p) ==
    /\ Caller
    /\ killable(p)
    /\ prcount' = prcount - 1
    /\ \/ /\ lastProcess(prcount')
          /\ halted' = TRUE
          /\ UNCHANGED <<frame, msgVars, sleepq, schedVars>>
       \/ /\ ~lastProcess(prcount')
          /\ frame' = [frame EXCEPT ![currpid] = Frame("kill", p, 0)]
          /\ sendTo(prparent[p], p)
          /\ UNCHANGED halted
    /\ UNCHANGED <<prprio, prparent, prstkbase, stkfree, nextpid, left, semVars, ndefers>>

\* Mutant: a killed waiter stays in the count.
killedCountKept(s) == scount[s]

\* freestk(prstkbase, prstklen), and the count of the semaphore p waits on.
killedStack(p) == {prstkbase[p]} \cap Stacks
killedCount(s) == scount[s] + 1

\* kill(), after send(): free the stack, leave whatever queue the state says
\* the victim is on, free the table entry.  freemem() refuses a block that is
\* free already.
killEnd ==
    LET p  == frame[currpid].tgt
        st == [prstate EXCEPT ![p] = "FREE"]
        s  == prsem[p]
    IN
    /\ Inside("kill")
    /\ stkfree' = stkfree \cup killedStack(p)
    /\ frame' = [frame EXCEPT ![currpid] = UserFrame]
    /\ \/ /\ prstate[p] = "CURR"
          /\ resched(ndefers, st, readylist, qkey, preempt)
          /\ UNCHANGED <<sleepq, scount, squeue>>
       \/ /\ prstate[p] \in {"SLEEP", "RECTIM"}
          /\ sleepq' = getitem(sleepq, p)
          /\ qkey' = unsleepKeys(p, sleepq, qkey)
          /\ prstate' = st
          /\ UNCHANGED <<readylist, currpid, preempt, attempt, scount, squeue>>
       \/ /\ prstate[p] = "WAIT"
          /\ scount' = [scount EXCEPT ![s] = killedCount(s)]
          /\ squeue' = [squeue EXCEPT ![s] = getitem(@, p)]
          /\ prstate' = st
          /\ UNCHANGED <<readylist, qkey, currpid, preempt, attempt, sleepq>>
       \/ /\ prstate[p] = "READY"
          /\ readylist' = getitem(readylist, p)
          /\ prstate' = st
          /\ UNCHANGED <<qkey, currpid, preempt, attempt, sleepq, scount, squeue>>
       \/ /\ prstate[p] \in {"RECV", "SUSP", "FREE"}
          /\ prstate' = st
          /\ UNCHANGED <<readylist, qkey, currpid, preempt, attempt, sleepq, scount, squeue>>
    /\ UNCHANGED <<prprio, prparent, prstkbase, prcount, nextpid, halted, msgVars,
                   prsem, sstate, nextsem, left, ndefers>>

\* Mutants: resume() of any live process; of one waiting for a message.
resumableAny(p) == ~isbadpid(p)
resumableRecv(p) == prstate[p] \in {"SUSP", "RECV"}

resumable(p) == prstate[p] = "SUSP"

resume(p) ==
    /\ Caller
    /\ resumable(p)
    /\ ready(p, ndefers, prstate, qkey)
    /\ UNCHANGED <<tabVars, msgVars, semVars, clkVars, ndefers, frame>>

\* Mutant: the null process can be suspended too.
suspendableNull(p) == prstate[p] \in {"CURR", "READY"}

suspendable(p) == p # NULLPROC /\ prstate[p] \in {"CURR", "READY"}

\* Only a current or ready process can be suspended.
suspend(p) ==
    LET st == [prstate EXCEPT ![p] = "SUSP"] IN
    /\ Caller
    /\ suspendable(p)
    /\ \/ /\ prstate[p] = "READY"
          /\ readylist' = getitem(readylist, p)
          /\ prstate' = st
          /\ UNCHANGED <<qkey, currpid, preempt, attempt>>
       \/ /\ prstate[p] = "CURR"
          /\ resched(ndefers, st, readylist, qkey, preempt)
    /\ UNCHANGED <<tabVars, msgVars, semVars, clkVars, ndefers, frame>>

yield ==
    /\ Caller
    /\ resched(ndefers, prstate, readylist, qkey, preempt)
    /\ UNCHANGED <<tabVars, msgVars, semVars, clkVars, ndefers, frame>>

\* The new priority is stored; neither the ready list nor the CPU is touched.
chprio(p, newprio) ==
    /\ Caller
    /\ ~isbadpid(p)
    /\ prprio' = [prprio EXCEPT ![p] = newprio]
    /\ UNCHANGED <<prparent, prstkbase, stkfree, prcount, nextpid, halted,
                   schedVars, msgVars, semVars, clkVars, ndefers, frame>>

\* halt(): the processor loops for ever.
halt == halted /\ UNCHANGED vars
=============================================================================
