----------------------------- MODULE KernelState -----------------------------
(***************************************************************************)
(* The state every part of the Xinu kernel shares, and the code that every *)
(* system call ends in: the queue operations of queue.c, getitem.c and     *)
(* insert.c, resched() and resched_cntl() (resched.c) and ready()          *)
(* (ready.c).                                                              *)
(*                                                                         *)
(* One CPU.  A system call runs with interrupts disabled, so what it does  *)
(* between two calls of resched() is one step.  resched() may switch to    *)
(* another process in the middle of a call; frame[p] records what process  *)
(* p still has to do when it is switched back in, which in C is held by    *)
(* the saved stack of p.  Loops that run while rescheduling is deferred    *)
(* take one step per iteration.                                            *)
(*                                                                         *)
(* A queue is the sequence of the process IDs linked between its head and  *)
(* its tail; qkey[p] is queuetab[p].qkey, which only the ready list and    *)
(* the sleep queue use.                                                    *)
(***************************************************************************)
EXTENDS Integers, Sequences, FiniteSets, SequencesExt

CONSTANTS
    NPROC,      \* size of the process table, the null process included
    NSEM,       \* size of the semaphore table
    NSTK,       \* number of process stacks the heap has room for
    QUANTUM,    \* clock ticks in a time slice
    HALF,       \* an int32 ranges over -HALF .. HALF - 1
    INITPRIO,   \* priority of the main process
    MaxCount    \* bound on semaphore counts

ASSUME ConstantsAssumption ==
    /\ NPROC \in Nat /\ NPROC > 1
    /\ NSEM \in Nat /\ NSEM > 0
    /\ NSTK \in Nat /\ NSTK > 0
    /\ QUANTUM \in Nat /\ QUANTUM > 0
    /\ HALF \in Nat /\ HALF > 0
    /\ INITPRIO \in Nat /\ INITPRIO > 0 /\ INITPRIO < HALF
    /\ MaxCount \in Nat

NULLPROC == 0
Pids     == 0 .. NPROC - 1
Sids     == 0 .. NSEM - 1
Stacks   == 1 .. NSTK
NOSTACK  == 0
NOSEM    == -1
MINKEY   == -HALF

\* PR_FREE, PR_CURR, ... of process.h
PrStates == {"FREE", "CURR", "READY", "RECV", "SLEEP", "SUSP", "WAIT", "RECTIM"}

\* Where a process stands when it next gets the CPU: in user code ("user") or
\* inside the named kernel function; tgt and cnt are that function's locals.
Ops == {"user", "receive", "recvtime", "kill", "clk", "wakeup",
        "signaln", "semdelete", "semreset"}
Frame(op, tgt, cnt) == [op |-> op, tgt |-> tgt, cnt |-> cnt]
UserFrame == Frame("user", 0, 0)

VARIABLES
    prstate, prprio, prsem, prparent, prmsg, prhasmsg, prstkbase, \* proctab
    qkey,                       \* queuetab[pid].qkey
    readylist, sleepq,          \* the two global queues
    sstate, scount, squeue,     \* semtab
    currpid, prcount, preempt,  \* kernel globals
    ndefers, attempt,           \* Defer
    nextpid, nextsem,           \* statics of newpid() and newsem()
    stkfree,                    \* stacks that are on the free memory list
    frame,                      \* what each process is in the middle of
    left,                       \* history: ticks each sleeper still asked for
    halted                      \* xdone() has halted the processor

schedVars == <<prstate, readylist, qkey, currpid, preempt, attempt>>
tabVars   == <<prprio, prparent, prstkbase, stkfree, prcount, nextpid, halted>>
msgVars   == <<prmsg, prhasmsg>>
semVars   == <<prsem, sstate, scount, squeue, nextsem>>
clkVars   == <<sleepq, left>>
vars == <<schedVars, tabVars, msgVars, semVars, clkVars, ndefers, frame>>

-----------------------------------------------------------------------------
(* Integers and process IDs.                                               *)

\* The value a 32-bit signed variable holds after x is stored in it.
int32(x) == ((x + HALF) % (2 * HALF)) - HALF

\* The index i of a table of n entries that is searched in a circle, i < 2n.
wrap(i, n) == IF i < n THEN i ELSE i - n

isbadpid(p) == p \notin Pids \/ prstate[p] = "FREE"

-----------------------------------------------------------------------------
(* Queues.                                                                 *)

\* No process is twice on q; p is on q.
Distinct(q) == \A i, j \in 1 .. Len(q) : q[i] = q[j] => i = j

On(p, q) == \E i \in 1 .. Len(q) : q[i] = p

\* firstkey(q): the key of the first process; of the tail when q is empty.
firstkey(q, k) == IF q = <<>> THEN MINKEY ELSE k[Head(q)]

\* Mutant: insert() as enqueue().
insertPosTail(q, k, key) == Len(q) + 1

\* The place insert() stops at: before the first smaller key, after equals.
insertPos(q, k, key) ==
    CHOOSE i \in 1 .. Len(q) + 1 :
        /\ i = Len(q) + 1 \/ k[q[i]] < key
        /\ \A j \in 1 .. i - 1 : ~(k[q[j]] < key)

insert(p, q, k, key) == InsertAt(q, insertPos(q, k, key), p)

\* Unlink p from the queue q that it is on.
getitem(q, p) == RemoveAt(q, CHOOSE i \in 1 .. Len(q) : q[i] = p)

\* Mutant: the new process goes to the head of the queue.
enqueueFirst(q, p) == <<p>> \o q

enqueue(q, p) == Append(q, p)

-----------------------------------------------------------------------------
(* Rescheduling.  The arguments are the values at the time of the call:    *)
(* nd of Defer.ndefers, st of the process states, rl of the ready list,    *)
(* k of the queue keys and pre of preempt.                                 *)

\* The end of resched(): give the CPU to the head of the ready list.
switch(st, rl, k) ==
    /\ currpid' = Head(rl)
    /\ readylist' = Tail(rl)
    /\ prstate' = [st EXCEPT ![Head(rl)] = "CURR"]
    /\ qkey' = k
    /\ preempt' = QUANTUM
    /\ UNCHANGED attempt

stay(st, rl, k, pre) ==
    /\ prstate' = st
    /\ readylist' = rl
    /\ qkey' = k
    /\ preempt' = pre
    /\ UNCHANGED currpid

resched(nd, st, rl, k, pre) ==
    \/ /\ nd > 0
       /\ attempt' = TRUE
       /\ stay(st, rl, k, pre)
    \/ /\ nd = 0
       /\ st[currpid] = "CURR"
       /\ prprio[currpid] > firstkey(rl, k)
       /\ stay(st, rl, k, pre)
       /\ UNCHANGED attempt
    \/ /\ nd = 0
       /\ st[currpid] = "CURR"
       /\ prprio[currpid] <= firstkey(rl, k)
       /\ switch([st EXCEPT ![currpid] = "READY"],
                 insert(currpid, rl, k, prprio[currpid]),
                 [k EXCEPT ![currpid] = prprio[currpid]])
    \/ /\ nd = 0
       /\ st[currpid] # "CURR"
       /\ switch(st, rl, k)

\* ready(p): p joins the ready list, then resched().
ready(p, nd, st, k) ==
    resched(nd, [st EXCEPT ![p] = "READY"],
            insert(p, readylist, k, prprio[p]),
            [k EXCEPT ![p] = prprio[p]], preempt)

\* resched_cntl(DEFER_START)
deferStart ==
    /\ ndefers' = ndefers + 1
    /\ attempt' = IF ndefers = 0 THEN FALSE ELSE attempt

\* Mutant: the deferral is only undone when there is a resched() to do.
deferStopLeak ==
    IF ndefers = 1 /\ attempt
    THEN /\ ndefers' = ndefers - 1
         /\ resched(0, prstate, readylist, qkey, preempt)
    ELSE UNCHANGED <<ndefers, schedVars>>

\* resched_cntl(DEFER_STOP): the resched() that was held back happens now.
deferStop ==
    /\ ndefers' = ndefers - 1
    /\ IF ndefers = 1 /\ attempt
       THEN resched(0, prstate, readylist, qkey, preempt)
       ELSE UNCHANGED schedVars

\* Interrupts are enabled exactly when the current process is in user code.
UserMode == ~halted /\ frame[currpid].op = "user"

\* A process other than the null process issues a system call.
Caller == UserMode /\ currpid # NULLPROC

\* The current process is about to execute the rest of kernel function op.
Inside(op) == ~halted /\ frame[currpid].op = op
=============================================================================
