------------------------------- MODULE Kernel --------------------------------
(***************************************************************************)
(* The kernel: process management, semaphores, messages and the clock over *)
(* one process table, driven by user processes that may issue any of the   *)
(* system calls in Calls with any of the given arguments, in any order.    *)
(***************************************************************************)
EXTENDS ProcMgr, Semaphore, Clock

CONSTANTS
    Calls,      \* the system calls user processes issue
    KillAgain,  \* whether overlapping calls of kill() may meet (MayKill)
    Prios,      \* priorities given to create()
    NewPrios,   \* priorities given to chprio()
    Msgs,       \* messages given to send()
    Counts,     \* counts given to semcreate(), signaln() and semreset()
    Delays,     \* delays given to sleepms()
    RecvWaits   \* waits given to recvtime()

ASSUME WorkloadAssumption ==
    /\ \A x \in Prios \cup NewPrios : x \in Int /\ -HALF < x /\ x < HALF
    /\ Msgs \subseteq Pids
    /\ Counts \subseteq Int
    /\ Delays \subseteq 0 .. 2 * HALF - 1
    /\ KillAgain \in BOOLEAN
    /\ RecvWaits \subseteq -HALF .. HALF - 1

\* sysinit(), then nulluser() up to the first instruction of main(): the null
\* process has created and resumed process 1 and lost the CPU to it.
Init ==
    /\ prstate = [p \in Pids |-> IF p = NULLPROC THEN "READY"
                                 ELSE IF p = 1 THEN "CURR" ELSE "FREE"]
    /\ prprio = [p \in Pids |-> IF p = 1 THEN INITPRIO ELSE 0]
    /\ prsem = [p \in Pids |-> NOSEM]
    /\ prparent = [p \in Pids |-> NULLPROC]
    /\ prmsg = [p \in Pids |-> 0]
    /\ prhasmsg = [p \in Pids |-> FALSE]
    /\ prstkbase = [p \in Pids |-> IF p = 1 THEN NSTK ELSE NOSTACK]
    /\ stkfree = Stacks \ {NSTK}
    /\ qkey = [p \in Pids |-> IF p = 1 THEN INITPRIO ELSE 0]
    /\ readylist = <<NULLPROC>>
    /\ sleepq = <<>>
    /\ sstate = [s \in Sids |-> "FREE"]
    /\ scount = [s \in Sids |-> 0]
    /\ squeue = [s \in Sids |-> <<>>]
    /\ currpid = 1
    /\ prcount = 2
    /\ preempt = QUANTUM
    /\ ndefers = 0
    /\ attempt = FALSE
    /\ nextpid = wrap(2, NPROC)
    /\ nextsem = 0
    /\ frame = [p \in Pids |-> UserFrame]
    /\ left = [p \in Pids |-> 0]
    /\ halted = FALSE

\* The processes in the table, and the victims of the kill() calls under way.
Live == {p \in Pids : prstate[p] # "FREE"}
Dying == {frame[p].tgt : p \in {q \in Live : frame[q].op = "kill"}}

\* Unless KillAgain, calls of kill() overlap only when they do not meet: nobody
\* kills a process that is being killed or is itself inside kill(), and no
\* process that is being killed kills another one.
MayKill(p) ==
    KillAgain \/ (p \notin Dying /\ currpid \notin Dying /\ frame[p].op # "kill")

\* A system call by the current process.
SystemCall ==
    \/ /\ "create" \in Calls
       /\ \E prio \in Prios : create(prio) \/ createFails(prio)
    \/ /\ "kill" \in Calls
       /\ \E p \in Pids : MayKill(p) /\ kill(p)
    \/ /\ "exit" \in Calls
       /\ MayKill(currpid) /\ kill(currpid)
    \/ /\ "suspend" \in Calls
       /\ \E p \in Pids : suspend(p)
    \/ /\ "resume" \in Calls
       /\ \E p \in Pids : resume(p)
    \/ /\ "yield" \in Calls
       /\ yield
    \/ /\ "chprio" \in Calls
       /\ \E p \in Pids, prio \in NewPrios : chprio(p, prio)
    \/ /\ "semcreate" \in Calls
       /\ \E n \in Counts : semcreate(n)
    \/ /\ "wait" \in Calls
       /\ \E s \in Sids : wait(s)
    \/ /\ "signal" \in Calls
       /\ \E s \in Sids : signal(s)
    \/ /\ "signaln" \in Calls
       /\ \E s \in Sids, n \in Counts : signaln(s, n)
    \/ /\ "semdelete" \in Calls
       /\ \E s \in Sids : semdelete(s)
    \/ /\ "semreset" \in Calls
       /\ \E s \in Sids, n \in Counts : semreset(s, n)
    \/ /\ "send" \in Calls
       /\ \E p \in Pids, msg \in Msgs : send(p, msg)
    \/ /\ "receive" \in Calls
       /\ receive
    \/ /\ "recvclr" \in Calls
       /\ recvclr
    \/ /\ "recvtime" \in Calls
       /\ \E t \in RecvWaits : recvtime(t)
    \/ /\ "sleep" \in Calls
       /\ \E t \in Delays : sleepms(t)

\* The rest of a call or of the clock handler, after a resched() or inside a
\* loop with rescheduling deferred.
Continue ==
    \/ receiveEnd
    \/ recvtimeEnd
    \/ killEnd
    \/ signalnLoop
    \/ signalnEnd
    \/ semdeleteLoop
    \/ semresetLoop
    \/ wakeup
    \/ clkPreempt

Next == SystemCall \/ Continue \/ clkhandler \/ halt

Spec == Init /\ [][Next]_vars

\* The processor never stops executing kernel code, and a pending timer
\* interrupt is taken when interrupts are enabled again.
Fairness == WF_vars(Continue) /\ SF_vars(clkhandler)

LiveSpec == Spec /\ Fairness

-----------------------------------------------------------------------------
(* Invariants.                                                             *)

SchedTypeOK ==
    /\ prstate \in [Pids -> PrStates]
    /\ readylist \in Seq(Pids)
    /\ DOMAIN qkey = Pids
    /\ currpid \in Pids
    /\ preempt \in 1 .. QUANTUM
    /\ attempt \in BOOLEAN

TabTypeOK ==
    /\ prprio \in [Pids -> Int]
    /\ prparent \in [Pids -> Pids]
    /\ prstkbase \in [Pids -> Stacks \cup {NOSTACK}]
    /\ stkfree \subseteq Stacks
    /\ prcount \in Int
    /\ nextpid \in Pids
    /\ halted \in BOOLEAN

MsgTypeOK ==
    /\ prmsg \in [Pids -> Pids]
    /\ prhasmsg \in [Pids -> BOOLEAN]

SemTypeOK ==
    /\ prsem \in [Pids -> Sids \cup {NOSEM}]
    /\ sstate \in [Sids -> {"FREE", "USED"}]
    /\ scount \in [Sids -> Int]
    /\ squeue \in [Sids -> Seq(Pids)]
    /\ nextsem \in Sids

ClkTypeOK ==
    /\ sleepq \in Seq(Pids)
    /\ left \in [Pids -> Int]

\* A victim of kill() is never the null process; the loops over a semaphore
\* name one, and the number of signals still to do is not negative.
SemLoops == {"signaln", "semdelete", "semreset"}

FrameTypeOK ==
    /\ frame \in [Pids -> [op : Ops, tgt : Nat, cnt : Int]]
    /\ \A p \in Pids :
          /\ frame[p].op = "kill" => frame[p].tgt \in Pids \ {NULLPROC}
          /\ frame[p].op \in SemLoops => frame[p].tgt \in Sids /\ frame[p].cnt >= 0

\* Every variable has the type the C declarations give it; the time slice
\* counter is never 0 between interrupts.
TypeOK ==
    /\ SchedTypeOK
    /\ TabTypeOK
    /\ MsgTypeOK
    /\ SemTypeOK
    /\ ClkTypeOK
    /\ ndefers \in Nat
    /\ FrameTypeOK

\* The ready processes are on the ready list, once; currpid is current.
ReadyAgree ==
    /\ Distinct(readylist)
    /\ \A p \in Pids :
          /\ On(p, readylist) <=> prstate[p] = "READY"
          /\ prstate[p] = "CURR" <=> p = currpid

\* The sleeping and the timed-receiving processes are on the sleep queue.
SleepAgree ==
    /\ Distinct(sleepq)
    /\ \A p \in Pids : On(p, sleepq) <=> prstate[p] \in {"SLEEP", "RECTIM"}

\* A waiting process is on the queue of the semaphore that prsem names.
SemAgree ==
    /\ \A s \in Sids : Distinct(squeue[s])
    /\ \A p \in Pids, s \in Sids :
          On(p, squeue[s]) <=> prstate[p] = "WAIT" /\ prsem[p] = s
    /\ \A p \in Pids : prstate[p] = "WAIT" => prsem[p] \in Sids

\* A process is on the queue its state names and on no other, once.
\* getitem() in kill(), suspend() and unsleep() unlinks a process from
\* whatever queue its links name and relies on this.
QueueStateAgree == ReadyAgree /\ SleepAgree /\ SemAgree

\* resched() always finds a process to dequeue: the null process is current
\* or ready, whatever the other processes do (nulluser() must never block).
SomethingToRun == prstate[NULLPROC] \in {"CURR", "READY"}

\* Rescheduling is deferred exactly while the current process is inside one
\* of the loops between DEFER_START and DEFER_STOP, so no path leaves ndefers
\* raised, which would freeze scheduling, and no other process is in one.
DeferLoops == {"signaln", "semdelete", "semreset", "wakeup"}

DeferBalanced ==
    /\ ndefers = IF frame[currpid].op \in DeferLoops THEN 1 ELSE 0
    /\ \A p \in Pids \ {currpid} :
          frame[p].op \in DeferLoops => prstate[p] = "FREE"

\* A semaphore's negative count is the number of processes on its queue, and
\* only a negative count has a queue; semreset() restores this when it stores
\* the new count.  A free entry has no queue once semdelete() is done, so
\* newsem() hands out an empty one.
Resetting(s) == Inside("semreset") /\ frame[currpid].tgt = s
Deleting(s)  == Inside("semdelete") /\ frame[currpid].tgt = s

SemCountAgree ==
    \A s \in Sids :
       /\ ~Resetting(s) => Len(squeue[s]) = IF scount[s] < 0 THEN -scount[s] ELSE 0
       /\ sstate[s] = "FREE" /\ ~Deleting(s) => squeue[s] = <<>>

\* What a user of the semaphore calls can tell: whether a semaphore exists or
\* is being emptied, how many permits it has, and who is alive.
SemPhase == [s \in Sids |-> IF Resetting(s) \/ Deleting(s) THEN "flushing"
                            ELSE IF sstate[s] = "USED" THEN "open" ELSE "closed"]
SemPermits == [s \in Sids |-> IF SemPhase[s] = "open" /\ scount[s] > 0 THEN scount[s] ELSE 0]

Promise == INSTANCE FifoSemaphore WITH
    Procs <- Pids, Sems <- Sids,
    phase <- SemPhase, permits <- SemPermits, waiters <- squeue, alive <- Live

\* The semaphore calls keep the promise of FifoSemaphore, with kill(),
\* the clock and deferred rescheduling going on around them.
SemaphorePromise == Promise!Spec

\* "Reschedule processor to highest priority eligible process": in user mode
\* no ready process has a higher priority than the current one, and the ready
\* list is ordered by priority.
HighestPriorityRuns ==
    UserMode =>
       /\ \A i \in 1 .. Len(readylist) : prprio[readylist[i]] <= prprio[currpid]
       /\ \A i \in 1 .. Len(readylist) - 1 :
             prprio[readylist[i]] >= prprio[readylist[i + 1]]

\* No process waits for a message that is in its buffer, and a process that
\* is through waiting in receive() has one to read, whatever suspends, resumes
\* or delays it between the send() and the read.
NoLostWakeup ==
    \A p \in Pids :
       /\ prstate[p] \in {"RECV", "RECTIM"} => ~prhasmsg[p]
       /\ frame[p].op = "receive" /\ prstate[p] \notin {"RECV", "FREE"} => prhasmsg[p]

\* The delta list loses no time: whatever insertd(), unsleep() and the clock
\* did to the keys, each is what its process still has to wait after the one
\* before it wakes up, so the keys up to a sleeper sum up to its own time.
DeltaListExact ==
    \A i \in 1 .. Len(sleepq) :
       qkey[sleepq[i]] = left[sleepq[i]] - (IF i = 1 THEN 0 ELSE left[sleepq[i - 1]])

\* "Wait specified time", "delay the calling process n milliseconds": when
\* user code runs, nobody is still asleep after the ticks it asked for.
NoOversleep ==
    UserMode => \A p \in Pids : prstate[p] \in {"SLEEP", "RECTIM"} => left[p] >= 0

\* sleepms(), recvtime() and unsleep() keep every delay as it was asked for,
\* whoever joins or leaves the delta list meanwhile.
DelaysKept == DeltaListExact /\ NoOversleep

\* prcount, "total number of live processes", is that number, less the victims
\* of the kill() calls that are under way.
PrcountExact == ~halted => prcount = Cardinality(Live \ Dying)

\* "Last user process completes": when the processor halts there is at most one
\* user process, the one being killed, that is not on its way out already.
HaltOnlyWhenLast == halted => Cardinality(Live \ (Dying \cup {NULLPROC})) <= 1

\* No live process, whether it is being killed or not, runs on a stack that is
\* on the free list or that another live process runs on.
StackSafe ==
    ~halted =>
       \A p \in Live \ {NULLPROC} :
          /\ prstkbase[p] \notin stkfree
          /\ \A q \in Live \ {NULLPROC, p} : prstkbase[p] # prstkbase[q]

\* The process table can be trusted while kill() switches in its middle to a
\* parent that waits for a message, which creates, kills and waits on: the count
\* is exact, the system halts for the right reason and stacks have one user.
\* This needs MayKill: when the parent kills the half-dead process once more, the
\* count is wrong for good and the system halts with user processes left.
ProcessesAccounted == PrcountExact /\ HaltOnlyWhenLast /\ StackSafe

-----------------------------------------------------------------------------
(* What a step may never do.                                               *)

\* The clock never wakes a sleeper before its time is up.
NeverEarly ==
    [][ \A p \in Pids :
          prstate[p] = "SLEEP" /\ prstate'[p] \notin {"SLEEP", "FREE"} => left[p] <= 0 ]_vars

-----------------------------------------------------------------------------
(* Liveness, under Fairness.                                               *)

\* Round robin: among processes of one priority the time slice brings every
\* ready process to the CPU, or it is killed or suspended first.
ReadyRuns == \A p \in Pids \ {NULLPROC} : prstate[p] = "READY" ~> prstate[p] # "READY" \/ halted

\* Every sleeper gets up.
SleeperWakes == \A p \in Pids : prstate[p] = "SLEEP" ~> prstate[p] # "SLEEP" \/ halted
=============================================================================
