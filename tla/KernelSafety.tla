---------------------------- MODULE KernelSafety -----------------------------
(***************************************************************************)
(* Safety of the kernel for every size of the tables and every workload,   *)
(* on top of the invariant of KernelTheorems: no message is lost between   *)
(* send() and receive(), the count of a semaphore is the length of its     *)
(* queue, the semaphore calls implement FifoSemaphore, the process of      *)
(* highest priority runs, the process table is accounted for, and delays   *)
(* are kept exactly.                                                       *)
(***************************************************************************)
EXTENDS KernelTheorems, FiniteSetTheorems

USE ConstantsAssumption, WorkloadAssumption

-----------------------------------------------------------------------------
(* What a step does to the process states.                                 *)

\* q keeps its state, or it is runnable and stays so: all that resched() does
\* to a process it was not called about.
Alike(q) ==
    \/ prstate'[q] = prstate[q]
    \/ prstate[q] \in Runnable /\ prstate'[q] \in Runnable

AllAlike == \A q \in Pids : Alike(q)

\* p is the one process whose state really changes, and now is in V.
Becomes(p, V) ==
    /\ prstate'[p] \in V
    /\ \A q \in Pids \ {p} : Alike(q)

\* A resched() called after the state of p was set to v.
LEMMA DoneBecomes ==
    ASSUME NEW p \in Pids, NEW nd, NEW st, NEW v, SchedDone(nd, st),
           \A x \in Pids : st[x] = IF x = p THEN v ELSE prstate[x]
    PROVE  /\ v \in Runnable => Becomes(p, Runnable)
           /\ v \notin Runnable => Becomes(p, {v})
BY DEF SchedDone, Becomes, Alike, Runnable

\* A resched() called without a change of state.
LEMMA DoneAlike ==
    ASSUME NEW nd, SchedDone(nd, prstate)
    PROVE  AllAlike
BY DEF SchedDone, AllAlike, Alike, Runnable

\* A step that leaves the scheduler alone.
LEMMA IdleAlike == ASSUME UNCHANGED schedVars PROVE AllAlike
BY DEF schedVars, AllAlike, Alike

\* yield(), the end of a time slice.
LEMMA YieldAlike ==
    ASSUME Inv, NEW nd \in Nat, NEW pre \in 1 .. QUANTUM,
           resched(nd, prstate, readylist, qkey, pre)
    PROVE  AllAlike
BY YieldLemma, DoneAlike

\* The end of a deferring loop.
LEMMA StopAlike == ASSUME Inv, deferStop PROVE AllAlike
<1>1. CASE resched(0, prstate, readylist, qkey, preempt)
  BY <1>1, InvSched, YieldAlike
<1>2. CASE UNCHANGED schedVars
  BY <1>2, IdleAlike
<1> QED BY <1>1, <1>2 DEF deferStop

\* The current process blocks.
LEMMA BlockBecomes ==
    ASSUME Inv, NEW x \in Blocked, currpid # NULLPROC, NEW k, DOMAIN k = Pids,
           frame[currpid].op \notin DeferLoops,
           resched(ndefers, [prstate EXCEPT ![currpid] = x], readylist, k, preempt)
    PROVE  Becomes(currpid, {x}) /\ prstate[currpid] = "CURR" /\ currpid \in Pids
<1> DEFINE st == [prstate EXCEPT ![currpid] = x]
<1>1. /\ \A p \in Pids : st[p] = IF p = currpid THEN x ELSE prstate[p]
      /\ prstate[currpid] = "CURR" /\ currpid \in Pids
  BY BlockStates
<1>2. ndefers = 0
  BY InvQuiet
<1>3. SchedDone(0, st)
  BY <1>2, BlockLemma
<1>4. x \notin Runnable
  BY DEF Blocked, Runnable
<1> HIDE DEF st
<1> QED BY <1>1, <1>3, <1>4, DoneBecomes

\* A blocked process is made ready.
LEMMA ReadyBecomes ==
    ASSUME Inv, NEW p \in Pids, prstate[p] \in Blocked, NEW k, DOMAIN k = Pids,
           ready(p, ndefers, prstate, k)
    PROVE  Becomes(p, Runnable)
<1> DEFINE st == [prstate EXCEPT ![p] = "READY"]
<1>1. \A x \in Pids : st[x] = IF x = p THEN "READY" ELSE prstate[x]
  BY InvSched DEF SchedReady
<1>2. SchedDone(ndefers, st)
  BY ReadyLemma
<1>3. "READY" \in Runnable
  BY DEF Runnable
<1> HIDE DEF st
<1> QED BY <1>1, <1>2, <1>3, DoneBecomes

\* ready(dequeue(squeue)) of a semaphore.
LEMMA FirstBecomes ==
    ASSUME Inv, NEW s \in Sids, readyFirst(s)
    PROVE  \/ squeue[s] = <<>> /\ squeue' = squeue /\ AllAlike
           \/ /\ squeue[s] # <<>> /\ squeue' = [squeue EXCEPT ![s] = Tail(squeue[s])]
              /\ Head(squeue[s]) \in Pids /\ prstate[Head(squeue[s])] = "WAIT"
              /\ Becomes(Head(squeue[s]), Runnable)
<1>1. CASE squeue[s] = <<>>
  BY <1>1, IdleAlike DEF readyFirst
<1>2. CASE squeue[s] # <<>>
  <2> DEFINE p == Head(squeue[s])
  <2>1. /\ squeue' = [squeue EXCEPT ![s] = Tail(squeue[s])]
        /\ ready(p, ndefers, prstate, qkey)
    BY <1>2 DEF readyFirst
  <2>2. p \in Pids /\ On(p, squeue[s])
    BY <1>2, InvTypes, TailQueue DEF SemAgree, SemTypeOK
  <2> HIDE DEF p
  <2>3. prstate[p] = "WAIT"
    BY <2>2, InvTypes DEF SemAgree
  <2>4. Becomes(p, Runnable)
    BY <2>1, <2>2, <2>3, InvSched, ReadyBecomes DEF Blocked
  <2> QED BY <1>2, <2>1, <2>2, <2>3, <2>4 DEF p
<1> QED BY <1>1, <1>2

\* One signal.
LEMMA SignalBecomes ==
    ASSUME Inv, NEW s \in Sids, signalOnce(s)
    PROVE  \/ AllAlike
           \/ \E p \in Pids : prstate[p] = "WAIT" /\ Becomes(p, Runnable)
<1>1. CASE readyFirst(s)
  BY <1>1, FirstBecomes
<1>2. CASE UNCHANGED schedVars
  BY <1>2, IdleAlike
<1> QED BY <1>1, <1>2 DEF signalOnce

\* send(): the message arrives or is refused; a receiver that waits wakes up.
LEMMA SendBecomes ==
    ASSUME Inv, NEW p \in Pids, NEW msg, sendTo(p, msg)
    PROVE  \/ prhasmsg' = prhasmsg /\ AllAlike
           \/ /\ ~prhasmsg[p] /\ prhasmsg' = [prhasmsg EXCEPT ![p] = TRUE]
              /\ \/ prstate[p] \notin {"RECV", "RECTIM"} /\ AllAlike
                 \/ prstate[p] \in {"RECV", "RECTIM"} /\ Becomes(p, Runnable)
<1>1. CASE sendRefused(p)
  BY <1>1, IdleAlike DEF sendTo, msgVars
<1>2. CASE ~sendRefused(p)
  <2>1. ~prhasmsg[p] /\ prhasmsg' = [prhasmsg EXCEPT ![p] = TRUE]
    BY <1>2 DEF sendTo, sendRefused
  <2>2. CASE prstate[p] = "RECV"
    <3>1. ready(p, ndefers, prstate, qkey)
      BY <1>2, <2>2 DEF sendTo
    <3> QED BY <2>1, <2>2, <3>1, InvSched, ReadyBecomes DEF Blocked
  <2>3. CASE prstate[p] = "RECTIM"
    <3>1. ready(p, ndefers, prstate, unsleepKeys(p, sleepq, qkey))
      BY <1>2, <2>3 DEF sendTo
    <3>2. DOMAIN unsleepKeys(p, sleepq, qkey) = Pids
      BY UnsleepDomain, InvSched
    <3> QED BY <2>1, <2>3, <3>1, <3>2, ReadyBecomes DEF Blocked
  <2>4. CASE prstate[p] \notin {"RECV", "RECTIM"}
    <3>1. UNCHANGED schedVars
      BY <1>2, <2>4 DEF sendTo
    <3> QED BY <2>1, <2>4, <3>1, IdleAlike
  <2> QED BY <2>1, <2>2, <2>3, <2>4
<1> QED BY <1>1, <1>2

\* The process that wakeup() takes from the head of the sleep queue.
LEMMA WakeupBecomes ==
    ASSUME Inv, wakeup
    PROVE  \/ AllAlike
           \/ \E p \in Pids : prstate[p] \in {"SLEEP", "RECTIM"} /\ Becomes(p, Runnable)
<1>1. CASE expired(sleepq, qkey) /\ ready(Head(sleepq), ndefers, prstate, qkey)
  <2> DEFINE p == Head(sleepq)
  <2>1. sleepq # <<>>
    BY <1>1 DEF expired
  <2>2. p \in Pids /\ On(p, sleepq)
    BY <2>1, InvTypes, TailQueue DEF SleepAgree, ClkTypeOK
  <2>3. ready(p, ndefers, prstate, qkey)
    BY <1>1
  <2> HIDE DEF p
  <2>4. prstate[p] \in {"SLEEP", "RECTIM"}
    BY <2>2, InvTypes DEF SleepAgree
  <2>5. Becomes(p, Runnable)
    BY <2>2, <2>3, <2>4, InvSched, ReadyBecomes DEF Blocked
  <2> QED BY <2>2, <2>4, <2>5
<1>2. CASE deferStop
  BY <1>2, StopAlike
<1> QED BY <1>1, <1>2 DEF wakeup

\* The victim of kill() is free.
LEMMA KillEndBecomes ==
    ASSUME Inv, killEnd
    PROVE  /\ frame[currpid].tgt \in Pids \ {NULLPROC}
           /\ Becomes(frame[currpid].tgt, {"FREE"})
<1> DEFINE p  == frame[currpid].tgt
           st == [prstate EXCEPT ![p] = "FREE"]
<1>1. frame[currpid].op = "kill" /\ frame[currpid].op \notin DeferLoops
  BY DEF killEnd, Inside, DeferLoops
<1>2. p \in Pids \ {NULLPROC}
  BY <1>1, InvTypes, InvSched DEF FrameTypeOK
<1>3. CASE prstate[p] = "CURR" /\ resched(ndefers, st, readylist, qkey, preempt)
  <2>1. p = currpid
    BY <1>2, <1>3, InvTypes DEF ReadyAgree
  <2>2. resched(ndefers, [prstate EXCEPT ![currpid] = "FREE"], readylist, qkey, preempt)
    BY <1>3, <2>1
  <2>3. Becomes(currpid, {"FREE"})
    BY <1>1, <1>2, <2>1, <2>2, InvSched, BlockBecomes DEF Blocked
  <2> QED BY <1>2, <2>1, <2>3
<1>4. CASE prstate' = st
  <2>1. \A x \in Pids : prstate'[x] = IF x = p THEN "FREE" ELSE prstate[x]
    BY <1>4, InvSched DEF SchedReady
  <2> QED BY <1>2, <2>1 DEF Becomes, Alike
<1> QED BY <1>3, <1>4 DEF killEnd

-----------------------------------------------------------------------------
(* Messages: NoLostWakeup is inductive on top of Inv.                      *)

Receiving == {"RECV", "RECTIM"}

\* A step that neither delivers nor takes a message, and in which nobody
\* starts to wait for one, leaves receive(), or comes to life.
MsgCalm ==
    /\ prhasmsg' = prhasmsg
    /\ \A p \in Pids : frame'[p].op = "receive" => frame[p].op = "receive"
    /\ \A p \in Pids : prstate'[p] \in Receiving => prstate[p] \in Receiving
    /\ \A p \in Pids : prstate[p] \in {"RECV", "FREE"} => prstate'[p] \in {"RECV", "FREE"}

\* A calm step loses no message.
LEMMA CalmWakeup == ASSUME NoLostWakeup, MsgCalm PROVE NoLostWakeup'
BY DEF NoLostWakeup, MsgCalm, Receiving

\* What frame' is when one process enters or leaves a call.
LEMMA FrameValue ==
    ASSUME Inv, NEW q \in Pids, NEW f, frame' = [frame EXCEPT ![q] = f]
    PROVE  \A p \in Pids : frame'[p] = IF p = q THEN f ELSE frame[p]
BY InvTypes DEF FrameTypeOK

\* resched() alone makes a step calm.
LEMMA AlikeCalm ==
    ASSUME AllAlike, prhasmsg' = prhasmsg,
           \A p \in Pids : frame'[p].op = "receive" => frame[p].op = "receive"
    PROVE  MsgCalm
BY DEF AllAlike, Alike, MsgCalm, Receiving, Runnable

\* So does a change of state to or from states other than RECV and FREE.
LEMMA BecomesCalm ==
    ASSUME NEW p \in Pids, NEW V, Becomes(p, V), prhasmsg' = prhasmsg,
           prstate[p] \notin {"RECV", "FREE"}, V \cap Receiving = {},
           \A q \in Pids : frame'[q].op = "receive" => frame[q].op = "receive"
    PROVE  MsgCalm
BY DEF Becomes, Alike, MsgCalm, Receiving, Runnable

\* A frame of another call is entered, or a call is left.
LEMMA FrameCalm ==
    ASSUME Inv, NEW f, f.op # "receive", frame' = [frame EXCEPT ![currpid] = f]
    PROVE  \A p \in Pids : frame'[p].op = "receive" => frame[p].op = "receive"
BY FrameValue, InvSched

\* The frames that are set have the operation they are given.
LEMMA FrameOp ==
    ASSUME NEW op, NEW t, NEW n
    PROVE  /\ Frame(op, t, n).op = op /\ Frame(op, t, n).tgt = t /\ Frame(op, t, n).cnt = n
           /\ UserFrame.op = "user"
BY DEF Frame, UserFrame

\* The calls of the process manager that leave the messages alone.
LEMMA ProcCalm ==
    ASSUME Inv,
           \/ \E x \in Prios : createFails(x)
           \/ \E p \in Pids : suspend(p) \/ resume(p)
           \/ \E p \in Pids, x \in NewPrios : chprio(p, x)
           \/ yield
           \/ killEnd
    PROVE  MsgCalm
<1>1. CASE \E x \in Prios : createFails(x)
  BY <1>1, IdleAlike, AlikeCalm DEF createFails, msgVars
<1>2. ASSUME NEW p \in Pids, suspend(p) PROVE MsgCalm
  <2> DEFINE st == [prstate EXCEPT ![p] = "SUSP"]
  <2>1. /\ prhasmsg' = prhasmsg /\ frame' = frame /\ currpid # NULLPROC
        /\ prstate[p] \in {"CURR", "READY"} /\ frame[currpid].op \notin DeferLoops
    BY <1>2 DEF suspend, suspendable, Caller, UserMode, DeferLoops, msgVars
  <2>2. CASE prstate' = st
    <3>1. Becomes(p, {"SUSP"})
      BY <2>2, InvSched DEF Becomes, Alike, SchedReady
    <3> QED BY <2>1, <3>1, BecomesCalm DEF Receiving
  <2>3. CASE prstate[p] = "CURR" /\ resched(ndefers, st, readylist, qkey, preempt)
    <3>1. p = currpid
      BY <2>3, InvTypes DEF ReadyAgree
    <3>2. Becomes(currpid, {"SUSP"})
      BY <2>1, <2>3, <3>1, InvSched, BlockBecomes DEF Blocked
    <3> QED BY <2>1, <3>1, <3>2, BecomesCalm DEF Receiving
  <2> QED BY <1>2, <2>2, <2>3 DEF suspend
<1>3. ASSUME NEW p \in Pids, resume(p) PROVE MsgCalm
  <2>1. /\ prhasmsg' = prhasmsg /\ frame' = frame
        /\ prstate[p] = "SUSP" /\ ready(p, ndefers, prstate, qkey)
    BY <1>3 DEF resume, resumable, msgVars
  <2>2. Becomes(p, Runnable)
    BY <2>1, InvSched, ReadyBecomes DEF Blocked
  <2> QED BY <2>1, <2>2, BecomesCalm DEF Receiving, Runnable
<1>4. CASE \E p \in Pids, x \in NewPrios : chprio(p, x)
  BY <1>4, IdleAlike, AlikeCalm DEF chprio, msgVars
<1>5. CASE yield
  BY <1>5, InvSched, YieldAlike, AlikeCalm DEF yield, msgVars
<1>6. CASE killEnd
  <2>1. Becomes(frame[currpid].tgt, {"FREE"}) /\ frame[currpid].tgt \in Pids
    BY <1>6, KillEndBecomes
  <2>2. prhasmsg' = prhasmsg /\ frame' = [frame EXCEPT ![currpid] = UserFrame]
    BY <1>6 DEF killEnd, msgVars
  <2>3. \A p \in Pids : frame'[p].op = "receive" => frame[p].op = "receive"
    BY <2>2, FrameCalm, FrameOp
  <2> QED BY <2>1, <2>2, <2>3 DEF Becomes, Alike, MsgCalm, Receiving, Runnable
<1> QED BY <1>1, <1>2, <1>3, <1>4, <1>5, <1>6

\* The semaphore calls.
LEMMA SemCalm ==
    ASSUME Inv,
           \/ \E n \in Counts : semcreate(n)
           \/ \E s \in Sids : wait(s) \/ signal(s) \/ semdelete(s)
           \/ \E s \in Sids, n \in Counts : signaln(s, n) \/ semreset(s, n)
           \/ signalnLoop \/ signalnEnd \/ semdeleteLoop \/ semresetLoop
    PROVE  MsgCalm
<1>0. ASSUME NEW s \in Sids, readyFirst(s), prhasmsg' = prhasmsg, frame' = frame
      PROVE  MsgCalm
  BY <1>0, FirstBecomes, AlikeCalm, BecomesCalm DEF Receiving, Runnable
<1>1. CASE \E n \in Counts : semcreate(n)
  BY <1>1, IdleAlike, AlikeCalm DEF semcreate, msgVars
<1>2. ASSUME NEW s \in Sids, wait(s) PROVE MsgCalm
  <2>1. /\ prhasmsg' = prhasmsg /\ frame' = frame /\ currpid # NULLPROC
        /\ frame[currpid].op \notin DeferLoops
    BY <1>2 DEF wait, Caller, UserMode, DeferLoops, msgVars
  <2>2. CASE UNCHANGED schedVars
    BY <2>1, <2>2, IdleAlike, AlikeCalm
  <2>3. CASE resched(ndefers, [prstate EXCEPT ![currpid] = "WAIT"], readylist, qkey, preempt)
    <3>1. Becomes(currpid, {"WAIT"}) /\ prstate[currpid] = "CURR" /\ currpid \in Pids
      BY <2>1, <2>3, InvSched, BlockBecomes DEF Blocked
    <3> QED BY <2>1, <3>1, BecomesCalm DEF Receiving
  <2> QED BY <1>2, <2>2, <2>3 DEF wait
<1>3. ASSUME NEW s \in Sids, signalOnce(s), prhasmsg' = prhasmsg,
             \A p \in Pids : frame'[p].op = "receive" => frame[p].op = "receive"
      PROVE  MsgCalm
  BY <1>3, SignalBecomes, AlikeCalm, BecomesCalm DEF Receiving, Runnable
<1>4. ASSUME NEW s \in Sids, signal(s) PROVE MsgCalm
  BY <1>3, <1>4 DEF signal, msgVars
<1>5. ASSUME NEW op, op # "receive", NEW s \in Sids, NEW n, UNCHANGED <<prstate, msgVars>>,
             frame' = [frame EXCEPT ![currpid] = Frame(op, s, n)]
      PROVE  MsgCalm
  <2>1. \A p \in Pids : frame'[p].op = "receive" => frame[p].op = "receive"
    BY <1>5, FrameCalm, FrameOp
  <2> QED BY <1>5, <2>1, AlikeCalm DEF AllAlike, Alike, msgVars
<1>6. CASE \E s \in Sids : semdelete(s)
  BY ZenonT(30), <1>5, <1>6 DEF semdelete
<1>7. CASE \E s \in Sids, n \in Counts : signaln(s, n) \/ semreset(s, n)
  BY <1>5, <1>7 DEF signaln, semreset
<1>8. ASSUME frame' = [frame EXCEPT ![currpid] = UserFrame], deferStop, prhasmsg' = prhasmsg
      PROVE  MsgCalm
  BY <1>8, FrameCalm, FrameOp, StopAlike, AlikeCalm
<1>9. CASE signalnLoop
  <2> DEFINE f == [frame[currpid] EXCEPT !.cnt = frame[currpid].cnt - 1]
  <2>1. /\ signalOnce(frame[currpid].tgt) /\ prhasmsg' = prhasmsg
        /\ frame' = [frame EXCEPT ![currpid] = f] /\ frame[currpid].op = "signaln"
    BY <1>9 DEF signalnLoop, Inside, msgVars
  <2>2. frame[currpid].tgt \in Sids
    BY <2>1, LoopTarget DEF SemLoops
  <2>3. f.op = "signaln"
    BY <2>1, InvTypes, InvSched DEF FrameTypeOK
  <2> HIDE DEF f
  <2> QED BY <1>3, <2>1, <2>2, <2>3, FrameCalm
<1>10. CASE signalnEnd
  BY <1>8, <1>10 DEF signalnEnd, msgVars
<1>11. CASE semdeleteLoop
  <2>1. frame[currpid].tgt \in Sids
    BY <1>11, LoopTarget DEF semdeleteLoop, Inside, SemLoops
  <2> QED BY <1>0, <1>8, <1>11, <2>1 DEF semdeleteLoop, msgVars
<1>12. CASE semresetLoop
  <2>1. frame[currpid].tgt \in Sids
    BY <1>12, LoopTarget DEF semresetLoop, Inside, SemLoops
  <2> QED BY <1>0, <1>8, <1>12, <2>1 DEF semresetLoop, msgVars
<1> QED BY <1>1, <1>2, <1>4, <1>6, <1>7, <1>9, <1>10, <1>11, <1>12

\* The clock and sleepms(): a process in recvtime() that runs out of time
\* stops waiting without a message, which is no matter of receive().
LEMMA ClockCalm ==
    ASSUME Inv, (\E t \in Delays : sleepms(t)) \/ clkhandler \/ wakeup \/ clkPreempt
    PROVE  MsgCalm
<1>1. ASSUME NEW t \in Delays, sleepms(t) PROVE MsgCalm
  <2> DEFINE k == insertdKeys(currpid, sleepq, qkey, int32(t))
  <2>1. /\ prhasmsg' = prhasmsg /\ frame' = frame /\ currpid # NULLPROC
        /\ frame[currpid].op \notin DeferLoops
    BY <1>1 DEF sleepms, Caller, UserMode, DeferLoops, msgVars
  <2>2. CASE resched(ndefers, prstate, readylist, qkey, preempt)
    BY <2>1, <2>2, InvSched, YieldAlike, AlikeCalm
  <2>3. CASE resched(ndefers, [prstate EXCEPT ![currpid] = "SLEEP"], readylist, k, preempt)
    <3>1. DOMAIN k = Pids
      BY InsertdDomain, InvSched
    <3> HIDE DEF k
    <3>2. Becomes(currpid, {"SLEEP"}) /\ prstate[currpid] = "CURR" /\ currpid \in Pids
      BY <2>1, <2>3, <3>1, BlockBecomes DEF Blocked
    <3> QED BY <2>1, <3>2, BecomesCalm DEF Receiving
  <2> QED BY <1>1, <2>2, <2>3 DEF sleepms
<1>2. CASE clkhandler
  <2>1. prhasmsg' = prhasmsg /\ AllAlike
    BY <1>2 DEF clkhandler, msgVars, AllAlike, Alike
  <2>2. \E op \in {"clk", "wakeup"} : frame' = [frame EXCEPT ![currpid] = Frame(op, 0, 0)]
    BY <1>2 DEF clkhandler
  <2> QED BY <2>1, <2>2, FrameCalm, FrameOp, AlikeCalm
<1>3. CASE wakeup
  <2>1. /\ prhasmsg' = prhasmsg
        /\ \/ frame' = frame
           \/ frame' = [frame EXCEPT ![currpid] = Frame("clk", 0, 0)]
    BY <1>3 DEF wakeup, msgVars
  <2>2. \A p \in Pids : frame'[p].op = "receive" => frame[p].op = "receive"
    BY <2>1, FrameCalm, FrameOp
  <2> QED BY <1>3, <2>1, <2>2, WakeupBecomes, AlikeCalm, BecomesCalm DEF Receiving, Runnable
<1>4. CASE clkPreempt
  <2>1. /\ prhasmsg' = prhasmsg /\ frame' = [frame EXCEPT ![currpid] = UserFrame]
        /\ \/ resched(ndefers, prstate, readylist, qkey, QUANTUM)
           \/ prstate' = prstate
    BY <1>4 DEF clkPreempt, msgVars
  <2>2. AllAlike
    BY <2>1, InvSched, YieldAlike DEF AllAlike, Alike
  <2> QED BY <2>1, <2>2, FrameCalm, FrameOp, AlikeCalm
<1> QED BY <1>1, <1>2, <1>3, <1>4

\* send(), from a user process or from kill(), whatever it does to frame.
LEMMA SendWakeup ==
    ASSUME Inv, NoLostWakeup, NEW p \in Pids, NEW msg, sendTo(p, msg),
           \A q \in Pids : frame'[q].op = "receive" => frame[q].op = "receive"
    PROVE  NoLostWakeup'
<1>1. CASE prhasmsg' = prhasmsg /\ AllAlike
  BY <1>1, AlikeCalm, CalmWakeup
<1>2. CASE /\ ~prhasmsg[p] /\ prhasmsg' = [prhasmsg EXCEPT ![p] = TRUE]
           /\ \/ prstate[p] \notin {"RECV", "RECTIM"} /\ AllAlike
              \/ prstate[p] \in {"RECV", "RECTIM"} /\ Becomes(p, Runnable)
  <2>1. \A q \in Pids : prhasmsg'[q] = IF q = p THEN TRUE ELSE prhasmsg[q]
    BY <1>2, InvTypes DEF MsgTypeOK
  <2>2. \A q \in Pids \ {p} : Alike(q)
    BY <1>2 DEF AllAlike, Becomes
  <2>3. prstate'[p] \notin {"RECV", "RECTIM"}
    BY <1>2 DEF AllAlike, Alike, Becomes, Runnable
  <2> QED BY <2>1, <2>2, <2>3 DEF NoLostWakeup, Alike, Runnable
<1> QED BY <1>1, <1>2, SendBecomes

\* The caller takes the message of its own buffer, in user mode or at the end
\* of receive() and recvtime().
LEMMA TakeWakeup ==
    ASSUME Inv, NoLostWakeup, prhasmsg' = [prhasmsg EXCEPT ![currpid] = FALSE],
           UNCHANGED schedVars, frame'[currpid].op = "user",
           \A q \in Pids \ {currpid} : frame'[q] = frame[q]
    PROVE  NoLostWakeup'
<1>1. \A q \in Pids : prhasmsg'[q] = IF q = currpid THEN FALSE ELSE prhasmsg[q]
  BY InvTypes DEF MsgTypeOK
<1>2. prstate' = prstate
  BY DEF schedVars
<1>3. ASSUME NEW q \in Pids
      PROVE  /\ prstate'[q] \in {"RECV", "RECTIM"} => ~prhasmsg'[q]
             /\ frame'[q].op = "receive" /\ prstate'[q] \notin {"RECV", "FREE"} => prhasmsg'[q]
  <2>1. CASE q = currpid
    BY <1>1, <2>1
  <2>2. CASE q # currpid
    <3>1. prhasmsg'[q] = prhasmsg[q] /\ frame'[q] = frame[q]
      BY <1>1, <2>2
    <3> QED BY <1>2, <3>1 DEF NoLostWakeup
  <2> QED BY <2>1, <2>2
<1> QED BY <1>3 DEF NoLostWakeup

\* The caller blocks in state x, in receive() or in recvtime(), with no
\* message in its buffer.
LEMMA BlockWakeup ==
    ASSUME Inv, NoLostWakeup, NEW x \in Receiving, NEW f, NEW k, DOMAIN k = Pids,
           Caller, ~prhasmsg[currpid], prhasmsg' = prhasmsg,
           frame' = [frame EXCEPT ![currpid] = f], x = "RECTIM" => f.op # "receive",
           resched(ndefers, [prstate EXCEPT ![currpid] = x], readylist, k, preempt)
    PROVE  NoLostWakeup'
<1>1. x \in Blocked /\ currpid # NULLPROC /\ frame[currpid].op \notin DeferLoops
  BY DEF Caller, UserMode, DeferLoops, Blocked, Receiving
<1>2. Becomes(currpid, {x}) /\ prstate[currpid] = "CURR" /\ currpid \in Pids
  BY <1>1, BlockBecomes
<1>3. \A q \in Pids : frame'[q] = IF q = currpid THEN f ELSE frame[q]
  BY <1>2, InvTypes DEF FrameTypeOK
<1> QED BY <1>2, <1>3 DEF NoLostWakeup, Becomes, Alike, Receiving, Runnable

\* The other calls that concern messages, and kill() and create().
LEMMA MsgWakeup ==
    ASSUME Inv, NoLostWakeup,
           \/ \E x \in Prios : create(x)
           \/ \E p \in Pids : kill(p)
           \/ \E p \in Pids, msg \in Msgs : send(p, msg)
           \/ receive \/ receiveEnd \/ recvclr \/ recvtimeEnd
           \/ \E t \in RecvWaits : recvtime(t)
    PROVE  NoLostWakeup'
<1>0. currpid \in Pids
  BY InvSched
<1>1. ASSUME NEW x \in Prios, create(x) PROVE NoLostWakeup'
  <2> DEFINE p == newpid
  <2>1. /\ p # -1
        /\ prstate' = [prstate EXCEPT ![p] = "SUSP"]
        /\ prhasmsg' = [prhasmsg EXCEPT ![p] = FALSE]
        /\ frame' = [frame EXCEPT ![p] = UserFrame]
    BY <1>1 DEF create
  <2>2. p \in Pids
    BY <2>1, NewpidFacts
  <2> HIDE DEF p
  <2>3. \A q \in Pids : /\ prstate'[q] = IF q = p THEN "SUSP" ELSE prstate[q]
                        /\ prhasmsg'[q] = IF q = p THEN FALSE ELSE prhasmsg[q]
                        /\ frame'[q] = IF q = p THEN UserFrame ELSE frame[q]
    BY <2>1, <2>2, FrameValue, InvTypes, InvSched DEF MsgTypeOK, SchedReady
  <2> QED BY <2>3, FrameOp DEF NoLostWakeup
<1>2. ASSUME NEW p \in Pids, kill(p) PROVE NoLostWakeup'
  <2>1. CASE UNCHANGED <<frame, msgVars, schedVars>>
    BY <2>1, IdleAlike, AlikeCalm, CalmWakeup DEF msgVars
  <2>2. CASE sendTo(prparent[p], p) /\ frame' = [frame EXCEPT ![currpid] = Frame("kill", p, 0)]
    <3>1. prparent[p] \in Pids
      BY InvTypes DEF TabTypeOK
    <3>2. \A q \in Pids : frame'[q].op = "receive" => frame[q].op = "receive"
      BY <2>2, FrameCalm, FrameOp
    <3> QED BY <2>2, <3>1, <3>2, SendWakeup
  <2> QED BY <1>2, <2>1, <2>2 DEF kill
<1>3. CASE \E p \in Pids, msg \in Msgs : send(p, msg)
  BY <1>3, SendWakeup DEF send
<1>4. CASE receive
  <2>1. Caller /\ frame[currpid].op = "user"
    BY <1>4 DEF receive, Caller, UserMode
  <2>2. CASE prhasmsg[currpid]
    <3>1. prhasmsg' = [prhasmsg EXCEPT ![currpid] = FALSE] /\ UNCHANGED <<frame, schedVars>>
      BY <1>4, <2>2 DEF receive
    <3> QED BY <2>1, <3>1, TakeWakeup
  <2>3. CASE ~prhasmsg[currpid]
    BY <1>4, <2>1, <2>3, InvSched, BlockWakeup DEF receive, Receiving
  <2> QED BY <2>2, <2>3
<1>5. CASE receiveEnd
  <2>1. frame' = [frame EXCEPT ![currpid] = UserFrame]
    BY <1>5 DEF receiveEnd
  <2>2. frame'[currpid].op = "user" /\ \A q \in Pids \ {currpid} : frame'[q] = frame[q]
    BY <1>0, <2>1, FrameUser
  <2> QED BY <1>5, <2>2, TakeWakeup DEF receiveEnd
<1>6. CASE recvclr
  BY <1>6, TakeWakeup DEF recvclr, Caller, UserMode
<1>7. CASE recvtimeEnd
  <2>1. frame' = [frame EXCEPT ![currpid] = UserFrame]
    BY <1>7 DEF recvtimeEnd
  <2>2. frame'[currpid].op = "user" /\ \A q \in Pids \ {currpid} : frame'[q] = frame[q]
    BY <1>0, <2>1, FrameUser
  <2> QED BY <1>7, <2>2, TakeWakeup DEF recvtimeEnd
<1>8. ASSUME NEW t \in RecvWaits, recvtime(t) PROVE NoLostWakeup'
  <2>1. Caller /\ frame[currpid].op = "user"
    BY <1>8 DEF recvtime, Caller, UserMode
  <2>2. CASE prhasmsg[currpid]
    <3>1. prhasmsg' = [prhasmsg EXCEPT ![currpid] = FALSE] /\ UNCHANGED <<frame, schedVars>>
      BY <1>8, <2>2 DEF recvtime
    <3> QED BY <2>1, <3>1, TakeWakeup
  <2>3. CASE ~prhasmsg[currpid]
    <3> DEFINE k == insertdKeys(currpid, sleepq, qkey, t)
    <3>1. DOMAIN k = Pids
      BY InsertdDomain, InvSched
    <3>2. /\ frame' = [frame EXCEPT ![currpid] = Frame("recvtime", 0, 0)]
          /\ resched(ndefers, [prstate EXCEPT ![currpid] = "RECTIM"], readylist, k, preempt)
          /\ prhasmsg' = prhasmsg
      BY <1>8, <2>3 DEF recvtime
    <3> HIDE DEF k
    <3>3. Frame("recvtime", 0, 0).op # "receive" /\ "RECTIM" \in Receiving
      BY FrameOp DEF Receiving
    <3> QED BY <2>1, <2>3, <3>1, <3>2, <3>3, BlockWakeup
  <2> QED BY <2>2, <2>3
<1> QED BY <1>1, <1>2, <1>3, <1>4, <1>5, <1>6, <1>7, <1>8

\* Every step keeps NoLostWakeup.
LEMMA NextWakeup == Inv /\ NoLostWakeup /\ [Next]_vars => NoLostWakeup'
<1> SUFFICES ASSUME Inv, NoLostWakeup, [Next]_vars PROVE NoLostWakeup'
  OBVIOUS
<1>1. CASE SystemCall
  BY <1>1, InvSched, ProcCalm, SemCalm, ClockCalm, CalmWakeup, MsgWakeup DEF SystemCall
<1>2. CASE Continue
  BY <1>2, ProcCalm, SemCalm, ClockCalm, CalmWakeup, MsgWakeup DEF Continue
<1>3. CASE clkhandler
  BY <1>3, ClockCalm, CalmWakeup
<1>4. CASE UNCHANGED vars
  BY <1>4, IdleAlike, AlikeCalm, CalmWakeup DEF vars, msgVars
<1> QED BY <1>1, <1>2, <1>3, <1>4 DEF Next, halt

\* No message is lost: a process that waits in receive() or recvtime() has an
\* empty buffer, and one that got past the wait in receive() has a message to
\* read, whatever suspend(), kill() and the clock do meanwhile.
THEOREM NoMessageLost == Spec => []NoLostWakeup
<1>1. Init => NoLostWakeup
  BY FrameOp DEF Init, NoLostWakeup
<1>2. Inv /\ NoLostWakeup /\ [Next]_vars => NoLostWakeup'
  BY NextWakeup
<1> QED
  BY <1>1, <1>2, KernelInvariant, PTL DEF Spec

-----------------------------------------------------------------------------
(* Semaphores: the count and the queue, and the promise of FifoSemaphore.  *)

\* The semaphore a loop is about is in use, or free when it is being deleted.
LoopSems ==
    /\ frame[currpid].op \in {"signaln", "semreset"} => sstate[frame[currpid].tgt] = "USED"
    /\ frame[currpid].op = "semdelete" => sstate[frame[currpid].tgt] = "FREE"

SemInv == SemCountAgree /\ LoopSems

\* No semaphore is being emptied.
NotFlushing == frame[currpid].op \notin {"semreset", "semdelete"}

\* The abstract view of the semaphore table, by its entries ss and counts sc.
QuietPhase(ss) == [s \in Sids |-> IF ss[s] = "USED" THEN "open" ELSE "closed"]
QuietPermits(ss, sc) == [s \in Sids |-> IF ss[s] = "USED" /\ sc[s] > 0 THEN sc[s] ELSE 0]

\* The abstract view when no semaphore is being emptied.
LEMMA QuietView ==
    ASSUME NotFlushing
    PROVE  /\ SemPhase = QuietPhase(sstate) /\ SemPermits = QuietPermits(sstate, scount)
           /\ \A s \in Sids : ~Resetting(s) /\ ~Deleting(s)
BY DEF NotFlushing, SemPhase, SemPermits, QuietPhase, QuietPermits, Resetting, Deleting, Inside

\* The same after a step.
LEMMA QuietViewNext ==
    ASSUME NotFlushing'
    PROVE  /\ SemPhase' = QuietPhase(sstate') /\ SemPermits' = QuietPermits(sstate', scount')
           /\ \A s \in Sids : ~Resetting(s)' /\ ~Deleting(s)'
BY DEF NotFlushing, SemPhase, SemPermits, QuietPhase, QuietPermits, Resetting, Deleting, Inside

\* The abstract view while semaphore t is being emptied.
LEMMA FlushView ==
    ASSUME NEW t \in Sids, ~halted, ~NotFlushing, frame[currpid].tgt = t
    PROVE  /\ SemPhase = [QuietPhase(sstate) EXCEPT ![t] = "flushing"]
           /\ SemPermits = [QuietPermits(sstate, scount) EXCEPT ![t] = 0]
           /\ \A s \in Sids : Resetting(s) \/ Deleting(s) <=> s = t
BY DEF NotFlushing, SemPhase, SemPermits, QuietPhase, QuietPermits, Resetting, Deleting, Inside

\* The same after a step.
LEMMA FlushViewNext ==
    ASSUME NEW t \in Sids, ~halted', ~NotFlushing', frame'[currpid'].tgt = t
    PROVE  /\ SemPhase' = [QuietPhase(sstate') EXCEPT ![t] = "flushing"]
           /\ SemPermits' = [QuietPermits(sstate', scount') EXCEPT ![t] = 0]
           /\ \A s \in Sids : Resetting(s)' \/ Deleting(s)' <=> s = t
BY DEF NotFlushing, SemPhase, SemPermits, QuietPhase, QuietPermits, Resetting, Deleting, Inside

\* A process waits, in the abstract view, when its state says so.
LEMMA WaitsState ==
    ASSUME Inv, NEW p \in Pids
    PROVE  Promise!Waits(p) <=> prstate[p] = "WAIT"
<1>1. \A s \in Sids : p \in Promise!ToSet(squeue[s]) <=> On(p, squeue[s])
  BY InvTypes DEF Promise!ToSet, On, SemTypeOK
<1> QED BY <1>1, InvTypes DEF Promise!Waits, SemAgree

\* A step that leaves the table of semaphores alone, empties none and kills no
\* waiter is, to the users of semaphores, at most a change in who is alive.
LEMMA StillStep ==
    ASSUME Inv, SemInv, NotFlushing, NotFlushing', UNCHANGED <<sstate, scount, squeue>>,
           frame'[currpid'].op = "signaln" => sstate[frame'[currpid'].tgt] = "USED",
           \A p \in Pids : prstate[p] = "WAIT" => prstate'[p] # "FREE"
    PROVE  SemInv' /\ Promise!Next
<1>1. SemCountAgree'
  BY QuietView, QuietViewNext DEF SemInv, SemCountAgree
<1>2. LoopSems'
  BY DEF LoopSems, NotFlushing
<1>3. SemPhase' = SemPhase /\ SemPermits' = SemPermits
  BY QuietView, QuietViewNext
<1>4. Live' \subseteq Pids /\ \A p \in Live \ Live' : ~Promise!Waits(p)
  BY WaitsState DEF Live
<1>5. Promise!Lifecycle
  BY <1>3, <1>4 DEF Promise!Lifecycle
<1> QED BY <1>1, <1>2, <1>5 DEF SemInv, Promise!Next

\* In user mode, and in kill(), receive() and the clock handler, no semaphore
\* is being emptied.
LEMMA QuietNotFlushing ==
    ASSUME Inv
    PROVE  ndefers = 0 \/ frame[currpid].op \in {"user", "signaln", "wakeup"} => NotFlushing
BY DEF Inv, DeferBalanced, NotFlushing, DeferLoops

\* After a step that ends with rescheduling not deferred, neither.
LEMMA QuietAfter ==
    ASSUME Inv', ndefers' = 0
    PROVE  NotFlushing' /\ frame'[currpid'].op # "signaln"
BY DEF Inv, DeferBalanced, NotFlushing, DeferLoops

\* No waiter is freed when the states are alike but for p.
LEMMA WaitersLive ==
    ASSUME \/ AllAlike
           \/ \E p \in Pids, V \in SUBSET (PrStates \ {"FREE"}) : Becomes(p, V)
           \/ \E p \in Pids : prstate[p] # "WAIT" /\ Becomes(p, {"FREE"})
    PROVE  \A q \in Pids : prstate[q] = "WAIT" => prstate'[q] # "FREE"
BY DEF AllAlike, Becomes, Alike, Runnable

\* A quiet step that does not touch the semaphores.
LEMMA QuietSemStep ==
    ASSUME Inv, Inv', SemInv, ndefers = 0, ndefers' = 0,
           UNCHANGED <<sstate, scount, squeue>>,
           \/ AllAlike
           \/ \E p \in Pids, V \in SUBSET (PrStates \ {"FREE"}) : Becomes(p, V)
           \/ \E p \in Pids : prstate[p] # "WAIT" /\ Becomes(p, {"FREE"})
    PROVE  SemInv' /\ Promise!Next
BY StillStep, QuietNotFlushing, QuietAfter, WaitersLive

\* Runnable is a set of states of live processes.
LEMMA RunnableLive == Runnable \in SUBSET (PrStates \ {"FREE"})
BY DEF Runnable, PrStates

\* The process manager, but for kill() after send().
LEMMA ProcPromise ==
    ASSUME Inv, Inv', SemInv,
           \/ \E x \in Prios : create(x) \/ createFails(x)
           \/ \E p \in Pids : kill(p) \/ suspend(p) \/ resume(p)
           \/ \E p \in Pids, x \in NewPrios : chprio(p, x)
           \/ yield
    PROVE  SemInv' /\ Promise!Next
<1>0. frame[currpid].op = "user" /\ frame[currpid].op \notin DeferLoops /\ currpid # NULLPROC
  BY DEF create, createFails, kill, suspend, resume, chprio, yield, Caller, UserMode, DeferLoops
<1>1. ndefers = 0
  BY <1>0, InvQuiet
<1>2. ndefers' = 0 /\ UNCHANGED <<sstate, scount, squeue>>
  BY <1>1 DEF create, createFails, kill, suspend, resume, chprio, yield, semVars
<1>3. CASE \E x \in Prios : create(x)
  <2>1. prstate' = [prstate EXCEPT ![newpid] = "SUSP"] /\ newpid # -1
    BY <1>3 DEF create
  <2>2. newpid \in Pids /\ {"SUSP"} \in SUBSET (PrStates \ {"FREE"})
    BY <2>1, NewpidFacts DEF PrStates
  <2> HIDE DEF newpid
  <2>3. Becomes(newpid, {"SUSP"})
    BY <2>1, <2>2, InvSched DEF Becomes, Alike, SchedReady
  <2> QED BY <1>1, <1>2, <2>2, <2>3, QuietSemStep
<1>4. ASSUME NEW p \in Pids, kill(p) PROVE SemInv' /\ Promise!Next
  <2>1. CASE UNCHANGED schedVars
    BY <1>1, <1>2, <2>1, IdleAlike, QuietSemStep
  <2>2. CASE sendTo(prparent[p], p)
    <3>1. prparent[p] \in Pids
      BY InvTypes DEF TabTypeOK
    <3>2. AllAlike \/ Becomes(prparent[p], Runnable)
      BY <2>2, <3>1, SendBecomes
    <3> QED BY <1>1, <1>2, <3>1, <3>2, RunnableLive, QuietSemStep
  <2> QED BY <1>4, <2>1, <2>2 DEF kill
<1>5. ASSUME NEW p \in Pids, suspend(p) PROVE SemInv' /\ Promise!Next
  <2> DEFINE st == [prstate EXCEPT ![p] = "SUSP"]
  <2>0. {"SUSP"} \in SUBSET (PrStates \ {"FREE"})
    BY DEF PrStates
  <2>1. CASE prstate' = st
    <3>1. Becomes(p, {"SUSP"})
      BY <2>1, InvSched DEF Becomes, Alike, SchedReady
    <3> QED BY <1>1, <1>2, <2>0, <3>1, QuietSemStep
  <2>2. CASE prstate[p] = "CURR" /\ resched(ndefers, st, readylist, qkey, preempt)
    <3>1. p = currpid
      BY <2>2, InvTypes DEF ReadyAgree
    <3>2. Becomes(currpid, {"SUSP"})
      BY <1>0, <2>2, <3>1, InvSched, BlockBecomes DEF Blocked
    <3> QED BY <1>1, <1>2, <2>0, <3>1, <3>2, QuietSemStep
  <2> QED BY <1>5, <2>1, <2>2 DEF suspend
<1>6. ASSUME NEW p \in Pids, resume(p) PROVE SemInv' /\ Promise!Next
  <2>1. prstate[p] = "SUSP" /\ ready(p, ndefers, prstate, qkey)
    BY <1>6 DEF resume, resumable
  <2>2. Becomes(p, Runnable)
    BY <2>1, InvSched, ReadyBecomes DEF Blocked
  <2> QED BY <1>1, <1>2, <2>2, RunnableLive, QuietSemStep
<1>7. CASE \/ \E x \in Prios : createFails(x)
           \/ \E p \in Pids, x \in NewPrios : chprio(p, x)
  BY <1>1, <1>2, <1>7, IdleAlike, QuietSemStep DEF createFails, chprio
<1>8. CASE yield
  <2>1. AllAlike
    BY <1>8, InvSched, YieldAlike DEF yield
  <2> QED BY <1>1, <1>2, <2>1, QuietSemStep
<1> QED BY <1>3, <1>4, <1>5, <1>6, <1>7, <1>8

\* kill() after send(): a waiter that is killed leaves its place in the line,
\* and the count of its semaphore goes up by one.
LEMMA KillEndPromise == ASSUME Inv, Inv', SemInv, killEnd PROVE SemInv' /\ Promise!Next
<1> DEFINE p == frame[currpid].tgt
           s == prsem[p]
<1>1. /\ frame[currpid].op \notin DeferLoops /\ ndefers' = ndefers
      /\ sstate' = sstate /\ p \in Pids \ {NULLPROC} /\ Becomes(p, {"FREE"})
  BY KillEndBecomes DEF killEnd, Inside, DeferLoops
<1>2. ndefers = 0 /\ ndefers' = 0
  BY <1>1, InvQuiet
<1>3. CASE prstate[p] # "WAIT" /\ UNCHANGED <<scount, squeue>>
  BY <1>1, <1>2, <1>3, QuietSemStep
<1>4. CASE /\ prstate[p] = "WAIT"
           /\ scount' = [scount EXCEPT ![s] = killedCount(s)]
           /\ squeue' = [squeue EXCEPT ![s] = getitem(squeue[s], p)]
  <2>1. NotFlushing /\ NotFlushing' /\ frame'[currpid'].op # "signaln"
    BY <1>2, QuietNotFlushing, QuietAfter
  <2>2. s \in Sids /\ On(p, squeue[s]) /\ Distinct(squeue[s]) /\ squeue[s] \in Seq(Pids)
    BY <1>1, <1>4, InvTypes DEF SemAgree, SemTypeOK
  <2> DEFINE q == getitem(squeue[s], p)
             i == CHOOSE j \in 1 .. Len(squeue[s]) : squeue[s][j] = p
  <2>3. q \in Seq(Pids) /\ Len(q) = Len(squeue[s]) - 1
    BY <1>1, <2>2, GetitemQueue
  <2>4. i \in 1 .. Len(squeue[s]) /\ squeue[s][i] = p
    BY <2>2 DEF On
  <2>5. q = Promise!RemoveAt(squeue[s], i)
    BY DEF getitem, RemoveAt, Promise!RemoveAt
  <2>6. squeue' = [squeue EXCEPT ![s] = q]
    BY <1>4
  <2> HIDE DEF q, i, s, p
  <2>7. Len(squeue[s]) > 0 /\ squeue[s] # <<>>
    BY <2>2, <2>4
  <2>8. /\ \A t \in Sids : Len(squeue[t]) = IF scount[t] < 0 THEN -scount[t] ELSE 0
        /\ \A t \in Sids : sstate[t] = "FREE" => squeue[t] = <<>>
    BY <2>1, QuietView DEF SemInv, SemCountAgree
  <2>9. scount \in [Sids -> Int] /\ squeue \in [Sids -> Seq(Pids)] /\ sstate \in [Sids -> {"FREE", "USED"}]
    BY InvTypes DEF SemTypeOK
  <2>10. scount[s] < 0 /\ Len(squeue[s]) = -scount[s] /\ sstate[s] = "USED"
    BY <2>2, <2>7, <2>8, <2>9
  <2>11. scount' = [scount EXCEPT ![s] = scount[s] + 1]
    BY <1>4 DEF killedCount
  <2>12. SemCountAgree'
    <3>1. ASSUME NEW t \in Sids
          PROVE  /\ Len(squeue'[t]) = IF scount'[t] < 0 THEN -scount'[t] ELSE 0
                 /\ sstate'[t] = "FREE" => squeue'[t] = <<>>
      <4>1. CASE t = s
        BY <1>1, <2>2, <2>3, <2>6, <2>9, <2>10, <2>11, <4>1
      <4>2. CASE t # s
        BY <1>1, <2>6, <2>8, <2>9, <2>11, <4>2
      <4> QED BY <4>1, <4>2
    <3> QED BY <3>1, <2>1, QuietViewNext DEF SemCountAgree
  <2>13. LoopSems'
    BY <2>1 DEF LoopSems, NotFlushing
  <2>14. SemPhase' = SemPhase
    BY <1>1, <2>1, QuietView, QuietViewNext
  <2>15. SemPermits' = SemPermits
    <3>1. QuietPermits(sstate', scount') = QuietPermits(sstate, scount)
      BY <1>1, <2>9, <2>10, <2>11 DEF QuietPermits
    <3> QED BY <2>1, <3>1, QuietView, QuietViewNext
  <2>16. Live' = Live \ {p}
    BY <1>1 DEF Live, Becomes, Alike, Runnable
  <2>17. SemPhase[s] = "open"
    BY <2>1, <2>2, <2>10, QuietView DEF QuietPhase
  <2>18. Promise!Abandon(s, p)
    BY <2>4, <2>5, <2>6, <2>14, <2>15, <2>16, <2>17 DEF Promise!Abandon
  <2> QED BY <1>1, <2>2, <2>12, <2>13, <2>18 DEF SemInv, Promise!Next
<1> QED BY <1>3, <1>4 DEF killEnd

\* Messages and the clock.
LEMMA MsgClkPromise ==
    ASSUME Inv, Inv', SemInv,
           \/ \E p \in Pids, msg \in Msgs : send(p, msg)
           \/ receive \/ receiveEnd \/ recvclr \/ recvtimeEnd
           \/ \E t \in RecvWaits : recvtime(t)
           \/ \E t \in Delays : sleepms(t)
           \/ clkPreempt
    PROVE  SemInv' /\ Promise!Next
<1>0. frame[currpid].op \notin DeferLoops
  BY DEF send, receive, receiveEnd, recvclr, recvtimeEnd, recvtime, sleepms, clkPreempt,
         Caller, UserMode, Inside, DeferLoops
<1>1. ndefers = 0
  BY <1>0, InvQuiet
<1>2. ndefers' = 0 /\ UNCHANGED <<sstate, scount, squeue>>
  BY <1>1 DEF send, receive, receiveEnd, recvclr, recvtimeEnd, recvtime, sleepms, clkPreempt,
              semVars
<1>3. ASSUME NEW x \in Blocked \ {"FREE"}, NEW k, DOMAIN k = Pids, currpid # NULLPROC,
             resched(ndefers, [prstate EXCEPT ![currpid] = x], readylist, k, preempt)
      PROVE  SemInv' /\ Promise!Next
  <2>1. Becomes(currpid, {x}) /\ currpid \in Pids
    BY <1>0, <1>3, BlockBecomes
  <2>2. {x} \in SUBSET (PrStates \ {"FREE"})
    BY <1>3 DEF Blocked, PrStates
  <2> QED BY <1>1, <1>2, <2>1, <2>2, QuietSemStep
<1>4. CASE AllAlike
  BY <1>1, <1>2, <1>4, QuietSemStep
<1>5. CASE \E p \in Pids, msg \in Msgs : send(p, msg)
  <2>1. PICK p \in Pids, msg \in Msgs : sendTo(p, msg)
    BY <1>5 DEF send
  <2>2. AllAlike \/ Becomes(p, Runnable)
    BY <2>1, SendBecomes
  <2> QED BY <1>1, <1>2, <2>2, RunnableLive, QuietSemStep
<1>6. CASE receive
  <2>1. currpid # NULLPROC
    BY <1>6 DEF receive, Caller
  <2>2. CASE UNCHANGED schedVars
    BY <1>4, <2>2, IdleAlike
  <2>3. CASE resched(ndefers, [prstate EXCEPT ![currpid] = "RECV"], readylist, qkey, preempt)
    BY <1>3, <2>1, <2>3, InvSched DEF Blocked
  <2> QED BY <1>6, <2>2, <2>3 DEF receive
<1>7. CASE receiveEnd \/ recvclr \/ recvtimeEnd
  BY <1>4, <1>7, IdleAlike DEF receiveEnd, recvclr, recvtimeEnd
<1>8. ASSUME NEW t \in RecvWaits, recvtime(t) PROVE SemInv' /\ Promise!Next
  <2> DEFINE k == insertdKeys(currpid, sleepq, qkey, t)
  <2>1. currpid # NULLPROC /\ DOMAIN k = Pids
    BY <1>8, InsertdDomain, InvSched DEF recvtime, Caller
  <2>2. CASE UNCHANGED schedVars
    BY <1>4, <2>2, IdleAlike
  <2>3. CASE resched(ndefers, [prstate EXCEPT ![currpid] = "RECTIM"], readylist, k, preempt)
    <3> HIDE DEF k
    <3> QED BY <1>3, <2>1, <2>3 DEF Blocked
  <2> QED BY <1>8, <2>2, <2>3 DEF recvtime
<1>9. ASSUME NEW t \in Delays, sleepms(t) PROVE SemInv' /\ Promise!Next
  <2> DEFINE k == insertdKeys(currpid, sleepq, qkey, int32(t))
  <2>1. currpid # NULLPROC /\ DOMAIN k = Pids
    BY <1>9, InsertdDomain, InvSched DEF sleepms, Caller
  <2>2. CASE resched(ndefers, prstate, readylist, qkey, preempt)
    BY <1>4, <2>2, InvSched, YieldAlike
  <2>3. CASE resched(ndefers, [prstate EXCEPT ![currpid] = "SLEEP"], readylist, k, preempt)
    <3> HIDE DEF k
    <3> QED BY <1>3, <2>1, <2>3 DEF Blocked
  <2> QED BY <1>9, <2>2, <2>3 DEF sleepms
<1>10. CASE clkPreempt
  <2>1. resched(ndefers, prstate, readylist, qkey, QUANTUM) \/ prstate' = prstate
    BY <1>10 DEF clkPreempt
  <2>2. AllAlike
    BY <2>1, InvSched, YieldAlike DEF AllAlike, Alike
  <2> QED BY <1>4, <2>2
<1> QED BY <1>5, <1>6, <1>7, <1>8, <1>9, <1>10

\* The clock handler with rescheduling deferred in wakeup().
LEMMA ClkPromise == ASSUME Inv, Inv', SemInv, clkhandler \/ wakeup PROVE SemInv' /\ Promise!Next
<1>1. CASE clkhandler
  <2>1. /\ UNCHANGED <<sstate, scount, squeue>> /\ AllAlike /\ currpid' = currpid
        /\ frame[currpid].op = "user"
    BY <1>1 DEF clkhandler, semVars, AllAlike, Alike, UserMode
  <2>2. \E op \in {"clk", "wakeup"} : frame' = [frame EXCEPT ![currpid] = Frame(op, 0, 0)]
    BY <1>1 DEF clkhandler
  <2>3. frame'[currpid].op \in {"clk", "wakeup"}
    BY <2>2, InvSched, InvTypes, FrameOp DEF FrameTypeOK
  <2>4. NotFlushing /\ NotFlushing' /\ frame'[currpid'].op # "signaln"
    BY <2>1, <2>3 DEF NotFlushing
  <2> QED BY <2>1, <2>4, WaitersLive, StillStep
<1>2. CASE wakeup
  <2>1. /\ UNCHANGED <<sstate, scount, squeue>>
        /\ frame[currpid].op = "wakeup"
    BY <1>2 DEF wakeup, semVars, Inside
  <2>2. \A q \in Pids : prstate[q] = "WAIT" => prstate'[q] # "FREE"
    <3>1. AllAlike \/ \E p \in Pids : Becomes(p, Runnable)
      BY <1>2, WakeupBecomes
    <3> QED BY <3>1, RunnableLive, WaitersLive
  <2>3. ndefers = 1
    BY <2>1 DEF Inv, DeferBalanced, DeferLoops
  <2>4. NotFlushing' /\ frame'[currpid'].op # "signaln"
    <3>1. CASE frame' = frame /\ ready(Head(sleepq), ndefers, prstate, qkey)
      <4>1. currpid' = currpid
        BY <2>3, <3>1 DEF ready, resched, stay
      <4> QED BY <2>1, <3>1, <4>1 DEF NotFlushing
    <3>2. CASE deferStop
      <4>1. ndefers' = 0
        BY <2>3, <3>2 DEF deferStop
      <4> QED BY <4>1, QuietAfter
    <3> QED BY <1>2, <3>1, <3>2 DEF wakeup
  <2>5. NotFlushing
    BY <2>1 DEF NotFlushing
  <2> QED BY <2>1, <2>2, <2>4, <2>5, StillStep
<1> QED BY <1>1, <1>2

\* The parts of SemInv and of the type invariant, by entry, when no semaphore
\* is being emptied.
LEMMA SemFacts ==
    ASSUME Inv, SemInv, NotFlushing
    PROVE  /\ \A t \in Sids : Len(squeue[t]) = IF scount[t] < 0 THEN -scount[t] ELSE 0
           /\ \A t \in Sids : sstate[t] = "FREE" => squeue[t] = <<>>
           /\ scount \in [Sids -> Int] /\ squeue \in [Sids -> Seq(Pids)]
           /\ sstate \in [Sids -> {"FREE", "USED"}]
BY QuietView, InvTypes DEF SemInv, SemCountAgree, SemTypeOK

\* The same from the state after the step: it establishes SemCountAgree.
LEMMA SemFactsNext ==
    ASSUME NotFlushing',
           \A t \in Sids : /\ Len(squeue'[t]) = IF scount'[t] < 0 THEN -scount'[t] ELSE 0
                           /\ sstate'[t] = "FREE" => squeue'[t] = <<>>
    PROVE  SemCountAgree'
BY QuietViewNext DEF SemCountAgree

\* Nobody dies and nobody is born.
LEMMA LiveSame ==
    ASSUME \/ AllAlike
           \/ \E p \in Pids, V \in SUBSET (PrStates \ {"FREE"}) :
                 prstate[p] # "FREE" /\ Becomes(p, V)
    PROVE  Live' = Live
BY DEF Live, AllAlike, Becomes, Alike, Runnable

\* The permits of one semaphore change.
LEMMA PermitsChange ==
    ASSUME NEW s \in Sids, NEW n, NEW ss, NEW sc, NEW ss2, NEW sc2,
           \A t \in Sids \ {s} : ss2[t] = ss[t] /\ sc2[t] = sc[t],
           (IF ss2[s] = "USED" /\ sc2[s] > 0 THEN sc2[s] ELSE 0) = n
    PROVE  QuietPermits(ss2, sc2) = [QuietPermits(ss, sc) EXCEPT ![s] = n]
BY DEF QuietPermits

\* semcreate() opens a semaphore with the permits it is given.
LEMMA SemcreatePromise ==
    ASSUME Inv, Inv', SemInv, NEW n \in Counts, semcreate(n)
    PROVE  SemInv' /\ Promise!Next
<1> DEFINE s == newsem
<1>1. /\ UNCHANGED <<prsem, squeue, schedVars, ndefers, frame>>
      /\ frame[currpid].op = "user" /\ n >= 0 /\ s # -1
      /\ sstate' = [sstate EXCEPT ![s] = "USED"]
      /\ scount' = [scount EXCEPT ![s] = n]
  BY DEF semcreate, Caller, UserMode
<1>2. s \in Sids /\ sstate[s] = "FREE"
  BY <1>1, NewsemFacts
<1> HIDE DEF s
<1>3. n \in Nat
  <2>1. n \in Int
    BY WorkloadAssumption
  <2>2. n >= 0
    BY <1>1
  <2> QED BY <2>1, <2>2
<1>4. NotFlushing /\ NotFlushing' /\ frame'[currpid'].op = "user"
  BY <1>1 DEF NotFlushing, schedVars
<1>5. SemCountAgree'
  <2>1. ASSUME NEW t \in Sids
        PROVE  /\ Len(squeue'[t]) = IF scount'[t] < 0 THEN -scount'[t] ELSE 0
               /\ sstate'[t] = "FREE" => squeue'[t] = <<>>
    <3>1. CASE t = s
      BY <1>1, <1>2, <1>3, <1>4, <3>1, SemFacts
    <3>2. CASE t # s
      BY <1>1, <1>2, <1>4, <3>2, SemFacts
    <3> QED BY <3>1, <3>2
  <2> QED BY <1>4, <2>1, SemFactsNext
<1>6. LoopSems'
  BY <1>4 DEF LoopSems
<1>7. SemPhase' = [SemPhase EXCEPT ![s] = "open"] /\ SemPhase[s] = "closed"
  <2>1. QuietPhase(sstate') = [QuietPhase(sstate) EXCEPT ![s] = "open"]
    BY <1>1, <1>2, <1>4, SemFacts DEF QuietPhase
  <2>2. QuietPhase(sstate)[s] = "closed"
    BY <1>2 DEF QuietPhase
  <2> QED BY <1>4, <2>1, <2>2, QuietView, QuietViewNext
<1>8. SemPermits' = [SemPermits EXCEPT ![s] = n]
  <2>1. \A t \in Sids : /\ sstate'[t] = IF t = s THEN "USED" ELSE sstate[t]
                        /\ scount'[t] = IF t = s THEN n ELSE scount[t]
    BY <1>1, <1>4, SemFacts
  <2>2. (IF sstate'[s] = "USED" /\ scount'[s] > 0 THEN scount'[s] ELSE 0) = n
    BY <1>2, <1>3, <2>1
  <2>3. QuietPermits(sstate', scount') = [QuietPermits(sstate, scount) EXCEPT ![s] = n]
    BY <1>2, <2>1, <2>2, PermitsChange
  <2> QED BY <1>4, <2>3, QuietView, QuietViewNext
<1>9. Live' = Live
  BY <1>1, IdleAlike, LiveSame
<1>10. SemPermits'[s] = n
  <2>1. s \in DOMAIN SemPermits
    BY <1>2, <1>4, QuietView DEF QuietPermits
  <2> QED BY <1>8, <2>1
<1>11. Promise!Open(s, SemPermits'[s])
  BY <1>1, <1>7, <1>8, <1>9, <1>10 DEF Promise!Open
<1> QED BY <1>2, <1>3, <1>5, <1>6, <1>10, <1>11 DEF SemInv, Promise!Next

\* wait() takes a permit, or joins the line when there is none.
LEMMA WaitPromise ==
    ASSUME Inv, Inv', SemInv, NEW s \in Sids, wait(s)
    PROVE  SemInv' /\ Promise!Next
<1>1. /\ UNCHANGED <<sstate, ndefers, frame>>
      /\ frame[currpid].op = "user" /\ currpid # NULLPROC /\ sstate[s] = "USED"
      /\ frame[currpid].op \notin DeferLoops
      /\ scount' = [scount EXCEPT ![s] = scount[s] - 1]
  BY DEF wait, Caller, UserMode, DeferLoops
<1>2. ndefers = 0 /\ ndefers' = 0
  BY <1>1, InvQuiet
<1>3. NotFlushing /\ NotFlushing' /\ frame'[currpid'].op # "signaln"
  BY <1>2, QuietNotFlushing, QuietAfter
<1>4. LoopSems'
  BY <1>3 DEF LoopSems, NotFlushing
<1>5. SemPhase' = SemPhase /\ SemPhase[s] = "open"
  BY <1>1, <1>3, QuietView, QuietViewNext DEF QuietPhase
<1>6. \A t \in Sids : scount'[t] = IF t = s THEN scount[s] - 1 ELSE scount[t]
  BY <1>1, <1>3, SemFacts
<1>7. scount[s] \in Int /\ squeue[s] \in Seq(Pids) /\ currpid \in Pids
  BY <1>3, SemFacts, InvSched
<1>10. \A t \in Sids \ {s} : sstate'[t] = sstate[t] /\ scount'[t] = scount[t]
  BY <1>1, <1>6
<1>8. CASE scount[s] > 0 /\ UNCHANGED <<squeue, schedVars>>
  <2>1. SemCountAgree'
    <3>1. ASSUME NEW t \in Sids
          PROVE  /\ Len(squeue'[t]) = IF scount'[t] < 0 THEN -scount'[t] ELSE 0
                 /\ sstate'[t] = "FREE" => squeue'[t] = <<>>
      BY <1>1, <1>3, <1>6, <1>7, <1>8, SemFacts
    <3> QED BY <1>3, <3>1, SemFactsNext
  <2>2. SemPermits' = [SemPermits EXCEPT ![s] = scount[s] - 1] /\ SemPermits[s] = scount[s]
    <3>1. (IF sstate'[s] = "USED" /\ scount'[s] > 0 THEN scount'[s] ELSE 0) = scount[s] - 1
      BY <1>1, <1>6, <1>7, <1>8
    <3>2. QuietPermits(sstate', scount') = [QuietPermits(sstate, scount) EXCEPT ![s] = scount[s] - 1]
      BY <1>10, <3>1, PermitsChange
    <3>3. QuietPermits(sstate, scount)[s] = scount[s]
      BY <1>1, <1>8 DEF QuietPermits
    <3> QED BY <1>3, <3>2, <3>3, QuietView, QuietViewNext
  <2>3. Live' = Live
    BY <1>8, IdleAlike, LiveSame
  <2>4. Promise!Acquire(s)
    BY <1>5, <1>8, <2>2, <2>3 DEF Promise!Acquire
  <2> QED BY <1>4, <2>1, <2>4 DEF SemInv, Promise!Next
<1>9. CASE /\ scount[s] <= 0
           /\ squeue' = [squeue EXCEPT ![s] = enqueue(squeue[s], currpid)]
           /\ resched(ndefers, [prstate EXCEPT ![currpid] = "WAIT"], readylist, qkey, preempt)
  <2> DEFINE q == enqueue(squeue[s], currpid)
  <2>1. Len(q) = Len(squeue[s]) + 1 /\ q = Append(squeue[s], currpid)
    BY <1>7, EnqueueQueue DEF enqueue
  <2> HIDE DEF q
  <2>2. \A t \in Sids : squeue'[t] = IF t = s THEN q ELSE squeue[t]
    BY <1>3, <1>9, SemFacts DEF q
  <2>3. SemCountAgree'
    <3>1. ASSUME NEW t \in Sids
          PROVE  /\ Len(squeue'[t]) = IF scount'[t] < 0 THEN -scount'[t] ELSE 0
                 /\ sstate'[t] = "FREE" => squeue'[t] = <<>>
      <4>1. CASE t = s
        <5>1. Len(squeue[s]) = -scount[s]
          BY <1>3, <1>7, <1>9, SemFacts
        <5>2. scount'[t] = scount[s] - 1 /\ squeue'[t] = q /\ sstate'[t] = "USED"
          BY <1>1, <1>6, <2>2, <4>1
        <5> QED BY <1>7, <1>9, <2>1, <5>1, <5>2
      <4>2. CASE t # s
        BY <1>1, <1>3, <1>6, <2>2, <4>2, SemFacts
      <4> QED BY <4>1, <4>2
    <3> QED BY <1>3, <3>1, SemFactsNext
  <2>4. SemPermits' = SemPermits /\ SemPermits[s] = 0
    <3>1. (IF sstate'[s] = "USED" /\ scount'[s] > 0 THEN scount'[s] ELSE 0) = 0
      BY <1>6, <1>7, <1>9
    <3>2. QuietPermits(sstate', scount') = [QuietPermits(sstate, scount) EXCEPT ![s] = 0]
      BY <1>10, <3>1, PermitsChange
    <3>3. QuietPermits(sstate, scount)[s] = 0
      BY <1>7, <1>9 DEF QuietPermits
    <3>4. QuietPermits(sstate', scount') = QuietPermits(sstate, scount)
      BY <3>2, <3>3 DEF QuietPermits
    <3> QED BY <1>3, <3>3, <3>4, QuietView, QuietViewNext
  <2>5. Becomes(currpid, {"WAIT"}) /\ prstate[currpid] = "CURR"
    BY <1>1, <1>9, InvSched, BlockBecomes DEF Blocked
  <2>6. Live' = Live /\ currpid \in Live
    <3>1. {"WAIT"} \in SUBSET (PrStates \ {"FREE"})
      BY DEF PrStates
    <3> QED BY <1>7, <2>5, <3>1, LiveSame DEF Live
  <2>7. ~Promise!Waits(currpid)
    BY <1>7, <2>5, WaitsState
  <2>8. Promise!Queue(s, currpid)
    BY <1>5, <1>9, <2>1, <2>4, <2>6, <2>7 DEF Promise!Queue, q
  <2> QED BY <1>4, <1>7, <2>3, <2>8 DEF SemInv, Promise!Next
<1> QED BY <1>8, <1>9 DEF wait

\* One signal of a semaphore in use releases one permit: to the first in line,
\* or to the count when nobody waits.
LEMMA SignalPromise ==
    ASSUME Inv, SemInv, NEW s \in Sids, signalOnce(s), NotFlushing, NotFlushing',
           sstate[s] = "USED", sstate' = sstate
    PROVE  SemCountAgree' /\ Promise!Next
<1>1. SemPhase' = SemPhase /\ SemPhase[s] = "open"
  BY QuietView, QuietViewNext DEF QuietPhase
<1>2. \A t \in Sids : scount'[t] = IF t = s THEN scount[s] + 1 ELSE scount[t]
  BY SemFacts DEF signalOnce
<1>3. scount[s] \in Int /\ squeue[s] \in Seq(Pids)
  BY SemFacts
<1>4. CASE scount[s] >= 0 /\ UNCHANGED <<squeue, schedVars>>
  <2>1. SemCountAgree'
    <3>1. ASSUME NEW t \in Sids
          PROVE  /\ Len(squeue'[t]) = IF scount'[t] < 0 THEN -scount'[t] ELSE 0
                 /\ sstate'[t] = "FREE" => squeue'[t] = <<>>
      <4>1. squeue'[t] = squeue[t] /\ sstate'[t] = sstate[t]
        BY <1>4
      <4>2. Len(squeue'[t]) = IF scount'[t] < 0 THEN -scount'[t] ELSE 0
        <5>1. CASE t = s
          <6>1. Len(squeue[s]) = 0
            BY <1>3, <1>4, SemFacts
          <6>2. scount'[t] = scount[s] + 1
            BY <1>2, <5>1
          <6> QED BY <1>3, <1>4, <4>1, <5>1, <6>1, <6>2
        <5>2. CASE t # s
          BY <1>2, <4>1, <5>2, SemFacts
        <5> QED BY <5>1, <5>2
      <4> QED BY <4>1, <4>2, SemFacts
    <3> QED BY <3>1, SemFactsNext
  <2>2. SemPermits' = [SemPermits EXCEPT ![s] = scount[s] + 1] /\ SemPermits[s] = scount[s]
    <3>1. (IF sstate'[s] = "USED" /\ scount'[s] > 0 THEN scount'[s] ELSE 0) = scount[s] + 1
      BY <1>2, <1>3, <1>4
    <3>2. QuietPermits(sstate', scount') = [QuietPermits(sstate, scount) EXCEPT ![s] = scount[s] + 1]
      BY <1>2, <3>1, PermitsChange
    <3>3. QuietPermits(sstate, scount)[s] = scount[s]
      BY <1>3, <1>4 DEF QuietPermits
    <3> QED BY <3>2, <3>3, QuietView, QuietViewNext
  <2>3. Live' = Live
    BY <1>4, IdleAlike, LiveSame
  <2>4. Len(squeue[s]) = 0
    BY <1>3, <1>4, SemFacts
  <2>5. squeue[s] = <<>>
    BY <1>3, <2>4, EmptySeq
  <2>6. Promise!Release(s)
    BY <1>1, <1>4, <2>2, <2>3, <2>5 DEF Promise!Release
  <2> QED BY <2>1, <2>6 DEF Promise!Next
<1>5. CASE scount[s] < 0 /\ readyFirst(s)
  <2>1. Len(squeue[s]) = -scount[s] /\ squeue[s] # <<>>
    BY <1>3, <1>5, SemFacts
  <2>2. /\ squeue' = [squeue EXCEPT ![s] = Tail(squeue[s])]
        /\ Head(squeue[s]) \in Pids /\ prstate[Head(squeue[s])] = "WAIT"
        /\ Becomes(Head(squeue[s]), Runnable)
    BY <1>5, <2>1, FirstBecomes
  <2>3. Len(Tail(squeue[s])) = Len(squeue[s]) - 1
    BY <1>3, <2>1, TailQueue, InvTypes DEF SemAgree
  <2>4. \A t \in Sids : squeue'[t] = IF t = s THEN Tail(squeue[s]) ELSE squeue[t]
    BY <2>2, SemFacts
  <2>5. SemCountAgree'
    <3>1. ASSUME NEW t \in Sids
          PROVE  /\ Len(squeue'[t]) = IF scount'[t] < 0 THEN -scount'[t] ELSE 0
                 /\ sstate'[t] = "FREE" => squeue'[t] = <<>>
      <4>1. CASE t = s
        <5>1. scount'[t] = scount[s] + 1 /\ squeue'[t] = Tail(squeue[s]) /\ sstate'[t] = "USED"
          BY <1>2, <2>4, <4>1
        <5> QED BY <1>3, <1>5, <2>1, <2>3, <5>1
      <4>2. CASE t # s
        BY <1>2, <2>4, <4>2, SemFacts
      <4> QED BY <4>1, <4>2
    <3> QED BY <3>1, SemFactsNext
  <2>6. SemPermits' = SemPermits
    <3>1. (IF sstate'[s] = "USED" /\ scount'[s] > 0 THEN scount'[s] ELSE 0) = 0
      BY <1>2, <1>3, <1>5
    <3>2. QuietPermits(sstate', scount') = [QuietPermits(sstate, scount) EXCEPT ![s] = 0]
      BY <1>2, <3>1, PermitsChange
    <3>3. QuietPermits(sstate, scount)[s] = 0
      BY <1>3, <1>5 DEF QuietPermits
    <3>4. QuietPermits(sstate', scount') = QuietPermits(sstate, scount)
      BY <3>2, <3>3 DEF QuietPermits
    <3> QED BY <3>4, QuietView, QuietViewNext
  <2>7. Live' = Live
    BY <2>2, RunnableLive, LiveSame
  <2>8. Promise!Release(s)
    BY <1>1, <2>1, <2>2, <2>6, <2>7 DEF Promise!Release
  <2> QED BY <2>5, <2>8 DEF Promise!Next
<1> QED BY <1>3, <1>4, <1>5 DEF signalOnce

\* signal(), and the loop of signaln(), which is invisible until it signals.
LEMMA SignalsPromise ==
    ASSUME Inv, Inv', SemInv,
           \/ \E s \in Sids : signal(s)
           \/ \E s \in Sids, n \in Counts : signaln(s, n)
           \/ signalnLoop \/ signalnEnd
    PROVE  SemInv' /\ Promise!Next
<1>0. currpid \in Pids
  BY InvSched
<1>1. ASSUME NEW s \in Sids, signal(s) PROVE SemInv' /\ Promise!Next
  <2>1. /\ sstate' = sstate /\ ndefers' = ndefers /\ sstate[s] = "USED" /\ signalOnce(s)
        /\ frame[currpid].op \notin DeferLoops
    BY <1>1 DEF signal, Caller, UserMode, DeferLoops
  <2>2. ndefers = 0 /\ ndefers' = 0
    BY <2>1, InvQuiet
  <2>3. NotFlushing /\ NotFlushing' /\ frame'[currpid'].op # "signaln"
    BY <2>2, QuietNotFlushing, QuietAfter
  <2>4. LoopSems'
    BY <2>3 DEF LoopSems, NotFlushing
  <2> QED BY <2>1, <2>3, <2>4, SignalPromise DEF SemInv
<1>2. ASSUME NEW s \in Sids, NEW n \in Counts, signaln(s, n) PROVE SemInv' /\ Promise!Next
  <2>1. /\ UNCHANGED <<prstate, currpid, sstate, scount, squeue>> /\ sstate[s] = "USED"
        /\ frame[currpid].op = "user"
        /\ frame' = [frame EXCEPT ![currpid] = Frame("signaln", s, n)]
    BY <1>2 DEF signaln, Caller, UserMode, semVars
  <2>2. frame'[currpid].op = "signaln" /\ frame'[currpid].tgt = s
    BY <1>0, <2>1, FrameOp, InvTypes DEF FrameTypeOK
  <2>3. NotFlushing /\ NotFlushing'
    BY <2>1, <2>2 DEF NotFlushing
  <2> QED BY <2>1, <2>2, <2>3, StillStep
<1>3. CASE signalnLoop
  <2> DEFINE f == frame[currpid]
             g == [f EXCEPT !.cnt = f.cnt - 1]
  <2>1. /\ f.op = "signaln" /\ signalOnce(f.tgt)
        /\ frame' = [frame EXCEPT ![currpid] = g]
        /\ sstate' = sstate
    BY <1>3 DEF signalnLoop, Inside
  <2>2. f.tgt \in Sids /\ ndefers = 1
    BY <2>1, LoopTarget DEF SemLoops, Inv, DeferBalanced, DeferLoops
  <2>3. sstate[f.tgt] = "USED"
    BY <2>1 DEF SemInv, LoopSems
  <2>4. currpid' = currpid
    <3>1. CASE readyFirst(f.tgt)
      BY <2>2, <3>1 DEF readyFirst, ready, resched, stay, schedVars
    <3>2. CASE UNCHANGED schedVars
      BY <3>2 DEF schedVars
    <3> QED BY <2>1, <3>1, <3>2 DEF signalOnce
  <2>5. f \in FrameRecord
    BY <1>0, InvTypes DEF FrameTypeOK, FrameRecord
  <2>6. g.op = "signaln" /\ g.tgt = f.tgt
    BY <2>1, <2>5 DEF FrameRecord
  <2>7. frame'[currpid] = g
    BY <1>0, <2>1, InvTypes DEF FrameTypeOK
  <2>8. NotFlushing /\ NotFlushing'
    BY <2>1, <2>4, <2>6, <2>7 DEF NotFlushing
  <2>9. LoopSems'
    BY <2>1, <2>3, <2>4, <2>6, <2>7 DEF LoopSems
  <2> HIDE DEF f, g
  <2> QED BY <2>1, <2>2, <2>3, <2>8, <2>9, SignalPromise DEF SemInv
<1>4. CASE signalnEnd
  <2>1. /\ UNCHANGED <<sstate, scount, squeue>> /\ deferStop /\ frame[currpid].op = "signaln"
    BY <1>4 DEF signalnEnd, Inside, semVars
  <2>2. ndefers' = 0
    BY <2>1 DEF deferStop, Inv, DeferBalanced, DeferLoops
  <2>3. NotFlushing /\ NotFlushing' /\ frame'[currpid'].op # "signaln"
    BY <2>1, <2>2, QuietNotFlushing, QuietAfter
  <2>4. \A q \in Pids : prstate[q] = "WAIT" => prstate'[q] # "FREE"
    BY <2>1, StopAlike, WaitersLive
  <2> QED BY <2>1, <2>3, <2>4, StillStep
<1> QED BY <1>1, <1>2, <1>3, <1>4

\* semdelete() and semreset() close the semaphore to everybody else.
LEMMA FlushStartPromise ==
    ASSUME Inv, Inv', SemInv,
           \/ \E s \in Sids : semdelete(s)
           \/ \E s \in Sids, n \in Counts : semreset(s, n)
    PROVE  SemInv' /\ Promise!Next
<1>0. currpid \in Pids
  BY InvSched
<1>1. PICK s \in Sids :
        /\ UNCHANGED <<prstate, currpid, scount, squeue, halted>> /\ sstate[s] = "USED"
        /\ frame[currpid].op = "user" /\ ~halted
        /\ \/ /\ sstate' = [sstate EXCEPT ![s] = "FREE"]
              /\ frame' = [frame EXCEPT ![currpid] = Frame("semdelete", s, 0)]
           \/ /\ sstate' = sstate
              /\ \E n \in Counts : frame' = [frame EXCEPT ![currpid] = Frame("semreset", s, n)]
  <2>1. CASE \E s \in Sids : semdelete(s)
    BY <2>1 DEF semdelete, Caller, UserMode, tabVars
  <2>2. CASE \E s \in Sids, n \in Counts : semreset(s, n)
    BY <2>2 DEF semreset, Caller, UserMode, tabVars, semVars
  <2> QED BY <2>1, <2>2
<1>2. \/ /\ frame'[currpid].op = "semdelete" /\ frame'[currpid].tgt = s
         /\ sstate' = [sstate EXCEPT ![s] = "FREE"]
      \/ /\ frame'[currpid].op = "semreset" /\ frame'[currpid].tgt = s
         /\ sstate' = sstate
  BY <1>0, <1>1, FrameOp, InvTypes DEF FrameTypeOK
<1>3. NotFlushing /\ ~NotFlushing' /\ ~halted' /\ frame'[currpid'].tgt = s
  BY <1>1, <1>2 DEF NotFlushing
<1>4. \A t \in Sids \ {s} : sstate'[t] = sstate[t] /\ scount'[t] = scount[t]
  BY <1>1, <1>2, <1>3, SemFacts
<1>5. SemCountAgree'
  <2>1. ASSUME NEW t \in Sids
        PROVE  /\ Len(squeue'[t]) = IF scount'[t] < 0 THEN -scount'[t] ELSE 0
               /\ sstate'[t] = "FREE" /\ ~Deleting(t)' => squeue'[t] = <<>>
    <3>1. Len(squeue'[t]) = IF scount'[t] < 0 THEN -scount'[t] ELSE 0
      BY <1>1, <1>3, SemFacts
    <3>2. CASE t # s
      BY <1>1, <1>3, <1>4, <3>1, <3>2, SemFacts
    <3>3. CASE t = s /\ frame'[currpid].op = "semdelete"
      BY <1>1, <1>2, <1>3, <3>1, <3>3 DEF Deleting, Inside
    <3>4. CASE t = s /\ sstate' = sstate
      BY <1>1, <3>1, <3>4
    <3> QED BY <1>2, <3>2, <3>3, <3>4
  <2> QED BY <2>1 DEF SemCountAgree
<1>6. LoopSems'
  BY <1>1, <1>2, <1>3, SemFacts DEF LoopSems
<1>7. SemPhase' = [SemPhase EXCEPT ![s] = "flushing"] /\ SemPhase[s] = "open"
  <2>1. [QuietPhase(sstate') EXCEPT ![s] = "flushing"] = [QuietPhase(sstate) EXCEPT ![s] = "flushing"]
    BY <1>4 DEF QuietPhase
  <2>2. SemPhase' = [QuietPhase(sstate') EXCEPT ![s] = "flushing"]
    BY <1>3, FlushViewNext
  <2>3. QuietPhase(sstate)[s] = "open"
    BY <1>1 DEF QuietPhase
  <2> QED BY <1>3, <2>1, <2>2, <2>3, QuietView
<1>8. SemPermits' = [SemPermits EXCEPT ![s] = 0]
  <2>1. [QuietPermits(sstate', scount') EXCEPT ![s] = 0] = [QuietPermits(sstate, scount) EXCEPT ![s] = 0]
    BY <1>4 DEF QuietPermits
  <2>2. SemPermits' = [QuietPermits(sstate', scount') EXCEPT ![s] = 0]
    BY <1>3, FlushViewNext
  <2> QED BY <1>3, <2>1, <2>2, QuietView
<1>9. Live' = Live
  BY <1>1 DEF Live
<1>10. Promise!StartFlush(s)
  BY <1>1, <1>7, <1>8, <1>9 DEF Promise!StartFlush
<1> QED BY <1>5, <1>6, <1>10 DEF SemInv, Promise!Next

\* While it empties a semaphore the loop lets the first in line go.
LEMMA FlushPromise ==
    ASSUME Inv, SemInv, NEW s \in Sids, ~halted, ~NotFlushing, frame[currpid].tgt = s,
           readyFirst(s), squeue[s] # <<>>, UNCHANGED <<sstate, frame, halted>>,
           \/ frame[currpid].op = "semreset" /\ scount' = scount
           \/ /\ frame[currpid].op = "semdelete" /\ scount[s] < 0
              /\ scount' = [scount EXCEPT ![s] = scount[s] + 1]
    PROVE  SemInv' /\ Promise!Next
<1>1. ndefers = 1
  BY DEF Inv, DeferBalanced, DeferLoops, NotFlushing
<1>2. currpid' = currpid
  BY <1>1 DEF readyFirst, ready, resched, stay
<1>3. /\ scount \in [Sids -> Int] /\ squeue \in [Sids -> Seq(Pids)]
      /\ \A t \in Sids : Distinct(squeue[t])
  BY InvTypes DEF SemTypeOK, SemAgree
<1>4. /\ squeue' = [squeue EXCEPT ![s] = Tail(squeue[s])]
      /\ Head(squeue[s]) \in Pids /\ prstate[Head(squeue[s])] = "WAIT"
      /\ Becomes(Head(squeue[s]), Runnable)
  BY FirstBecomes
<1>5. Len(Tail(squeue[s])) = Len(squeue[s]) - 1 /\ Len(squeue[s]) \in Nat
  BY <1>3, TailQueue
<1>6. \A t \in Sids \ {s} : /\ sstate'[t] = sstate[t] /\ scount'[t] = scount[t]
                            /\ squeue'[t] = squeue[t]
  BY <1>3, <1>4
<1>7. ~NotFlushing' /\ ~halted' /\ frame'[currpid'].tgt = s /\ frame'[currpid'] = frame[currpid]
  BY <1>2 DEF NotFlushing
<1>8. SemCountAgree'
  <2>1. ASSUME NEW t \in Sids \ {s}
        PROVE  /\ Len(squeue'[t]) = IF scount'[t] < 0 THEN -scount'[t] ELSE 0
               /\ sstate'[t] = "FREE" => squeue'[t] = <<>>
    <3>1. ~Resetting(t) /\ ~Deleting(t)
      BY FlushView
    <3> QED BY <1>6, <3>1 DEF SemInv, SemCountAgree
  <2>2. CASE frame[currpid].op = "semreset"
    <3>1. Resetting(s)' /\ sstate'[s] = "USED"
      BY <1>2, <1>7, <2>2 DEF Resetting, Inside, SemInv, LoopSems
    <3> QED BY <2>1, <3>1 DEF SemCountAgree
  <2>3. CASE frame[currpid].op = "semdelete"
    <3>1. Deleting(s)' /\ ~Resetting(s)
      BY <1>2, <1>7, <2>3 DEF Deleting, Resetting, Inside
    <3>2. Len(squeue[s]) = -scount[s] /\ scount[s] < 0
      BY <2>3, <3>1 DEF SemInv, SemCountAgree
    <3>3. scount'[s] = scount[s] + 1 /\ squeue'[s] = Tail(squeue[s])
      BY <1>3, <1>4, <2>3
    <3>4. scount[s] \in Int
      BY <1>3
    <3>5. Len(squeue'[s]) = IF scount'[s] < 0 THEN -scount'[s] ELSE 0
      BY <1>5, <3>2, <3>3, <3>4
    <3> QED BY <2>1, <3>1, <3>5 DEF SemCountAgree
  <2> QED BY <2>2, <2>3
<1>9. LoopSems'
  BY <1>7 DEF SemInv, LoopSems
<1>10. SemPhase' = SemPhase /\ SemPhase[s] = "flushing"
  <2>1. SemPhase = [QuietPhase(sstate) EXCEPT ![s] = "flushing"]
    BY FlushView
  <2>2. SemPhase' = [QuietPhase(sstate') EXCEPT ![s] = "flushing"]
    BY <1>7, FlushViewNext
  <2>3. s \in DOMAIN QuietPhase(sstate)
    BY DEF QuietPhase
  <2> QED BY <2>1, <2>2, <2>3
<1>11. SemPermits' = SemPermits
  <2>1. [QuietPermits(sstate', scount') EXCEPT ![s] = 0] = [QuietPermits(sstate, scount) EXCEPT ![s] = 0]
    BY <1>6 DEF QuietPermits
  <2> QED BY <1>7, <2>1, FlushView, FlushViewNext
<1>12. Live' = Live
  BY <1>4, RunnableLive, LiveSame
<1>13. Promise!Flush(s)
  BY <1>4, <1>10, <1>11, <1>12 DEF Promise!Flush
<1> QED BY <1>8, <1>9, <1>13 DEF SemInv, Promise!Next

\* The end of the loop: the semaphore is gone, or has the new count.
LEMMA FlushEndPromise ==
    ASSUME Inv, Inv', SemInv, NEW s \in Sids, ~halted, ~NotFlushing, frame[currpid].tgt = s,
           squeue[s] = <<>>, deferStop, UNCHANGED <<sstate, squeue>>, NEW n \in Nat,
           scount' = [scount EXCEPT ![s] = n]
    PROVE  SemInv' /\ Promise!Next
<1>1. ndefers' = 0
  BY DEF deferStop, Inv, DeferBalanced, DeferLoops, NotFlushing
<1>2. NotFlushing' /\ frame'[currpid'].op # "signaln"
  BY <1>1, QuietAfter
<1>3. /\ scount \in [Sids -> Int] /\ squeue \in [Sids -> Seq(Pids)]
      /\ sstate \in [Sids -> {"FREE", "USED"}]
  BY InvTypes DEF SemTypeOK
<1>4. scount'[s] = n /\ \A t \in Sids \ {s} : sstate'[t] = sstate[t] /\ scount'[t] = scount[t]
  BY <1>3
<1>5. SemCountAgree'
  <2>1. ASSUME NEW t \in Sids
        PROVE  /\ Len(squeue'[t]) = IF scount'[t] < 0 THEN -scount'[t] ELSE 0
               /\ sstate'[t] = "FREE" => squeue'[t] = <<>>
    <3>1. CASE t = s
      BY <1>4, <3>1
    <3>2. CASE t # s
      <4>1. ~Resetting(t) /\ ~Deleting(t)
        BY <3>2, FlushView
      <4> QED BY <1>4, <3>2, <4>1 DEF SemInv, SemCountAgree
    <3> QED BY <3>1, <3>2
  <2> QED BY <1>2, <2>1, SemFactsNext
<1>6. LoopSems'
  BY <1>2 DEF LoopSems, NotFlushing
<1>7. Live' = Live
  BY StopAlike, LiveSame
<1>8. /\ SemPhase = [QuietPhase(sstate) EXCEPT ![s] = "flushing"]
      /\ SemPermits = [QuietPermits(sstate, scount) EXCEPT ![s] = 0]
      /\ SemPhase' = QuietPhase(sstate) /\ SemPermits' = QuietPermits(sstate', scount')
  BY <1>2, FlushView, QuietViewNext
<1>9. SemPhase[s] = "flushing"
  BY <1>8 DEF QuietPhase
<1>10. CASE sstate[s] = "FREE"
  <2>1. SemPhase' = [SemPhase EXCEPT ![s] = "closed"]
    BY <1>8, <1>10 DEF QuietPhase
  <2>2. (IF sstate'[s] = "USED" /\ scount'[s] > 0 THEN scount'[s] ELSE 0) = 0
    BY <1>10
  <2>3. QuietPermits(sstate', scount') = [QuietPermits(sstate, scount) EXCEPT ![s] = 0]
    BY <1>4, <2>2 DEF QuietPermits
  <2>4. SemPermits' = SemPermits
    BY <1>8, <2>3
  <2>5. SemPermits'[s] = 0
    BY <1>8, <2>4 DEF QuietPermits
  <2>6. Promise!EndFlush(s, SemPermits'[s])
    BY <1>7, <1>9, <2>1, <2>4 DEF Promise!EndFlush
  <2> QED BY <1>5, <1>6, <2>5, <2>6 DEF SemInv, Promise!Next
<1>11. CASE sstate[s] = "USED"
  <2>1. SemPhase' = [SemPhase EXCEPT ![s] = "open"]
    BY <1>8, <1>11 DEF QuietPhase
  <2>2. (IF sstate'[s] = "USED" /\ scount'[s] > 0 THEN scount'[s] ELSE 0) = n
    BY <1>4, <1>11
  <2>3. QuietPermits(sstate', scount') = [QuietPermits(sstate, scount) EXCEPT ![s] = n]
    BY <1>4, <2>2 DEF QuietPermits
  <2>4. SemPermits' = [SemPermits EXCEPT ![s] = n]
    BY <1>8, <2>3 DEF QuietPermits
  <2>5. SemPermits'[s] = n
    BY <1>8, <2>4 DEF QuietPermits
  <2>6. Promise!EndFlush(s, SemPermits'[s])
    BY <1>7, <1>9, <2>1, <2>4, <2>5 DEF Promise!EndFlush
  <2> QED BY <1>5, <1>6, <2>5, <2>6 DEF SemInv, Promise!Next
<1> QED BY <1>3, <1>10, <1>11

\* The loops of semdelete() and semreset().
LEMMA FlushLoopPromise ==
    ASSUME Inv, Inv', SemInv, semdeleteLoop \/ semresetLoop
    PROVE  SemInv' /\ Promise!Next
<1> DEFINE s == frame[currpid].tgt
<1>1. /\ ~halted /\ ~NotFlushing /\ frame[currpid].op \in SemLoops
      /\ UNCHANGED <<sstate, halted>>
  BY DEF semdeleteLoop, semresetLoop, Inside, NotFlushing, SemLoops, tabVars
<1>2. s \in Sids /\ frame[currpid].cnt \in Nat
  BY <1>1, InvTypes, InvSched DEF FrameTypeOK
<1>3. scount \in [Sids -> Int] /\ squeue \in [Sids -> Seq(Pids)]
  BY InvTypes DEF SemTypeOK
<1>4. CASE semdeleteLoop
  <2>1. /\ frame[currpid].op = "semdelete"
        /\ scount' = [scount EXCEPT ![s] = scount[s] + 1]
    BY <1>4 DEF semdeleteLoop, Inside
  <2>2. Len(squeue[s]) = IF scount[s] < 0 THEN -scount[s] ELSE 0
    BY <1>2, <2>1 DEF SemInv, SemCountAgree, Resetting, Inside
  <2>3. CASE scount[s] < 0 /\ readyFirst(s) /\ UNCHANGED <<ndefers, frame>>
    <3>1. squeue[s] # <<>>
      BY <1>2, <1>3, <2>2, <2>3
    <3> QED BY <1>1, <1>2, <2>1, <2>3, <3>1, FlushPromise
  <2>4. CASE scount[s] >= 0 /\ deferStop /\ UNCHANGED squeue
    <3>1. Len(squeue[s]) = 0 /\ squeue[s] \in Seq(Pids) /\ scount[s] \in Int
      BY <1>2, <1>3, <2>2, <2>4
    <3>2. squeue[s] = <<>> /\ scount[s] + 1 \in Nat
      BY <2>4, <3>1, EmptySeq
    <3> HIDE DEF s
    <3> QED BY <1>1, <1>2, <2>1, <2>4, <3>2, FlushEndPromise DEF s
  <2> QED BY <1>4, <2>3, <2>4 DEF semdeleteLoop
<1>5. CASE semresetLoop
  <2>1. frame[currpid].op = "semreset"
    BY <1>5 DEF semresetLoop, Inside
  <2>2. CASE squeue[s] # <<>> /\ readyFirst(s) /\ UNCHANGED <<scount, ndefers, frame>>
    BY <1>1, <1>2, <2>1, <2>2, FlushPromise
  <2>3. CASE /\ squeue[s] = <<>> /\ deferStop /\ UNCHANGED squeue
             /\ scount' = [scount EXCEPT ![s] = frame[currpid].cnt]
    BY <1>1, <1>2, <2>3, FlushEndPromise
  <2> QED BY <1>5, <2>2, <2>3 DEF semresetLoop
<1> QED BY <1>4, <1>5

\* Every step of the kernel keeps SemInv and is a step of FifoSemaphore.
LEMMA NextPromise == ASSUME Inv, Inv', SemInv, [Next]_vars PROVE SemInv' /\ Promise!Next
<1>1. CASE SystemCall
  BY <1>1, InvSched, ProcPromise, MsgClkPromise, SemcreatePromise, WaitPromise, SignalsPromise,
     FlushStartPromise DEF SystemCall
<1>2. CASE Continue
  BY <1>2, KillEndPromise, MsgClkPromise, ClkPromise, SignalsPromise, FlushLoopPromise
  DEF Continue
<1>3. CASE clkhandler
  BY <1>3, ClkPromise
<1>4. CASE UNCHANGED vars
  <2>1. /\ UNCHANGED <<sstate, scount, squeue, halted, frame, currpid>> /\ AllAlike
    BY <1>4 DEF vars, semVars, tabVars, schedVars, AllAlike, Alike
  <2>2. SemInv'
    BY <2>1 DEF SemInv, SemCountAgree, LoopSems, Resetting, Deleting, Inside
  <2>3. SemPhase' = SemPhase /\ SemPermits' = SemPermits /\ squeue' = squeue
    BY <2>1 DEF SemPhase, SemPermits, Resetting, Deleting, Inside
  <2>4. Live' = Live /\ Live \subseteq Pids
    BY <2>1, LiveSame DEF Live
  <2>5. Promise!Lifecycle
    BY <2>3, <2>4 DEF Promise!Lifecycle
  <2> QED BY <2>2, <2>5 DEF Promise!Next
<1> QED BY <1>1, <1>2, <1>3, <1>4 DEF Next, halt

\* The initial state has no semaphore.
LEMMA InitSem == ASSUME Init PROVE SemInv /\ Promise!Init
<1>1. frame[currpid].op = "user"
  <2>1. frame = [p \in Pids |-> UserFrame] /\ currpid \in Pids
    BY DEF Init, Pids
  <2> QED BY <2>1, FrameOp
<1>2. SemCountAgree
  BY DEF Init, SemCountAgree
<1>3. LoopSems
  BY <1>1 DEF LoopSems
<1>4. NotFlushing
  BY <1>1 DEF NotFlushing
<1>5. SemPhase = [s \in Sids |-> "closed"] /\ SemPermits = [s \in Sids |-> 0]
  BY <1>4, QuietView DEF Init, QuietPhase, QuietPermits
<1>6. squeue = [s \in Sids |-> <<>>] /\ Live \subseteq Pids
  BY DEF Init, Live
<1> QED BY <1>2, <1>3, <1>5, <1>6 DEF SemInv, Promise!Init

\* The count of a semaphore and the length of its queue agree in every state
\* the kernel can reach, except for the semaphore that semreset() is emptying.
THEOREM SemaphoreCounts == Spec => []SemCountAgree
<1>1. Init => SemInv
  BY InitSem
<1>2. Inv /\ Inv' /\ SemInv /\ [Next]_vars => SemInv'
  BY NextPromise
<1>3. SemInv => SemCountAgree
  BY DEF SemInv
<1> QED
  BY <1>1, <1>2, <1>3, KernelInvariant, PTL DEF Spec

\* The kernel implements the abstract first-come, first-served semaphores,
\* for any number of processes and semaphores and every workload: each step
\* maps to a step of FifoSemaphore, under SemPhase, SemPermits and Live.
THEOREM ImplementsFifoSemaphore == Spec => SemaphorePromise
<1>1. Init => SemInv /\ Promise!Init
  BY InitSem
<1>2. Inv /\ Inv' /\ SemInv /\ [Next]_vars => SemInv' /\ [Promise!Next]_(Promise!absVars)
  BY NextPromise
<1> QED
  BY <1>1, <1>2, KernelInvariant, PTL DEF Spec, SemaphorePromise, Promise!Spec

-----------------------------------------------------------------------------
(* Priorities.  HighestPriorityRuns is not inductive: it says nothing of   *)
(* the states inside the kernel, and resched() compares keys, which must   *)
(* be the priorities of the ready processes.                               *)

\* The ready list rl with keys k is in the order of the priorities pr.
InOrder(pr, rl, k) ==
    /\ \A i \in 1 .. Len(rl) : k[rl[i]] = pr[rl[i]]
    /\ \A i, j \in 1 .. Len(rl) : i <= j => pr[rl[i]] >= pr[rl[j]]

\* No process on rl has a higher priority than c.
Tops(pr, c, rl) == \A i \in 1 .. Len(rl) : pr[rl[i]] <= pr[c]

\* The ready list is ordered, and the current process is at least as important
\* as the first on it unless a resched() is being held back.
PrioInv ==
    /\ InOrder(prprio, readylist, qkey)
    /\ ndefers = 0 \/ ~attempt => Tops(prprio, currpid, readylist)

\* insert() with this key stops at the i-th place of q.
StopsAt(i, q, k, key) ==
    /\ i = Len(q) + 1 \/ k[q[i]] < key
    /\ \A j \in 1 .. i - 1 : ~(k[q[j]] < key)

\* Where insert() stops.
LEMMA InsertPosFacts ==
    ASSUME NEW q \in Seq(Pids), NEW k, NEW key
    PROVE  /\ insertPos(q, k, key) \in 1 .. Len(q) + 1
           /\ StopsAt(insertPos(q, k, key), q, k, key)
<1> DEFINE P(n) == n = Len(q) + 1 \/ k[q[n]] < key
           S == {n \in 1 .. Len(q) + 1 : P(n)}
           Q(n) == P(n) /\ \A j \in 1 .. n - 1 : ~(k[q[j]] < key)
<1>1. Len(q) \in Nat
  OBVIOUS
<1>2. S \in SUBSET Nat /\ Len(q) + 1 \in S
  BY <1>1
<1>3. PICK m \in S : \A n \in S : m <= n
  <2> HIDE DEF S
  <2> QED BY <1>2, LeastNat
<1>4. \A j \in 1 .. m - 1 : ~P(j)
  BY <1>1, <1>2, <1>3
<1>5. m \in 1 .. Len(q) + 1 /\ Q(m)
  BY <1>3, <1>4
<1> DEFINE c == CHOOSE n \in 1 .. Len(q) + 1 : Q(n)
<1>6. c \in 1 .. Len(q) + 1 /\ Q(c)
  <2> HIDE DEF Q
  <2> QED BY <1>5
<1>7. insertPos(q, k, key) = c
  BY DEF insertPos
<1> HIDE DEF c
<1> QED BY <1>6, <1>7 DEF StopsAt

\* insert() keeps the list in order, wherever it stops.
LEMMA InsertAtOrder ==
    ASSUME NEW pr \in [Pids -> Int], NEW q \in Seq(Pids), NEW p \in Pids, NEW k,
           DOMAIN k = Pids, ~On(p, q), InOrder(pr, q, k),
           NEW i \in 1 .. Len(q) + 1, StopsAt(i, q, k, pr[p])
    PROVE  InOrder(pr, InsertAt(q, i, p), [k EXCEPT ![p] = pr[p]])
<1>0. /\ InsertAt(q, i, p) \in Seq(Pids)
      /\ Len(InsertAt(q, i, p)) = Len(q) + 1
      /\ \A j \in 1 .. Len(q) + 1 :
            InsertAt(q, i, p)[j] = IF j < i THEN q[j] ELSE IF j = i THEN p ELSE q[j - 1]
  BY InsertAtFacts
<1> DEFINE r  == InsertAt(q, i, p)
           k2 == [k EXCEPT ![p] = pr[p]]
<1>1. /\ i \in 1 .. Len(q) + 1
      /\ i = Len(q) + 1 \/ k[q[i]] < pr[p]
      /\ \A j \in 1 .. i - 1 : ~(k[q[j]] < pr[p])
  BY DEF StopsAt
<1>2. /\ r \in Seq(Pids)
      /\ Len(r) = Len(q) + 1
      /\ \A j \in 1 .. Len(q) + 1 : r[j] = IF j < i THEN q[j] ELSE IF j = i THEN p ELSE q[j - 1]
  BY <1>0
<1>3. /\ Len(r) = Len(q) + 1
      /\ \A j \in 1 .. Len(q) + 1 : r[j] = IF j < i THEN q[j] ELSE IF j = i THEN p ELSE q[j - 1]
  BY <1>2
<1>4. Len(q) \in Nat /\ i \in Nat
  BY <1>1
<1>5. /\ \A j \in 1 .. Len(q) : q[j] \in Pids /\ q[j] # p /\ k[q[j]] = pr[q[j]] /\ pr[q[j]] \in Int
      /\ pr[p] \in Int
  BY DEF On, InOrder
<1>6. \A j \in 1 .. Len(q) : k2[q[j]] = pr[q[j]]
  BY <1>5
<1>7. k2[p] = pr[p]
  BY DOMAIN k = Pids
<1> HIDE DEF k2, r
<1>8. \A j \in 1 .. Len(r) : k2[r[j]] = pr[r[j]]
  <2> SUFFICES ASSUME NEW j \in 1 .. Len(r) PROVE k2[r[j]] = pr[r[j]]
    OBVIOUS
  <2>1. CASE j < i
    BY SMTT(30), <1>3, <1>4, <1>6, <2>1
  <2>2. CASE j = i
    BY <1>3, <1>4, <1>7, <2>2
  <2>3. CASE j > i
    <3>1. j - 1 \in 1 .. Len(q) /\ r[j] = q[j - 1]
      BY <1>3, <1>4, <2>3
    <3> QED BY <1>6, <3>1
  <2> QED BY <1>4, <2>1, <2>2, <2>3
<1>9. \A j \in 1 .. i - 1 : pr[q[j]] >= pr[p]
  BY <1>1, <1>4, <1>5
<1>10. \A a, b \in 1 .. Len(q) : a <= b => pr[q[a]] >= pr[q[b]]
  BY DEF InOrder
<1>11. \A j \in i .. Len(q) : pr[p] >= pr[q[j]]
  <2> SUFFICES ASSUME NEW j \in i .. Len(q) PROVE pr[p] >= pr[q[j]]
    OBVIOUS
  <2>1. i \in 1 .. Len(q) /\ j \in 1 .. Len(q) /\ i <= j
    BY <1>1, <1>4
  <2>2. pr[q[i]] < pr[p]
    BY <1>1, <1>4, <1>5, <2>1
  <2>3. pr[q[i]] >= pr[q[j]]
    BY <1>10, <2>1
  <2> QED BY <1>5, <2>1, <2>2, <2>3
<1>12. ASSUME NEW a \in 1 .. Len(r), NEW b \in 1 .. Len(r), a <= b PROVE pr[r[a]] >= pr[r[b]]
  <2>1. CASE a = i /\ b = i
    BY <1>3, <1>5, <2>1
  <2>2. CASE a = i /\ b # i
    <3>1. r[a] = p /\ r[b] = q[b - 1] /\ b - 1 \in i .. Len(q)
      BY <1>3, <1>4, <1>12, <2>2
    <3> QED BY <1>11, <3>1
  <2>3. CASE a # i /\ b = i
    <3>1. r[a] = q[a] /\ r[b] = p /\ a \in 1 .. i - 1
      BY <1>3, <1>4, <1>12, <2>3
    <3> QED BY <1>9, <3>1
  <2>4. CASE a # i /\ b # i
    <3> DEFINE f(c) == IF c < i THEN c ELSE c - 1
    <3>1. /\ f(a) \in 1 .. Len(q) /\ f(b) \in 1 .. Len(q) /\ f(a) <= f(b)
          /\ r[a] = q[f(a)] /\ r[b] = q[f(b)]
      BY SMTT(30), <1>1, <1>3, <1>4, <1>12, <2>4
    <3> HIDE DEF f
    <3> QED BY <1>10, <3>1
  <2> QED BY <2>1, <2>2, <2>3, <2>4
<1>13. InOrder(pr, r, k2)
  BY <1>8, <1>12 DEF InOrder
<1> QED BY <1>13 DEF r, k2

\* insert() keeps the list in order.
LEMMA InsertOrder ==
    ASSUME NEW pr \in [Pids -> Int], NEW q \in Seq(Pids), NEW p \in Pids, NEW k,
           DOMAIN k = Pids, ~On(p, q), InOrder(pr, q, k)
    PROVE  InOrder(pr, insert(p, q, k, pr[p]), [k EXCEPT ![p] = pr[p]])
  BY InsertPosFacts, InsertAtOrder DEF insert

\* So does taking a process from its place.
LEMMA GetitemOrder ==
    ASSUME NEW pr, NEW q \in Seq(Pids), NEW p \in Pids, NEW k, On(p, q), InOrder(pr, q, k)
    PROVE  /\ InOrder(pr, getitem(q, p), k)
           /\ \A c : Tops(pr, c, q) => Tops(pr, c, getitem(q, p))
<1> DEFINE i == CHOOSE j \in 1 .. Len(q) : q[j] = p
           r == getitem(q, p)
<1>1. i \in 1 .. Len(q)
  BY DEF On
<1>2. r = RemoveAt(q, i)
  BY DEF getitem
<1> HIDE DEF i, r
<1>3. /\ Len(r) = Len(q) - 1
      /\ \A j \in 1 .. Len(q) - 1 : r[j] = IF j < i THEN q[j] ELSE q[j + 1]
  BY SMTT(30), <1>1, <1>2, RemoveAtFacts
<1> DEFINE f(c) == IF c < i THEN c ELSE c + 1
<1>4. \A j \in 1 .. Len(r) : f(j) \in 1 .. Len(q) /\ r[j] = q[f(j)]
  BY <1>1, <1>3
<1>5. \A a, b \in 1 .. Len(r) : a <= b => f(a) <= f(b)
  BY <1>1, <1>3
<1> HIDE DEF f
<1>6. InOrder(pr, r, k)
  BY SMTT(30), <1>4, <1>5 DEF InOrder
<1>7. \A c : Tops(pr, c, q) => Tops(pr, c, r)
  BY <1>4 DEF Tops
<1> QED BY <1>6, <1>7 DEF r

\* dequeue() of the ready list finds the highest priority.
LEMMA HeadTops ==
    ASSUME NEW pr, NEW q \in Seq(Pids), NEW k, q # <<>>, InOrder(pr, q, k)
    PROVE  InOrder(pr, Tail(q), k) /\ Tops(pr, Head(q), Tail(q))
<1>1. Len(q) \in Nat /\ Len(q) > 0
  BY EmptySeq
<1>2. Head(q) = q[1]
  BY <1>1
<1> DEFINE r == Tail(q)
<1>3. Len(r) = Len(q) - 1 /\ \A j \in 1 .. Len(q) - 1 : r[j] = q[j + 1]
  BY <1>1, HeadTailProperties
<1> HIDE DEF r
<1>4. \A j \in 1 .. Len(r) : j + 1 \in 1 .. Len(q) /\ r[j] = q[j + 1] /\ 1 <= j + 1
  BY <1>1, <1>3
<1>5. 1 \in 1 .. Len(q)
  BY <1>1
<1>6. InOrder(pr, r, k)
  BY SMTT(30), <1>1, <1>3, <1>4 DEF InOrder
<1>7. \A j \in 1 .. Len(r) : pr[q[1]] >= pr[q[j + 1]]
  BY <1>4, <1>5 DEF InOrder
<1>8. Tops(pr, q[1], r)
  BY <1>4, <1>7 DEF Tops
<1> QED BY <1>2, <1>6, <1>8 DEF r

\* resched() keeps the order and, when it is not deferred, leaves the highest
\* priority running; when it is, it records the attempt.
LEMMA ReschedOrder ==
    ASSUME NEW nd \in Nat, NEW st, NEW rl \in Seq(Pids), NEW k, NEW pre,
           prprio \in [Pids -> Int],
           currpid \in Pids, DOMAIN k = Pids, ~On(currpid, rl),
           rl # <<>> \/ st[currpid] = "CURR",
           InOrder(prprio, rl, k), resched(nd, st, rl, k, pre)
    PROVE  /\ InOrder(prprio, readylist', qkey')
           /\ nd = 0 => Tops(prprio, currpid', readylist')
           /\ nd > 0 => attempt'
<1>1. CASE nd > 0 /\ attempt' = TRUE /\ stay(st, rl, k, pre)
  BY <1>1 DEF stay
<1>2. CASE nd = 0 /\ prprio[currpid] > firstkey(rl, k) /\ stay(st, rl, k, pre)
  <2>1. readylist' = rl /\ qkey' = k /\ currpid' = currpid
    BY <1>2 DEF stay
  <2>2. Tops(prprio, currpid, rl)
    <3>1. CASE rl = <<>>
      BY <3>1 DEF Tops
    <3>2. CASE rl # <<>>
      <4>1. Len(rl) \in Nat /\ Len(rl) > 0
        BY <3>2, EmptySeq
      <4>2. firstkey(rl, k) = prprio[rl[1]] /\ 1 \in 1 .. Len(rl)
        BY <3>2, <4>1 DEF firstkey, InOrder
      <4>3. \A i \in 1 .. Len(rl) : prprio[rl[1]] >= prprio[rl[i]] /\ prprio[rl[i]] \in Int
        BY <4>1, <4>2 DEF InOrder
      <4> QED BY <1>2, <4>2, <4>3 DEF Tops
    <3> QED BY <3>1, <3>2
  <2> QED BY <1>2, <2>1, <2>2
<1>3. CASE /\ nd = 0
           /\ switch([st EXCEPT ![currpid] = "READY"],
                     insert(currpid, rl, k, prprio[currpid]),
                     [k EXCEPT ![currpid] = prprio[currpid]])
  <2> DEFINE rl2 == insert(currpid, rl, k, prprio[currpid])
             k2  == [k EXCEPT ![currpid] = prprio[currpid]]
  <2>0. rl2 \in Seq(Pids) /\ rl2 # <<>>
    BY InsertQueue
  <2>1. InOrder(prprio, rl2, k2)
    BY InsertOrder
  <2>2. currpid' = Head(rl2) /\ readylist' = Tail(rl2) /\ qkey' = k2
    BY <1>3 DEF switch
  <2> HIDE DEF rl2, k2
  <2>3. InOrder(prprio, Tail(rl2), k2) /\ Tops(prprio, Head(rl2), Tail(rl2))
    BY <2>0, <2>1, HeadTops
  <2>4. nd = 0
    BY <1>3
  <2> QED BY <2>2, <2>3, <2>4
<1>4. CASE nd = 0 /\ st[currpid] # "CURR" /\ switch(st, rl, k)
  <2>1. currpid' = Head(rl) /\ readylist' = Tail(rl) /\ qkey' = k
    BY <1>4 DEF switch
  <2> QED BY <1>4, <2>1, HeadTops
<1> QED BY <1>1, <1>2, <1>3, <1>4 DEF resched

\* The keys k are those of the ready processes.
SameKeys(k) == DOMAIN k = Pids /\ \A x \in Pids : On(x, readylist) => k[x] = qkey[x]

\* Keys that are the same for the ready processes are in the same order.
LEMMA SameOrder ==
    ASSUME Inv, PrioInv, NEW k, SameKeys(k)
    PROVE  InOrder(prprio, readylist, k)
<1>1. \A i \in 1 .. Len(readylist) : readylist[i] \in Pids /\ On(readylist[i], readylist)
  BY InvSched DEF SchedReady, On
<1>2. \A i \in 1 .. Len(readylist) : k[readylist[i]] = qkey[readylist[i]]
  BY <1>1 DEF SameKeys
<1> QED BY <1>2 DEF PrioInv, InOrder

\* A step that touches neither the ready list nor the runnable processes.
LEMMA OthersPrio ==
    ASSUME Inv, PrioInv, readylist' = readylist, currpid' = currpid,
           \A x \in Pids : On(x, readylist) \/ x = currpid => prprio'[x] = prprio[x],
           \A x \in Pids : On(x, readylist) => qkey'[x] = qkey[x],
           ndefers' = 0 \/ ~attempt' => ndefers = 0 \/ ~attempt
    PROVE  PrioInv'
<1>1. /\ \A i \in 1 .. Len(readylist) : readylist[i] \in Pids /\ On(readylist[i], readylist)
      /\ currpid \in Pids
  BY InvSched DEF SchedReady, On
<1>2. \A i \in 1 .. Len(readylist) : /\ prprio'[readylist[i]] = prprio[readylist[i]]
                                    /\ qkey'[readylist[i]] = qkey[readylist[i]]
  BY <1>1
<1>3. InOrder(prprio', readylist, qkey')
  BY <1>2 DEF PrioInv, InOrder
<1>4. Tops(prprio, currpid, readylist) => Tops(prprio', currpid, readylist)
  BY <1>1, <1>2 DEF Tops
<1> QED BY <1>3, <1>4 DEF PrioInv

\* A resched() called with an ordered ready list.
LEMMA DonePrio ==
    ASSUME Inv, NEW nd \in Nat, NEW st, NEW rl \in Seq(Pids), NEW k, NEW pre,
           DOMAIN k = Pids, ~On(currpid, rl), rl # <<>> \/ st[currpid] = "CURR",
           InOrder(prprio, rl, k), resched(nd, st, rl, k, pre), prprio' = prprio, ndefers' = nd
    PROVE  PrioInv'
<1>1. prprio \in [Pids -> Int] /\ currpid \in Pids
  BY InvSched, InvTypes DEF TabTypeOK
<1>2. /\ InOrder(prprio, readylist', qkey')
      /\ nd = 0 => Tops(prprio, currpid', readylist')
      /\ nd > 0 => attempt'
  BY <1>1, ReschedOrder
<1> QED BY <1>2 DEF PrioInv

\* resched() with the ready list as it is.
LEMMA BlockPrio ==
    ASSUME Inv, PrioInv, NEW st, NEW k, NEW pre, SameKeys(k),
           currpid # NULLPROC \/ st[currpid] = "CURR",
           resched(ndefers, st, readylist, k, pre), UNCHANGED <<prprio, ndefers>>
    PROVE  PrioInv'
<1>1. ~On(currpid, readylist) /\ readylist \in Seq(Pids) /\ ndefers \in Nat
  BY InvSched DEF SchedReady
<1>2. currpid # NULLPROC => readylist # <<>>
  <2>1. currpid # NULLPROC => On(NULLPROC, readylist)
    BY InvSched, NullPid DEF SchedReady
  <2> QED BY <2>1 DEF On
<1>3. DOMAIN k = Pids /\ InOrder(prprio, readylist, k)
  BY SameOrder DEF SameKeys
<1> QED BY <1>1, <1>2, <1>3, DonePrio

\* The keys themselves.
LEMMA SameSelf == ASSUME Inv PROVE SameKeys(qkey)
BY InvSched DEF SameKeys

\* ready() of a blocked process.
LEMMA ReadyPrio ==
    ASSUME Inv, PrioInv, NEW p \in Pids, prstate[p] \in Blocked, NEW k, SameKeys(k),
           ready(p, ndefers, prstate, k), UNCHANGED <<prprio, ndefers>>
    PROVE  PrioInv'
<1> DEFINE st == [prstate EXCEPT ![p] = "READY"]
           rl == insert(p, readylist, k, prprio[p])
           k2 == [k EXCEPT ![p] = prprio[p]]
<1>1. /\ ~On(p, readylist) /\ readylist \in Seq(Pids) /\ ~On(currpid, readylist)
      /\ currpid # p /\ currpid \in Pids /\ ndefers \in Nat /\ DOMAIN k = Pids
  BY InvSched DEF SchedReady, Blocked, SameKeys
<1>2. prprio \in [Pids -> Int] /\ InOrder(prprio, readylist, k)
  BY InvTypes, SameOrder DEF TabTypeOK
<1>3. InOrder(prprio, rl, k2)
  BY <1>1, <1>2, InsertOrder
<1>4. rl \in Seq(Pids) /\ rl # <<>> /\ ~On(currpid, rl)
  BY <1>1, InsertQueue
<1>5. DOMAIN k2 = Pids
  BY <1>1
<1>6. resched(ndefers, st, rl, k2, preempt)
  BY DEF ready
<1> HIDE DEF st, rl, k2
<1> QED BY <1>1, <1>3, <1>4, <1>5, <1>6, DonePrio

\* unsleep() and insertd() change the keys of sleepers and of their caller.
LEMMA UnsleepSame ==
    ASSUME Inv, NEW p \in Pids, On(p, sleepq)
    PROVE  SameKeys(unsleepKeys(p, sleepq, qkey))
<1> DEFINE i == CHOOSE j \in 1 .. Len(sleepq) : sleepq[j] = p
<1>1. i \in 1 .. Len(sleepq) /\ sleepq \in Seq(Pids) /\ DOMAIN qkey = Pids
  BY InvSched, InvTypes DEF On, ClkTypeOK
<1>2. DOMAIN unsleepKeys(p, sleepq, qkey) = Pids
  BY <1>1, UnsleepDomain
<1>3. unsleepKeys(p, sleepq, qkey) = IF i = Len(sleepq) THEN qkey
                ELSE [qkey EXCEPT ![sleepq[i + 1]] = int32(@ + qkey[p])]
  BY DEF unsleepKeys
<1> HIDE DEF i
<1>4. i # Len(sleepq) => i + 1 \in 1 .. Len(sleepq)
  BY <1>1
<1>5. i # Len(sleepq) => sleepq[i + 1] \in Pids /\ ~On(sleepq[i + 1], readylist)
  <2> SUFFICES ASSUME i # Len(sleepq) PROVE sleepq[i + 1] \in Pids /\ ~On(sleepq[i + 1], readylist)
    OBVIOUS
  <2>1. sleepq[i + 1] \in Pids /\ On(sleepq[i + 1], sleepq)
    BY <1>1, <1>4 DEF On
  <2> QED BY <2>1, InvSched, InvTypes DEF SchedReady, SleepAgree
<1> QED BY <1>1, <1>2, <1>3, <1>5 DEF SameKeys

\* See UnsleepSame.
LEMMA InsertdSame ==
    ASSUME Inv, NEW key
    PROVE  SameKeys(insertdKeys(currpid, sleepq, qkey, key))
<1> DEFINE i == insertdPos(sleepq, qkey, key)
           d == remaining(sleepq, qkey, key)[i - 1]
<1>1. /\ sleepq \in Seq(Pids) /\ DOMAIN qkey = Pids /\ currpid \in Pids
      /\ ~On(currpid, readylist)
  BY InvSched, InvTypes DEF ClkTypeOK, SchedReady
<1>2. DOMAIN insertdKeys(currpid, sleepq, qkey, key) = Pids
  BY <1>1, InsertdDomain
<1>3. i \in 1 .. Len(sleepq) + 1
  BY <1>1, InsertdPosRange
<1>4. insertdKeys(currpid, sleepq, qkey, key) =
        IF i = Len(sleepq) + 1
        THEN [qkey EXCEPT ![currpid] = d]
        ELSE [qkey EXCEPT ![currpid] = d, ![sleepq[i]] = int32(@ - d)]
  BY DEF insertdKeys
<1> HIDE DEF i, d
<1>5. i # Len(sleepq) + 1 => sleepq[i] \in Pids /\ ~On(sleepq[i], readylist)
  <2> SUFFICES ASSUME i # Len(sleepq) + 1 PROVE sleepq[i] \in Pids /\ ~On(sleepq[i], readylist)
    OBVIOUS
  <2>1. sleepq[i] \in Pids /\ On(sleepq[i], sleepq)
    BY <1>1, <1>3 DEF On
  <2> QED BY <2>1, InvSched, InvTypes DEF SchedReady, SleepAgree
<1> QED BY <1>1, <1>2, <1>4, <1>5 DEF SameKeys

\* The end of a deferring loop does the resched() that was held back.
LEMMA StopPrio ==
    ASSUME Inv, PrioInv, ndefers = 1, deferStop, prprio' = prprio
    PROVE  PrioInv'
<1>1. ndefers' = 0
  BY DEF deferStop
<1>2. CASE attempt
  <2>1. resched(0, prstate, readylist, qkey, preempt)
    BY <1>2 DEF deferStop
  <2>2. /\ ~On(currpid, readylist) /\ readylist \in Seq(Pids) /\ prstate[currpid] = "CURR"
        /\ DOMAIN qkey = Pids
    BY InvSched DEF SchedReady
  <2>3. InOrder(prprio, readylist, qkey)
    BY DEF PrioInv
  <2> QED BY <1>1, <2>1, <2>2, <2>3, DonePrio
<1>3. CASE ~attempt
  BY <1>1, <1>3, OthersPrio DEF deferStop, schedVars
<1> QED BY <1>2, <1>3

\* The start of one: the current process has the CPU by right.
LEMMA StartPrio ==
    ASSUME Inv, PrioInv, ndefers = 0, deferStart, readylist' = readylist, currpid' = currpid,
           prprio' = prprio, SameKeys(qkey')
    PROVE  PrioInv'
BY OthersPrio DEF deferStart, SameKeys

\* A step that leaves the scheduler alone.
LEMMA IdlePrio ==
    ASSUME Inv, PrioInv, UNCHANGED <<schedVars, ndefers, prprio>>
    PROVE  PrioInv'
BY OthersPrio DEF schedVars

\* A ready process is taken off the list.
LEMMA GetitemPrio ==
    ASSUME Inv, PrioInv, NEW p \in Pids, prstate[p] = "READY",
           readylist' = getitem(readylist, p),
           UNCHANGED <<qkey, currpid, attempt, ndefers, prprio>>
    PROVE  PrioInv'
<1>1. readylist \in Seq(Pids) /\ On(p, readylist)
  BY InvSched DEF SchedReady
<1>2. InOrder(prprio, readylist, qkey)
  BY DEF PrioInv
<1>3. /\ InOrder(prprio, getitem(readylist, p), qkey)
      /\ \A c : Tops(prprio, c, readylist) => Tops(prprio, c, getitem(readylist, p))
  BY <1>1, <1>2, GetitemOrder
<1> QED BY <1>3 DEF PrioInv

\* ready(dequeue(squeue)).
LEMMA FirstPrio ==
    ASSUME Inv, PrioInv, NEW s \in Sids, readyFirst(s), UNCHANGED <<ndefers, prprio>>
    PROVE  PrioInv'
<1>1. CASE squeue[s] = <<>>
  BY <1>1, IdlePrio DEF readyFirst
<1>2. CASE squeue[s] # <<>>
  <2>1. ready(Head(squeue[s]), ndefers, prstate, qkey)
    BY <1>2 DEF readyFirst
  <2>2. squeue[s] \in Seq(Pids) /\ Distinct(squeue[s])
    BY InvTypes DEF SemTypeOK, SemAgree
  <2>3. Head(squeue[s]) \in Pids /\ On(Head(squeue[s]), squeue[s])
    BY <1>2, <2>2, TailQueue
  <2>4. prstate[Head(squeue[s])] = "WAIT"
    BY <2>3, InvTypes DEF SemAgree
  <2> QED BY <2>1, <2>3, <2>4, SameSelf, ReadyPrio DEF Blocked
<1> QED BY <1>1, <1>2

\* One signal.
LEMMA SignalPrio ==
    ASSUME Inv, PrioInv, NEW s \in Sids, signalOnce(s), UNCHANGED <<ndefers, prprio>>
    PROVE  PrioInv'
BY FirstPrio, IdlePrio DEF signalOnce

\* send(), from a user process or from kill().
LEMMA SendPrio ==
    ASSUME Inv, PrioInv, NEW p \in Pids, NEW msg, sendTo(p, msg), UNCHANGED <<ndefers, prprio>>
    PROVE  PrioInv'
<1>1. CASE UNCHANGED schedVars
  BY <1>1, IdlePrio
<1>2. CASE prstate[p] = "RECV" /\ ready(p, ndefers, prstate, qkey)
  BY <1>2, SameSelf, ReadyPrio DEF Blocked
<1>3. CASE prstate[p] = "RECTIM" /\ ready(p, ndefers, prstate, unsleepKeys(p, sleepq, qkey))
  <2>1. On(p, sleepq)
    BY <1>3, InvTypes DEF SleepAgree
  <2> DEFINE k == unsleepKeys(p, sleepq, qkey)
  <2>2. SameKeys(k)
    BY <2>1, UnsleepSame
  <2> HIDE DEF k
  <2>3. ready(p, ndefers, prstate, k)
    BY <1>3 DEF k
  <2> QED BY <1>3, <2>2, <2>3, ReadyPrio DEF Blocked
<1> QED BY <1>1, <1>2, <1>3 DEF sendTo

\* A deferring loop has deferred once; elsewhere nothing is deferred.
LEMMA DeferCount ==
    ASSUME Inv
    PROVE  /\ frame[currpid].op \in DeferLoops => ndefers = 1
           /\ frame[currpid].op \notin DeferLoops => ndefers = 0
BY DEF Inv, DeferBalanced

\* The calls of the process manager keep PrioInv.
LEMMA ProcPrio ==
    ASSUME Inv, PrioInv,
           \/ \E x \in Prios : create(x) \/ createFails(x)
           \/ \E p \in Pids : suspend(p) \/ resume(p) \/ kill(p)
           \/ yield
           \/ killEnd
    PROVE  PrioInv'
<1>1. ASSUME NEW x \in Prios, create(x) PROVE PrioInv'
  <2>1. newpid \in Pids /\ prstate[newpid] = "FREE"
    BY <1>1, NewpidFacts DEF create
  <2>2. ~On(newpid, readylist) /\ newpid # currpid /\ currpid \in Pids
    BY <2>1, InvSched DEF SchedReady
  <2>3. \A y \in Pids \ {newpid} : prprio'[y] = prprio[y]
    BY <1>1, InvTypes DEF create, TabTypeOK
  <2>4. UNCHANGED <<readylist, qkey, currpid, attempt, ndefers>>
    BY <1>1 DEF create
  <2> QED BY <2>2, <2>3, <2>4, OthersPrio
<1>2. CASE \E x \in Prios : createFails(x)
  BY <1>2, IdlePrio DEF createFails
<1>3. ASSUME NEW p \in Pids, suspend(p) PROVE PrioInv'
  <2> DEFINE st == [prstate EXCEPT ![p] = "SUSP"]
  <2>1. currpid # NULLPROC /\ UNCHANGED <<prprio, ndefers>>
    BY <1>3 DEF suspend, Caller, tabVars
  <2>2. CASE prstate[p] = "READY" /\ readylist' = getitem(readylist, p)
             /\ UNCHANGED <<qkey, currpid, preempt, attempt>>
    BY <2>1, <2>2, GetitemPrio
  <2>3. CASE resched(ndefers, st, readylist, qkey, preempt)
    <3> HIDE DEF st
    <3> QED BY <2>1, <2>3, SameSelf, BlockPrio
  <2> QED BY <1>3, <2>2, <2>3 DEF suspend
<1>4. ASSUME NEW p \in Pids, resume(p) PROVE PrioInv'
  BY <1>4, SameSelf, ReadyPrio DEF resume, resumable, tabVars, Blocked
<1>5. ASSUME NEW p \in Pids, kill(p) PROVE PrioInv'
  <2>1. UNCHANGED <<prprio, ndefers>> /\ prparent[p] \in Pids
    BY <1>5, InvTypes DEF kill, TabTypeOK
  <2>2. UNCHANGED schedVars \/ sendTo(prparent[p], p)
    BY <1>5 DEF kill
  <2> QED BY <2>1, <2>2, IdlePrio, SendPrio
<1>6. CASE yield
  BY <1>6, SameSelf, BlockPrio DEF yield, Caller, tabVars
<1>7. CASE killEnd
  <2> DEFINE p  == frame[currpid].tgt
             st == [prstate EXCEPT ![p] = "FREE"]
             k  == unsleepKeys(p, sleepq, qkey)
  <2>1. UNCHANGED <<prprio, ndefers>> /\ frame[currpid].op = "kill"
    BY <1>7 DEF killEnd, Inside
  <2>2. p \in Pids \ {NULLPROC}
    BY <2>1, InvSched, InvTypes DEF FrameTypeOK
  <2>3. CASE prstate[p] = "CURR" /\ resched(ndefers, st, readylist, qkey, preempt)
    <3>1. currpid # NULLPROC
      BY <2>2, <2>3, InvTypes DEF ReadyAgree
    <3> HIDE DEF st
    <3> QED BY <2>1, <2>3, <3>1, SameSelf, BlockPrio
  <2>4. CASE prstate[p] \in {"SLEEP", "RECTIM"} /\ qkey' = k
             /\ UNCHANGED <<readylist, currpid, preempt, attempt>>
    <3>1. On(p, sleepq)
      BY <2>2, <2>4, InvTypes DEF SleepAgree
    <3>2. SameKeys(k)
      BY <2>2, <3>1, UnsleepSame
    <3>3. \A x \in Pids : On(x, readylist) => qkey'[x] = qkey[x]
      BY <2>4, <3>2 DEF SameKeys
    <3> HIDE DEF k, p
    <3> QED BY <2>1, <2>4, <3>3, OthersPrio
  <2>5. CASE prstate[p] = "READY" /\ readylist' = getitem(readylist, p)
             /\ UNCHANGED <<qkey, currpid, preempt, attempt>>
    <3> HIDE DEF p
    <3> QED BY <2>1, <2>2, <2>5, GetitemPrio
  <2>6. CASE UNCHANGED <<readylist, qkey, currpid, preempt, attempt>>
    BY <2>1, <2>6, OthersPrio
  <2> QED BY <1>7, <2>3, <2>4, <2>5, <2>6 DEF killEnd
<1> QED BY <1>1, <1>2, <1>3, <1>4, <1>5, <1>6, <1>7

\* So do the semaphore calls.
LEMMA SemPrio ==
    ASSUME Inv, PrioInv,
           \/ \E n \in Counts : semcreate(n)
           \/ \E s \in Sids : wait(s) \/ signal(s) \/ semdelete(s)
           \/ \E s \in Sids, n \in Counts : signaln(s, n) \/ semreset(s, n)
           \/ signalnLoop \/ signalnEnd \/ semdeleteLoop \/ semresetLoop
    PROVE  PrioInv'
<1>1. CASE \E n \in Counts : semcreate(n)
  BY <1>1, IdlePrio DEF semcreate, tabVars
<1>2. ASSUME NEW s \in Sids, wait(s) PROVE PrioInv'
  <2>1. currpid # NULLPROC /\ UNCHANGED <<prprio, ndefers>>
    BY <1>2 DEF wait, Caller, tabVars
  <2>2. CASE UNCHANGED schedVars
    BY <2>1, <2>2, IdlePrio
  <2>3. CASE resched(ndefers, [prstate EXCEPT ![currpid] = "WAIT"], readylist, qkey, preempt)
    <3> DEFINE st == [prstate EXCEPT ![currpid] = "WAIT"]
    <3> HIDE DEF st
    <3>1. resched(ndefers, st, readylist, qkey, preempt)
      BY <2>3 DEF st
    <3> QED BY <2>1, <3>1, SameSelf, BlockPrio
  <2> QED BY <1>2, <2>2, <2>3 DEF wait
<1>3. ASSUME NEW s \in Sids, signal(s) PROVE PrioInv'
  BY <1>3, SignalPrio DEF signal, tabVars
<1>4. ASSUME Caller, deferStart, UNCHANGED <<readylist, qkey, currpid, tabVars>> PROVE PrioInv'
  <2>1. ndefers = 0
    BY <1>4, DeferCount DEF Caller, UserMode, DeferLoops
  <2>2. SameKeys(qkey')
    BY <1>4, SameSelf DEF SameKeys
  <2> QED BY <1>4, <2>1, <2>2, StartPrio DEF tabVars
<1>5. CASE \/ \E s \in Sids : semdelete(s)
           \/ \E s \in Sids, n \in Counts : signaln(s, n) \/ semreset(s, n)
  BY <1>4, <1>5 DEF semdelete, signaln, semreset
<1>6. ASSUME frame[currpid].op \in SemLoops PROVE ndefers = 1 /\ frame[currpid].tgt \in Sids
  BY <1>6, LoopTarget, DeferCount DEF SemLoops, DeferLoops
<1>7. CASE signalnLoop
  BY <1>6, <1>7, SignalPrio DEF signalnLoop, Inside, SemLoops, tabVars
<1>8. CASE signalnEnd
  BY <1>6, <1>8, StopPrio DEF signalnEnd, Inside, SemLoops, tabVars
<1>9. CASE semdeleteLoop
  BY <1>6, <1>9, FirstPrio, StopPrio DEF semdeleteLoop, Inside, SemLoops, tabVars
<1>10. CASE semresetLoop
  BY <1>6, <1>10, FirstPrio, StopPrio DEF semresetLoop, Inside, SemLoops, tabVars
<1> QED BY <1>1, <1>2, <1>3, <1>5, <1>7, <1>8, <1>9, <1>10

\* So do the messages and the clock.
LEMMA ClockPrio ==
    ASSUME Inv, PrioInv,
           \/ \E p \in Pids, msg \in Msgs : send(p, msg)
           \/ receive \/ recvclr \/ receiveEnd \/ recvtimeEnd
           \/ \E t \in RecvWaits : recvtime(t)
           \/ \E t \in Delays : sleepms(t)
           \/ clkhandler \/ wakeup \/ clkPreempt
    PROVE  PrioInv'
<1>1. CASE \E p \in Pids, msg \in Msgs : send(p, msg)
  BY <1>1, SendPrio DEF send, tabVars
<1>2. CASE recvclr \/ receiveEnd \/ recvtimeEnd
  BY <1>2, IdlePrio DEF recvclr, receiveEnd, recvtimeEnd, tabVars
<1>3. ASSUME Caller, UNCHANGED <<tabVars, ndefers>>, NEW v, NEW k, SameKeys(k),
             resched(ndefers, [prstate EXCEPT ![currpid] = v], readylist, k, preempt)
      PROVE  PrioInv'
  <2> DEFINE st == [prstate EXCEPT ![currpid] = v]
  <2>1. resched(ndefers, st, readylist, k, preempt)
    BY <1>3
  <2> HIDE DEF st
  <2> QED BY <1>3, <2>1, BlockPrio DEF Caller, tabVars
<1>4. CASE receive
  BY <1>3, <1>4, SameSelf, IdlePrio DEF receive, tabVars
<1>5. ASSUME NEW t \in RecvWaits, recvtime(t) PROVE PrioInv'
  <2> DEFINE k == insertdKeys(currpid, sleepq, qkey, t)
  <2>1. SameKeys(k)
    BY InsertdSame
  <2>2. Caller /\ UNCHANGED <<tabVars, ndefers>>
    BY <1>5 DEF recvtime
  <2>3. \/ UNCHANGED schedVars
        \/ resched(ndefers, [prstate EXCEPT ![currpid] = "RECTIM"], readylist, k, preempt)
    BY <1>5 DEF recvtime
  <2> HIDE DEF k
  <2> QED BY <1>3, <2>1, <2>2, <2>3, IdlePrio DEF tabVars
<1>6. ASSUME NEW t \in Delays, sleepms(t) PROVE PrioInv'
  <2> DEFINE k == insertdKeys(currpid, sleepq, qkey, int32(t))
  <2>1. SameKeys(k)
    BY InsertdSame
  <2>2. Caller /\ UNCHANGED <<tabVars, ndefers>>
    BY <1>6 DEF sleepms
  <2>3. \/ resched(ndefers, prstate, readylist, qkey, preempt)
        \/ resched(ndefers, [prstate EXCEPT ![currpid] = "SLEEP"], readylist, k, preempt)
    BY <1>6 DEF sleepms
  <2> HIDE DEF k
  <2> QED BY <1>3, <2>1, <2>2, <2>3, SameSelf, BlockPrio DEF Caller, tabVars
<1>7. CASE clkhandler
  <2>1. UNCHANGED <<readylist, currpid, prprio>> /\ ndefers = 0
    BY <1>7, DeferCount DEF clkhandler, tabVars, UserMode, DeferLoops
  <2>2. \A x \in Pids : On(x, readylist) => qkey'[x] = qkey[x]
    <3>1. CASE sleepq = <<>>
      BY <1>7, <3>1 DEF clkhandler
    <3>2. CASE sleepq # <<>>
      <4>1. Head(sleepq) \in Pids /\ On(Head(sleepq), sleepq)
        BY <3>2, InvTypes, TailQueue DEF ClkTypeOK, SleepAgree
      <4>2. ~On(Head(sleepq), readylist)
        BY <4>1, InvSched, InvTypes DEF SchedReady, SleepAgree
      <4>3. qkey' = [qkey EXCEPT ![Head(sleepq)] = int32(@ - 1)]
        BY <1>7, <3>2 DEF clkhandler
      <4> QED BY <4>2, <4>3, InvSched
    <3> QED BY <3>1, <3>2
  <2> QED BY <2>1, <2>2, OthersPrio
<1>8. CASE wakeup
  <2>1. prprio' = prprio /\ ndefers = 1
    BY <1>8, DeferCount DEF wakeup, Inside, DeferLoops, tabVars
  <2>2. CASE expired(sleepq, qkey) /\ ready(Head(sleepq), ndefers, prstate, qkey) /\ ndefers' = ndefers
    <3>1. Head(sleepq) \in Pids /\ On(Head(sleepq), sleepq)
      BY <2>2, InvTypes, TailQueue DEF ClkTypeOK, SleepAgree, expired
    <3>2. prstate[Head(sleepq)] \in Blocked
      BY <3>1, InvTypes DEF SleepAgree, Blocked
    <3> QED BY <2>1, <2>2, <3>1, <3>2, SameSelf, ReadyPrio
  <2>3. CASE deferStop
    BY <2>1, <2>3, StopPrio
  <2> QED BY <1>8, <2>2, <2>3 DEF wakeup
<1>9. CASE clkPreempt
  <2>1. UNCHANGED <<prprio, ndefers>>
    BY <1>9 DEF clkPreempt, tabVars
  <2>2. CASE resched(ndefers, prstate, readylist, qkey, QUANTUM)
    BY <2>1, <2>2, InvSched, SameSelf, BlockPrio
  <2>3. CASE UNCHANGED <<prstate, readylist, qkey, currpid, attempt>>
    BY <2>1, <2>3, OthersPrio
  <2> QED BY <1>9, <2>2, <2>3 DEF clkPreempt
<1> QED BY <1>1, <1>2, <1>4, <1>5, <1>6, <1>7, <1>8, <1>9

\* Every step but chprio() keeps the ready list ordered and the CPU with the
\* highest priority.
LEMMA NextPrio == ASSUME "chprio" \notin Calls, Inv, PrioInv, [Next]_vars PROVE PrioInv'
<1>1. CASE SystemCall
  BY <1>1, InvSched, ProcPrio, SemPrio, ClockPrio DEF SystemCall
<1>2. CASE Continue
  BY <1>2, ProcPrio, SemPrio, ClockPrio DEF Continue
<1>3. CASE clkhandler
  BY <1>3, ClockPrio
<1>4. CASE UNCHANGED vars
  BY <1>4, IdlePrio DEF vars, tabVars
<1> QED BY <1>1, <1>2, <1>3, <1>4 DEF Next, halt

\* In user mode the ready list is ordered and the current process has the
\* highest priority.
LEMMA PrioImplies == ASSUME Inv, PrioInv PROVE HighestPriorityRuns
<1> SUFFICES ASSUME UserMode PROVE
       /\ \A i \in 1 .. Len(readylist) : prprio[readylist[i]] <= prprio[currpid]
       /\ \A i \in 1 .. Len(readylist) - 1 : prprio[readylist[i]] >= prprio[readylist[i + 1]]
  BY DEF HighestPriorityRuns
<1>1. ndefers = 0 /\ Len(readylist) \in Nat
  BY DeferCount, InvSched DEF UserMode, DeferLoops, SchedReady
<1>2. Tops(prprio, currpid, readylist) /\ InOrder(prprio, readylist, qkey)
  BY <1>1 DEF PrioInv
<1>3. \A i \in 1 .. Len(readylist) - 1 : i \in 1 .. Len(readylist) /\ i + 1 \in 1 .. Len(readylist) /\ i <= i + 1
  BY <1>1
<1> QED BY <1>2, <1>3 DEF Tops, InOrder

\* The highest priority runs: whatever processes do, with rescheduling deferred
\* inside signaln(), semdelete(), semreset() and wakeup(), user code only runs
\* in a process that no ready process precedes, and the ready list is ordered.
\* The condition is needed: chprio() of a ready process leaves it where it is
\* on the list, and neither it nor chprio() of the current process reschedules.
THEOREM HighestPriority == ASSUME "chprio" \notin Calls PROVE Spec => []HighestPriorityRuns
<1>1. Init => PrioInv
  <2> SUFFICES ASSUME Init PROVE PrioInv
    OBVIOUS
  <2>1. readylist = <<NULLPROC>> /\ currpid = 1 /\ 0 \in Pids /\ 1 \in Pids /\ NULLPROC = 0
    BY DEF Init, Pids, NULLPROC
  <2>2. prprio[0] = 0 /\ qkey[0] = 0 /\ prprio[1] = INITPRIO
    BY <2>1 DEF Init
  <2>3. Len(readylist) = 1 /\ readylist[1] = 0
    BY <2>1
  <2> QED BY <2>1, <2>2, <2>3 DEF PrioInv, InOrder, Tops
<1>2. Inv /\ PrioInv /\ [Next]_vars => PrioInv'
  BY NextPrio
<1>3. Inv /\ PrioInv => HighestPriorityRuns
  BY PrioImplies
<1> QED BY <1>1, <1>2, <1>3, KernelInvariant, PTL DEF Spec

-----------------------------------------------------------------------------
(* The process table.  kill() calls send(), which may switch to a parent   *)
(* that waits for the message before the victim is taken out of the table: *)
(* any number of kill() calls may be under way, one in each process.       *)
(* Unless KillAgain they do not meet.                                      *)

Killing(q) == frame[q].op = "kill"

\* The kill() calls under way are apart: each has a victim of its own, which is
\* in the table, and only a process that kills itself is both.
KillsApart ==
    /\ \A q \in Live : Killing(q) => frame[q].tgt \in Live \ {NULLPROC}
    /\ \A q, r \in Live : Killing(q) /\ Killing(r) /\ frame[q].tgt = frame[r].tgt => q = r
    /\ \A q \in Live : Killing(q) /\ Killing(frame[q].tgt) => frame[q].tgt = q

TableInv == KillsApart /\ ProcessesAccounted

\* The process table is finite.
LEMMA LiveFinite ==
    /\ IsFiniteSet(Live) /\ Live \subseteq Pids /\ Cardinality(Live) \in Nat
    /\ IsFiniteSet(Live \ Dying) /\ Cardinality(Live \ Dying) \in Nat
<1>1. IsFiniteSet(Pids)
  BY FS_Interval DEF Pids
<1>2. Live \in SUBSET Pids /\ (Live \ Dying) \in SUBSET Pids
  BY DEF Live
<1> QED BY <1>1, <1>2, FS_Subset, FS_CardinalityType

\* A step in which nobody is born or dies, and nobody enters or leaves kill(),
\* keeps the account of the table.
LEMMA CalmTable ==
    ASSUME TableInv, ~halted, Live' = Live,
           \A p \in Pids : frame'[p] = frame[p] \/ (~Killing(p) /\ ~Killing(p)'),
           UNCHANGED <<prstkbase, prcount, halted>>, stkfree' \subseteq stkfree
    PROVE  TableInv'
<1>1. Live \subseteq Pids
  BY DEF Live
<1>2. \A q \in Live : Killing(q)' <=> Killing(q)
  BY <1>1 DEF Killing
<1>3. \A q \in Live : Killing(q) => frame'[q].tgt = frame[q].tgt
  BY <1>1
<1>4. Dying' = Dying
  BY <1>2, <1>3 DEF Dying, Killing
<1>5. KillsApart'
  <2>1. \A q \in Live : Killing(q) => frame[q].tgt \in Live \ {NULLPROC}
    BY DEF TableInv, KillsApart
  <2>2. \A q, r \in Live : Killing(q) /\ Killing(r) /\ frame[q].tgt = frame[r].tgt => q = r
    BY DEF TableInv, KillsApart
  <2>3. \A q \in Live : Killing(q) /\ Killing(frame[q].tgt) => frame[q].tgt = q
    BY DEF TableInv, KillsApart
  <2>4. \A q \in Live' : Killing(q)' => frame'[q].tgt \in Live' \ {NULLPROC}
    BY <1>2, <1>3, <2>1
  <2>5. \A q, r \in Live' : Killing(q)' /\ Killing(r)' /\ frame'[q].tgt = frame'[r].tgt => q = r
    BY <1>2, <1>3, <2>2
  <2>6. \A q \in Live' : Killing(q)' /\ Killing(frame[q].tgt)' => frame'[q].tgt = q
    BY <1>2, <1>3, <2>1, <2>3
  <2> QED BY <1>2, <1>3, <2>4, <2>5, <2>6 DEF KillsApart, Killing
<1>6. PrcountExact' /\ HaltOnlyWhenLast' /\ StackSafe'
  BY <1>4 DEF TableInv, ProcessesAccounted, PrcountExact, HaltOnlyWhenLast, StackSafe
<1> QED BY <1>5, <1>6 DEF TableInv, ProcessesAccounted

\* A frame other than that of kill() is entered or left.
LEMMA FrameKill ==
    ASSUME Inv, ~Killing(currpid), NEW f, f.op # "kill", frame' = [frame EXCEPT ![currpid] = f]
    PROVE  \A p \in Pids : frame'[p] = frame[p] \/ (~Killing(p) /\ ~Killing(p)')
BY FrameValue, InvSched DEF Killing

\* create() puts one process into the table, on a stack nobody uses.
LEMMA CreateTable == ASSUME Inv, TableInv, NEW x \in Prios, create(x) PROVE TableInv'
<1> DEFINE c == newpid
           g == getstk
<1>1. c \in Pids /\ prstate[c] = "FREE"
  BY NewpidFacts DEF create
<1>2. g \in stkfree
  BY GetstkFacts DEF create
<1>3. /\ ~halted /\ halted' = halted /\ prcount' = prcount + 1 /\ stkfree' = stkfree \ {g}
  BY DEF create, Caller, UserMode
<1>4. prstkbase' = [prstkbase EXCEPT ![c] = g] /\ prstate' = [prstate EXCEPT ![c] = "SUSP"]
      /\ frame' = [frame EXCEPT ![c] = UserFrame]
  BY DEF create
<1> HIDE DEF c, g
<1>5. /\ \A p \in Pids : prstkbase'[p] = IF p = c THEN g ELSE prstkbase[p]
      /\ \A p \in Pids : prstate'[p] = IF p = c THEN "SUSP" ELSE prstate[p]
  BY <1>1, <1>4, InvSched, InvTypes DEF SchedReady, TabTypeOK
<1>6. \A p \in Pids : frame'[p] = IF p = c THEN UserFrame ELSE frame[p]
  BY <1>1, <1>4, FrameValue
<1>7. Live' = Live \cup {c} /\ c \notin Live /\ Live \subseteq Pids
  BY <1>1, <1>5 DEF Live
<1>8. \A q \in Live : frame'[q] = frame[q]
  BY <1>6, <1>7
<1>9. frame'[c].op # "kill"
  BY <1>1, <1>6, FrameOp DEF Killing
<1>10. /\ \A q \in Live : Killing(q) => frame[q].tgt \in Live \ {NULLPROC}
       /\ \A q, r \in Live : Killing(q) /\ Killing(r) /\ frame[q].tgt = frame[r].tgt => q = r
       /\ \A q \in Live : Killing(q) /\ Killing(frame[q].tgt) => frame[q].tgt = q
  BY DEF TableInv, KillsApart
<1>11. \A q \in Live' : frame'[q].op = "kill" => q \in Live /\ Killing(q) /\ frame'[q] = frame[q]
  BY <1>7, <1>8, <1>9 DEF Killing
<1>12. KillsApart'
  <2>1. \A q \in Live' : frame'[q].op = "kill" => frame'[q].tgt \in Live' \ {NULLPROC}
    BY <1>7, <1>10, <1>11
  <2>2. \A q, r \in Live' : frame'[q].op = "kill" /\ frame'[r].op = "kill"
                              /\ frame'[q].tgt = frame'[r].tgt => q = r
    BY <1>10, <1>11
  <2>3. \A q \in Live' : frame'[q].op = "kill" /\ frame'[frame'[q].tgt].op = "kill"
                            => frame'[q].tgt = q
    BY <1>7, <1>10, <1>11
  <2> QED BY <2>1, <2>2, <2>3 DEF KillsApart, Killing
<1>13. Dying' = Dying /\ c \notin Dying
  <2>1. \A q \in Live : Killing(q) => frame'[q].op = "kill" /\ q \in Live'
    BY <1>7, <1>8 DEF Killing
  <2>2. Dying' = Dying
    BY <1>8, <1>11, <2>1 DEF Dying, Killing
  <2>3. Dying \subseteq Live
    BY <1>10 DEF Dying, Killing
  <2> QED BY <1>7, <2>2, <2>3
<1>14. PrcountExact'
  <2> DEFINE L == Live \ Dying
  <2>1. IsFiniteSet(L) /\ c \notin L /\ Live' \ Dying' = L \cup {c}
    BY <1>7, <1>13, LiveFinite
  <2>2. prcount = Cardinality(L)
    BY <1>3 DEF TableInv, ProcessesAccounted, PrcountExact
  <2> HIDE DEF L
  <2>3. Cardinality(L \cup {c}) = Cardinality(L) + 1
    BY <2>1, FS_AddElement
  <2> QED BY <1>3, <2>1, <2>2, <2>3 DEF PrcountExact
<1>15. \A p \in Live \ {NULLPROC} : /\ prstkbase[p] \notin stkfree
                                   /\ \A q \in Live \ {NULLPROC, p} : prstkbase[p] # prstkbase[q]
  BY <1>3 DEF TableInv, ProcessesAccounted, StackSafe
<1>16. StackSafe'
  <2> SUFFICES ASSUME NEW p \in Live' \ {NULLPROC}
               PROVE  /\ prstkbase'[p] \notin stkfree'
                      /\ \A q \in Live' \ {NULLPROC, p} : prstkbase'[p] # prstkbase'[q]
    BY DEF StackSafe
  <2>1. \A q \in Live \ {NULLPROC} : prstkbase[q] # g
    BY <1>2, <1>15
  <2>2. CASE p = c
    <3>1. prstkbase'[p] = g /\ \A q \in Live : prstkbase'[q] = prstkbase[q]
      BY <1>1, <1>5, <1>7, <2>2
    <3>2. \A q \in Live' \ {NULLPROC, p} : q \in Live \ {NULLPROC}
      BY <1>7, <2>2
    <3> QED BY <1>3, <2>1, <3>1, <3>2
  <2>3. CASE p # c
    <3>1. p \in Live \ {NULLPROC} /\ prstkbase'[p] = prstkbase[p]
      BY <1>5, <1>7, <2>3
    <3>2. ASSUME NEW q \in Live' \ {NULLPROC, p} PROVE prstkbase'[p] # prstkbase'[q]
      <4>1. CASE q = c
        BY <1>1, <1>5, <2>1, <3>1, <4>1
      <4>2. CASE q # c
        <5>1. q \in Live \ {NULLPROC, p} /\ prstkbase'[q] = prstkbase[q]
          BY <1>5, <1>7, <4>2
        <5> QED BY <1>15, <3>1, <5>1
      <4> QED BY <4>1, <4>2
    <3> QED BY <1>3, <1>15, <3>1, <3>2
  <2> QED BY <2>2, <2>3
<1>17. HaltOnlyWhenLast'
  BY <1>3 DEF HaltOnlyWhenLast
<1> QED BY <1>12, <1>14, <1>16, <1>17 DEF TableInv, ProcessesAccounted

\* kill(), to the return of send(), which may switch to the parent, or the halt
\* of the system.  MayKill keeps this call apart from those under way.
LEMMA KillTable ==
    ASSUME KillAgain = FALSE, Inv, TableInv, NEW p \in Pids, MayKill(p), kill(p)
    PROVE  TableInv'
<1>1. /\ ~halted /\ prcount' = prcount - 1 /\ UNCHANGED <<prstkbase, stkfree>>
      /\ ~Killing(currpid) /\ p \in Live \ {NULLPROC}
  BY DEF kill, Caller, UserMode, killable, isbadpid, Live, Killing
<1>2. p \notin Dying /\ currpid \notin Dying /\ ~Killing(p)
  BY DEF MayKill, Killing
<1>3. currpid \in Live /\ NULLPROC \in Live /\ Live \subseteq Pids
  BY NullPid, InvSched DEF Live, SchedReady
<1>4. prcount = Cardinality(Live \ Dying)
  BY <1>1 DEF TableInv, ProcessesAccounted, PrcountExact
<1>5. /\ \A q \in Live : Killing(q) => frame[q].tgt \in Live \ {NULLPROC}
      /\ \A q, r \in Live : Killing(q) /\ Killing(r) /\ frame[q].tgt = frame[r].tgt => q = r
      /\ \A q \in Live : Killing(q) /\ Killing(frame[q].tgt) => frame[q].tgt = q
  BY DEF TableInv, KillsApart
<1>6. CASE lastProcess(prcount') /\ halted' = TRUE /\ UNCHANGED <<frame, schedVars>>
  <2>1. Live' = Live /\ Dying' = Dying
    BY <1>6 DEF Live, Dying, schedVars
  <2>2. KillsApart'
    BY <1>6, <2>1 DEF TableInv, KillsApart, Killing
  <2>3. HaltOnlyWhenLast'
    <3> DEFINE L == Live \ Dying
    <3>1. NULLPROC \in L
      BY <1>3, <1>5 DEF Dying, Killing
    <3>2. Live' \ (Dying' \cup {NULLPROC}) = L \ {NULLPROC}
      BY <2>1
    <3>3. IsFiniteSet(L) /\ Cardinality(L) \in Nat /\ prcount = Cardinality(L)
      BY <1>4, LiveFinite
    <3> HIDE DEF L
    <3>4. Cardinality(L \ {NULLPROC}) = Cardinality(L) - 1
      BY <3>1, <3>3, FS_RemoveElement
    <3> QED BY <1>1, <1>6, <3>2, <3>3, <3>4 DEF HaltOnlyWhenLast, lastProcess
  <2>4. PrcountExact' /\ StackSafe'
    BY <1>6 DEF PrcountExact, StackSafe
  <2> QED BY <2>2, <2>3, <2>4 DEF TableInv, ProcessesAccounted
<1>7. CASE /\ halted' = halted /\ frame' = [frame EXCEPT ![currpid] = Frame("kill", p, 0)]
           /\ sendTo(prparent[p], p)
  <2>1. Live' = Live
    <3>1. prparent[p] \in Pids
      BY InvTypes DEF TabTypeOK
    <3>2. \/ AllAlike
          \/ prstate[prparent[p]] \in {"RECV", "RECTIM"} /\ Becomes(prparent[p], Runnable)
      BY <1>7, <3>1, SendBecomes
    <3> QED BY <3>1, <3>2, RunnableLive, LiveSame
  <2>2. \A q \in Pids : frame'[q] = IF q = currpid THEN Frame("kill", p, 0) ELSE frame[q]
    BY <1>3, <1>7, FrameValue
  <2>3. frame'[currpid].op = "kill" /\ frame'[currpid].tgt = p
    BY <1>3, <2>2, FrameOp
  <2>4. \A q \in Live \ {currpid} : frame'[q] = frame[q]
    BY <1>3, <2>2
  <2>5. \A q \in Live : Killing(q) => frame[q].tgt # p /\ frame[q].tgt # currpid
    BY <1>2 DEF Dying, Killing
  <2>6. KillsApart'
    <3>1. ASSUME NEW q \in Live, frame'[q].op = "kill"
          PROVE  \/ q = currpid /\ frame'[q].tgt = p
                 \/ /\ q # currpid /\ frame'[q] = frame[q] /\ Killing(q)
                    /\ frame[q].tgt \in Live \ {NULLPROC, currpid, p}
      BY <1>5, <2>3, <2>4, <2>5, <3>1 DEF Killing
    <3>2. \A q \in Live : frame'[q].op = "kill" => frame'[q].tgt \in Live \ {NULLPROC}
      BY <1>1, <3>1
    <3>3. \A q, r \in Live : frame'[q].op = "kill" /\ frame'[r].op = "kill"
                               /\ frame'[q].tgt = frame'[r].tgt => q = r
      BY <1>5, <3>1
    <3>4. ASSUME NEW q \in Live, frame'[q].op = "kill", frame'[frame'[q].tgt].op = "kill"
          PROVE  frame'[q].tgt = q
      <4>1. CASE q = currpid /\ frame'[q].tgt = p
        <5>1. p # currpid => frame'[p] = frame[p]
          BY <1>1, <2>4
        <5> QED BY <1>2, <3>4, <4>1, <5>1 DEF Killing
      <4>2. CASE /\ q # currpid /\ frame'[q] = frame[q] /\ Killing(q)
                 /\ frame[q].tgt \in Live \ {NULLPROC, currpid, p}
        <5>1. Killing(frame[q].tgt)
          BY <2>4, <3>4, <4>2 DEF Killing
        <5> QED BY <1>5, <4>2, <5>1
      <4> QED BY <3>1, <3>4, <4>1, <4>2
    <3> QED BY <2>1, <3>2, <3>3, <3>4 DEF KillsApart, Killing
  <2>7. Dying' = Dying \cup {p}
    <3>1. ASSUME NEW t \in Dying' PROVE t \in Dying \cup {p}
      <4>1. PICK q \in Live : frame'[q].op = "kill" /\ t = frame'[q].tgt
        BY <2>1, <3>1 DEF Dying
      <4>2. CASE q = currpid
        BY <2>3, <4>1, <4>2
      <4>3. CASE q # currpid
        BY <2>4, <4>1, <4>3 DEF Dying
      <4> QED BY <4>2, <4>3
    <3>2. ASSUME NEW t \in Dying PROVE t \in Dying'
      <4>1. PICK q \in Live : frame[q].op = "kill" /\ t = frame[q].tgt
        BY <3>2 DEF Dying
      <4>2. frame'[q] = frame[q]
        BY <1>1, <2>4, <4>1 DEF Killing
      <4> QED BY <2>1, <4>1, <4>2 DEF Dying
    <3>3. p \in Dying'
      BY <1>3, <2>1, <2>3 DEF Dying
    <3> QED BY <3>1, <3>2, <3>3
  <2>8. PrcountExact'
    <3> DEFINE L == Live \ Dying
    <3>1. p \in L /\ Live' \ Dying' = L \ {p}
      BY <1>1, <1>2, <2>1, <2>7
    <3>2. IsFiniteSet(L) /\ Cardinality(L) \in Nat /\ prcount = Cardinality(L)
      BY <1>4, LiveFinite
    <3> HIDE DEF L
    <3>3. Cardinality(L \ {p}) = Cardinality(L) - 1
      BY <3>1, <3>2, FS_RemoveElement
    <3> QED BY <1>1, <3>1, <3>2, <3>3 DEF PrcountExact
  <2>9. StackSafe' /\ HaltOnlyWhenLast'
    BY <1>1, <1>7, <2>1 DEF StackSafe, HaltOnlyWhenLast, TableInv, ProcessesAccounted
  <2> QED BY <2>6, <2>8, <2>9 DEF TableInv, ProcessesAccounted
<1> QED BY <1>6, <1>7 DEF kill

\* The end of kill(): the victim leaves the table and its stack is free.
LEMMA KillEndTable == ASSUME Inv, TableInv, killEnd PROVE TableInv'
<1> DEFINE v == frame[currpid].tgt
<1>1. v \in Pids \ {NULLPROC} /\ Becomes(v, {"FREE"})
  BY KillEndBecomes
<1>2. /\ ~halted /\ Killing(currpid) /\ UNCHANGED <<prstkbase, prcount, halted>>
      /\ stkfree' = stkfree \cup killedStack(v) /\ frame' = [frame EXCEPT ![currpid] = UserFrame]
  BY DEF killEnd, Inside, Killing
<1>3. currpid \in Live /\ Live \subseteq Pids
  BY InvSched DEF Live
<1>4. /\ \A q \in Live : Killing(q) => frame[q].tgt \in Live \ {NULLPROC}
      /\ \A q, r \in Live : Killing(q) /\ Killing(r) /\ frame[q].tgt = frame[r].tgt => q = r
      /\ \A q \in Live : Killing(q) /\ Killing(frame[q].tgt) => frame[q].tgt = q
  BY DEF TableInv, KillsApart
<1>5. v \in Live /\ v \in Dying
  BY <1>2, <1>3, <1>4 DEF Dying, Killing
\* No other call is about v, and v is in no other call.
<1>6. \A q \in Live \ {currpid} : Killing(q) => frame[q].tgt # v /\ q # v
  BY <1>2, <1>3, <1>4
<1> HIDE DEF v
<1>7. \A q \in Pids : frame'[q] = IF q = currpid THEN UserFrame ELSE frame[q]
  BY <1>2, <1>3, FrameValue
<1>8. frame'[currpid].op # "kill" /\ \A q \in Live \ {currpid} : frame'[q] = frame[q]
  BY <1>3, <1>7, FrameOp
<1>9. Live' = Live \ {v}
  <2>1. prstate'[v] = "FREE" /\ \A q \in Pids \ {v} : prstate'[q] = "FREE" <=> prstate[q] = "FREE"
    BY <1>1 DEF Becomes, Alike, Runnable
  <2> QED BY <1>1, <2>1 DEF Live
<1>10. \A q \in Live : frame'[q].op = "kill" =>
          q # currpid /\ frame'[q] = frame[q] /\ Killing(q) /\ frame[q].tgt \in Live \ {NULLPROC, v}
  BY <1>4, <1>6, <1>8 DEF Killing
<1>11. KillsApart'
  <2>1. \A q \in Live' : frame'[q].op = "kill" => frame'[q].tgt \in Live' \ {NULLPROC}
    BY <1>9, <1>10
  <2>2. \A q, r \in Live' : frame'[q].op = "kill" /\ frame'[r].op = "kill"
                              /\ frame'[q].tgt = frame'[r].tgt => q = r
    BY <1>4, <1>9, <1>10
  <2>3. ASSUME NEW q \in Live', frame'[q].op = "kill", frame'[frame'[q].tgt].op = "kill"
        PROVE  frame'[q].tgt = q
    <3>1. q \in Live /\ Killing(q) /\ frame'[q].tgt = frame[q].tgt /\ frame[q].tgt \in Live
      BY <1>9, <1>10, <2>3
    <3>2. Killing(frame[q].tgt)
      BY <1>10, <2>3, <3>1
    <3> QED BY <1>4, <3>1, <3>2
  <2> QED BY <2>1, <2>2, <2>3 DEF KillsApart, Killing
<1>12. Dying' = Dying \ {v}
  <2>1. ASSUME NEW t \in Dying' PROVE t \in Dying \ {v}
    <3>1. PICK q \in Live' : frame'[q].op = "kill" /\ t = frame'[q].tgt
      BY <2>1 DEF Dying
    <3> QED BY <1>9, <1>10, <3>1 DEF Dying, Killing
  <2>2. ASSUME NEW t \in Dying, t # v PROVE t \in Dying'
    <3>1. PICK q \in Live : Killing(q) /\ t = frame[q].tgt
      BY <2>2 DEF Dying, Killing
    <3>2. q # currpid
      BY <2>2, <3>1 DEF v
    <3>3. q \in Live' /\ frame'[q] = frame[q]
      BY <1>6, <1>8, <1>9, <3>1, <3>2
    <3> QED BY <3>1, <3>3 DEF Dying, Killing
  <2>3. v \notin Dying'
    BY <2>1
  <2> QED BY <2>1, <2>2, <2>3
<1>13. PrcountExact'
  <2>1. Live' \ Dying' = Live \ Dying
    BY <1>5, <1>9, <1>12
  <2> QED BY <1>2, <2>1 DEF TableInv, ProcessesAccounted, PrcountExact
<1>14. StackSafe'
  <2>1. \A p \in Live \ {NULLPROC} : /\ prstkbase[p] \notin stkfree
                                     /\ \A q \in Live \ {NULLPROC, p} : prstkbase[p] # prstkbase[q]
    BY <1>2 DEF TableInv, ProcessesAccounted, StackSafe
  <2>2. \A p \in Live \ {NULLPROC, v} : prstkbase[p] \notin killedStack(v)
    BY <1>1, <1>5, <2>1 DEF killedStack
  <2> QED BY <1>2, <1>9, <2>1, <2>2 DEF StackSafe
<1>15. HaltOnlyWhenLast'
  BY <1>2 DEF HaltOnlyWhenLast
<1> QED BY <1>11, <1>13, <1>14, <1>15 DEF TableInv, ProcessesAccounted

\* The other calls of the process manager.
LEMMA ProcTable ==
    ASSUME Inv, TableInv,
           \/ \E x \in Prios : createFails(x)
           \/ \E p \in Pids : suspend(p) \/ resume(p)
           \/ \E p \in Pids, x \in NewPrios : chprio(p, x)
           \/ yield
    PROVE  TableInv'
<1>0. ASSUME Caller, frame' = frame, UNCHANGED <<prstkbase, prcount, halted>>, stkfree' \subseteq stkfree,
             \/ AllAlike
             \/ \E p \in Pids, V \in SUBSET (PrStates \ {"FREE"}) :
                   prstate[p] # "FREE" /\ Becomes(p, V)
      PROVE  TableInv'
  <2>1. ~halted
    BY <1>0 DEF Caller, UserMode
  <2>2. Live' = Live
    BY <1>0, LiveSame
  <2> QED BY <1>0, <2>1, <2>2, CalmTable
<1>1. CASE \E x \in Prios : createFails(x)
  BY <1>0, <1>1, IdleAlike DEF createFails
<1>2. ASSUME NEW p \in Pids, suspend(p) PROVE TableInv'
  <2> DEFINE st == [prstate EXCEPT ![p] = "SUSP"]
  <2>1. /\ Caller /\ currpid # NULLPROC /\ prstate[p] \in {"CURR", "READY"}
        /\ frame[currpid].op \notin DeferLoops /\ UNCHANGED <<tabVars, frame>>
    BY <1>2 DEF suspend, suspendable, Caller, UserMode, DeferLoops
  <2>2. Becomes(p, {"SUSP"})
    <3>1. CASE prstate' = st
      BY <3>1, InvSched DEF Becomes, Alike, SchedReady
    <3>2. CASE prstate[p] = "CURR" /\ resched(ndefers, st, readylist, qkey, preempt)
      <4>1. p = currpid
        BY <3>2, InvTypes DEF ReadyAgree
      <4> QED BY <2>1, <3>2, <4>1, InvSched, BlockBecomes DEF Blocked
    <3> QED BY <1>2, <3>1, <3>2 DEF suspend
  <2>3. {"SUSP"} \in SUBSET (PrStates \ {"FREE"})
    BY DEF PrStates
  <2> QED BY <1>0, <2>1, <2>2, <2>3 DEF tabVars
<1>3. ASSUME NEW p \in Pids, resume(p) PROVE TableInv'
  <2>1. /\ Caller /\ prstate[p] = "SUSP" /\ ready(p, ndefers, prstate, qkey)
        /\ UNCHANGED <<tabVars, frame>>
    BY <1>3 DEF resume, resumable
  <2>2. Becomes(p, Runnable)
    BY <2>1, InvSched, ReadyBecomes DEF Blocked
  <2>3. Runnable \in SUBSET (PrStates \ {"FREE"})
    BY DEF PrStates, Runnable
  <2> QED BY <1>0, <2>1, <2>2, <2>3 DEF tabVars
<1>4. CASE \E p \in Pids, x \in NewPrios : chprio(p, x)
  BY <1>0, <1>4, IdleAlike DEF chprio
<1>5. CASE yield
  BY <1>0, <1>5, InvSched, YieldAlike DEF yield, tabVars
<1> QED BY <1>1, <1>2, <1>3, <1>4, <1>5

\* Any step about which all this is known: the semaphore calls, messages and
\* the clock.
LEMMA OtherTable ==
    ASSUME Inv, TableInv, ~halted, frame[currpid].op # "kill", UNCHANGED tabVars, NEW f,
           frame' = frame \/ (f.op # "kill" /\ frame' = [frame EXCEPT ![currpid] = f]),
           \/ AllAlike
           \/ \E p \in Pids, V \in SUBSET (PrStates \ {"FREE"}) :
                 prstate[p] # "FREE" /\ Becomes(p, V)
    PROVE  TableInv'
<1>1. Live' = Live
  BY LiveSame
<1>2. \A p \in Pids : frame'[p] = frame[p] \/ (~Killing(p) /\ ~Killing(p)')
  BY FrameKill DEF Killing
<1> QED BY <1>1, <1>2, CalmTable DEF tabVars

\* The states a process can change to while it lives.
LEMMA LiveStates ==
    /\ Runnable \in SUBSET (PrStates \ {"FREE"}) /\ {"WAIT"} \in SUBSET (PrStates \ {"FREE"})
    /\ {"SLEEP"} \in SUBSET (PrStates \ {"FREE"}) /\ {"RECV"} \in SUBSET (PrStates \ {"FREE"})
    /\ {"RECTIM"} \in SUBSET (PrStates \ {"FREE"})
BY DEF Runnable, PrStates

\* The semaphore calls.
LEMMA SemTable ==
    ASSUME Inv, TableInv,
           \/ \E n \in Counts : semcreate(n)
           \/ \E s \in Sids : wait(s) \/ signal(s) \/ semdelete(s)
           \/ \E s \in Sids, n \in Counts : signaln(s, n) \/ semreset(s, n)
           \/ signalnLoop \/ signalnEnd \/ semdeleteLoop \/ semresetLoop
    PROVE  TableInv'
<1>0. ASSUME ~halted, frame[currpid].op # "kill", UNCHANGED tabVars, NEW f,
             frame' = frame \/ (f.op # "kill" /\ frame' = [frame EXCEPT ![currpid] = f]),
             \/ AllAlike
             \/ \E p \in Pids : prstate[p] = "WAIT" /\ Becomes(p, Runnable)
      PROVE  TableInv'
  BY <1>0, LiveStates, OtherTable
<1>1. Caller => ~halted /\ frame[currpid].op # "kill"
  BY DEF Caller, UserMode
<1>2. CASE \E n \in Counts : semcreate(n)
  BY <1>0, <1>1, <1>2, IdleAlike DEF semcreate
<1>3. ASSUME NEW s \in Sids, wait(s) PROVE TableInv'
  <2>1. /\ Caller /\ UNCHANGED <<frame, tabVars>> /\ currpid # NULLPROC
        /\ frame[currpid].op \notin DeferLoops
    BY <1>3 DEF wait, Caller, UserMode, DeferLoops
  <2>2. CASE UNCHANGED schedVars
    BY <1>0, <1>1, <2>1, <2>2, IdleAlike
  <2>3. CASE resched(ndefers, [prstate EXCEPT ![currpid] = "WAIT"], readylist, qkey, preempt)
    <3>1. Becomes(currpid, {"WAIT"}) /\ prstate[currpid] = "CURR" /\ currpid \in Pids
      BY <2>1, <2>3, InvSched, BlockBecomes DEF Blocked
    <3> QED BY <1>1, <2>1, <3>1, LiveStates, OtherTable
  <2> QED BY <1>3, <2>2, <2>3 DEF wait
<1>4. ASSUME NEW s \in Sids, signal(s) PROVE TableInv'
  BY <1>0, <1>1, <1>4, SignalBecomes DEF signal
<1>5. ASSUME Caller, NEW op, op # "kill", NEW s, NEW n, UNCHANGED <<prstate, tabVars>>,
             frame' = [frame EXCEPT ![currpid] = Frame(op, s, n)]
      PROVE  TableInv'
  <2>1. AllAlike /\ Frame(op, s, n).op # "kill"
    BY <1>5, FrameOp DEF AllAlike, Alike
  <2> QED BY <1>0, <1>1, <1>5, <2>1
<1>6. CASE \E s \in Sids : semdelete(s)
  BY ZenonT(30), <1>5, <1>6 DEF semdelete
<1>7. CASE \E s \in Sids, n \in Counts : signaln(s, n) \/ semreset(s, n)
  BY <1>5, <1>7 DEF signaln, semreset
<1>8. ASSUME frame[currpid].op \in SemLoops PROVE frame[currpid].tgt \in Sids
  BY <1>8, LoopTarget
<1>9. CASE signalnLoop
  <2> DEFINE f == [frame[currpid] EXCEPT !.cnt = frame[currpid].cnt - 1]
  <2>1. /\ signalOnce(frame[currpid].tgt) /\ ~halted /\ UNCHANGED tabVars
        /\ frame' = [frame EXCEPT ![currpid] = f] /\ frame[currpid].op = "signaln"
    BY <1>9 DEF signalnLoop, Inside
  <2>2. f.op = "signaln"
    BY <2>1, InvTypes, InvSched DEF FrameTypeOK
  <2>3. frame[currpid].tgt \in Sids
    BY <1>8, <2>1 DEF SemLoops
  <2> HIDE DEF f
  <2>4. \/ AllAlike
        \/ \E p \in Pids : prstate[p] = "WAIT" /\ Becomes(p, Runnable)
    BY <2>1, <2>3, SignalBecomes
  <2> QED BY <1>0, <2>1, <2>2, <2>4
<1>10. ASSUME deferStop, ~halted, frame[currpid].op # "kill", UNCHANGED tabVars,
              frame' = [frame EXCEPT ![currpid] = UserFrame]
       PROVE  TableInv'
  BY <1>0, <1>10, StopAlike, FrameOp
<1>11. ASSUME NEW s \in Sids, readyFirst(s), ~halted, frame[currpid].op # "kill",
              UNCHANGED <<tabVars, frame>>
       PROVE  TableInv'
  BY <1>0, <1>11, FirstBecomes
<1>12. CASE signalnEnd
  BY <1>10, <1>12 DEF signalnEnd, Inside
<1>13. CASE semdeleteLoop
  BY <1>8, <1>10, <1>11, <1>13 DEF semdeleteLoop, Inside, SemLoops
<1>14. CASE semresetLoop
  BY <1>8, <1>10, <1>11, <1>14 DEF semresetLoop, Inside, SemLoops
<1> QED BY <1>2, <1>3, <1>4, <1>6, <1>7, <1>9, <1>12, <1>13, <1>14

\* The caller blocks, in receive(), recvtime() or sleepms().
LEMMA BlockTable ==
    ASSUME Inv, TableInv, Caller, UNCHANGED tabVars, NEW x \in {"RECV", "RECTIM", "SLEEP"}, NEW f,
           frame' = frame \/ (f.op # "kill" /\ frame' = [frame EXCEPT ![currpid] = f]),
           NEW k, DOMAIN k = Pids,
           resched(ndefers, [prstate EXCEPT ![currpid] = x], readylist, k, preempt)
    PROVE  TableInv'
<1>1. /\ currpid # NULLPROC /\ ~halted /\ frame[currpid].op # "kill"
      /\ frame[currpid].op \notin DeferLoops /\ x \in Blocked
  BY DEF Caller, UserMode, DeferLoops, Blocked
<1>2. Becomes(currpid, {x}) /\ prstate[currpid] = "CURR" /\ currpid \in Pids
  BY <1>1, BlockBecomes
<1>3. {x} \in SUBSET (PrStates \ {"FREE"})
  BY DEF PrStates
<1> QED BY <1>1, <1>2, <1>3, OtherTable

\* Messages and the clock.
LEMMA ClockTable ==
    ASSUME Inv, TableInv,
           \/ \E p \in Pids, msg \in Msgs : send(p, msg)
           \/ receive \/ receiveEnd \/ recvclr \/ recvtimeEnd
           \/ \E t \in RecvWaits : recvtime(t)
           \/ \E t \in Delays : sleepms(t)
           \/ clkhandler \/ wakeup \/ clkPreempt
    PROVE  TableInv'
<1>0. UserMode => ~halted /\ frame[currpid].op # "kill"
  BY DEF UserMode
<1>1. ASSUME NEW p \in Pids, NEW msg \in Msgs, send(p, msg) PROVE TableInv'
  <2>1. Caller /\ sendTo(p, msg) /\ UNCHANGED <<tabVars, frame>>
    BY <1>1 DEF send
  <2>2. \/ AllAlike
        \/ prstate[p] \in {"RECV", "RECTIM"} /\ Becomes(p, Runnable)
    BY <2>1, SendBecomes
  <2> QED BY <1>0, <2>1, <2>2, LiveStates, OtherTable DEF Caller
<1>2. ASSUME UNCHANGED <<schedVars, tabVars>>, ~halted, frame[currpid].op # "kill",
             frame' = frame \/ frame' = [frame EXCEPT ![currpid] = UserFrame]
      PROVE  TableInv'
  <2>1. AllAlike /\ UserFrame.op # "kill"
    BY <1>2, IdleAlike, FrameOp
  <2> QED BY <1>2, <2>1, OtherTable
<1>3. CASE recvclr \/ receiveEnd \/ recvtimeEnd
  BY <1>0, <1>2, <1>3 DEF recvclr, receiveEnd, recvtimeEnd, Inside, Caller
<1>4. ASSUME NEW t \in Delays, sleepms(t) PROVE TableInv'
  <2> DEFINE k == insertdKeys(currpid, sleepq, qkey, int32(t))
  <2>1. Caller /\ UNCHANGED <<tabVars, frame>>
    BY <1>4 DEF sleepms
  <2>2. CASE resched(ndefers, prstate, readylist, qkey, preempt)
    <3>1. AllAlike
      BY <2>2, InvSched, YieldAlike
    <3> QED BY <1>0, <2>1, <3>1, OtherTable DEF Caller
  <2>3. CASE resched(ndefers, [prstate EXCEPT ![currpid] = "SLEEP"], readylist, k, preempt)
    <3>1. DOMAIN k = Pids
      BY InsertdDomain, InvSched
    <3> HIDE DEF k
    <3> QED BY <2>1, <2>3, <3>1, BlockTable
  <2> QED BY <1>4, <2>2, <2>3 DEF sleepms
<1>8. CASE receive
  <2>1. Caller /\ UNCHANGED tabVars
    BY <1>8 DEF receive
  <2>2. CASE prhasmsg[currpid]
    BY <1>0, <1>2, <1>8, <2>1, <2>2 DEF receive, Caller
  <2>3. CASE ~prhasmsg[currpid]
    <3>1. /\ frame' = [frame EXCEPT ![currpid] = Frame("receive", 0, 0)]
          /\ resched(ndefers, [prstate EXCEPT ![currpid] = "RECV"], readylist, qkey, preempt)
      BY <1>8, <2>3 DEF receive
    <3>2. Frame("receive", 0, 0).op # "kill"
      BY FrameOp
    <3> QED BY <2>1, <3>1, <3>2, InvSched, BlockTable
  <2> QED BY <2>2, <2>3
<1>9. ASSUME NEW t \in RecvWaits, recvtime(t) PROVE TableInv'
  <2> DEFINE k == insertdKeys(currpid, sleepq, qkey, t)
  <2>1. Caller /\ UNCHANGED tabVars
    BY <1>9 DEF recvtime
  <2>2. CASE prhasmsg[currpid]
    BY <1>0, <1>2, <1>9, <2>1, <2>2 DEF recvtime, Caller
  <2>3. CASE ~prhasmsg[currpid]
    <3>1. /\ frame' = [frame EXCEPT ![currpid] = Frame("recvtime", 0, 0)]
          /\ resched(ndefers, [prstate EXCEPT ![currpid] = "RECTIM"], readylist, k, preempt)
      BY <1>9, <2>3 DEF recvtime
    <3>2. DOMAIN k = Pids
      BY InsertdDomain, InvSched
    <3>3. Frame("recvtime", 0, 0).op # "kill"
      BY FrameOp
    <3> HIDE DEF k
    <3> QED BY <2>1, <3>1, <3>2, <3>3, BlockTable
  <2> QED BY <2>2, <2>3
<1>5. CASE clkhandler
  <2>1. UserMode /\ UNCHANGED tabVars /\ AllAlike
    BY <1>5 DEF clkhandler, AllAlike, Alike
  <2>2. \E op \in {"clk", "wakeup"} : frame' = [frame EXCEPT ![currpid] = Frame(op, 0, 0)]
    BY <1>5 DEF clkhandler
  <2>3. PICK f : f.op # "kill" /\ frame' = [frame EXCEPT ![currpid] = f]
    BY <2>2, FrameOp
  <2> QED BY <1>0, <2>1, <2>3, OtherTable
<1>6. CASE wakeup
  <2>1. /\ ~halted /\ frame[currpid].op # "kill" /\ UNCHANGED tabVars
        /\ \/ frame' = frame
           \/ frame' = [frame EXCEPT ![currpid] = Frame("clk", 0, 0)]
    BY <1>6 DEF wakeup, Inside
  <2>2. Frame("clk", 0, 0).op # "kill"
    BY FrameOp
  <2>3. \/ AllAlike
        \/ \E p \in Pids : prstate[p] # "FREE" /\ Becomes(p, Runnable)
    BY <1>6, WakeupBecomes
  <2> QED BY <2>1, <2>2, <2>3, LiveStates, OtherTable
<1>7. CASE clkPreempt
  <2>1. /\ ~halted /\ frame[currpid].op # "kill" /\ UNCHANGED tabVars
        /\ frame' = [frame EXCEPT ![currpid] = UserFrame]
        /\ resched(ndefers, prstate, readylist, qkey, QUANTUM) \/ prstate' = prstate
    BY <1>7 DEF clkPreempt, Inside
  <2>2. AllAlike
    BY <2>1, InvSched, YieldAlike DEF AllAlike, Alike
  <2>3. UserFrame.op # "kill"
    BY FrameOp
  <2> QED BY <2>1, <2>2, <2>3, OtherTable
<1> QED BY <1>1, <1>3, <1>4, <1>5, <1>6, <1>7, <1>8, <1>9

\* A halted system does nothing.
LEMMA IdleTable == ASSUME TableInv, UNCHANGED vars PROVE TableInv'
BY DEF TableInv, KillsApart, Killing, ProcessesAccounted, PrcountExact, HaltOnlyWhenLast,
       StackSafe, Dying, Live, vars, schedVars, tabVars

\* Every step keeps the account of the process table.
LEMMA NextTable ==
    ASSUME KillAgain = FALSE, Inv, TableInv, [Next]_vars
    PROVE  TableInv'
<1>1. CASE SystemCall
  BY <1>1, InvSched, CreateTable, KillTable, ProcTable, SemTable, ClockTable DEF SystemCall
<1>2. CASE Continue
  BY <1>2, KillEndTable, SemTable, ClockTable DEF Continue
<1>3. CASE clkhandler
  BY <1>3, ClockTable
<1>4. CASE UNCHANGED vars
  BY <1>4, IdleTable
<1> QED BY <1>1, <1>2, <1>3, <1>4 DEF Next, halt

\* The first two processes.
LEMMA InitTable == ASSUME Init PROVE TableInv
<1>1. 0 \in Pids /\ 1 \in Pids /\ NULLPROC = 0
  BY DEF Pids, NULLPROC
<1>2. \A p \in Pids : prstate[p] = IF p = 0 THEN "READY" ELSE IF p = 1 THEN "CURR" ELSE "FREE"
  BY <1>1 DEF Init
<1>3. \A p \in Pids : frame[p].op = "user"
  BY FrameOp DEF Init
<1>4. Live = {0, 1}
  BY <1>1, <1>2 DEF Live
<1>5. ~halted /\ currpid = 1 /\ prcount = 2 /\ stkfree = Stacks \ {NSTK} /\ prstkbase[1] = NSTK
  BY <1>1 DEF Init
<1>6. KillsApart
  BY <1>1, <1>3, <1>4 DEF KillsApart, Killing
<1>7. Dying = {}
  BY <1>1, <1>3, <1>4 DEF Dying
<1>8. Cardinality({0, 1}) = 2
  <2>1. IsFiniteSet({0}) /\ Cardinality({0}) = 1
    BY FS_Singleton
  <2> DEFINE S == {0}
  <2>2. 1 \notin S /\ IsFiniteSet(S) /\ Cardinality(S) = 1 /\ S \cup {1} = {0, 1}
    BY <2>1
  <2> HIDE DEF S
  <2>3. Cardinality(S \cup {1}) = Cardinality(S) + 1
    BY <2>2, FS_AddElement
  <2>4. Cardinality({0, 1}) = Cardinality(S) + 1
    BY <2>2, <2>3, Zenon
  <2> QED BY <2>2, <2>4
<1>9. PrcountExact
  <2>1. {0, 1} \ {} = {0, 1}
    OBVIOUS
  <2> QED BY <1>4, <1>5, <1>7, <1>8, <2>1 DEF PrcountExact
<1>10. HaltOnlyWhenLast
  BY <1>5 DEF HaltOnlyWhenLast
<1>11. StackSafe
  BY <1>1, <1>4, <1>5 DEF StackSafe
<1> QED BY <1>6, <1>9, <1>10, <1>11 DEF TableInv, ProcessesAccounted

\* The process table is accounted for while kill() switches to other processes
\* in its middle: prcount is the number of live processes less the victims of the
\* calls under way, the system halts only when no other user process is left, and
\* no two live processes share a stack and none runs on a free one, for every
\* choice of calls, with table entries and stacks used again.  The condition says
\* that overlapping calls of kill() do not meet (MayKill); without it a process
\* that is killed twice is counted twice.
THEOREM TableAccounted == ASSUME KillAgain = FALSE PROVE Spec => []ProcessesAccounted
<1>1. Init => TableInv
  BY InitTable
<1>2. Inv /\ TableInv /\ [Next]_vars => TableInv'
  BY NextTable
<1>3. TableInv => ProcessesAccounted
  BY DEF TableInv
<1> QED BY <1>1, <1>2, <1>3, KernelInvariant, PTL DEF Spec

-----------------------------------------------------------------------------
(* Delays, for every interleaving of sleepms(), recvtime(), send(), kill() *)
(* and the clock: the delta list keeps every delay exactly, nobody         *)
(* oversleeps, and nobody is woken early.                                  *)

-----------------------------------------------------------------------------
(* The delta list as a data structure: q the queue, k the keys, l what     *)
(* each process has left.                                                  *)

\* What the process before the i-th has left.
Before(q, l, i) == IF i = 1 THEN 0 ELSE l[q[i - 1]]

\* The keys are the differences, the processes are in the order of what they
\* have left, and that fits in an int32 and is not negative.
Delta(q, k, l) ==
    /\ \A i \in 1 .. Len(q) : l[q[i]] \in 0 .. HALF - 1
    /\ \A i \in 1 .. Len(q) : k[q[i]] = l[q[i]] - Before(q, l, i)
    /\ \A i, j \in 1 .. Len(q) : i <= j => l[q[i]] <= l[q[j]]

\* Values in the range of an int32 are stored as they are.
LEMMA Int32Same == ASSUME NEW x \in Int, -HALF <= x, x < HALF PROVE int32(x) = x
<1>1. HALF \in Nat /\ HALF > 0
  OBVIOUS
<1>2. x + HALF \in 0 .. 2 * HALF - 1 /\ 2 * HALF \in Nat /\ 2 * HALF > 0
  BY <1>1
<1> DEFINE m == 2 * HALF
           y == x + HALF
<1>3. y % m = y
  <2>1. y \in 0 .. m - 1 /\ m \in Nat /\ m > 0
    BY <1>2
  <2> HIDE DEF y, m
  <2> QED BY <2>1
<1> QED BY <1>1, <1>2, <1>3 DEF int32

\* What the process before the i-th has left is a delay too.
LEMMA BeforeType ==
    ASSUME NEW q \in Seq(Pids), NEW k, NEW l, Delta(q, k, l), NEW i \in 1 .. Len(q) + 1
    PROVE  /\ Before(q, l, i) \in 0 .. HALF - 1
           /\ i <= Len(q) => Before(q, l, i) <= l[q[i]]
<1>1. Len(q) \in Nat
  OBVIOUS
<1>2. CASE i = 1
  BY <1>1, <1>2 DEF Before, Delta
<1>3. CASE i # 1
  <2>1. i - 1 \in 1 .. Len(q) /\ i - 1 <= i
    BY <1>1, <1>3
  <2> QED BY <1>1, <1>3, <2>1 DEF Before, Delta
<1> QED BY <1>2, <1>3

\* The head leaves when its time is up.
LEMMA DeltaTail ==
    ASSUME NEW q \in Seq(Pids), NEW k, NEW l, Delta(q, k, l), q # <<>>, l[Head(q)] = 0
    PROVE  Delta(Tail(q), k, l)
<1>1. Len(q) \in Nat /\ Len(q) > 0
  BY EmptySeq
<1>2. Head(q) = q[1]
  BY <1>1
<1> DEFINE r == Tail(q)
<1>3. Len(r) = Len(q) - 1 /\ \A j \in 1 .. Len(q) - 1 : r[j] = q[j + 1]
  BY <1>1, HeadTailProperties
<1> HIDE DEF r
<1>4. \A j \in 1 .. Len(r) : j + 1 \in 1 .. Len(q) /\ r[j] = q[j + 1]
  BY <1>1, <1>3
<1>5. \A j \in 1 .. Len(r) : l[r[j]] \in 0 .. HALF - 1
  BY <1>4 DEF Delta
<1>6. \A i, j \in 1 .. Len(r) : i <= j => l[r[i]] <= l[r[j]]
  BY <1>1, <1>3, <1>4 DEF Delta
<1>7. ASSUME NEW j \in 1 .. Len(r) PROVE k[r[j]] = l[r[j]] - Before(r, l, j)
  <2>1. k[r[j]] = l[r[j]] - Before(q, l, j + 1)
    BY <1>4 DEF Delta
  <2>2. CASE j = 1
    BY <1>2, <1>5, <2>1, <2>2 DEF Before
  <2>3. CASE j # 1
    <3>1. j - 1 \in 1 .. Len(r) /\ (j - 1) + 1 = j /\ (j + 1) - 1 = j /\ j + 1 # 1
      BY <1>1, <1>3, <2>3
    <3>2. r[j - 1] = q[j]
      BY <1>4, <3>1
    <3> QED BY <2>1, <2>3, <3>1, <3>2 DEF Before
  <2> QED BY <2>2, <2>3
<1> QED BY <1>5, <1>6, <1>7 DEF Delta, r

\* A process leaves from the i-th place and the next inherits its key.
LEMMA DeltaRemove ==
    ASSUME NEW q \in Seq(Pids), NEW k, NEW l, Delta(q, k, l), NEW i \in 1 .. Len(q), NEW k2,
           \A j \in 1 .. Len(q) : j # i /\ j # i + 1 => k2[q[j]] = k[q[j]],
           i < Len(q) => k2[q[i + 1]] = k[q[i + 1]] + k[q[i]]
    PROVE  Delta(RemoveAt(q, i), k2, l)
<1> DEFINE r == RemoveAt(q, i)
<1>1. /\ Len(r) = Len(q) - 1
      /\ \A j \in 1 .. Len(q) - 1 : r[j] = IF j < i THEN q[j] ELSE q[j + 1]
  BY RemoveAtFacts
<1> HIDE DEF r
<1>2. Len(q) \in Nat /\ i \in Nat /\ i >= 1 /\ i <= Len(q)
  OBVIOUS
<1> DEFINE f(j) == IF j < i THEN j ELSE j + 1
<1>3. \A j \in 1 .. Len(r) : f(j) \in 1 .. Len(q) /\ r[j] = q[f(j)]
  BY <1>1, <1>2
<1>4. \A a, b \in 1 .. Len(r) : a <= b => f(a) <= f(b)
  BY <1>1, <1>2
<1>5. /\ \A j \in 1 .. Len(r) : l[r[j]] \in 0 .. HALF - 1
      /\ \A a, b \in 1 .. Len(r) : a <= b => l[r[a]] <= l[r[b]]
  <2> HIDE DEF f
  <2> QED BY <1>3, <1>4 DEF Delta
<1>6. ASSUME NEW j \in 1 .. Len(r) PROVE k2[r[j]] = l[r[j]] - Before(r, l, j)
  <2>0. j \in Nat /\ j >= 1 /\ j <= Len(q) - 1
    BY <1>1, <1>2
  <2>1. CASE j < i
    <3>1. r[j] = q[j] /\ j \in 1 .. Len(q) /\ k2[q[j]] = k[q[j]]
      BY <1>1, <1>2, <2>0, <2>1
    <3>2. j # 1 => r[j - 1] = q[j - 1]
      BY <1>1, <1>2, <2>0, <2>1
    <3>3. Before(r, l, j) = Before(q, l, j)
      BY <3>2 DEF Before
    <3> QED BY <3>1, <3>3 DEF Delta
  <2>2. CASE j = i
    <3>1. r[j] = q[i + 1] /\ i + 1 \in 1 .. Len(q) /\ i < Len(q) /\ (i + 1) - 1 = i /\ i + 1 # 1
      BY <1>1, <1>2, <2>0, <2>2
    <3>2. j # 1 => r[j - 1] = q[i - 1]
      BY <1>1, <1>2, <2>0, <2>2
    <3>3. Before(r, l, j) = Before(q, l, i)
      BY <2>2, <3>2 DEF Before
    <3>4. k[q[i + 1]] = l[q[i + 1]] - l[q[i]]
      BY <3>1 DEF Delta, Before
    <3>5. k[q[i]] = l[q[i]] - Before(q, l, i)
      BY DEF Delta
    <3>6. l[q[i]] \in Int /\ l[q[i + 1]] \in Int
      BY <3>1 DEF Delta
    <3>7. i \in 1 .. Len(q) + 1
      BY <1>2
    <3>8. Before(q, l, i) \in Int
      BY <3>7, BeforeType
    <3>9. k2[r[j]] = k[q[i + 1]] + k[q[i]]
      BY <3>1
    <3>10. k2[r[j]] = (l[q[i + 1]] - l[q[i]]) + (l[q[i]] - Before(q, l, i))
      BY <3>4, <3>5, <3>9
    <3>11. k2[r[j]] = l[q[i + 1]] - Before(q, l, i)
      BY <3>6, <3>8, <3>10
    <3> QED BY <3>1, <3>3, <3>11
  <2>3. CASE j > i
    <3>1. /\ r[j] = q[j + 1] /\ j + 1 \in 1 .. Len(q) /\ j # 1 /\ j + 1 # 1 /\ (j + 1) - 1 = j
          /\ j + 1 # i /\ j + 1 # i + 1
      BY <1>1, <1>2, <2>0, <2>3
    <3>2. j - 1 \in 1 .. Len(q) - 1 /\ ~(j - 1 < i) /\ (j - 1) + 1 = j
      BY <1>2, <2>0, <2>3
    <3>3. r[j - 1] = q[j]
      BY <1>1, <3>2
    <3>4. Before(r, l, j) = l[q[j]]
      BY <3>1, <3>3 DEF Before
    <3>5. k[q[j + 1]] = l[q[j + 1]] - l[q[j]]
      BY <3>1 DEF Delta, Before
    <3>6. k2[q[j + 1]] = k[q[j + 1]]
      BY <3>1
    <3> QED BY <3>1, <3>4, <3>5, <3>6
  <2> QED BY <1>2, <2>0, <2>1, <2>2, <2>3
<1>7. Delta(r, k2, l)
  BY <1>5, <1>6 DEF Delta
<1> QED BY <1>7 DEF r

\* A process joins at the i-th place, behind those that have no more left than
\* it asks for.
LEMMA DeltaInsertAt ==
    ASSUME NEW q \in Seq(Pids), NEW k, NEW l, Delta(q, k, l), NEW p \in Pids,
           NEW i \in 1 .. Len(q) + 1, NEW key \in 0 .. HALF - 1, NEW k2, NEW l2,
           l2[p] = key, \A j \in 1 .. Len(q) : l2[q[j]] = l[q[j]],
           k2[p] = key - Before(q, l, i),
           \A j \in 1 .. Len(q) : j # i => k2[q[j]] = k[q[j]],
           i <= Len(q) => k2[q[i]] = l[q[i]] - key,
           Before(q, l, i) <= key, i <= Len(q) => key <= l[q[i]]
    PROVE  Delta(InsertAt(q, i, p), k2, l2)
<1> DEFINE r == InsertAt(q, i, p)
<1>1. /\ r \in Seq(Pids)
      /\ Len(r) = Len(q) + 1
      /\ \A j \in 1 .. Len(q) + 1 : r[j] = IF j < i THEN q[j] ELSE IF j = i THEN p ELSE q[j - 1]
  BY InsertAtFacts
<1> HIDE DEF r
<1>2. Len(q) \in Nat /\ i \in Nat /\ i >= 1 /\ i <= Len(q) + 1 /\ key \in Int
  OBVIOUS
<1> DEFINE f(j) == IF j < i THEN j ELSE j - 1
<1>3. r[i] = p /\ \A j \in 1 .. Len(r) : j # i => f(j) \in 1 .. Len(q) /\ r[j] = q[f(j)]
  BY <1>1, <1>2
<1>4. l2[r[i]] = key /\ \A j \in 1 .. Len(r) : j # i => l2[r[j]] = l[q[f(j)]]
  <2> HIDE DEF f
  <2> QED BY <1>3
<1>5. \A j \in 1 .. Len(q) : l[q[j]] \in 0 .. HALF - 1
  BY DEF Delta
<1>6. \A j \in 1 .. Len(r) : l2[r[j]] \in 0 .. HALF - 1
  <2> HIDE DEF f
  <2> QED BY <1>3, <1>4, <1>5
<1>7. \A j \in 1 .. Len(q) : j < i => l[q[j]] <= key
  <2> SUFFICES ASSUME NEW j \in 1 .. Len(q), j < i PROVE l[q[j]] <= key
    OBVIOUS
  <2>1. i # 1 /\ i - 1 \in 1 .. Len(q) /\ j <= i - 1
    BY <1>2
  <2>2. l[q[i - 1]] <= key
    BY <2>1 DEF Before
  <2>3. l[q[j]] <= l[q[i - 1]]
    BY <2>1 DEF Delta
  <2>4. l[q[j]] \in Int /\ l[q[i - 1]] \in Int
    BY SMTT(30), <1>5, <2>1
  <2> QED BY <1>2, <2>2, <2>3, <2>4
<1>8. \A j \in 1 .. Len(q) : j >= i => key <= l[q[j]]
  <2> SUFFICES ASSUME NEW j \in 1 .. Len(q), j >= i PROVE key <= l[q[j]]
    OBVIOUS
  <2>1. i <= Len(q) /\ i \in 1 .. Len(q)
    BY <1>2
  <2>2. l[q[i]] <= l[q[j]] /\ key <= l[q[i]]
    BY <1>2, <2>1 DEF Delta
  <2>3. l[q[i]] \in Int /\ l[q[j]] \in Int
    BY <1>5, <2>1
  <2> QED BY <1>2, <2>2, <2>3
<1>9. ASSUME NEW a \in 1 .. Len(r), NEW b \in 1 .. Len(r), a <= b PROVE l2[r[a]] <= l2[r[b]]
  <2>1. CASE a = i /\ b = i
    BY <1>2, <1>4, <2>1
  <2>2. CASE a = i /\ b # i
    <3>1. f(b) \in 1 .. Len(q) /\ f(b) >= i
      BY <1>1, <1>2, <1>9, <2>2
    <3> HIDE DEF f
    <3> QED BY <1>4, <1>8, <2>2, <3>1
  <2>3. CASE a # i /\ b = i
    <3>1. f(a) \in 1 .. Len(q) /\ f(a) < i
      BY <1>1, <1>2, <1>9, <2>3
    <3> HIDE DEF f
    <3> QED BY <1>4, <1>7, <2>3, <3>1
  <2>4. CASE a # i /\ b # i
    <3>1. f(a) \in 1 .. Len(q) /\ f(b) \in 1 .. Len(q) /\ f(a) <= f(b)
      BY <1>1, <1>2, <1>9, <2>4
    <3> HIDE DEF f
    <3>2. l[q[f(a)]] <= l[q[f(b)]]
      BY <3>1 DEF Delta
    <3> QED BY <1>4, <2>4, <3>2
  <2> QED BY <2>1, <2>2, <2>3, <2>4
<1>10. ASSUME NEW j \in 1 .. Len(r) PROVE k2[r[j]] = l2[r[j]] - Before(r, l2, j)
  <2>0. j \in Nat /\ j >= 1 /\ j <= Len(q) + 1 /\ j \in 1 .. Len(q) + 1
    BY <1>1, <1>2
  <2>1. CASE j < i
    <3>1. r[j] = q[j] /\ j \in 1 .. Len(q) /\ j # i
      BY <1>1, <1>2, <2>0, <2>1
    <3>2. j # 1 => r[j - 1] = q[j - 1] /\ j - 1 \in 1 .. Len(q)
      BY <1>1, <1>2, <2>0, <2>1
    <3>3. Before(r, l2, j) = Before(q, l, j)
      BY <3>2 DEF Before
    <3>4. k[q[j]] = l[q[j]] - Before(q, l, j)
      BY <3>1 DEF Delta
    <3>5. k2[q[j]] = k[q[j]] /\ l2[q[j]] = l[q[j]]
      BY <3>1
    <3> QED BY <3>1, <3>3, <3>4, <3>5
  <2>2. CASE j = i
    <3>1. j # 1 => r[j - 1] = q[j - 1] /\ j - 1 \in 1 .. Len(q)
      BY <1>1, <1>2, <2>0, <2>2
    <3>2. Before(r, l2, j) = Before(q, l, i)
      BY <2>2, <3>1 DEF Before
    <3> QED BY <1>3, <2>2, <3>2
  <2>3. CASE j = i + 1
    <3>1. r[j] = q[i] /\ r[j - 1] = p /\ j # 1 /\ i \in 1 .. Len(q) /\ i <= Len(q)
      BY <1>1, <1>2, <2>0, <2>3
    <3>2. Before(r, l2, j) = key
      BY <3>1 DEF Before
    <3>3. k2[q[i]] = l[q[i]] - key /\ l2[q[i]] = l[q[i]]
      BY <3>1
    <3> QED BY <3>1, <3>2, <3>3
  <2>4. CASE j > i + 1
    <3>1. /\ r[j] = q[j - 1] /\ j - 1 \in 1 .. Len(q) /\ j # 1 /\ j - 1 # 1 /\ j - 1 # i
          /\ (j - 1) - 1 = j - 2 /\ j - 2 \in 1 .. Len(q)
      BY <1>1, <1>2, <2>0, <2>4
    <3>2. j - 1 \in 1 .. Len(q) + 1 /\ ~(j - 1 < i)
      BY <1>2, <2>0, <2>4
    <3>3. r[j - 1] = q[j - 2]
      BY <1>1, <3>1, <3>2
    <3>4. Before(r, l2, j) = l[q[j - 2]]
      BY <3>1, <3>3 DEF Before
    <3>5. k[q[j - 1]] = l[q[j - 1]] - l[q[j - 2]]
      BY ZenonT(30), <3>1 DEF Delta, Before
    <3>6. k2[q[j - 1]] = k[q[j - 1]] /\ l2[q[j - 1]] = l[q[j - 1]]
      BY <3>1
    <3> QED BY <3>1, <3>4, <3>5, <3>6
  <2> QED BY <1>2, <2>0, <2>1, <2>2, <2>3, <2>4
<1>11. Delta(r, k2, l2)
  BY <1>6, <1>9, <1>10 DEF Delta
<1> QED BY <1>11 DEF r

\* insertd() counts down exactly: after i processes, the delay less what the
\* last of them has left.
LEMMA RemainingExact ==
    ASSUME NEW q \in Seq(Pids), NEW k, NEW l, Delta(q, k, l), NEW key \in 0 .. HALF - 1
    PROVE  \A i \in 0 .. Len(q) : remaining(q, k, key)[i] = key - Before(q, l, i + 1)
<1> DEFINE N == 0 .. Len(q)
           step(r, i) == IF i = 0 THEN key ELSE int32(r[i - 1] - k[q[i]])
           W == [i \in N |-> key - Before(q, l, i + 1)]
           R == CHOOSE r : r = [i \in N |-> step(r, i)]
<1>1. Len(q) \in Nat /\ key \in Int
  OBVIOUS
<1>2. \A i \in N : i + 1 \in 1 .. Len(q) + 1
  BY <1>1
<1>3. \A i \in N : Before(q, l, i + 1) \in 0 .. HALF - 1
  BY <1>2, BeforeType
<1>4. ASSUME NEW i \in N, i # 0, NEW x, x = key - Before(q, l, i)
      PROVE  int32(x - k[q[i]]) = W[i]
  <2>1. i \in 1 .. Len(q) /\ i \in 1 .. Len(q) + 1 /\ i + 1 # 1 /\ (i + 1) - 1 = i
    BY <1>1, <1>4
  <2>2. k[q[i]] = l[q[i]] - Before(q, l, i) /\ l[q[i]] \in 0 .. HALF - 1
    BY <2>1 DEF Delta
  <2>3. Before(q, l, i) \in 0 .. HALF - 1
    BY <2>1, BeforeType
  <2> DEFINE b == Before(q, l, i)
             c == l[q[i]]
  <2>4. W[i] = key - c
    BY <2>1 DEF Before
  <2>5. x = key - b /\ k[q[i]] = c - b /\ c \in 0 .. HALF - 1 /\ b \in 0 .. HALF - 1
    BY <1>4, <2>2, <2>3
  <2> HIDE DEF b, c, W
  <2>6. x - k[q[i]] = key - c /\ key - c \in Int /\ -HALF <= key - c /\ key - c < HALF
    BY SMTT(30), <1>1, <2>5
  <2> QED BY <2>4, <2>6, Int32Same
<1>5. W[0] = key
  BY <1>1 DEF Before
<1>6. W = [i \in N |-> step(W, i)]
  <2>1. ASSUME NEW i \in N, i # 0 PROVE W[i] = int32(W[i - 1] - k[q[i]])
    <3>1. i - 1 \in N /\ (i - 1) + 1 = i
      BY <1>1, <2>1
    <3>2. W[i - 1] = key - Before(q, l, i)
      BY <3>1
    <3> HIDE DEF W
    <3> QED BY <1>4, <2>1, <3>2
  <2>2. \A i \in N : W[i] = step(W, i)
    BY <1>5, <2>1
  <2>3. W = [i \in N |-> W[i]]
    OBVIOUS
  <2> HIDE DEF W, step
  <2> QED BY <2>2, <2>3
<1>7. R = [i \in N |-> step(R, i)]
  <2> DEFINE Eq(r) == r = [i \in N |-> step(r, i)]
  <2>1. Eq(W)
    BY <1>6
  <2>2. R = CHOOSE r : Eq(r)
    OBVIOUS
  <2> HIDE DEF Eq
  <2>3. Eq(R)
    BY <2>1, <2>2
  <2> QED BY <2>3 DEF Eq
<1> HIDE DEF R
<1>8. \A i \in N : R[i] = step(R, i)
  BY <1>7
<1> DEFINE D == {i \in N : R[i] # W[i]}
<1>9. D = {}
  <2> SUFFICES ASSUME D # {} PROVE FALSE
    OBVIOUS
  <2>1. D \in SUBSET Nat
    BY <1>1
  <2>2. PICK m \in D : \A n \in D : m <= n
    <3> HIDE DEF D
    <3> QED BY <2>1, LeastNat
  <2>3. m \in N /\ R[m] # W[m]
    OBVIOUS
  <2>4. m # 0
    BY <1>5, <1>8, <2>3
  <2>5. m - 1 \in N /\ (m - 1) + 1 = m /\ ~(m <= m - 1)
    BY <1>1, <2>3, <2>4
  <2>6. R[m - 1] = W[m - 1]
    BY <2>2, <2>5
  <2>7. W[m - 1] = key - Before(q, l, m)
    BY <2>5
  <2> HIDE DEF W, D
  <2>8. R[m] = int32(R[m - 1] - k[q[m]])
    BY <1>8, <2>3, <2>4
  <2> QED BY <1>4, <2>3, <2>4, <2>6, <2>7, <2>8
<1>10. remaining(q, k, key) = R
  BY DEF remaining, R
<1> QED BY <1>9, <1>10

\* insertd() stops behind those that have no more left than the caller asks for.
LEMMA InsertdPosFacts ==
    ASSUME NEW q \in Seq(Pids), NEW k, NEW l, Delta(q, k, l), NEW key \in 0 .. HALF - 1
    PROVE  /\ insertdPos(q, k, key) \in 1 .. Len(q) + 1
           /\ Before(q, l, insertdPos(q, k, key)) <= key
           /\ insertdPos(q, k, key) <= Len(q) => key <= l[q[insertdPos(q, k, key)]]
<1> DEFINE r == remaining(q, k, key)
           P(n) == n = Len(q) + 1 \/ k[q[n]] > r[n - 1]
           S == {n \in 1 .. Len(q) + 1 : P(n)}
           Q(n) == P(n) /\ \A j \in 1 .. n - 1 : ~(k[q[j]] > r[j - 1])
           c == CHOOSE n \in 1 .. Len(q) + 1 : Q(n)
<1>0. insertdPos(q, k, key) = c
  BY DEF insertdPos
<1>1. Len(q) \in Nat /\ key \in Int
  OBVIOUS
<1>2. \A i \in 0 .. Len(q) : r[i] = key - Before(q, l, i + 1)
  BY RemainingExact
<1> HIDE DEF r
<1>3. \E m \in 1 .. Len(q) + 1 : Q(m)
  <2>1. S \in SUBSET Nat /\ Len(q) + 1 \in S
    BY <1>1
  <2>2. PICK m \in S : \A n \in S : m <= n
    <3> HIDE DEF S
    <3> QED BY <2>1, LeastNat
  <2>3. \A j \in 1 .. m - 1 : ~P(j)
    BY <1>1, <2>1, <2>2
  <2> QED BY <2>2, <2>3
<1>4. c \in 1 .. Len(q) + 1 /\ Q(c)
  <2> HIDE DEF Q
  <2> QED BY <1>3
<1> HIDE DEF c
<1>5. \A j \in 1 .. Len(q) : k[q[j]] > r[j - 1] <=> l[q[j]] > key
  <2> SUFFICES ASSUME NEW j \in 1 .. Len(q) PROVE k[q[j]] > r[j - 1] <=> l[q[j]] > key
    OBVIOUS
  <2>1. j - 1 \in 0 .. Len(q) /\ (j - 1) + 1 = j /\ j \in 1 .. Len(q) + 1
    BY <1>1
  <2>2. r[j - 1] = key - Before(q, l, j)
    BY <1>2, <2>1
  <2>3. k[q[j]] = l[q[j]] - Before(q, l, j) /\ l[q[j]] \in 0 .. HALF - 1
    BY DEF Delta
  <2>4. Before(q, l, j) \in 0 .. HALF - 1
    BY <2>1, BeforeType
  <2> DEFINE b == Before(q, l, j)
             a == l[q[j]]
  <2>5. r[j - 1] = key - b /\ k[q[j]] = a - b /\ a \in Int /\ b \in Int
    BY <2>2, <2>3, <2>4
  <2> HIDE DEF a, b
  <2>6. k[q[j]] > r[j - 1] <=> a > key
    BY <1>1, <2>5
  <2> QED BY <2>6 DEF a
<1>6. c <= Len(q) => key <= l[q[c]]
  <2> SUFFICES ASSUME c <= Len(q) PROVE key <= l[q[c]]
    OBVIOUS
  <2>1. c \in 1 .. Len(q) /\ c # Len(q) + 1
    BY <1>1, <1>4
  <2>2. l[q[c]] > key /\ l[q[c]] \in Int
    BY <1>4, <1>5, <2>1 DEF Delta
  <2> QED BY <1>1, <2>2
<1>7. Before(q, l, c) <= key
  <2>1. CASE c = 1
    BY <1>1, <2>1 DEF Before
  <2>2. CASE c # 1
    <3>1. c - 1 \in 1 .. Len(q) /\ c - 1 \in 1 .. c - 1
      BY <1>1, <1>4, <2>2
    <3>2. ~(l[q[c - 1]] > key) /\ l[q[c - 1]] \in Int
      BY <1>4, <1>5, <3>1 DEF Delta
    <3> QED BY <1>1, <2>2, <3>2 DEF Before
  <2> QED BY <2>1, <2>2
<1> QED BY <1>0, <1>4, <1>6, <1>7

\* insertd() keeps every delay.
LEMMA DeltaInsertd ==
    ASSUME NEW q \in Seq(Pids), NEW k, DOMAIN k = Pids, NEW l \in [Pids -> Int], Delta(q, k, l),
           NEW p \in Pids, ~On(p, q), Distinct(q), NEW key \in 0 .. HALF - 1
    PROVE  Delta(insertd(p, q, k, key), insertdKeys(p, q, k, key), [l EXCEPT ![p] = key])
<1> DEFINE i  == insertdPos(q, k, key)
           d  == remaining(q, k, key)[i - 1]
           k2 == insertdKeys(p, q, k, key)
           l2 == [l EXCEPT ![p] = key]
<1>1. /\ i \in 1 .. Len(q) + 1 /\ Before(q, l, i) <= key
      /\ i <= Len(q) => key <= l[q[i]]
  BY InsertdPosFacts
<1>2. insertd(p, q, k, key) = InsertAt(q, i, p)
  BY DEF insertd
<1>3. k2 = IF i = Len(q) + 1 THEN [k EXCEPT ![p] = d]
           ELSE [k EXCEPT ![p] = d, ![q[i]] = int32(@ - d)]
  BY DEF insertdKeys
<1>4. \A n \in 0 .. Len(q) : remaining(q, k, key)[n] = key - Before(q, l, n + 1)
  BY RemainingExact
<1> HIDE DEF i
<1>5. Len(q) \in Nat /\ i - 1 \in 0 .. Len(q) /\ (i - 1) + 1 = i /\ key \in Int
  BY <1>1
<1>6. d = key - Before(q, l, i)
  BY <1>4, <1>5
<1> HIDE DEF d
<1>7. \A j \in 1 .. Len(q) : q[j] \in Pids /\ q[j] # p
  BY DEF On
<1>8. \A j \in 1 .. Len(q) : l2[q[j]] = l[q[j]]
  BY <1>7
<1>9. l2[p] = key
  OBVIOUS
<1>10. \A j \in 1 .. Len(q) : i \in 1 .. Len(q) /\ j # i => q[j] # q[i]
  BY DEF Distinct
<1>11. k2[p] = d
  <2>1. CASE i = Len(q) + 1
    BY <1>3, <2>1
  <2>2. CASE i # Len(q) + 1
    <3>1. q[i] # p /\ q[i] \in Pids
      BY <1>1, <1>5, <1>7, <2>2
    <3> QED BY <1>3, <2>2, <3>1
  <2> QED BY <2>1, <2>2
<1>12. \A j \in 1 .. Len(q) : j # i => k2[q[j]] = k[q[j]]
  <2> SUFFICES ASSUME NEW j \in 1 .. Len(q), j # i PROVE k2[q[j]] = k[q[j]]
    OBVIOUS
  <2>0. q[j] \in Pids /\ q[j] # p
    BY <1>7
  <2>1. CASE i = Len(q) + 1
    BY <1>3, <2>0, <2>1
  <2>2. CASE i # Len(q) + 1
    <3>0. i \in 1 .. Len(q)
      <4>1. i \in 1 .. Len(q) + 1
        BY <1>1
      <4> QED BY <1>5, <2>2, <4>1, InsidePlace
    <3>1. q[i] # q[j]
      BY <1>10, <3>0
    <3> QED BY <1>3, <2>0, <2>2, <3>1
  <2> QED BY <2>1, <2>2
<1>13. i <= Len(q) => k2[q[i]] = l[q[i]] - key
  <2> SUFFICES ASSUME i <= Len(q) PROVE k2[q[i]] = l[q[i]] - key
    OBVIOUS
  <2>1. i # Len(q) + 1 /\ i \in 1 .. Len(q)
    BY <1>1, <1>5
  <2>2. q[i] \in Pids /\ q[i] # p
    BY <1>7, <2>1
  <2>3. k2[q[i]] = int32(k[q[i]] - d)
    BY <1>3, <2>1, <2>2
  <2>4. k[q[i]] = l[q[i]] - Before(q, l, i) /\ l[q[i]] \in 0 .. HALF - 1
    BY <2>1 DEF Delta
  <2>5. Before(q, l, i) \in 0 .. HALF - 1
    BY <1>1, BeforeType
  <2> DEFINE a == l[q[i]]
             b == Before(q, l, i)
  <2>6. k[q[i]] = a - b /\ d = key - b /\ a \in 0 .. HALF - 1 /\ b \in 0 .. HALF - 1 /\ key <= a
    BY <1>1, <1>6, <2>4, <2>5
  <2> HIDE DEF a, b
  <2>7. k[q[i]] - d = a - key /\ a - key \in Int /\ -HALF <= a - key /\ a - key < HALF
    BY <1>5, <2>6
  <2>8. int32(k[q[i]] - d) = a - key
    BY <2>7, Int32Same
  <2> QED BY <2>3, <2>8 DEF a
<1> HIDE DEF k2, l2
<1>14. k2[p] = key - Before(q, l, i)
  BY <1>6, <1>11
<1>15. Delta(InsertAt(q, i, p), k2, l2)
  <2>1. /\ i \in 1 .. Len(q) + 1 /\ Before(q, l, i) <= key
        /\ i <= Len(q) => key <= l[q[i]]
    BY <1>1
  <2> QED BY SMTT(90), <2>1, <1>8, <1>9, <1>12, <1>13, <1>14, DeltaInsertAt
<1> QED BY <1>2, <1>15 DEF k2, l2

\* unsleep() and getitem() keep the delays of the others.
LEMMA DeltaUnsleep ==
    ASSUME NEW q \in Seq(Pids), NEW k, DOMAIN k = Pids, NEW l, Delta(q, k, l),
           NEW p \in Pids, On(p, q), Distinct(q)
    PROVE  Delta(getitem(q, p), unsleepKeys(p, q, k), l)
<1> DEFINE i  == CHOOSE j \in 1 .. Len(q) : q[j] = p
           k2 == unsleepKeys(p, q, k)
<1>1. i \in 1 .. Len(q) /\ q[i] = p
  BY DEF On
<1>2. getitem(q, p) = RemoveAt(q, i)
  BY DEF getitem
<1>3. k2 = IF i = Len(q) THEN k ELSE [k EXCEPT ![q[i + 1]] = int32(@ + k[p])]
  BY DEF unsleepKeys
<1> HIDE DEF i
<1>4. Len(q) \in Nat /\ \A j \in 1 .. Len(q) : q[j] \in Pids
  OBVIOUS
<1>5. \A j \in 1 .. Len(q) : j # i /\ j # i + 1 => k2[q[j]] = k[q[j]]
  <2> SUFFICES ASSUME NEW j \in 1 .. Len(q), j # i, j # i + 1 PROVE k2[q[j]] = k[q[j]]
    OBVIOUS
  <2>1. CASE i = Len(q)
    BY <1>3, <2>1
  <2>2. CASE i # Len(q)
    <3>1. i + 1 \in 1 .. Len(q)
      BY <1>1, <1>4, <2>2
    <3>2. q[i + 1] # q[j]
      BY <3>1 DEF Distinct
    <3>3. q[j] \in Pids
      BY <1>4
    <3> QED BY <1>3, <2>2, <3>2, <3>3
  <2> QED BY <2>1, <2>2
<1>6. i < Len(q) => k2[q[i + 1]] = k[q[i + 1]] + k[q[i]]
  <2> SUFFICES ASSUME i < Len(q) PROVE k2[q[i + 1]] = k[q[i + 1]] + k[q[i]]
    OBVIOUS
  <2>1. /\ i # Len(q) /\ i + 1 \in 1 .. Len(q) /\ i + 1 # 1 /\ (i + 1) - 1 = i
        /\ i \in 1 .. Len(q) + 1 /\ i + 1 \in 1 .. Len(q) + 1
    BY <1>1, <1>4
  <2>2. q[i + 1] \in Pids
    BY <1>4, <2>1
  <2>3. k2[q[i + 1]] = int32(k[q[i + 1]] + k[q[i]])
    BY <1>1, <1>3, <2>1, <2>2
  <2> DEFINE a == l[q[i + 1]]
             b == l[q[i]]
             c == Before(q, l, i)
  <2>4. k[q[i + 1]] = a - b /\ k[q[i]] = b - c
    BY <1>1, <2>1 DEF Delta, Before
  <2>5. a \in 0 .. HALF - 1 /\ b \in 0 .. HALF - 1
    BY <1>1, <2>1 DEF Delta
  <2>6. c \in 0 .. HALF - 1 /\ c <= b
    BY <1>1, <1>4, <2>1, BeforeType
  <2> HIDE DEF a, b, c
  <2> DEFINE s == k[q[i + 1]] + k[q[i]]
  <2>7. s = a - c /\ s \in Int /\ -HALF <= s /\ s < HALF
    BY SMTT(30), <2>4, <2>5, <2>6
  <2> HIDE DEF s
  <2>8. int32(s) = s
    BY <2>7, Int32Same
  <2> QED BY <2>3, <2>8 DEF s
<1> HIDE DEF k2
<1>7. Delta(RemoveAt(q, i), k2, l)
  BY <1>1, <1>5, <1>6, DeltaRemove
<1> QED BY <1>2, <1>7 DEF k2

-----------------------------------------------------------------------------
(* The kernel keeps the delta list.                                        *)

\* Nobody's time is up.
NotDue == \A x \in Pids : On(x, sleepq) => left[x] > 0

\* DelaysKept is not inductive: insertd() and unsleep() need that the queue is
\* in order and that no key wraps around, and the clock, which tests a key for
\* 0 after it has decremented it, needs that it was positive before.
DelayInv ==
    /\ Delta(sleepq, qkey, left)
    /\ frame[currpid].op # "wakeup" => NotDue

\* The keys of the sleepers do not change.
SleepKeysSame == \A x \in Pids : On(x, sleepq) => qkey'[x] = qkey[x]

\* What the invariant says of the sleep queue.
LEMMA SleepFacts ==
    ASSUME Inv
    PROVE  /\ sleepq \in Seq(Pids) /\ Distinct(sleepq) /\ left \in [Pids -> Int]
           /\ DOMAIN qkey = Pids /\ currpid \in Pids /\ ~On(currpid, sleepq)
           /\ \A i \in 1 .. Len(sleepq) : sleepq[i] \in Pids /\ On(sleepq[i], sleepq)
<1>1. /\ sleepq \in Seq(Pids) /\ Distinct(sleepq) /\ left \in [Pids -> Int]
      /\ DOMAIN qkey = Pids /\ currpid \in Pids
  BY InvSched, InvTypes DEF ClkTypeOK, SleepAgree
<1>2. ~On(currpid, sleepq)
  BY InvSched, InvTypes DEF SleepAgree
<1>3. \A i \in 1 .. Len(sleepq) : sleepq[i] \in Pids /\ On(sleepq[i], sleepq)
  BY <1>1 DEF On
<1> QED BY <1>1, <1>2, <1>3

\* A delta list only depends on the keys of its processes.
LEMMA DeltaSame ==
    ASSUME NEW q, NEW k, NEW k2, NEW l, Delta(q, k, l), \A i \in 1 .. Len(q) : k2[q[i]] = k[q[i]]
    PROVE  Delta(q, k2, l)
BY DEF Delta

\* A step outside wakeup() that leaves the sleep queue and its keys alone.
LEMMA QuietDelay ==
    ASSUME Inv, DelayInv, frame[currpid].op # "wakeup", UNCHANGED clkVars, SleepKeysSame
    PROVE  DelayInv'
<1>1. sleepq' = sleepq /\ left' = left
  BY DEF clkVars
<1>2. \A i \in 1 .. Len(sleepq) : qkey'[sleepq[i]] = qkey[sleepq[i]]
  BY SleepFacts DEF SleepKeysSame
<1>3. Delta(sleepq, qkey', left)
  BY <1>2, DeltaSame DEF DelayInv
<1>4. NotDue'
  BY <1>1 DEF DelayInv, NotDue
<1> QED BY <1>1, <1>3, <1>4 DEF DelayInv

\* resched() gives a key to the current process only, and none when that blocks.
LEMMA ReschedKeys ==
    ASSUME Inv, NEW nd, NEW st, NEW rl, NEW k, NEW pre, DOMAIN k = Pids,
           resched(nd, st, rl, k, pre)
    PROVE  /\ \A x \in Pids \ {currpid} : qkey'[x] = k[x]
           /\ st[currpid] # "CURR" => qkey' = k
BY InvSched DEF resched, switch, stay

\* ready() gives a key to its argument too.
LEMMA ReadyKeys ==
    ASSUME Inv, NEW p \in Pids, NEW k, DOMAIN k = Pids, ready(p, ndefers, prstate, k)
    PROVE  \A x \in Pids \ {currpid, p} : qkey'[x] = k[x]
<1> DEFINE st == [prstate EXCEPT ![p] = "READY"]
           rl == insert(p, readylist, k, prprio[p])
           k2 == [k EXCEPT ![p] = prprio[p]]
<1>1. DOMAIN k2 = Pids /\ \A x \in Pids \ {p} : k2[x] = k[x]
  OBVIOUS
<1>2. resched(ndefers, st, rl, k2, preempt)
  BY DEF ready
<1> HIDE DEF st, rl, k2
<1>3. \A x \in Pids \ {currpid} : qkey'[x] = k2[x]
  BY <1>1, <1>2, ReschedKeys
<1> QED BY <1>1, <1>3

\* resched() with the keys as they are.
LEMMA ReschedSleep ==
    ASSUME Inv, NEW nd, NEW st, NEW rl, NEW pre, resched(nd, st, rl, qkey, pre)
    PROVE  SleepKeysSame
BY SleepFacts, ReschedKeys DEF SleepKeysSame

\* ready() of a process that does not sleep.
LEMMA ReadySleep ==
    ASSUME Inv, NEW p \in Pids, ~On(p, sleepq), ready(p, ndefers, prstate, qkey)
    PROVE  SleepKeysSame
BY SleepFacts, ReadyKeys DEF SleepKeysSame

\* A step without resched().
LEMMA IdleSleep == ASSUME qkey' = qkey PROVE SleepKeysSame
BY DEF SleepKeysSame

\* The end of a deferring loop.
LEMMA StopSleep == ASSUME Inv, deferStop PROVE SleepKeysSame
BY ReschedSleep, IdleSleep DEF deferStop, schedVars

\* ready(dequeue(squeue)): a process that waits does not sleep.
LEMMA FirstSleep == ASSUME Inv, NEW s \in Sids, readyFirst(s) PROVE SleepKeysSame
<1>1. CASE squeue[s] = <<>>
  BY <1>1, IdleSleep DEF readyFirst, schedVars
<1>2. CASE squeue[s] # <<>>
  <2> DEFINE p == Head(squeue[s])
  <2>1. ready(p, ndefers, prstate, qkey)
    BY <1>2 DEF readyFirst
  <2>2. p \in Pids /\ On(p, squeue[s])
    BY <1>2, InvTypes, TailQueue DEF SemAgree, SemTypeOK
  <2> HIDE DEF p
  <2>3. ~On(p, sleepq)
    BY <2>2, InvTypes DEF SemAgree, SleepAgree
  <2> QED BY <2>1, <2>2, <2>3, ReadySleep
<1> QED BY <1>1, <1>2

\* One signal.
LEMMA SignalSleep == ASSUME Inv, NEW s \in Sids, signalOnce(s) PROVE SleepKeysSame
BY FirstSleep, IdleSleep DEF signalOnce, schedVars

\* A process leaves the sleep queue before its time.
LEMMA LeaveDelay ==
    ASSUME Inv, DelayInv, frame[currpid].op # "wakeup", NEW p \in Pids, On(p, sleepq), left' = left,
           sleepq' = getitem(sleepq, p),
           \A x \in Pids \ {currpid, p} : qkey'[x] = unsleepKeys(p, sleepq, qkey)[x]
    PROVE  DelayInv'
<1> DEFINE q2 == getitem(sleepq, p)
           k2 == unsleepKeys(p, sleepq, qkey)
<1>1. Delta(q2, k2, left)
  BY SleepFacts, DeltaUnsleep DEF DelayInv
<1>2. /\ q2 \in Seq(Pids)
      /\ \A x \in Pids : On(x, q2) <=> On(x, sleepq) /\ x # p
  BY SleepFacts, GetitemQueue
<1> HIDE DEF q2, k2
<1>3. \A i \in 1 .. Len(q2) : q2[i] \in Pids /\ On(q2[i], q2)
  BY <1>2 DEF On
<1>4. \A i \in 1 .. Len(q2) : q2[i] \in Pids \ {currpid, p}
  BY <1>2, <1>3, SleepFacts
<1>5. \A i \in 1 .. Len(q2) : qkey'[q2[i]] = k2[q2[i]]
  BY <1>4 DEF k2
<1>6. Delta(q2, qkey', left)
  BY <1>1, <1>5, DeltaSame
<1>7. \A x \in Pids : On(x, q2) => left[x] > 0
  BY <1>2 DEF DelayInv, NotDue
<1>8. sleepq' = q2
  BY DEF q2
<1> QED BY <1>6, <1>7, <1>8 DEF DelayInv, NotDue

\* The current process joins it.
LEMMA JoinDelay ==
    ASSUME Inv, DelayInv, frame[currpid].op # "wakeup", NEW t \in 1 .. HALF - 1, NEW v, v # "CURR",
           sleepq' = insertd(currpid, sleepq, qkey, t), left' = [left EXCEPT ![currpid] = t],
           resched(ndefers, [prstate EXCEPT ![currpid] = v], readylist,
                   insertdKeys(currpid, sleepq, qkey, t), preempt)
    PROVE  DelayInv'
<1> DEFINE q2 == insertd(currpid, sleepq, qkey, t)
           k2 == insertdKeys(currpid, sleepq, qkey, t)
           l2 == [left EXCEPT ![currpid] = t]
           st == [prstate EXCEPT ![currpid] = v]
<1>0. t \in 0 .. HALF - 1 /\ t > 0
  OBVIOUS
<1>1. Delta(q2, k2, l2)
  BY <1>0, SleepFacts, DeltaInsertd DEF DelayInv
<1>2. \A x \in Pids : On(x, q2) <=> On(x, sleepq) \/ x = currpid
  BY SleepFacts, InsertdQueue
<1>3. DOMAIN k2 = Pids
  BY SleepFacts, InsertdDomain
<1>4. st[currpid] = v
  BY InvSched DEF SchedReady
<1>5. \A x \in Pids : l2[x] = IF x = currpid THEN t ELSE left[x]
  BY SleepFacts
<1>6. resched(ndefers, st, readylist, k2, preempt)
  OBVIOUS
<1>7. sleepq' = q2 /\ left' = l2
  OBVIOUS
<1> HIDE DEF q2, k2, l2, st
<1>8. qkey' = k2
  BY <1>3, <1>4, <1>6, ReschedKeys
<1>9. \A x \in Pids : On(x, q2) => l2[x] > 0
  BY <1>0, <1>2, <1>5 DEF DelayInv, NotDue
<1> QED BY <1>1, <1>7, <1>8, <1>9 DEF DelayInv, NotDue

\* send(): a process in recvtime() leaves the sleep queue.
LEMMA SendDelay ==
    ASSUME Inv, DelayInv, frame[currpid].op # "wakeup", NEW p \in Pids, NEW msg,
           sendTo(p, msg), left' = left
    PROVE  DelayInv'
<1>1. CASE UNCHANGED <<sleepq, schedVars>>
  BY <1>1, IdleSleep, QuietDelay DEF clkVars, schedVars
<1>2. CASE prstate[p] = "RECV" /\ ready(p, ndefers, prstate, qkey) /\ sleepq' = sleepq
  <2>1. ~On(p, sleepq)
    BY <1>2, InvTypes DEF SleepAgree
  <2> QED BY <1>2, <2>1, ReadySleep, QuietDelay DEF clkVars
<1>3. CASE /\ prstate[p] = "RECTIM" /\ sleepq' = getitem(sleepq, p)
           /\ ready(p, ndefers, prstate, unsleepKeys(p, sleepq, qkey))
  <2> DEFINE k == unsleepKeys(p, sleepq, qkey)
  <2>1. On(p, sleepq)
    BY <1>3, InvTypes DEF SleepAgree
  <2>2. DOMAIN k = Pids
    BY SleepFacts, UnsleepDomain
  <2>3. ready(p, ndefers, prstate, k)
    BY <1>3
  <2> HIDE DEF k
  <2>4. \A x \in Pids \ {currpid, p} : qkey'[x] = k[x]
    BY <2>2, <2>3, ReadyKeys
  <2> QED BY <1>3, <2>1, <2>4, LeaveDelay DEF k
<1> QED BY <1>1, <1>2, <1>3 DEF sendTo

\* The end of kill(): a sleeping victim leaves the sleep queue.
LEMMA KillEndDelay == ASSUME Inv, DelayInv, killEnd PROVE DelayInv'
<1> DEFINE p  == frame[currpid].tgt
           st == [prstate EXCEPT ![p] = "FREE"]
           k  == unsleepKeys(p, sleepq, qkey)
<1>1. left' = left /\ frame[currpid].op = "kill"
  BY DEF killEnd, Inside
<1>2. p \in Pids
  BY <1>1, InvSched, InvTypes DEF FrameTypeOK
<1>3. CASE resched(ndefers, st, readylist, qkey, preempt) /\ sleepq' = sleepq
  <2> HIDE DEF st
  <2>1. SleepKeysSame
    BY <1>3, ReschedSleep
  <2> QED BY <1>1, <1>3, <2>1, QuietDelay DEF clkVars
<1>4. CASE prstate[p] \in {"SLEEP", "RECTIM"} /\ sleepq' = getitem(sleepq, p) /\ qkey' = k
  <2>1. On(p, sleepq)
    BY <1>2, <1>4, InvTypes DEF SleepAgree
  <2>2. \A x \in Pids \ {currpid, p} : qkey'[x] = k[x]
    BY <1>4
  <2> HIDE DEF p
  <2> QED BY <1>1, <1>2, <1>4, <2>1, <2>2, LeaveDelay
<1>5. CASE qkey' = qkey /\ sleepq' = sleepq
  BY <1>1, <1>5, IdleSleep, QuietDelay DEF clkVars
<1> QED BY <1>3, <1>4, <1>5 DEF killEnd

\* A tick: everybody had something left to wait and has one less now; the key
\* of the first is decremented.
Ticked(q, k, l, k2, l2) ==
    /\ k2[Head(q)] = int32(k[Head(q)] - 1)
    /\ \A x \in Pids : x # Head(q) => k2[x] = k[x]
    /\ \A i \in 1 .. Len(q) : l[q[i]] > 0 /\ l2[q[i]] = l[q[i]] - 1

\* The key of the first says it for all of them.
LEMMA TickDelta ==
    ASSUME NEW q \in Seq(Pids), Distinct(q), NEW k, DOMAIN k = Pids, NEW l \in [Pids -> Int],
           Delta(q, k, l), q # <<>>, NEW k2, NEW l2, Ticked(q, k, l, k2, l2)
    PROVE  Delta(q, k2, l2) /\ k2[Head(q)] = l2[q[1]]
<1>1. Len(q) \in Nat /\ Len(q) > 0 /\ 1 \in 1 .. Len(q)
  BY EmptySeq
<1>2. Head(q) = q[1] /\ \A i \in 1 .. Len(q) : q[i] \in Pids
  BY <1>1
<1>3. k[q[1]] = l[q[1]] - 0 /\ l[q[1]] \in 1 .. HALF - 1
  <2>1. l[q[1]] \in 0 .. HALF - 1 /\ k[q[1]] = l[q[1]] - Before(q, l, 1)
    BY <1>1 DEF Delta
  <2>2. l[q[1]] > 0
    BY <1>1 DEF Ticked
  <2>3. Before(q, l, 1) = 0
    BY DEF Before
  <2> QED BY <2>1, <2>2, <2>3
<1> DEFINE a == l[q[1]]
<1>4. int32(k[q[1]] - 1) = a - 1
  <2>1. k[q[1]] = a /\ a \in 1 .. HALF - 1
    BY <1>3
  <2> HIDE DEF a
  <2>2. k[q[1]] - 1 = a - 1 /\ a - 1 \in Int /\ -HALF <= a - 1 /\ a - 1 < HALF
    BY <2>1
  <2> QED BY <2>2, Int32Same
<1>5. k2[q[1]] = l2[q[1]]
  <2>1. k2[q[1]] = int32(k[q[1]] - 1)
    BY <1>2 DEF Ticked
  <2>2. l2[q[1]] = a - 1
    BY <1>1 DEF Ticked
  <2> QED BY <1>4, <2>1, <2>2
<1>6. \A i \in 1 .. Len(q) : i # 1 => k2[q[i]] = k[q[i]]
  <2> SUFFICES ASSUME NEW i \in 1 .. Len(q), i # 1 PROVE k2[q[i]] = k[q[i]]
    OBVIOUS
  <2>1. q[i] # q[1] /\ q[i] \in Pids
    BY <1>1, <1>2 DEF Distinct
  <2> QED BY <1>2, <2>1 DEF Ticked
<1>7. \A i \in 1 .. Len(q) : l[q[i]] \in 1 .. HALF - 1 /\ l2[q[i]] = l[q[i]] - 1
  BY DEF Delta, Ticked
<1>8. \A i \in 1 .. Len(q) : l2[q[i]] \in 0 .. HALF - 1
  BY <1>7
<1>9. ASSUME NEW i \in 1 .. Len(q), NEW j \in 1 .. Len(q), i <= j PROVE l2[q[i]] <= l2[q[j]]
  <2>1. l[q[i]] <= l[q[j]]
    BY <1>9 DEF Delta
  <2> QED BY <1>7, <2>1
<1>10. ASSUME NEW i \in 1 .. Len(q) PROVE k2[q[i]] = l2[q[i]] - Before(q, l2, i)
  <2>1. CASE i = 1
    BY <1>1, <1>5, <1>8, <2>1 DEF Before
  <2>2. CASE i # 1
    <3>1. i - 1 \in 1 .. Len(q)
      BY <1>1, <2>2
    <3>2. k[q[i]] = l[q[i]] - l[q[i - 1]]
      BY <2>2 DEF Delta, Before
    <3>3. Before(q, l2, i) = l[q[i - 1]] - 1
      BY <1>7, <2>2, <3>1 DEF Before
    <3>4. l[q[i]] \in Int /\ l[q[i - 1]] \in Int /\ l2[q[i]] = l[q[i]] - 1
      BY <1>7, <3>1
    <3> QED BY <1>6, <2>2, <3>2, <3>3, <3>4
  <2> QED BY <2>1, <2>2
<1> QED BY <1>2, <1>5, <1>8, <1>9, <1>10 DEF Delta

\* clkhandler(): when nobody's time is up now, wakeup() is not called.
LEMMA ClkDelay == ASSUME Inv, DelayInv, clkhandler PROVE DelayInv'
<1>0. /\ frame[currpid].op = "user" /\ sleepq' = sleepq /\ currpid' = currpid
      /\ left' = tickLeft
  BY DEF clkhandler, UserMode
<1>1. NotDue
  BY <1>0 DEF DelayInv
<1>2. \A x \in Pids : left'[x] = IF On(x, sleepq) THEN left[x] - 1 ELSE left[x]
  <2>1. DOMAIN sleepq = 1 .. Len(sleepq)
    BY SleepFacts
  <2>2. ToSet(sleepq) = {sleepq[i] : i \in 1 .. Len(sleepq)}
    BY <2>1 DEF ToSet
  <2>3. \A x \in Pids : x \in ToSet(sleepq) <=> On(x, sleepq)
    BY <2>2 DEF On
  <2> QED BY <1>0, <2>3 DEF tickLeft
<1>3. CASE sleepq = <<>>
  <2>1. Delta(sleepq, qkey', left')
    BY <1>3 DEF Delta
  <2>2. NotDue'
    BY <1>0, <1>3 DEF NotDue, On
  <2> QED BY <1>0, <2>1, <2>2 DEF DelayInv
<1>4. CASE sleepq # <<>>
  <2>1. qkey' = [qkey EXCEPT ![Head(sleepq)] = int32(@ - 1)]
    BY <1>4 DEF clkhandler
  <2>2. \A i \in 1 .. Len(sleepq) : left[sleepq[i]] > 0 /\ left'[sleepq[i]] = left[sleepq[i]] - 1
    BY <1>1, <1>2, SleepFacts DEF NotDue
  <2>3. Delta(sleepq, qkey, left)
    BY DEF DelayInv
  <2>4. Delta(sleepq, qkey', left') /\ qkey'[Head(sleepq)] = left'[sleepq[1]]
    <3>1. sleepq \in Seq(Pids) /\ Distinct(sleepq) /\ DOMAIN qkey = Pids /\ left \in [Pids -> Int]
      BY SleepFacts
    <3>2. Head(sleepq) \in Pids
      BY <1>4, <3>1
    <3>3. /\ qkey'[Head(sleepq)] = int32(qkey[Head(sleepq)] - 1)
          /\ \A x \in Pids : x # Head(sleepq) => qkey'[x] = qkey[x]
      BY <2>1, <3>1, <3>2
    <3>4. Ticked(sleepq, qkey, left, qkey', left')
      BY <2>2, <3>3 DEF Ticked
    <3> QED BY <1>4, <2>3, <3>1, <3>4, TickDelta
  <2>5. CASE qkey'[Head(sleepq)] = 0
    <3>1. frame' = [frame EXCEPT ![currpid] = Frame("wakeup", 0, 0)]
      BY <1>4, <2>5 DEF clkhandler
    <3>2. currpid \in Pids
      BY SleepFacts
    <3>3. frame'[currpid] = Frame("wakeup", 0, 0)
      <4>1. currpid \in DOMAIN frame
        BY <3>2, InvTypes DEF FrameTypeOK
      <4> QED BY <3>1, <4>1
    <3>4. frame'[currpid].op = "wakeup"
      BY <3>3 DEF Frame
    <3> QED BY <1>0, <2>4, <3>4 DEF DelayInv
  <2>6. CASE qkey'[Head(sleepq)] # 0
    <3>1. left'[sleepq[1]] # 0 /\ 1 \in 1 .. Len(sleepq) /\ Len(sleepq) \in Nat
      BY <1>4, <2>4, <2>6, SleepFacts, EmptySeq
    <3>2. left'[sleepq[1]] \in 1 .. HALF - 1
      BY <2>4, <3>1 DEF Delta
    <3>3. \A i \in 1 .. Len(sleepq) : left'[sleepq[1]] <= left'[sleepq[i]] /\ left'[sleepq[i]] \in Int
      BY <2>4, <3>1 DEF Delta
    <3>4. \A i \in 1 .. Len(sleepq) : left'[sleepq[i]] > 0
      BY <3>2, <3>3
    <3>5. NotDue'
      BY <1>0, <3>4 DEF NotDue, On
    <3> QED BY <1>0, <2>4, <3>5 DEF DelayInv
  <2> QED BY <2>5, <2>6
<1> QED BY <1>3, <1>4

\* The first on the sleep queue has what its key says left, and nobody less.
LEMMA HeadDue ==
    ASSUME Inv, DelayInv, sleepq # <<>>
    PROVE  /\ Head(sleepq) \in Pids /\ On(Head(sleepq), sleepq)
           /\ qkey[Head(sleepq)] = left[Head(sleepq)] /\ left[Head(sleepq)] \in 0 .. HALF - 1
           /\ \A x \in Pids : On(x, sleepq) => left[Head(sleepq)] <= left[x] /\ left[x] \in Int
<1>1. Len(sleepq) \in Nat /\ 1 \in 1 .. Len(sleepq) /\ Head(sleepq) = sleepq[1]
  BY SleepFacts, EmptySeq
<1>2. Delta(sleepq, qkey, left)
  BY DEF DelayInv
<1>3. left[sleepq[1]] \in 0 .. HALF - 1
  BY <1>1, <1>2 DEF Delta
<1>4. qkey[sleepq[1]] = left[sleepq[1]] - 0
  BY <1>1, <1>2 DEF Delta, Before
<1>5. \A i \in 1 .. Len(sleepq) : left[sleepq[1]] <= left[sleepq[i]] /\ left[sleepq[i]] \in Int
  BY <1>1, <1>2 DEF Delta
<1>6. \A x \in Pids : On(x, sleepq) => left[sleepq[1]] <= left[x] /\ left[x] \in Int
  BY <1>5 DEF On
<1> QED BY <1>1, <1>3, <1>4, <1>6, SleepFacts

\* wakeup() takes exactly those whose time is up, from the head.
LEMMA WakeupDelay == ASSUME Inv, Inv', DelayInv, wakeup PROVE DelayInv'
<1>0. left' = left /\ frame[currpid].op = "wakeup" /\ ndefers = 1
  BY DeferCount DEF wakeup, Inside, DeferLoops
<1>1. CASE /\ expired(sleepq, qkey) /\ sleepq' = Tail(sleepq) /\ frame' = frame
           /\ ready(Head(sleepq), ndefers, prstate, qkey)
  <2> DEFINE p == Head(sleepq)
             q2 == Tail(sleepq)
  <2>1. sleepq # <<>> /\ qkey[p] <= 0
    BY <1>1 DEF expired, firstkey
  <2>2. p \in Pids /\ On(p, sleepq) /\ left[p] = 0
    BY <2>1, HeadDue
  <2>3. Delta(q2, qkey, left)
    BY <2>1, <2>2, SleepFacts, DeltaTail DEF DelayInv
  <2>4. q2 \in Seq(Pids) /\ \A x \in Pids : On(x, q2) <=> On(x, sleepq) /\ x # p
    BY <2>1, SleepFacts, TailQueue
  <2>5. ready(p, ndefers, prstate, qkey) /\ sleepq' = q2
    BY <1>1
  <2>6. currpid' = currpid
    <3>1. prstate[p] \in Blocked
      BY <2>2, InvTypes DEF SleepAgree, Blocked
    <3>2. SchedDone(ndefers, [prstate EXCEPT ![p] = "READY"])
      BY <2>2, <2>5, <3>1, SleepFacts, ReadyLemma
    <3> QED BY <1>0, <3>2 DEF SchedDone
  <2> HIDE DEF p, q2
  <2>7. \A x \in Pids \ {currpid, p} : qkey'[x] = qkey[x]
    BY <2>2, <2>5, SleepFacts, ReadyKeys
  <2>8. \A i \in 1 .. Len(q2) : q2[i] \in Pids /\ On(q2[i], q2)
    BY <2>4 DEF On
  <2>9. \A i \in 1 .. Len(q2) : q2[i] \in Pids \ {currpid, p}
    BY <2>4, <2>8, SleepFacts
  <2>10. \A i \in 1 .. Len(q2) : qkey'[q2[i]] = qkey[q2[i]]
    BY <2>7, <2>9
  <2>11. Delta(q2, qkey', left)
    BY <2>3, <2>10, DeltaSame
  <2> QED BY <1>0, <1>1, <2>5, <2>6, <2>11 DEF DelayInv
<1>2. CASE ~expired(sleepq, qkey) /\ deferStop /\ sleepq' = sleepq
  <2>1. SleepKeysSame
    BY <1>2, StopSleep
  <2>2. \A i \in 1 .. Len(sleepq) : qkey'[sleepq[i]] = qkey[sleepq[i]]
    BY <2>1, SleepFacts DEF SleepKeysSame
  <2>3. Delta(sleepq, qkey', left)
    BY <2>2, DeltaSame DEF DelayInv
  <2>4. NotDue
    <3>1. CASE sleepq = <<>>
      BY <3>1 DEF NotDue, On
    <3>2. CASE sleepq # <<>>
      <4>1. ~(qkey[Head(sleepq)] <= 0)
        BY <1>2, <3>2 DEF expired, firstkey
      <4> QED BY <3>2, <4>1, HeadDue DEF NotDue
    <3> QED BY <3>1, <3>2
  <2>5. NotDue'
    BY <1>0, <1>2, <2>4 DEF NotDue
  <2> QED BY <1>0, <1>2, <2>3, <2>5 DEF DelayInv
<1> QED BY <1>1, <1>2 DEF wakeup

-----------------------------------------------------------------------------
(* Every step keeps the delta list.                                        *)

\* The calls of the process manager.
LEMMA ProcDelay ==
    ASSUME Inv, DelayInv,
           \/ \E x \in Prios : create(x) \/ createFails(x)
           \/ \E p \in Pids : suspend(p) \/ resume(p) \/ kill(p)
           \/ \E p \in Pids, x \in NewPrios : chprio(p, x)
           \/ yield
           \/ killEnd
    PROVE  DelayInv'
<1>1. CASE \E x \in Prios : create(x) \/ createFails(x)
  BY <1>1, IdleSleep, QuietDelay DEF create, createFails, Caller, UserMode, schedVars
<1>2. ASSUME NEW p \in Pids, suspend(p) PROVE DelayInv'
  <2> DEFINE st == [prstate EXCEPT ![p] = "SUSP"]
  <2>1. UNCHANGED clkVars /\ frame[currpid].op # "wakeup"
    BY <1>2 DEF suspend, Caller, UserMode
  <2>2. CASE qkey' = qkey
    BY <2>1, <2>2, IdleSleep, QuietDelay
  <2>3. CASE resched(ndefers, st, readylist, qkey, preempt)
    <3> HIDE DEF st
    <3> QED BY <2>1, <2>3, ReschedSleep, QuietDelay
  <2> QED BY <1>2, <2>2, <2>3 DEF suspend
<1>3. ASSUME NEW p \in Pids, resume(p) PROVE DelayInv'
  <2>1. UNCHANGED clkVars /\ frame[currpid].op # "wakeup"
    BY <1>3 DEF resume, Caller, UserMode
  <2>2. ready(p, ndefers, prstate, qkey) /\ prstate[p] = "SUSP"
    BY <1>3 DEF resume, resumable
  <2>3. ~On(p, sleepq)
    BY <2>2, InvTypes DEF SleepAgree
  <2> QED BY <2>1, <2>2, <2>3, ReadySleep, QuietDelay
<1>4. ASSUME NEW p \in Pids, kill(p) PROVE DelayInv'
  <2>1. left' = left /\ frame[currpid].op # "wakeup" /\ prparent[p] \in Pids
    BY <1>4, InvTypes DEF kill, Caller, UserMode, TabTypeOK
  <2>2. CASE UNCHANGED <<sleepq, schedVars>>
    BY <2>1, <2>2, IdleSleep, QuietDelay DEF clkVars, schedVars
  <2>3. CASE sendTo(prparent[p], p)
    BY <2>1, <2>3, SendDelay
  <2> QED BY <1>4, <2>2, <2>3 DEF kill
<1>5. CASE \E p \in Pids, x \in NewPrios : chprio(p, x)
  BY <1>5, IdleSleep, QuietDelay DEF chprio, Caller, UserMode, schedVars
<1>6. CASE yield
  BY <1>6, ReschedSleep, QuietDelay DEF yield, Caller, UserMode
<1>7. CASE killEnd
  BY <1>7, KillEndDelay
<1> QED BY <1>1, <1>2, <1>3, <1>4, <1>5, <1>6, <1>7

\* The semaphore calls.
LEMMA SemDelay ==
    ASSUME Inv, DelayInv,
           \/ \E n \in Counts : semcreate(n)
           \/ \E s \in Sids : wait(s) \/ signal(s) \/ semdelete(s)
           \/ \E s \in Sids, n \in Counts : signaln(s, n) \/ semreset(s, n)
           \/ signalnLoop \/ signalnEnd \/ semdeleteLoop \/ semresetLoop
    PROVE  DelayInv'
<1>1. CASE \E n \in Counts : semcreate(n)
  BY <1>1, IdleSleep, QuietDelay DEF semcreate, Caller, UserMode, schedVars
<1>2. ASSUME NEW s \in Sids, wait(s) PROVE DelayInv'
  <2> DEFINE st == [prstate EXCEPT ![currpid] = "WAIT"]
  <2>1. UNCHANGED clkVars /\ frame[currpid].op # "wakeup"
    BY <1>2 DEF wait, Caller, UserMode
  <2>2. CASE UNCHANGED schedVars
    BY <2>1, <2>2, IdleSleep, QuietDelay DEF schedVars
  <2>3. CASE resched(ndefers, st, readylist, qkey, preempt)
    <3> HIDE DEF st
    <3> QED BY <2>1, <2>3, ReschedSleep, QuietDelay
  <2> QED BY <1>2, <2>2, <2>3 DEF wait
<1>3. ASSUME NEW s \in Sids, signal(s) PROVE DelayInv'
  BY <1>3, SignalSleep, QuietDelay DEF signal, Caller, UserMode
<1>4. CASE \/ \E s \in Sids : semdelete(s)
           \/ \E s \in Sids, n \in Counts : signaln(s, n) \/ semreset(s, n)
  BY <1>4, IdleSleep, QuietDelay DEF semdelete, signaln, semreset, Caller, UserMode
<1>5. ASSUME frame[currpid].op \in SemLoops PROVE frame[currpid].tgt \in Sids
  BY <1>5, LoopTarget
<1>6. CASE signalnLoop
  BY <1>5, <1>6, SignalSleep, QuietDelay DEF signalnLoop, Inside, SemLoops
<1>7. CASE signalnEnd
  BY <1>7, StopSleep, QuietDelay DEF signalnEnd, Inside
<1>8. CASE semdeleteLoop
  BY <1>5, <1>8, FirstSleep, StopSleep, QuietDelay DEF semdeleteLoop, Inside, SemLoops
<1>9. CASE semresetLoop
  BY <1>5, <1>9, FirstSleep, StopSleep, QuietDelay DEF semresetLoop, Inside, SemLoops
<1> QED BY <1>1, <1>2, <1>3, <1>4, <1>6, <1>7, <1>8, <1>9

\* The messages and the clock.
LEMMA MsgDelay ==
    ASSUME Delays \subseteq 0 .. HALF - 1, 0 \notin RecvWaits, Inv, Inv', DelayInv,
           \/ \E p \in Pids, msg \in Msgs : send(p, msg)
           \/ receive \/ receiveEnd \/ recvclr \/ recvtimeEnd
           \/ \E t \in RecvWaits : recvtime(t)
           \/ \E t \in Delays : sleepms(t)
           \/ clkhandler \/ wakeup \/ clkPreempt
    PROVE  DelayInv'
<1>1. ASSUME NEW p \in Pids, NEW msg \in Msgs, send(p, msg) PROVE DelayInv'
  BY <1>1, SendDelay DEF send, Caller, UserMode
<1>2. CASE receive
  <2> DEFINE st == [prstate EXCEPT ![currpid] = "RECV"]
  <2>1. UNCHANGED clkVars /\ frame[currpid].op # "wakeup"
    BY <1>2 DEF receive, Caller, UserMode
  <2>2. CASE UNCHANGED schedVars
    BY <2>1, <2>2, IdleSleep, QuietDelay DEF schedVars
  <2>3. CASE resched(ndefers, st, readylist, qkey, preempt)
    <3> HIDE DEF st
    <3> QED BY <2>1, <2>3, ReschedSleep, QuietDelay
  <2> QED BY <1>2, <2>2, <2>3 DEF receive
<1>3. CASE receiveEnd \/ recvclr \/ recvtimeEnd
  BY <1>3, IdleSleep, QuietDelay DEF receiveEnd, recvclr, recvtimeEnd, Inside, Caller, UserMode, schedVars
<1>4. ASSUME NEW t \in RecvWaits, recvtime(t) PROVE DelayInv'
  <2>1. frame[currpid].op # "wakeup" /\ t \in 1 .. HALF - 1
    BY <1>4 DEF recvtime, Caller, UserMode
  <2>2. CASE UNCHANGED <<clkVars, schedVars>>
    BY <2>1, <2>2, IdleSleep, QuietDelay DEF schedVars
  <2>3. CASE ~UNCHANGED <<clkVars, schedVars>>
    <3>1. /\ sleepq' = insertd(currpid, sleepq, qkey, t) /\ left' = [left EXCEPT ![currpid] = t]
          /\ resched(ndefers, [prstate EXCEPT ![currpid] = "RECTIM"], readylist,
                     insertdKeys(currpid, sleepq, qkey, t), preempt)
      BY <1>4, <2>3 DEF recvtime
    <3> QED BY <2>1, <3>1, JoinDelay
  <2> QED BY <2>2, <2>3
<1>5. ASSUME NEW t \in Delays, sleepms(t) PROVE DelayInv'
  <2>1. frame[currpid].op # "wakeup" /\ t \in 0 .. HALF - 1
    BY <1>5 DEF sleepms, Caller, UserMode
  <2>2. CASE t = 0
    BY <1>5, <2>1, <2>2, ReschedSleep, QuietDelay DEF sleepms
  <2>3. CASE t # 0
    <3>1. t \in 1 .. HALF - 1 /\ t \in Int /\ -HALF <= t /\ t < HALF
      BY <2>1, <2>3
    <3>2. int32(t) = t
      BY <3>1, Int32Same
    <3>3. /\ sleepq' = insertd(currpid, sleepq, qkey, t) /\ left' = [left EXCEPT ![currpid] = t]
          /\ resched(ndefers, [prstate EXCEPT ![currpid] = "SLEEP"], readylist,
                     insertdKeys(currpid, sleepq, qkey, t), preempt)
      BY <1>5, <2>3, <3>2 DEF sleepms
    <3> QED BY <2>1, <3>1, <3>3, JoinDelay
  <2> QED BY <2>2, <2>3
<1>6. CASE clkhandler
  BY <1>6, ClkDelay
<1>7. CASE wakeup
  BY <1>7, WakeupDelay
<1>8. CASE clkPreempt
  BY <1>8, ReschedSleep, IdleSleep, QuietDelay DEF clkPreempt, Inside
<1> QED BY <1>1, <1>2, <1>3, <1>4, <1>5, <1>6, <1>7, <1>8

\* A step that changes nothing.
LEMMA IdleDelay == ASSUME DelayInv, UNCHANGED vars PROVE DelayInv'
BY DEF DelayInv, Delta, NotDue, vars, clkVars, schedVars

\* Every step keeps the delta list, when no delay needs the sign bit and nobody
\* asks recvtime() for no wait at all.
LEMMA NextDelay ==
    ASSUME Delays \subseteq 0 .. HALF - 1, 0 \notin RecvWaits, Inv, Inv', DelayInv, [Next]_vars
    PROVE  DelayInv'
<1>1. CASE SystemCall
  BY <1>1, InvSched, ProcDelay, SemDelay, MsgDelay DEF SystemCall
<1>2. CASE Continue
  BY <1>2, ProcDelay, SemDelay, MsgDelay DEF Continue
<1>3. CASE clkhandler
  BY <1>3, MsgDelay
<1>4. CASE UNCHANGED vars
  BY <1>4, IdleDelay
<1> QED BY <1>1, <1>2, <1>3, <1>4 DEF Next, halt

\* An empty sleep queue is a delta list.
LEMMA InitDelay == ASSUME Init PROVE DelayInv
<1>1. sleepq = <<>>
  BY DEF Init
<1> QED BY <1>1 DEF DelayInv, Delta, NotDue, On

\* What the delta list is kept for.
LEMMA DelayImplies == ASSUME Inv, DelayInv PROVE DelaysKept
<1>1. DeltaListExact
  BY DEF DelayInv, Delta, Before, DeltaListExact
<1>2. NoOversleep
  <2> SUFFICES ASSUME NEW p \in Pids, prstate[p] \in {"SLEEP", "RECTIM"} PROVE left[p] >= 0
    BY DEF NoOversleep
  <2>1. PICK i \in 1 .. Len(sleepq) : sleepq[i] = p
    BY InvTypes DEF SleepAgree, On
  <2>2. left[p] \in 0 .. HALF - 1
    BY <2>1 DEF DelayInv, Delta
  <2> QED BY <2>2
<1> QED BY <1>1, <1>2 DEF DelaysKept

\* Delays are kept exactly: through every insertd(), unsleep(), dequeue() and
\* tick, in any order, the keys of the sleep queue are the differences of what
\* the sleepers still have to wait, and in user mode nobody is past their time.
\* The conditions are what the code needs: sleepms() converts an unsigned delay
\* to the int32 key, and the key of a process put on the queue by recvtime(0)
\* is decremented to -1 by the next tick, which then does not call wakeup().
THEOREM DelaysExact ==
    ASSUME Delays \subseteq 0 .. HALF - 1, 0 \notin RecvWaits
    PROVE  Spec => []DelaysKept
<1>1. Init => DelayInv
  BY InitDelay
<1>2. Inv /\ Inv' /\ DelayInv /\ [Next]_vars => DelayInv'
  BY NextDelay
<1>3. Inv /\ DelayInv => DelaysKept
  BY DelayImplies
<1> QED BY <1>1, <1>2, <1>3, KernelInvariant, PTL DEF Spec

-----------------------------------------------------------------------------
(* Nobody is woken early.                                                  *)

\* A sleeper sleeps on, or is killed.
SleepersStay ==
    \A x \in Pids : prstate[x] = "SLEEP" => prstate'[x] \in {"SLEEP", "FREE"}

\* resched() alone wakes nobody.
LEMMA AlikeStay == ASSUME AllAlike PROVE SleepersStay
BY DEF AllAlike, Alike, SleepersStay, Runnable

\* Nor does what makes another process change its state, or ends it.
LEMMA BecomesStay ==
    ASSUME NEW p \in Pids, NEW V, Becomes(p, V), prstate[p] # "SLEEP" \/ V = {"FREE"}
    PROVE  SleepersStay
BY DEF Becomes, Alike, SleepersStay, Runnable

\* send() wakes receivers only.
LEMMA SendStay == ASSUME Inv, NEW p \in Pids, NEW msg, sendTo(p, msg) PROVE SleepersStay
<1>1. AllAlike \/ (prstate[p] \in {"RECV", "RECTIM"} /\ Becomes(p, Runnable))
  BY SendBecomes
<1> QED BY <1>1, AlikeStay, BecomesStay

\* The current process is not asleep.
LEMMA BlockStay ==
    ASSUME Inv, NEW x \in Blocked, Caller, NEW k, DOMAIN k = Pids,
           resched(ndefers, [prstate EXCEPT ![currpid] = x], readylist, k, preempt)
    PROVE  SleepersStay
<1>1. currpid # NULLPROC /\ frame[currpid].op \notin DeferLoops
  BY DEF Caller, UserMode, DeferLoops
<1>2. Becomes(currpid, {x}) /\ prstate[currpid] = "CURR" /\ currpid \in Pids
  BY <1>1, BlockBecomes
<1> QED BY <1>2, BecomesStay

\* The calls of the process manager wake nobody.
LEMMA ProcStay ==
    ASSUME Inv,
           \/ \E x \in Prios : create(x) \/ createFails(x)
           \/ \E p \in Pids : suspend(p) \/ resume(p) \/ kill(p)
           \/ \E p \in Pids, x \in NewPrios : chprio(p, x)
           \/ yield
           \/ killEnd
    PROVE  SleepersStay
<1>1. ASSUME NEW x \in Prios, create(x) PROVE SleepersStay
  <2>1. newpid \in Pids /\ prstate[newpid] = "FREE" /\ prstate' = [prstate EXCEPT ![newpid] = "SUSP"]
    BY <1>1, NewpidFacts DEF create
  <2> QED BY <2>1, InvSched DEF SleepersStay, SchedReady
<1>2. CASE \E x \in Prios : createFails(x)
  BY <1>2, IdleAlike, AlikeStay DEF createFails
<1>3. ASSUME NEW p \in Pids, suspend(p) PROVE SleepersStay
  <2> DEFINE st == [prstate EXCEPT ![p] = "SUSP"]
  <2>1. CASE prstate[p] = "READY" /\ prstate' = st
    BY <2>1, InvSched DEF SleepersStay, SchedReady
  <2>2. CASE prstate[p] = "CURR" /\ resched(ndefers, st, readylist, qkey, preempt)
    <3>1. p = currpid /\ Caller /\ DOMAIN qkey = Pids /\ "SUSP" \in Blocked
      BY <1>3, <2>2, InvTypes, SleepFacts DEF ReadyAgree, suspend, Blocked
    <3> QED BY <2>2, <3>1, BlockStay
  <2> QED BY <1>3, <2>1, <2>2 DEF suspend
<1>4. ASSUME NEW p \in Pids, resume(p) PROVE SleepersStay
  <2>1. ready(p, ndefers, prstate, qkey) /\ prstate[p] = "SUSP" /\ "SUSP" \in Blocked
    BY <1>4 DEF resume, resumable, Blocked
  <2>2. Becomes(p, Runnable)
    BY <2>1, SleepFacts, ReadyBecomes
  <2> QED BY <2>1, <2>2, BecomesStay
<1>5. ASSUME NEW p \in Pids, kill(p) PROVE SleepersStay
  <2>1. prparent[p] \in Pids
    BY InvTypes DEF TabTypeOK
  <2>2. UNCHANGED schedVars \/ sendTo(prparent[p], p)
    BY <1>5 DEF kill
  <2> QED BY <2>1, <2>2, IdleAlike, AlikeStay, SendStay
<1>6. CASE \E p \in Pids, x \in NewPrios : chprio(p, x)
  BY <1>6, IdleAlike, AlikeStay DEF chprio
<1>7. CASE yield
  BY <1>7, InvSched, YieldAlike, AlikeStay DEF yield
<1>8. CASE killEnd
  <2>1. Becomes(frame[currpid].tgt, {"FREE"}) /\ frame[currpid].tgt \in Pids
    BY <1>8, KillEndBecomes
  <2> QED BY <2>1, BecomesStay
<1> QED BY <1>1, <1>2, <1>3, <1>4, <1>5, <1>6, <1>7, <1>8

\* Nor do the semaphore calls.
LEMMA SemStay ==
    ASSUME Inv,
           \/ \E n \in Counts : semcreate(n)
           \/ \E s \in Sids : wait(s) \/ signal(s) \/ semdelete(s)
           \/ \E s \in Sids, n \in Counts : signaln(s, n) \/ semreset(s, n)
           \/ signalnLoop \/ signalnEnd \/ semdeleteLoop \/ semresetLoop
    PROVE  SleepersStay
<1>0. ASSUME NEW s \in Sids, readyFirst(s) PROVE SleepersStay
  <2>1. AllAlike \/ \E p \in Pids : prstate[p] = "WAIT" /\ Becomes(p, Runnable)
    BY <1>0, FirstBecomes
  <2> QED BY <2>1, AlikeStay, BecomesStay
<1>1. CASE \E n \in Counts : semcreate(n)
  BY <1>1, IdleAlike, AlikeStay DEF semcreate
<1>2. ASSUME NEW s \in Sids, wait(s) PROVE SleepersStay
  <2>1. Caller /\ DOMAIN qkey = Pids /\ "WAIT" \in Blocked
    BY <1>2, SleepFacts DEF wait, Blocked
  <2>2. CASE UNCHANGED schedVars
    BY <2>2, IdleAlike, AlikeStay
  <2>3. CASE resched(ndefers, [prstate EXCEPT ![currpid] = "WAIT"], readylist, qkey, preempt)
    BY <2>1, <2>3, BlockStay
  <2> QED BY <1>2, <2>2, <2>3 DEF wait
<1>3. ASSUME NEW s \in Sids, signalOnce(s) PROVE SleepersStay
  BY <1>0, <1>3, IdleAlike, AlikeStay DEF signalOnce
<1>4. CASE \E s \in Sids : signal(s)
  BY <1>3, <1>4 DEF signal
<1>5. CASE \/ \E s \in Sids : semdelete(s)
           \/ \E s \in Sids, n \in Counts : signaln(s, n) \/ semreset(s, n)
  BY <1>5 DEF semdelete, signaln, semreset, SleepersStay
<1>6. ASSUME frame[currpid].op \in SemLoops PROVE frame[currpid].tgt \in Sids
  BY <1>6, LoopTarget
<1>7. CASE signalnLoop
  BY <1>3, <1>6, <1>7 DEF signalnLoop, Inside, SemLoops
<1>8. ASSUME deferStop PROVE SleepersStay
  BY <1>8, StopAlike, AlikeStay
<1>9. CASE signalnEnd
  BY <1>8, <1>9 DEF signalnEnd
<1>10. CASE semdeleteLoop
  BY <1>0, <1>6, <1>8, <1>10 DEF semdeleteLoop, Inside, SemLoops
<1>11. CASE semresetLoop
  BY <1>0, <1>6, <1>8, <1>11 DEF semresetLoop, Inside, SemLoops
<1> QED BY <1>1, <1>2, <1>4, <1>5, <1>7, <1>9, <1>10, <1>11

\* Nor do the messages, nor a tick before it gets to wakeup().
LEMMA MsgStay ==
    ASSUME Inv,
           \/ \E p \in Pids, msg \in Msgs : send(p, msg)
           \/ receive \/ receiveEnd \/ recvclr \/ recvtimeEnd
           \/ \E t \in RecvWaits : recvtime(t)
           \/ \E t \in Delays : sleepms(t)
           \/ clkhandler \/ clkPreempt
    PROVE  SleepersStay
<1>0. DOMAIN qkey = Pids /\ {"RECV", "RECTIM", "SLEEP"} \subseteq Blocked
  BY SleepFacts DEF Blocked
<1>1. CASE \E p \in Pids, msg \in Msgs : send(p, msg)
  BY <1>1, SendStay DEF send
<1>2. CASE receive
  <2>1. Caller
    BY <1>2 DEF receive
  <2>2. CASE UNCHANGED schedVars
    BY <2>2, IdleAlike, AlikeStay
  <2>3. CASE resched(ndefers, [prstate EXCEPT ![currpid] = "RECV"], readylist, qkey, preempt)
    BY <1>0, <2>1, <2>3, BlockStay
  <2> QED BY <1>2, <2>2, <2>3 DEF receive
<1>3. CASE receiveEnd \/ recvclr \/ recvtimeEnd
  BY <1>3, IdleAlike, AlikeStay DEF receiveEnd, recvclr, recvtimeEnd
<1>4. ASSUME NEW t \in RecvWaits, recvtime(t) PROVE SleepersStay
  <2>1. Caller
    BY <1>4 DEF recvtime
  <2>2. CASE UNCHANGED schedVars
    BY <2>2, IdleAlike, AlikeStay
  <2>3. ASSUME NEW k, DOMAIN k = Pids,
               resched(ndefers, [prstate EXCEPT ![currpid] = "RECTIM"], readylist, k, preempt)
        PROVE  SleepersStay
    BY <1>0, <2>1, <2>3, BlockStay
  <2>4. DOMAIN insertdKeys(currpid, sleepq, qkey, t) = Pids
    BY SleepFacts, InsertdDomain
  <2> QED BY <1>4, <2>2, <2>3, <2>4 DEF recvtime
<1>5. ASSUME NEW t \in Delays, sleepms(t) PROVE SleepersStay
  <2>1. Caller
    BY <1>5 DEF sleepms
  <2>2. CASE resched(ndefers, prstate, readylist, qkey, preempt)
    BY <2>2, InvSched, YieldAlike, AlikeStay
  <2>3. ASSUME NEW k, DOMAIN k = Pids,
               resched(ndefers, [prstate EXCEPT ![currpid] = "SLEEP"], readylist, k, preempt)
        PROVE  SleepersStay
    BY <1>0, <2>1, <2>3, BlockStay
  <2>4. DOMAIN insertdKeys(currpid, sleepq, qkey, int32(t)) = Pids
    BY SleepFacts, InsertdDomain
  <2> QED BY <1>5, <2>2, <2>3, <2>4 DEF sleepms
<1>6. CASE clkhandler
  BY <1>6 DEF clkhandler, SleepersStay
<1>7. CASE clkPreempt
  <2>1. CASE resched(ndefers, prstate, readylist, qkey, QUANTUM)
    <3>1. QUANTUM \in 1 .. QUANTUM /\ ndefers \in Nat
      BY InvSched
    <3> QED BY <2>1, <3>1, YieldAlike, AlikeStay
  <2>2. CASE prstate' = prstate
    BY <2>2 DEF SleepersStay
  <2> QED BY <1>7, <2>1, <2>2 DEF clkPreempt
<1> QED BY <1>1, <1>2, <1>3, <1>4, <1>5, <1>6, <1>7

\* wakeup() takes the head, and the head has nothing left to wait.
LEMMA WakeupOnTime ==
    ASSUME Inv, DelayInv, wakeup
    PROVE  \A x \in Pids : prstate[x] = "SLEEP" /\ prstate'[x] \notin {"SLEEP", "FREE"} => left[x] <= 0
<1>1. CASE expired(sleepq, qkey) /\ ready(Head(sleepq), ndefers, prstate, qkey)
  <2> DEFINE p == Head(sleepq)
  <2>1. sleepq # <<>> /\ qkey[p] <= 0
    BY <1>1 DEF expired, firstkey
  <2>2. p \in Pids /\ On(p, sleepq) /\ left[p] <= 0
    BY <2>1, HeadDue
  <2>3. ready(p, ndefers, prstate, qkey)
    BY <1>1
  <2> HIDE DEF p
  <2>4. prstate[p] \in Blocked
    BY <2>2, InvTypes DEF SleepAgree, Blocked
  <2>5. Becomes(p, Runnable)
    BY <2>2, <2>3, <2>4, SleepFacts, ReadyBecomes
  <2> QED BY <2>2, <2>5 DEF Becomes, Alike, Runnable
<1>2. CASE deferStop
  BY <1>2, StopAlike, AlikeStay DEF SleepersStay
<1> QED BY <1>1, <1>2 DEF wakeup

\* No step wakes a sleeper before its time.
LEMMA NextOnTime ==
    ASSUME Inv, DelayInv, [Next]_vars
    PROVE  \A x \in Pids : prstate[x] = "SLEEP" /\ prstate'[x] \notin {"SLEEP", "FREE"} => left[x] <= 0
<1>1. CASE wakeup
  BY <1>1, WakeupOnTime
<1>2. ~wakeup => SleepersStay
  <2> SUFFICES ASSUME ~wakeup PROVE SleepersStay
    OBVIOUS
  <2>1. CASE SystemCall
    BY <2>1, InvSched, ProcStay, SemStay, MsgStay DEF SystemCall
  <2>2. CASE Continue
    BY <2>2, ProcStay, SemStay, MsgStay DEF Continue
  <2>3. CASE clkhandler
    BY <2>3, MsgStay
  <2>4. CASE UNCHANGED vars
    BY <2>4, IdleAlike, AlikeStay DEF vars
  <2> QED BY <2>1, <2>2, <2>3, <2>4 DEF Next, halt
<1> QED BY <1>1, <1>2 DEF SleepersStay

\* Nobody is woken early: a step that ends the sleep of a process, other than
\* kill(), finds that all the ticks it asked for have come.  Other processes may
\* have joined and left the delta list before it in the meantime.
THEOREM NobodyEarly ==
    ASSUME Delays \subseteq 0 .. HALF - 1, 0 \notin RecvWaits
    PROVE  Spec => NeverEarly
<1>1. Init => DelayInv
  BY InitDelay
<1>2. Inv /\ Inv' /\ DelayInv /\ [Next]_vars => DelayInv'
  BY NextDelay
<1>3. Inv /\ DelayInv /\ [Next]_vars =>
        [\A p \in Pids : prstate[p] = "SLEEP" /\ prstate'[p] \notin {"SLEEP", "FREE"} => left[p] <= 0]_vars
  BY NextOnTime
<1> QED BY <1>1, <1>2, <1>3, KernelInvariant, PTL DEF Spec, NeverEarly
=============================================================================
