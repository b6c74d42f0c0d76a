-------------------------------- MODULE Clock --------------------------------
(***************************************************************************)
(* Real time: sleep.c, the clock interrupt handler (clkhandler.c) and      *)
(* wakeup.c.  A tick can only arrive in user mode.  The seconds counter    *)
(* and the acknowledgement of the timer hardware are left out.             *)
(***************************************************************************)
EXTENDS Message

\* Mutant: a process that sleeps while others do is not put on the delta list.
sleepmsAlone(delay) ==
    /\ Caller /\ delay # 0
    /\ sleepq' = IF sleepq = <<>> THEN <<currpid>> ELSE sleepq
    /\ left' = [left EXCEPT ![currpid] = delay]
    /\ resched(ndefers, [prstate EXCEPT ![currpid] = "SLEEP"], readylist,
               [qkey EXCEPT ![currpid] = int32(delay)], preempt)
    /\ UNCHANGED <<msgVars, semVars, tabVars, ndefers, frame>>

\* sleepms(delay), delay a uint32: sleep(n) calls it with n * 1000.
\* sleepms(0) is yield().
sleepms(delay) ==
    /\ Caller
    /\ \/ /\ delay = 0
          /\ resched(ndefers, prstate, readylist, qkey, preempt)
          /\ UNCHANGED clkVars
       \/ /\ delay # 0
          /\ sleepq' = insertd(currpid, sleepq, qkey, int32(delay))
          /\ left' = [left EXCEPT ![currpid] = delay]
          /\ resched(ndefers, [prstate EXCEPT ![currpid] = "SLEEP"], readylist,
                     insertdKeys(currpid, sleepq, qkey, int32(delay)), preempt)
    /\ UNCHANGED <<msgVars, semVars, tabVars, ndefers, frame>>

\* The processes that sleep, and so count this tick.
tickLeft == [p \in Pids |-> IF p \in ToSet(sleepq) THEN left[p] - 1 ELSE left[p]]

\* clkhandler(), up to the test of the first sleeper's key: when the key
\* reaches zero, wakeup() starts.
clkhandler ==
    /\ UserMode
    /\ left' = tickLeft
    /\ IF sleepq = <<>>
       THEN /\ frame' = [frame EXCEPT ![currpid] = Frame("clk", 0, 0)]
            /\ UNCHANGED <<qkey, ndefers, attempt>>
       ELSE /\ qkey' = [qkey EXCEPT ![Head(sleepq)] = int32(@ - 1)]
            /\ IF qkey'[Head(sleepq)] = 0
               THEN /\ frame' = [frame EXCEPT ![currpid] = Frame("wakeup", 0, 0)]
                    /\ deferStart
               ELSE /\ frame' = [frame EXCEPT ![currpid] = Frame("clk", 0, 0)]
                    /\ UNCHANGED <<ndefers, attempt>>
    /\ UNCHANGED <<sleepq, prstate, readylist, currpid, preempt, msgVars, semVars, tabVars>>

\* Mutant: the sleeper with one tick left is woken too.
expiredSoon(q, k) == q # <<>> /\ firstkey(q, k) <= 1

\* nonempty(sleepq) && firstkey(sleepq) <= 0
expired(q, k) == q # <<>> /\ firstkey(q, k) <= 0

\* wakeup(): every process whose time has come is made ready, then the
\* deferred resched() happens and the handler goes on when switched back in.
wakeup ==
    /\ Inside("wakeup")
    /\ \/ /\ expired(sleepq, qkey)
          /\ sleepq' = Tail(sleepq)
          /\ ready(Head(sleepq), ndefers, prstate, qkey)
          /\ UNCHANGED <<frame, ndefers>>
       \/ /\ ~expired(sleepq, qkey)
          /\ deferStop
          /\ frame' = [frame EXCEPT ![currpid] = Frame("clk", 0, 0)]
          /\ UNCHANGED sleepq
    /\ UNCHANGED <<left, msgVars, semVars, tabVars>>

\* Mutants: the end of a time slice without resched(), or without a new slice.
clkPreemptNoResched ==
    /\ Inside("clk")
    /\ frame' = [frame EXCEPT ![currpid] = UserFrame]
    /\ preempt' = IF preempt = 1 THEN QUANTUM ELSE preempt - 1
    /\ UNCHANGED <<prstate, readylist, qkey, currpid, attempt, clkVars, msgVars, semVars,
                   tabVars, ndefers>>

clkPreemptNoReset ==
    /\ Inside("clk")
    /\ frame' = [frame EXCEPT ![currpid] = UserFrame]
    /\ IF preempt = 1
       THEN resched(ndefers, prstate, readylist, qkey, preempt - 1)
       ELSE /\ preempt' = preempt - 1
            /\ UNCHANGED <<prstate, readylist, qkey, currpid, attempt>>
    /\ UNCHANGED <<clkVars, msgVars, semVars, tabVars, ndefers>>

\* The rest of clkhandler(): the time slice.
clkPreempt ==
    /\ Inside("clk")
    /\ frame' = [frame EXCEPT ![currpid] = UserFrame]
    /\ \/ /\ preempt = 1
          /\ resched(ndefers, prstate, readylist, qkey, QUANTUM)
       \/ /\ preempt # 1
          /\ preempt' = preempt - 1
          /\ UNCHANGED <<prstate, readylist, qkey, currpid, attempt>>
    /\ UNCHANGED <<clkVars, msgVars, semVars, tabVars, ndefers>>
=============================================================================
