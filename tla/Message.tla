------------------------------- MODULE Message -------------------------------
(***************************************************************************)
(* One-word messages and the delta list of timed waits: send.c, receive.c, *)
(* recvclr.c, recvtime.c, insertd.c and unsleep.c.  A message is a process *)
(* ID, which is what kill() sends.  The value that a receiving call        *)
(* returns goes to user code and is not part of the kernel's state.        *)
(***************************************************************************)
EXTENDS KernelState

-----------------------------------------------------------------------------
(* The sleep queue: each key is the delay after the process before it.     *)

\* What is left of the delay key after insertd() has passed i processes of q.
remaining(q, k, key) ==
    LET r[i \in 0 .. Len(q)] == IF i = 0 THEN key ELSE int32(r[i - 1] - k[q[i]])
    IN  r

\* The place insertd() stops at: before the first key the delay is less than.
insertdPos(q, k, key) ==
    LET r == remaining(q, k, key) IN
    CHOOSE i \in 1 .. Len(q) + 1 :
        /\ i = Len(q) + 1 \/ k[q[i]] > r[i - 1]
        /\ \A j \in 1 .. i - 1 : ~(k[q[j]] > r[j - 1])

insertd(p, q, k, key) == InsertAt(q, insertdPos(q, k, key), p)

\* The keys after insertd(): p's own, and the next process's made relative.
insertdKeys(p, q, k, key) ==
    LET i == insertdPos(q, k, key)
        d == remaining(q, k, key)[i - 1]
    IN  IF i = Len(q) + 1
        THEN [k EXCEPT ![p] = d]
        ELSE [k EXCEPT ![p] = d, ![q[i]] = int32(@ - d)]

\* Mutant: what p had left is lost to the processes behind it.
unsleepKeysLost(p, q, k) == k

\* The keys after unsleep(): the next process inherits what p had left.
unsleepKeys(p, q, k) ==
    LET i == CHOOSE j \in 1 .. Len(q) : q[j] = p
    IN  IF i = Len(q) THEN k ELSE [k EXCEPT ![q[i + 1]] = int32(@ + k[p])]

-----------------------------------------------------------------------------
\* send() returns SYSERR: the process is gone or its one-message buffer full.
sendRefused(p) == isbadpid(p) \/ prhasmsg[p]

\* The effect of send(p, msg): a process that waits for it is made ready.
sendTo(p, msg) ==
    IF sendRefused(p)
    THEN UNCHANGED <<msgVars, sleepq, schedVars>>
    ELSE /\ prmsg' = [prmsg EXCEPT ![p] = msg]
         /\ prhasmsg' = [prhasmsg EXCEPT ![p] = TRUE]
         /\ CASE prstate[p] = "RECV" ->
                   /\ ready(p, ndefers, prstate, qkey)
                   /\ UNCHANGED sleepq
              [] prstate[p] = "RECTIM" ->
                   /\ sleepq' = getitem(sleepq, p)
                   /\ ready(p, ndefers, prstate, unsleepKeys(p, sleepq, qkey))
              [] OTHER -> UNCHANGED <<sleepq, schedVars>>

send(p, msg) ==
    /\ Caller
    /\ sendTo(p, msg)
    /\ UNCHANGED <<left, semVars, tabVars, ndefers, frame>>

\* receive(): without a message the caller blocks and reads it when resumed.
receive ==
    /\ Caller
    /\ \/ /\ prhasmsg[currpid]
          /\ prhasmsg' = [prhasmsg EXCEPT ![currpid] = FALSE]
          /\ UNCHANGED <<frame, schedVars>>
       \/ /\ ~prhasmsg[currpid]
          /\ frame' = [frame EXCEPT ![currpid] = Frame("receive", 0, 0)]
          /\ resched(ndefers, [prstate EXCEPT ![currpid] = "RECV"], readylist, qkey, preempt)
          /\ UNCHANGED prhasmsg
    /\ UNCHANGED <<prmsg, clkVars, semVars, tabVars, ndefers>>

receiveEnd ==
    /\ Inside("receive")
    /\ prhasmsg' = [prhasmsg EXCEPT ![currpid] = FALSE]
    /\ frame' = [frame EXCEPT ![currpid] = UserFrame]
    /\ UNCHANGED <<prmsg, schedVars, clkVars, semVars, tabVars, ndefers>>

recvclr ==
    /\ Caller
    /\ prhasmsg[currpid]
    /\ prhasmsg' = [prhasmsg EXCEPT ![currpid] = FALSE]
    /\ UNCHANGED <<prmsg, schedVars, clkVars, semVars, tabVars, ndefers, frame>>

\* recvtime(maxwait): as receive, with the caller on the sleep queue as well.
recvtime(maxwait) ==
    /\ Caller
    /\ maxwait >= 0
    /\ \/ /\ prhasmsg[currpid]
          /\ prhasmsg' = [prhasmsg EXCEPT ![currpid] = FALSE]
          /\ UNCHANGED <<frame, clkVars, schedVars>>
       \/ /\ ~prhasmsg[currpid]
          /\ sleepq' = insertd(currpid, sleepq, qkey, maxwait)
          /\ left' = [left EXCEPT ![currpid] = maxwait]
          /\ frame' = [frame EXCEPT ![currpid] = Frame("recvtime", 0, 0)]
          /\ resched(ndefers, [prstate EXCEPT ![currpid] = "RECTIM"], readylist,
                     insertdKeys(currpid, sleepq, qkey, maxwait), preempt)
          /\ UNCHANGED prhasmsg
    /\ UNCHANGED <<prmsg, semVars, tabVars, ndefers>>

\* After the wait: take the message if one came, else report TIMEOUT.
recvtimeEnd ==
    /\ Inside("recvtime")
    /\ prhasmsg' = [prhasmsg EXCEPT ![currpid] = FALSE]
    /\ frame' = [frame EXCEPT ![currpid] = UserFrame]
    /\ UNCHANGED <<prmsg, schedVars, clkVars, semVars, tabVars, ndefers>>
=============================================================================
