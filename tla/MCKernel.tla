------------------------------ MODULE MCKernel -------------------------------
(***************************************************************************)
(* The kernel for the model checker.  Two states that differ only in what  *)
(* no later step reads (the key of a process on no keyed queue, the fields *)
(* of a free table entry, the message of an empty buffer) are one state.   *)
(***************************************************************************)
EXTENDS Kernel

Read(f, S) == [p \in Pids |-> IF p \in S THEN f[p] ELSE 0]

StateView ==
    LET live     == {p \in Pids : prstate[p] # "FREE"}
        sleepers == {p \in Pids : prstate[p] \in {"SLEEP", "RECTIM"}}
    IN  << <<prstate, readylist, sleepq, sstate, scount, squeue, currpid, prcount,
             preempt, ndefers, attempt, nextpid, nextsem, stkfree, prstkbase, halted>>,
           Read(frame, live), Read(prprio, live), Read(prparent, live),
           Read(prhasmsg, live),
           Read(prmsg, {p \in live : prhasmsg[p]}),
           Read(prsem, {p \in live : prstate[p] = "WAIT"}),
           Read(qkey, sleepers \cup {p \in live : prstate[p] = "READY"}),
           Read(left, sleepers) >>
=============================================================================
