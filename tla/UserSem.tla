------------------------------- MODULE UserSem -------------------------------
(***************************************************************************)
(* A semaphore as its users see it: a value [used, count, queue], and what *)
(* each call leaves behind.  The detailed model of the calls, with the     *)
(* scheduler, is module Semaphore; module FifoSemaphore states what they   *)
(* promise.  Modules that use semaphores (Ports, BufPool, ProdCons) build  *)
(* their steps from these operators: a process that is on no queue may be  *)
(* the next to run, so that every choice of priorities is covered.         *)
(***************************************************************************)
EXTENDS Integers, Sequences, SequencesExt

Sem(count) == [used |-> TRUE, count |-> count, queue |-> <<>>]

\* What a semaphore ID names when semcreate() failed or semdelete() is done:
\* wait() and signal() return SYSERR at once.
NoSem == [used |-> FALSE, count |-> 0, queue |-> <<>>]

\* wait() on s returns OK at once, blocks, or returns SYSERR.
passes(s) == s.used /\ s.count > 0
blocks(s) == s.used /\ s.count <= 0
fails(s)  == ~s.used

\* Mutant: the last to come is the first to be let go.
blockedFirst(s, p) == [s EXCEPT !.count = @ - 1, !.queue = <<p>> \o @]

\* s after a wait() that does not block, and after p blocked on it.
passed(s)     == [s EXCEPT !.count = @ - 1]
blocked(s, p) == [s EXCEPT !.count = @ - 1, !.queue = Append(@, p)]

signaled(s) ==
    IF ~s.used THEN s
    ELSE [s EXCEPT !.count = @ + 1,
                   !.queue = IF s.count < 0 THEN Tail(@) ELSE @]

\* signaln(): as many of the waiting processes as there are signals are let go.
signaledN(s, n) ==
    IF ~s.used THEN s
    ELSE [s EXCEPT !.count = @ + n,
                   !.queue = IF Len(@) <= n THEN <<>> ELSE SubSeq(@, n + 1, Len(@))]

\* Mutant: semdelete() forgets the waiting processes.
deletedKept(s) == [s EXCEPT !.used = FALSE]

\* semdelete() makes every waiting process ready; their wait() returns OK.
deleted(s) == NoSem

\* Mutant: semreset() only helps a semaphore that processes wait on.
resetNegative(s, n) == IF s.used /\ s.count < 0 THEN Sem(n) ELSE s

reset(s, n) == IF s.used THEN Sem(n) ELSE s

\* s after kill() of p, which waits on it.
abandoned(s, p) ==
    [s EXCEPT !.count = @ + 1,
              !.queue = RemoveAt(@, CHOOSE i \in 1 .. Len(@) : @[i] = p)]

waitsOn(p, s) == p \in ToSet(s.queue)

\* Permits that are there for the taking.
available(s) == IF s.count > 0 THEN s.count ELSE 0
=============================================================================
