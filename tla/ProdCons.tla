------------------------------- MODULE ProdCons ------------------------------
(***************************************************************************)
(* The producer-consumer application: xsh_prodcons.c, produce.c and        *)
(* consume.c.  Each run of the command creates two semaphores, a producer  *)
(* and a consumer, and returns while they work; the value goes from one to *)
(* the other through the global variable n, which all runs of the command  *)
(* share.  The processes print between their calls, which may switch to    *)
(* another process, so each statement is a step.  Module Command puts the  *)
(* steps together with the shell that runs the command.                    *)
(***************************************************************************)
EXTENDS UserSem

CONSTANTS
    Jobs,       \* runs of the command
    Counts,     \* number of values a job may be asked for
    Overlap     \* whether a job may be started while another one works

ASSUME CountsAssumption == Counts \subseteq Nat \ {0} /\ Overlap \in BOOLEAN

VARIABLES
    n,                      \* the global variable
    consumed, produced,     \* the semaphores of each job
    count,                  \* the argument of each job; 0 before it is started
    i,                      \* loop variable of each producer
    prod, cons,             \* where each producer and each consumer stands
    eaten                   \* history: the values each consumer printed

pcVars == <<n, consumed, produced, count, i, prod, cons, eaten>>

Producer == "producer"
Consumer == "consumer"

ProdConsInit ==
    /\ n = 0
    /\ consumed = [j \in Jobs |-> NoSem]
    /\ produced = [j \in Jobs |-> NoSem]
    /\ count = [j \in Jobs |-> 0]
    /\ i = [j \in Jobs |-> 1]
    /\ prod = [j \in Jobs |-> "none"]
    /\ cons = [j \in Jobs |-> "none"]
    /\ eaten = [j \in Jobs |-> <<>>]

\* Both processes of job j have finished.
Finished(j) == prod[j] = "done" /\ cons[j] = "done"

\* Mutant: the producer may be one value ahead.
xsh_prodconsAhead(j, c) ==
    /\ count[j] = 0
    /\ Overlap \/ \A k \in Jobs : count[k] # 0 => Finished(k)
    /\ count' = [count EXCEPT ![j] = c]
    /\ consumed' = [consumed EXCEPT ![j] = Sem(2)]
    /\ produced' = [produced EXCEPT ![j] = Sem(0)]
    /\ prod' = [prod EXCEPT ![j] = "wait"]
    /\ cons' = [cons EXCEPT ![j] = "wait"]
    /\ UNCHANGED <<n, i, eaten>>

\* The command; a count of zero is refused.  n keeps the value it had.
xsh_prodcons(j, c) ==
    /\ count[j] = 0
    /\ Overlap \/ \A k \in Jobs : count[k] # 0 => Finished(k)
    /\ count' = [count EXCEPT ![j] = c]
    /\ consumed' = [consumed EXCEPT ![j] = Sem(1)]
    /\ produced' = [produced EXCEPT ![j] = Sem(0)]
    /\ prod' = [prod EXCEPT ![j] = "wait"]
    /\ cons' = [cons EXCEPT ![j] = "wait"]
    /\ UNCHANGED <<n, i, eaten>>

\* wait(): the caller goes on to the next statement when it is let go; a wait
\* on a deleted semaphore returns SYSERR, which neither process looks at.
waitSem(s, p) == IF passes(s) THEN passed(s) ELSE IF blocks(s) THEN blocked(s, p) ELSE s

-----------------------------------------------------------------------------
(* The producer.                                                           *)

produceWait(j) ==
    /\ prod[j] = "wait"
    /\ consumed' = [consumed EXCEPT ![j] = waitSem(@, Producer)]
    /\ prod' = [prod EXCEPT ![j] = "set"]
    /\ UNCHANGED <<n, produced, count, i, cons, eaten>>

produceSet(j) ==
    /\ prod[j] = "set"
    /\ ~waitsOn(Producer, consumed[j])
    /\ n' = i[j]
    /\ prod' = [prod EXCEPT ![j] = "signal"]
    /\ UNCHANGED <<consumed, produced, count, i, cons, eaten>>

\* signal(produced) and the test of the loop.
produceSignal(j) ==
    /\ prod[j] = "signal"
    /\ produced' = [produced EXCEPT ![j] = signaled(@)]
    /\ i' = [i EXCEPT ![j] = @ + 1]
    /\ prod' = [prod EXCEPT ![j] = IF i[j] < count[j] THEN "wait" ELSE "delete"]
    /\ UNCHANGED <<n, consumed, count, cons, eaten>>

produceDelete(j) ==
    /\ prod[j] = "delete"
    /\ produced' = [produced EXCEPT ![j] = deleted(@)]
    /\ prod' = [prod EXCEPT ![j] = "done"]
    /\ UNCHANGED <<n, consumed, count, i, cons, eaten>>

-----------------------------------------------------------------------------
(* The consumer.                                                           *)

consumeWait(j) ==
    /\ cons[j] = "wait"
    /\ produced' = [produced EXCEPT ![j] = waitSem(@, Consumer)]
    /\ cons' = [cons EXCEPT ![j] = "print"]
    /\ UNCHANGED <<n, consumed, count, i, prod, eaten>>

consumePrint(j) ==
    /\ cons[j] = "print"
    /\ ~waitsOn(Consumer, produced[j])
    /\ eaten' = [eaten EXCEPT ![j] = Append(@, n)]
    /\ cons' = [cons EXCEPT ![j] = "test"]
    /\ UNCHANGED <<n, consumed, produced, count, i, prod>>

\* Mutant: the consumer gives up one value early.
lastOneEarly(j) == n + 1 = count[j]

\* The value just consumed was the last one.
lastOne(j) == n = count[j]

\* if (n == count) break
consumeTest(j) ==
    /\ cons[j] = "test"
    /\ cons' = [cons EXCEPT ![j] = IF lastOne(j) THEN "delete" ELSE "signal"]
    /\ UNCHANGED <<n, consumed, produced, count, i, prod, eaten>>

consumeSignal(j) ==
    /\ cons[j] = "signal"
    /\ consumed' = [consumed EXCEPT ![j] = signaled(@)]
    /\ cons' = [cons EXCEPT ![j] = "wait"]
    /\ UNCHANGED <<n, produced, count, i, prod, eaten>>

consumeDelete(j) ==
    /\ cons[j] = "delete"
    /\ consumed' = [consumed EXCEPT ![j] = deleted(@)]
    /\ cons' = [cons EXCEPT ![j] = "done"]
    /\ UNCHANGED <<n, produced, count, i, prod, eaten>>

-----------------------------------------------------------------------------
ProducerStep(j) ==
    produceWait(j) \/ produceSet(j) \/ produceSignal(j) \/ produceDelete(j)

ConsumerStep(j) ==
    \/ consumeWait(j) \/ consumePrint(j) \/ consumeTest(j) \/ consumeSignal(j)
    \/ consumeDelete(j)

-----------------------------------------------------------------------------
(* Properties.                                                             *)

\* "number of values to be produced and consumed": a consumer sees 1, 2, 3 and
\* so on, each once, though producer and consumer meet in one variable only.
InOrder ==
    \A j \in Jobs :
       /\ Len(eaten[j]) <= count[j]
       /\ \A k \in 1 .. Len(eaten[j]) : eaten[j][k] = k

\* A job that was started comes to its end with all its values consumed and
\* its semaphores deleted, whichever process deletes its semaphore first.
JobCompletes ==
    \A j \in Jobs :
       count[j] # 0 ~> /\ Finished(j)
                       /\ Len(eaten[j]) = count[j]
                       /\ consumed[j] = NoSem /\ produced[j] = NoSem
=============================================================================
