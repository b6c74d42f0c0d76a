--------------------------- MODULE CommandTheorems ---------------------------
(***************************************************************************)
(* The shell with the command the repository adds to it, for every number  *)
(* of processes, jobs, values, consumers and producers: values come in     *)
(* order through one shared variable, futures hand over what was set, the  *)
(* shell does not wait for a command that has ended, and a line is parsed  *)
(* by its grammar whatever its length.                                     *)
(***************************************************************************)
EXTENDS Command, SharedLemmas

-----------------------------------------------------------------------------
(* The producer and the consumer: whose turn it is.                        *)

\* The semaphore of a job when process p waits on it.
Awaited(p) == [used |-> TRUE, count |-> -1, queue |-> <<p>>]

\* The first m values were consumed, in order.
Eats(ate, m) ==
    /\ ate \in Seq(Nat) /\ Len(ate) = m
    /\ \A k \in 1 .. Len(ate) : ate[k] = k

\* A job with the global variable g, the semaphores con and pro, the argument
\* m, the loop variable v, and its processes at pr and co: before it starts,
NotStarted(m, v, pr, co, ate) == m = 0 /\ v = 1 /\ pr = "none" /\ co = "none" /\ Eats(ate, 0)

\* while the producer may set the value v,
ProducerTurn(g, con, pro, m, v, pr, co, ate) ==
    /\ v <= m /\ Eats(ate, v - 1)
    /\ \/ pr = "wait" /\ con = Sem(1)
       \/ pr = "set" /\ con = Sem(0)
       \/ pr = "signal" /\ con = Sem(0) /\ g = v
    /\ \/ co = "wait" /\ pro = Sem(0)
       \/ co = "print" /\ pro = Awaited(Consumer)

\* while the consumer may take the value v - 1 and has to answer,
ConsumerTurn(g, con, pro, m, v, pr, co, ate) ==
    /\ 2 <= v /\ v <= m /\ g = v - 1
    /\ \/ pr = "wait" /\ con = Sem(0)
       \/ pr = "set" /\ con = Awaited(Producer)
    /\ \/ co = "wait" /\ pro = Sem(1) /\ Eats(ate, v - 2)
       \/ co = "print" /\ pro = Sem(0) /\ Eats(ate, v - 2)
       \/ co \in {"test", "signal"} /\ pro = Sem(0) /\ Eats(ate, v - 1)

\* and after the last value was set.  Either side may be the first to delete
\* its semaphore.
LastTurn(g, con, pro, m, v, pr, co, ate) ==
    /\ v = m + 1
    /\ (pr = "done" /\ co = "done") \/ g = m
    /\ \/ pr = "delete" /\ pro = Sem(IF co = "wait" THEN 1 ELSE 0)
       \/ pr = "done" /\ pro = NoSem
    /\ \/ co \in {"wait", "print"} /\ con = Sem(0) /\ Eats(ate, m - 1)
       \/ co \in {"test", "delete"} /\ con = Sem(0) /\ Eats(ate, m)
       \/ co = "done" /\ Eats(ate, m)

JobAt(g, con, pro, m, v, pr, co, ate) ==
    \/ NotStarted(m, v, pr, co, ate)
    \/ /\ m \in Nat \ {0} /\ v \in Nat \ {0}
       /\ \/ ProducerTurn(g, con, pro, m, v, pr, co, ate)
          \/ ConsumerTurn(g, con, pro, m, v, pr, co, ate)
          \/ LastTurn(g, con, pro, m, v, pr, co, ate)

PcType ==
    /\ DOMAIN consumed = Jobs /\ DOMAIN produced = Jobs /\ DOMAIN count = Jobs
    /\ DOMAIN i = Jobs /\ DOMAIN prod = Jobs /\ DOMAIN cons = Jobs /\ DOMAIN eaten = Jobs

\* InOrder is not inductive: that the consumer prints the value it was signaled
\* for needs that the producer waits meanwhile, and nobody else sets n.
PcInv ==
    /\ PcType
    /\ \A j \in Jobs :
          JobAt(n, consumed[j], produced[j], count[j], i[j], prod[j], cons[j], eaten[j])
    /\ \A j, k \in Jobs : j # k => \/ count[j] = 0 \/ Finished(j)
                                   \/ count[k] = 0 \/ Finished(k)

-----------------------------------------------------------------------------
(* What each statement does to its job.                                    *)

\* A semaphore is what its fields are.
LEMMA SameSem ==
    ASSUME NEW Q, NEW s \in [used : BOOLEAN, count : Int, queue : Q],
           NEW t \in [used : BOOLEAN, count : Int, queue : Q],
           s.used = t.used, s.count = t.count, s.queue = t.queue
    PROVE  s = t
OBVIOUS

\* The semaphores of a job have few values; wait() and signal() lead from one
\* to the other.
LEMMA SemValues ==
    ASSUME NEW p
    PROVE  /\ waitSem(Sem(1), p) = Sem(0) /\ waitSem(Sem(0), p) = Awaited(p)
           /\ waitSem(NoSem, p) = NoSem
           /\ signaled(Sem(0)) = Sem(1) /\ signaled(Awaited(p)) = Sem(0)
           /\ waitsOn(p, Awaited(p))
<1> DEFINE Q == {<<>>, <<p>>}
           S == [used : BOOLEAN, count : Int, queue : Q]
<1>1. passes(Sem(1)) /\ ~passes(Sem(0)) /\ blocks(Sem(0)) /\ ~passes(NoSem) /\ ~blocks(NoSem)
  BY DEF passes, blocks, Sem, NoSem
<1>2. /\ Sem(0) \in S /\ Sem(1) \in S /\ Awaited(p) \in S
      /\ Sem(0).used /\ Sem(0).count = 0 /\ Sem(0).queue = <<>>
      /\ Sem(1).used /\ Sem(1).count = 1 /\ Sem(1).queue = <<>>
      /\ Awaited(p).used /\ Awaited(p).count = -1 /\ Awaited(p).queue = <<p>>
      /\ (Sem(0).used = TRUE) /\ (Sem(1).used = TRUE) /\ (Awaited(p).used = TRUE)
  BY DEF Sem, Awaited
<1>3. Append(<<>>, p) = <<p>> /\ Tail(<<p>>) = <<>>
  OBVIOUS
<1>4. passed(Sem(1)) \in S /\ passed(Sem(1)).used = TRUE /\ passed(Sem(1)).count = 0 /\ passed(Sem(1)).queue = <<>>
  BY <1>2 DEF passed
<1>5. blocked(Sem(0), p) \in S /\ blocked(Sem(0), p).used = TRUE /\ blocked(Sem(0), p).count = -1
      /\ blocked(Sem(0), p).queue = <<p>>
  <2>0. Sem(0).count - 1 = -1 /\ Append(Sem(0).queue, p) = <<p>>
    <3>1. Sem(0).count = 0 /\ Sem(0).queue = <<>>
      BY <1>2
    <3> HIDE DEF Q
    <3>2. Sem(0).count - 1 = -1
      BY <3>1
    <3>3. Append(Sem(0).queue, p) = <<p>>
      BY <1>3, <3>1, Zenon
    <3> QED BY <3>2, <3>3
  <2>1. blocked(Sem(0), p) = [Sem(0) EXCEPT !.count = -1, !.queue = <<p>>]
    BY <2>0, Zenon DEF blocked
  <2> HIDE DEF Q
  <2>2. <<p>> \in Q
    BY DEF Q
  <2> QED BY <1>2, <2>1, <2>2, SemFields
<1>6. signaled(Sem(0)) \in S /\ signaled(Sem(0)).used = TRUE /\ signaled(Sem(0)).count = 1
      /\ signaled(Sem(0)).queue = <<>>
  <2>0. /\ Sem(0).used /\ Sem(0).count + 1 = 1
        /\ (IF Sem(0).count < 0 THEN Tail(Sem(0).queue) ELSE Sem(0).queue) = <<>>
    BY <1>2
  <2>1. signaled(Sem(0)) = [Sem(0) EXCEPT !.count = 1, !.queue = <<>>]
    BY <2>0, Zenon DEF signaled
  <2> HIDE DEF Q
  <2>2. <<>> \in Q
    BY DEF Q
  <2> QED BY <1>2, <2>1, <2>2, SemFields
<1>7. signaled(Awaited(p)) \in S /\ signaled(Awaited(p)).used = TRUE /\ signaled(Awaited(p)).count = 0
      /\ signaled(Awaited(p)).queue = <<>>
  <2>1. signaled(Awaited(p)) = [Awaited(p) EXCEPT !.count = 0, !.queue = <<>>]
    BY <1>2, <1>3 DEF signaled
  <2> HIDE DEF Q
  <2>2. <<>> \in Q
    BY DEF Q
  <2> QED BY <1>2, <2>1, <2>2, SemFields
<1> HIDE DEF Q
<1>8. passed(Sem(1)) = Sem(0) /\ blocked(Sem(0), p) = Awaited(p)
  BY <1>2, <1>4, <1>5, SameSem
<1>9. signaled(Sem(0)) = Sem(1) /\ signaled(Awaited(p)) = Sem(0)
  BY <1>2, <1>6, <1>7, SameSem
<1>10. waitsOn(p, Awaited(p))
  BY DEF waitsOn, Awaited, ToSet
<1> QED BY <1>1, <1>8, <1>9, <1>10 DEF waitSem

\* The producer waits for its turn.
LEMMA ProduceWaitJob ==
    ASSUME NEW g, NEW con, NEW pro, NEW m, NEW v, NEW co, NEW ate,
           JobAt(g, con, pro, m, v, "wait", co, ate)
    PROVE  JobAt(g, waitSem(con, Producer), pro, m, v, "set", co, ate)
<1>1. CASE ProducerTurn(g, con, pro, m, v, "wait", co, ate)
  BY <1>1, SemValues DEF ProducerTurn, JobAt, NotStarted
<1>2. CASE ConsumerTurn(g, con, pro, m, v, "wait", co, ate)
  BY <1>2, SemValues DEF ConsumerTurn, JobAt, NotStarted
<1> QED BY <1>1, <1>2 DEF JobAt, NotStarted, LastTurn

\* The producer sets its value; nobody may use the old one.
LEMMA ProduceSetJob ==
    ASSUME NEW g, NEW con, NEW pro, NEW m, NEW v, NEW co, NEW ate,
           JobAt(g, con, pro, m, v, "set", co, ate), ~waitsOn(Producer, con)
    PROVE  JobAt(v, con, pro, m, v, "signal", co, ate)
<1>1. CASE ProducerTurn(g, con, pro, m, v, "set", co, ate)
  BY <1>1 DEF ProducerTurn, JobAt, NotStarted
<1>2. ~ConsumerTurn(g, con, pro, m, v, "set", co, ate)
  BY SemValues DEF ConsumerTurn
<1> QED BY <1>1, <1>2 DEF JobAt, NotStarted, LastTurn

\* The producer hands the turn to the consumer, for the last time at v = m.
LEMMA ProduceSignalJob ==
    ASSUME NEW g, NEW con, NEW pro, NEW m, NEW v, NEW co, NEW ate,
           JobAt(g, con, pro, m, v, "signal", co, ate)
    PROVE  JobAt(g, con, signaled(pro), m, v + 1, IF v < m THEN "wait" ELSE "delete", co, ate)
<1>1. /\ m \in Nat \ {0} /\ v \in Nat \ {0}
      /\ v <= m /\ Eats(ate, v - 1) /\ con = Sem(0) /\ g = v
      /\ (co = "wait" /\ pro = Sem(0)) \/ (co = "print" /\ pro = Awaited(Consumer))
  BY DEF JobAt, NotStarted, ProducerTurn, ConsumerTurn, LastTurn
<1>2. (co = "wait" /\ signaled(pro) = Sem(1)) \/ (co = "print" /\ signaled(pro) = Sem(0))
  BY <1>1, SemValues
<1>3. CASE v < m
  <2>1. 2 <= v + 1 /\ v + 1 <= m /\ g = (v + 1) - 1 /\ (v + 1) - 2 = v - 1 /\ v + 1 \in Nat \ {0}
    BY <1>1, <1>3
  <2> QED BY <1>1, <1>2, <1>3, <2>1 DEF JobAt, ConsumerTurn
<1>4. CASE ~(v < m)
  <2>1. v = m /\ v + 1 \in Nat \ {0}
    BY <1>1, <1>4
  <2> QED BY <1>1, <1>2, <1>4, <2>1 DEF JobAt, LastTurn
<1> QED BY <1>3, <1>4

\* The producer ends.
LEMMA ProduceDeleteJob ==
    ASSUME NEW g, NEW con, NEW pro, NEW m, NEW v, NEW co, NEW ate,
           JobAt(g, con, pro, m, v, "delete", co, ate)
    PROVE  JobAt(g, con, deleted(pro), m, v, "done", co, ate)
BY DEF JobAt, NotStarted, ProducerTurn, ConsumerTurn, LastTurn, deleted

\* The consumer waits for a value, and is let go at once when the producer has
\* deleted the semaphore.
LEMMA ConsumeWaitJob ==
    ASSUME NEW g, NEW con, NEW pro, NEW m, NEW v, NEW pr, NEW ate,
           JobAt(g, con, pro, m, v, pr, "wait", ate)
    PROVE  JobAt(g, con, waitSem(pro, Consumer), m, v, pr, "print", ate)
<1>1. CASE ProducerTurn(g, con, pro, m, v, pr, "wait", ate)
  BY <1>1, SemValues DEF ProducerTurn, JobAt, NotStarted
<1>2. CASE ConsumerTurn(g, con, pro, m, v, pr, "wait", ate)
  BY <1>2, SemValues DEF ConsumerTurn, JobAt, NotStarted
<1>3. CASE LastTurn(g, con, pro, m, v, pr, "wait", ate)
  BY <1>3, SemValues DEF LastTurn, JobAt, NotStarted
<1> QED BY <1>1, <1>2, <1>3 DEF JobAt, NotStarted

\* One more value is consumed.
LEMMA EatsNext ==
    ASSUME NEW ate, NEW m \in Nat, Eats(ate, m)
    PROVE  Eats(Append(ate, m + 1), m + 1)
<1>1. /\ ate \in Seq(Nat) /\ Len(ate) = m /\ \A k \in 1 .. m : ate[k] = k
  BY DEF Eats
<1> DEFINE more == Append(ate, m + 1)
<1>2. more \in Seq(Nat) /\ Len(more) = m + 1
  BY <1>1
<1>3. ASSUME NEW k \in 1 .. m + 1 PROVE more[k] = k
  BY <1>1, <1>3
<1> QED BY <1>2, <1>3 DEF Eats

\* The consumer prints the value it was signaled for.
LEMMA ConsumePrintJob ==
    ASSUME NEW g, NEW con, NEW pro, NEW m, NEW v, NEW pr, NEW ate,
           JobAt(g, con, pro, m, v, pr, "print", ate), ~waitsOn(Consumer, pro)
    PROVE  JobAt(g, con, pro, m, v, pr, "test", Append(ate, g))
<1>1. ~ProducerTurn(g, con, pro, m, v, pr, "print", ate)
  BY SemValues DEF ProducerTurn
<1>2. CASE ConsumerTurn(g, con, pro, m, v, pr, "print", ate)
  <2>1. v \in Nat \ {0}
    BY <1>2 DEF JobAt, NotStarted
  <2>2. v - 2 \in Nat /\ g = (v - 2) + 1 /\ (v - 2) + 1 = v - 1 /\ Eats(ate, v - 2)
    BY <1>2, <2>1 DEF ConsumerTurn
  <2>3. Eats(Append(ate, g), v - 1)
    BY <2>2, EatsNext
  <2> QED BY <1>2, <2>3 DEF JobAt, ConsumerTurn, NotStarted
<1>3. CASE LastTurn(g, con, pro, m, v, pr, "print", ate)
  <2>1. m \in Nat \ {0}
    BY <1>3 DEF JobAt, NotStarted
  <2>2. m - 1 \in Nat /\ g = (m - 1) + 1 /\ (m - 1) + 1 = m /\ Eats(ate, m - 1)
    BY <1>3, <2>1 DEF LastTurn
  <2>3. Eats(Append(ate, g), m)
    BY <2>2, EatsNext
  <2> QED BY <1>3, <2>3 DEF JobAt, LastTurn, NotStarted
<1> QED BY <1>1, <1>2, <1>3 DEF JobAt, NotStarted

\* The consumer looks whether that was the last value.
LEMMA ConsumeTestJob ==
    ASSUME NEW g, NEW con, NEW pro, NEW m, NEW v, NEW pr, NEW ate,
           JobAt(g, con, pro, m, v, pr, "test", ate)
    PROVE  JobAt(g, con, pro, m, v, pr, IF g = m THEN "delete" ELSE "signal", ate)
<1>1. CASE ConsumerTurn(g, con, pro, m, v, pr, "test", ate)
  <2>1. v \in Nat /\ m \in Nat /\ g # m
    BY <1>1 DEF JobAt, NotStarted, ConsumerTurn
  <2> QED BY <1>1, <2>1 DEF JobAt, ConsumerTurn, NotStarted
<1>2. CASE LastTurn(g, con, pro, m, v, pr, "test", ate)
  BY <1>2 DEF JobAt, LastTurn, NotStarted
<1> QED BY <1>1, <1>2 DEF JobAt, NotStarted, ProducerTurn

\* The consumer hands the turn back.
LEMMA ConsumeSignalJob ==
    ASSUME NEW g, NEW con, NEW pro, NEW m, NEW v, NEW pr, NEW ate,
           JobAt(g, con, pro, m, v, pr, "signal", ate)
    PROVE  JobAt(g, signaled(con), pro, m, v, pr, "wait", ate)
<1>1. ConsumerTurn(g, con, pro, m, v, pr, "signal", ate) /\ v \in Nat \ {0} /\ m \in Nat \ {0}
  BY DEF JobAt, NotStarted, ProducerTurn, LastTurn
<1> QED BY <1>1, SemValues DEF ConsumerTurn, ProducerTurn, JobAt

\* The consumer ends.
LEMMA ConsumeDeleteJob ==
    ASSUME NEW g, NEW con, NEW pro, NEW m, NEW v, NEW pr, NEW ate,
           JobAt(g, con, pro, m, v, pr, "delete", ate)
    PROVE  JobAt(g, deleted(con), pro, m, v, pr, "done", ate)
BY DEF JobAt, NotStarted, ProducerTurn, ConsumerTurn, LastTurn

\* A job that has not started or has finished does not look at n.
LEMMA OtherJob ==
    ASSUME NEW g, NEW h, NEW con, NEW pro, NEW m, NEW v, NEW pr, NEW co, NEW ate,
           JobAt(g, con, pro, m, v, pr, co, ate), m = 0 \/ (pr = "done" /\ co = "done")
    PROVE  JobAt(h, con, pro, m, v, pr, co, ate)
BY DEF JobAt, NotStarted, ProducerTurn, ConsumerTurn, LastTurn

-----------------------------------------------------------------------------
(* All jobs.                                                               *)

\* The other jobs have not started or have finished.
Alone(j) == \A k \in Jobs \ {j} : count[k] = 0 \/ Finished(k)

\* A step of job j alone.
JobStep(j) ==
    \A k \in Jobs \ {j} :
       /\ consumed'[k] = consumed[k] /\ produced'[k] = produced[k] /\ count'[k] = count[k]
       /\ i'[k] = i[k] /\ prod'[k] = prod[k] /\ cons'[k] = cons[k] /\ eaten'[k] = eaten[k]

\* What job j may do to n concerns nobody else.
LEMMA JobChange ==
    ASSUME PcInv, NEW j \in Jobs, Alone(j), JobStep(j), PcType',
           JobAt(n', consumed'[j], produced'[j], count'[j], i'[j], prod'[j], cons'[j], eaten'[j])
    PROVE  PcInv'
<1>1. ASSUME NEW k \in Jobs \ {j}
      PROVE  /\ JobAt(n', consumed'[k], produced'[k], count'[k], i'[k], prod'[k], cons'[k], eaten'[k])
             /\ count'[k] = 0 \/ Finished(k)'
  <2>1. JobAt(n, consumed[k], produced[k], count[k], i[k], prod[k], cons[k], eaten[k])
    BY DEF PcInv
  <2>2. count[k] = 0 \/ (prod[k] = "done" /\ cons[k] = "done")
    BY DEF Alone, Finished
  <2>3. JobAt(n', consumed[k], produced[k], count[k], i[k], prod[k], cons[k], eaten[k])
    BY <2>1, <2>2, OtherJob
  <2> QED BY <2>2, <2>3 DEF JobStep, Finished
<1>2. \A k \in Jobs :
         JobAt(n', consumed'[k], produced'[k], count'[k], i'[k], prod'[k], cons'[k], eaten'[k])
  BY <1>1
<1>3. \A k, l \in Jobs : k # l => \/ count'[k] = 0 \/ Finished(k)'
                                  \/ count'[l] = 0 \/ Finished(l)'
  BY <1>1
<1> QED BY <1>2, <1>3 DEF PcInv, Finished

\* Only one job has a process at work.
LEMMA Working ==
    ASSUME PcInv, NEW j \in Jobs,
           prod[j] \notin {"none", "done"} \/ cons[j] \notin {"none", "done"}
    PROVE  Alone(j)
<1>1. JobAt(n, consumed[j], produced[j], count[j], i[j], prod[j], cons[j], eaten[j])
  BY DEF PcInv
<1>2. count[j] # 0
  BY <1>1 DEF JobAt, NotStarted
<1>3. ~Finished(j)
  BY DEF Finished
<1> QED BY <1>2, <1>3 DEF PcInv, Alone

\* The command starts a job when no other one is at work.
LEMMA StartPc ==
    ASSUME Overlap = FALSE, PcInv, NEW j \in Jobs, NEW c \in Counts, xsh_prodcons(j, c)
    PROVE  PcInv'
<1>1. Alone(j) /\ count[j] = 0
  BY DEF xsh_prodcons, Alone
<1>2. PcType' /\ JobStep(j)
  BY DEF xsh_prodcons, PcInv, PcType, JobStep
<1>3. /\ consumed'[j] = Sem(1) /\ produced'[j] = Sem(0) /\ count'[j] = c
      /\ i'[j] = i[j] /\ prod'[j] = "wait" /\ cons'[j] = "wait" /\ eaten'[j] = eaten[j]
  BY DEF xsh_prodcons, PcInv, PcType
<1>4. c \in Nat \ {0}
  BY CountsAssumption
<1>5. i[j] = 1 /\ Eats(eaten[j], 0)
  <2>1. JobAt(n, consumed[j], produced[j], count[j], i[j], prod[j], cons[j], eaten[j])
    BY DEF PcInv
  <2> QED BY <1>1, <2>1 DEF JobAt, NotStarted
<1>6. JobAt(n', consumed'[j], produced'[j], count'[j], i'[j], prod'[j], cons'[j], eaten'[j])
  <2>1. 1 - 1 = 0 /\ 1 <= c /\ 1 \in Nat \ {0}
    BY <1>4
  <2> QED BY <1>3, <1>4, <1>5, <2>1 DEF JobAt, ProducerTurn
<1> QED BY <1>1, <1>2, <1>6, JobChange

\* A statement of the producer.
LEMMA ProducerPc == ASSUME PcInv, NEW j \in Jobs, ProducerStep(j) PROVE PcInv'
<1>1. JobAt(n, consumed[j], produced[j], count[j], i[j], prod[j], cons[j], eaten[j])
  BY DEF PcInv
<1>2. Alone(j)
  BY Working DEF ProducerStep, produceWait, produceSet, produceSignal, produceDelete
<1>3. PcType' /\ JobStep(j)
  BY DEF ProducerStep, produceWait, produceSet, produceSignal, produceDelete, PcInv, PcType, JobStep
<1>4. JobAt(n', consumed'[j], produced'[j], count'[j], i'[j], prod'[j], cons'[j], eaten'[j])
  <2>1. CASE produceWait(j)
    <3>1. /\ prod[j] = "wait" /\ prod'[j] = "set"
          /\ consumed'[j] = waitSem(consumed[j], Producer)
          /\ UNCHANGED <<n, produced, count, i, cons, eaten>>
      BY <2>1 DEF produceWait, PcInv, PcType
    <3> QED BY <1>1, <3>1, ProduceWaitJob
  <2>2. CASE produceSet(j)
    <3>1. /\ prod[j] = "set" /\ prod'[j] = "signal" /\ n' = i[j] /\ ~waitsOn(Producer, consumed[j])
          /\ UNCHANGED <<consumed, produced, count, i, cons, eaten>>
      BY <2>2 DEF produceSet, PcInv, PcType
    <3> QED BY <1>1, <3>1, ProduceSetJob
  <2>3. CASE produceSignal(j)
    <3>1. /\ prod[j] = "signal" /\ prod'[j] = IF i[j] < count[j] THEN "wait" ELSE "delete"
          /\ produced'[j] = signaled(produced[j]) /\ i'[j] = i[j] + 1
          /\ UNCHANGED <<n, consumed, count, cons, eaten>>
      BY <2>3 DEF produceSignal, PcInv, PcType
    <3> QED BY <1>1, <3>1, ProduceSignalJob
  <2>4. CASE produceDelete(j)
    <3>1. /\ prod[j] = "delete" /\ prod'[j] = "done" /\ produced'[j] = deleted(produced[j])
          /\ UNCHANGED <<n, consumed, count, i, cons, eaten>>
      BY <2>4 DEF produceDelete, PcInv, PcType
    <3> QED BY <1>1, <3>1, ProduceDeleteJob
  <2> QED BY <2>1, <2>2, <2>3, <2>4 DEF ProducerStep
<1> QED BY <1>2, <1>3, <1>4, JobChange

\* A statement of the consumer.
LEMMA ConsumerPc == ASSUME PcInv, NEW j \in Jobs, ConsumerStep(j) PROVE PcInv'
<1>1. JobAt(n, consumed[j], produced[j], count[j], i[j], prod[j], cons[j], eaten[j])
  BY DEF PcInv
<1>2. Alone(j)
  BY Working
  DEF ConsumerStep, consumeWait, consumePrint, consumeTest, consumeSignal, consumeDelete
<1>3. PcType' /\ JobStep(j)
  BY DEF ConsumerStep, consumeWait, consumePrint, consumeTest, consumeSignal, consumeDelete,
         PcInv, PcType, JobStep
<1>4. JobAt(n', consumed'[j], produced'[j], count'[j], i'[j], prod'[j], cons'[j], eaten'[j])
  <2>1. CASE consumeWait(j)
    <3>1. /\ cons[j] = "wait" /\ cons'[j] = "print"
          /\ produced'[j] = waitSem(produced[j], Consumer)
          /\ UNCHANGED <<n, consumed, count, i, prod, eaten>>
      BY <2>1 DEF consumeWait, PcInv, PcType
    <3> QED BY <1>1, <3>1, ConsumeWaitJob
  <2>2. CASE consumePrint(j)
    <3>1. /\ cons[j] = "print" /\ cons'[j] = "test" /\ eaten'[j] = Append(eaten[j], n)
          /\ ~waitsOn(Consumer, produced[j])
          /\ UNCHANGED <<n, consumed, produced, count, i, prod>>
      BY <2>2 DEF consumePrint, PcInv, PcType
    <3> QED BY <1>1, <3>1, ConsumePrintJob
  <2>3. CASE consumeTest(j)
    <3>1. /\ cons[j] = "test" /\ cons'[j] = IF n = count[j] THEN "delete" ELSE "signal"
          /\ UNCHANGED <<n, consumed, produced, count, i, prod, eaten>>
      BY <2>3 DEF consumeTest, lastOne, PcInv, PcType
    <3> QED BY <1>1, <3>1, ConsumeTestJob
  <2>4. CASE consumeSignal(j)
    <3>1. /\ cons[j] = "signal" /\ cons'[j] = "wait" /\ consumed'[j] = signaled(consumed[j])
          /\ UNCHANGED <<n, produced, count, i, prod, eaten>>
      BY <2>4 DEF consumeSignal, PcInv, PcType
    <3> QED BY <1>1, <3>1, ConsumeSignalJob
  <2>5. CASE consumeDelete(j)
    <3>1. /\ cons[j] = "delete" /\ cons'[j] = "done" /\ consumed'[j] = deleted(consumed[j])
          /\ UNCHANGED <<n, produced, count, i, prod, eaten>>
      BY <2>5 DEF consumeDelete, PcInv, PcType
    <3> QED BY <1>1, <3>1, ConsumeDeleteJob
  <2> QED BY <2>1, <2>2, <2>3, <2>4, <2>5 DEF ConsumerStep
<1> QED BY <1>2, <1>3, <1>4, JobChange

\* Whatever does not touch the jobs.
LEMMA SamePc == ASSUME PcInv, UNCHANGED pcVars PROVE PcInv'
BY DEF PcInv, PcType, pcVars, Finished

\* Every step of the shell, its commands and their processes.
LEMMA NextPc == ASSUME Overlap = FALSE, PcInv, [Next]_commandVars PROVE PcInv'
<1>1. CASE \E p \in Slots : xsh(p)
  <2> PICK p \in Slots : xsh(p)
    BY <1>1
  <2>1. CASE UNCHANGED pcVars
    BY <2>1, SamePc
  <2>2. CASE \E j \in Jobs, c \in Counts : xsh_prodcons(j, c)
    BY <2>2, StartPc
  <2> QED BY <2>1, <2>2 DEF xsh, pcVars
<1>2. CASE \E j \in Jobs : Producing(j) \/ Consuming(j)
  BY <1>2, ProducerPc, ConsumerPc DEF Producing, Consuming
<1>3. CASE UNCHANGED pcVars
  BY <1>3, SamePc
<1> QED BY <1>1, <1>2, <1>3
        DEF Next, commandVars, Typing, Shelling, Restarting, Ending, Future, Freeing

\* "number of values to be produced and consumed": for any number of jobs one
\* after the other and of values, a consumer sees 1, 2, 3 and so on, each once.
\* Jobs that overlap share n and may see each other's values.
THEOREM ValuesInOrder == ASSUME Overlap = FALSE PROVE LiveSpec => []InOrder
<1>1. Init => PcInv
  <2> SUFFICES ASSUME Init PROVE PcInv
    OBVIOUS
  <2>1. PcType /\ \A j \in Jobs : /\ count[j] = 0 /\ i[j] = 1 /\ prod[j] = "none"
                                  /\ cons[j] = "none" /\ eaten[j] = <<>>
    BY DEF Init, ProdConsInit, PcType
  <2>2. Eats(<<>>, 0)
    BY DEF Eats
  <2> QED BY <2>1, <2>2 DEF PcInv, JobAt, NotStarted
<1>2. PcInv /\ [Next]_commandVars => PcInv'
  BY NextPc
<1>3. PcInv => InOrder
  <2> SUFFICES ASSUME PcInv, NEW j \in Jobs
               PROVE  Len(eaten[j]) <= count[j] /\ \A k \in 1 .. Len(eaten[j]) : eaten[j][k] = k
    BY DEF InOrder
  <2>1. JobAt(n, consumed[j], produced[j], count[j], i[j], prod[j], cons[j], eaten[j])
    BY DEF PcInv
  <2> QED BY <2>1 DEF JobAt, NotStarted, ProducerTurn, ConsumerTurn, LastTurn, Eats
<1> QED BY <1>1, <1>2, <1>3, PTL DEF LiveSpec

-----------------------------------------------------------------------------
(* Futures, for every number of consumers and producers.                   *)

FutType ==
    /\ flag \in Flags /\ flag \in {"EXCLUSIVE", "SHARED"}
    /\ value \in {0} \cup Producers
    /\ state \in {"EMPTY", "WAITING", "VALID"}
    /\ get_queue \in Seq(Consumers) /\ used \in Nat
    /\ at \in [Procs -> {"start", "waited", "resume", "done", "failed"}]
    /\ got \in [Consumers -> {0} \cup Producers]
    /\ procID \in [Producers -> Int]
    /\ suspended \subseteq Consumers

\* Whoever may read the value finds one that was set.
FutValues ==
    /\ state = "VALID" => value \in Producers
    /\ \A p \in Producers :
          /\ at[p] # "waited"
          /\ at[p] = "resume" => value \in Producers /\ flag = "SHARED"
          /\ at[p] # "resume" => procID[p] = 0
    /\ \A c \in Consumers :
          /\ at[c] = "waited" /\ c \notin suspended => value \in Producers
          /\ c \in suspended => at[c] = "waited"
          /\ at[c] = "done" => got[c] \in Producers

\* An exclusive future has one consumer and, once it is valid, one producer.
FutExclusive ==
    flag = "EXCLUSIVE" =>
       /\ state # "VALID" => \A p \in Procs : at[p] # "done"
       /\ state = "VALID" => \A p \in Producers : at[p] = "done" <=> p = value
       /\ \A c \in Consumers :
             /\ c \in suspended => pid = c /\ state = "WAITING"
             /\ at[c] = "waited" /\ c \notin suspended => state = "VALID"
             /\ at[c] = "done" => got[c] = value

\* Consumers that have called.
Called == {c \in Consumers : at[c] # "start"}

\* The places of the queue are used by consumers that have called: there is
\* one for each.
FutQueue ==
    /\ used <= Cardinality(Called)
    /\ flag = "SHARED" => \A c \in suspended :
          \/ \E p \in Producers : procID[p] = c
          \/ \E k \in DOMAIN get_queue : get_queue[k] = c

\* A consumer of a shared future that has called stays called.
Came(c) == at[c] \in {"waited", "done"}

\* A shared future: each consumer is in the queue once, after its call; nobody
\* is before the first one has called, and whoever is while the future is valid
\* was left there by a future_set() that resumed another consumer.
FutOrder ==
    flag = "SHARED" =>
       /\ state = "EMPTY" => get_queue = <<>>
       /\ \A k \in DOMAIN get_queue : Came(get_queue[k])
       /\ \A k, m \in DOMAIN get_queue : get_queue[k] = get_queue[m] => k = m
       /\ \A p \in Producers : procID[p] \in Consumers => Came(procID[p])
       /\ state = "VALID" =>
             \A c \in Consumers : Queued(c) => \E d \in Consumers \ {c} : Handed(d)

FutInv == FutType /\ FutValues /\ FutExclusive /\ FutQueue /\ FutOrder

\* The queue of a shared future: its places after enq() and deq().
LEMMA QueueSteps ==
    ASSUME NEW q \in Seq(Consumers), NEW e \in Consumers
    PROVE  /\ Append(q, e) \in Seq(Consumers)
           /\ \E k \in DOMAIN Append(q, e) : Append(q, e)[k] = e
           /\ \A k \in DOMAIN q : k \in DOMAIN Append(q, e) /\ Append(q, e)[k] = q[k]
           /\ q # <<>> =>
                 /\ Tail(q) \in Seq(Consumers) /\ Head(q) \in Consumers
                 /\ \A k \in DOMAIN q :
                       \/ q[k] = Head(q)
                       \/ \E m \in DOMAIN Tail(q) : Tail(q)[m] = q[k]
<1>1. Append(q, e) \in Seq(Consumers) /\ Append(q, e)[Len(q) + 1] = e
  OBVIOUS
<1>2. Len(q) + 1 \in DOMAIN Append(q, e)
  OBVIOUS
<1>3. \A k \in DOMAIN q : k \in DOMAIN Append(q, e) /\ Append(q, e)[k] = q[k]
  OBVIOUS
<1>4. ASSUME q # <<>>
      PROVE  /\ Tail(q) \in Seq(Consumers) /\ Head(q) \in Consumers
             /\ \A k \in DOMAIN q :
                   \/ q[k] = Head(q)
                   \/ \E m \in DOMAIN Tail(q) : Tail(q)[m] = q[k]
  <2>1. Tail(q) \in Seq(Consumers) /\ Head(q) \in Consumers
    BY <1>4
  <2>2. ASSUME NEW k \in DOMAIN q, k # 1
        PROVE  k - 1 \in DOMAIN Tail(q) /\ Tail(q)[k - 1] = q[k]
    BY <1>4, <2>2
  <2>3. Head(q) = q[1]
    BY <1>4
  <2> QED BY <2>1, <2>2, <2>3
<1> QED BY <1>1, <1>2, <1>3, <1>4

\* The same by places.
LEMMA QueuePlaces ==
    ASSUME NEW q \in Seq(Consumers), NEW e \in Consumers
    PROVE  /\ \A k \in DOMAIN Append(q, e) :
                 \/ k \in DOMAIN q /\ Append(q, e)[k] = q[k]
                 \/ k = Len(q) + 1 /\ k \notin DOMAIN q /\ Append(q, e)[k] = e
           /\ q # <<>> =>
                 /\ 1 \in DOMAIN q /\ Head(q) = q[1]
                 /\ \A k \in DOMAIN Tail(q) :
                       k + 1 \in DOMAIN q /\ k + 1 # 1 /\ k \in Int /\ Tail(q)[k] = q[k + 1]
<1>1. \A k \in DOMAIN Append(q, e) :
         \/ k \in DOMAIN q /\ Append(q, e)[k] = q[k]
         \/ k = Len(q) + 1 /\ k \notin DOMAIN q /\ Append(q, e)[k] = e
  OBVIOUS
<1>2. ASSUME q # <<>>, NEW k \in DOMAIN Tail(q)
      PROVE  k + 1 \in DOMAIN q /\ k + 1 # 1 /\ k \in Int /\ Tail(q)[k] = q[k + 1]
  BY <1>2
<1>3. q # <<>> => 1 \in DOMAIN q /\ Head(q) = q[1]
  OBVIOUS
<1> QED BY <1>1, <1>2, <1>3

\* A call of a process, or a step that leaves the future alone.
FutureStep == (\E p \in Procs : step(p)) \/ (\E c \in Consumers : future_free(c))

\* Every field keeps its type.
LEMMA FutureTypes == ASSUME FutType, FutureStep PROVE FutType'
<1> USE FuturesAssumption DEF FutType
<1>1. CASE \E c \in Consumers : future_free(c)
  BY <1>1 DEF future_free
<1>2. ASSUME NEW p \in Procs, future_get(p) PROVE FutType'
  <2>1. \A e \in Consumers : Append(get_queue, e) \in Seq(Consumers)
    BY QueueSteps
  <2>2. CASE exclusiveRefused(p)
    BY <2>2 DEF exclusiveRefused, goto
  <2>3. CASE exclusiveGet(p)
    BY <2>3 DEF exclusiveGet, Getting, read, goto
  <2>4. CASE exclusiveWait(p)
    BY <2>4 DEF exclusiveWait, Getting, goto
  <2>5. CASE sharedGet(p)
    BY <2>5 DEF sharedGet, Getting, read, goto
  <2>6. CASE sharedWait(p)
    BY <2>1, <2>6 DEF sharedWait, Getting, enq, goto
  <2>7. CASE waited(p)
    BY <2>7 DEF waited, read, goto
  <2> QED BY <1>2, <2>2, <2>3, <2>4, <2>5, <2>6, <2>7 DEF future_get
<1>3. ASSUME NEW p \in Procs, future_set(p) PROVE FutType'
  <2>1. get_queue # <<>> => Tail(get_queue) \in Seq(Consumers) /\ Head(get_queue) \in Int
    BY QueueSteps DEF Procs
  <2>2. CASE setRefused(p)
    BY <2>2 DEF setRefused, goto
  <2>3. CASE setEmpty(p)
    BY <2>3 DEF setEmpty, Setting, goto
  <2>4. CASE exclusiveSet(p)
    BY <2>4 DEF exclusiveSet, Setting, goto, resume
  <2>5. CASE sharedSet(p)
    BY <2>1, <2>5 DEF sharedSet, Setting, goto, deq
  <2>6. CASE sharedResume(p)
    BY <2>6 DEF sharedResume, resume
  <2> QED BY <1>3, <2>2, <2>3, <2>4, <2>5, <2>6 DEF future_set
<1> QED BY <1>1, <1>2, <1>3 DEF FutureStep, step

\* Whoever may read finds a value that was set.
LEMMA FutureValues == ASSUME FutType, FutValues, FutureStep PROVE FutValues'
<1> USE FuturesAssumption DEF FutType, FutValues, Procs
<1>1. CASE \E c \in Consumers : future_free(c)
  BY <1>1 DEF future_free
<1>2. ASSUME NEW p \in Procs, future_get(p) PROVE FutValues'
  <2>1. CASE exclusiveRefused(p)
    BY <2>1 DEF exclusiveRefused, Getting, Runs, goto
  <2>2. CASE exclusiveGet(p)
    BY <2>2 DEF exclusiveGet, Getting, Runs, read, goto
  <2>3. CASE exclusiveWait(p)
    BY <2>3 DEF exclusiveWait, Getting, Runs, goto
  <2>4. CASE sharedGet(p)
    BY <2>4 DEF sharedGet, Getting, Runs, read, goto
  <2>5. CASE sharedWait(p)
    BY <2>5 DEF sharedWait, Getting, Runs, enq, goto
  <2>6. CASE waited(p)
    BY <2>6 DEF waited, Runs, read, goto
  <2> QED BY <1>2, <2>1, <2>2, <2>3, <2>4, <2>5, <2>6 DEF future_get
<1>3. ASSUME NEW p \in Procs, future_set(p) PROVE FutValues'
  <2>1. CASE setRefused(p)
    BY <2>1 DEF setRefused, Setting, Runs, goto
  <2>2. CASE setEmpty(p)
    BY <2>2 DEF setEmpty, Setting, Runs, goto
  <2>3. CASE exclusiveSet(p)
    BY <2>3 DEF exclusiveSet, Setting, Runs, goto, resume
  <2>4. CASE sharedSet(p)
    BY <2>4 DEF sharedSet, Setting, Runs, goto, deq
  <2>5. CASE sharedResume(p)
    BY <2>5 DEF sharedResume, resume
  <2> QED BY <1>3, <2>1, <2>2, <2>3, <2>4, <2>5 DEF future_set
<1> QED BY <1>1, <1>2, <1>3 DEF FutureStep, step

\* An exclusive future is set once.
LEMMA FutureExclusives == ASSUME FutType, FutValues, FutExclusive, FutureStep PROVE FutExclusive'
<1> USE FuturesAssumption DEF FutType, FutValues, FutExclusive, Procs
<1>1. CASE \E c \in Consumers : future_free(c)
  BY <1>1 DEF future_free
<1>2. ASSUME NEW p \in Procs, future_get(p) PROVE FutExclusive'
  <2>1. CASE exclusiveRefused(p)
    BY <2>1 DEF exclusiveRefused, Getting, Runs, goto
  <2>2. CASE exclusiveGet(p)
    BY <2>2 DEF exclusiveGet, Getting, Runs, read, goto
  <2>3. CASE exclusiveWait(p)
    BY <2>3 DEF exclusiveWait, Getting, Runs, goto
  <2>4. CASE sharedGet(p)
    BY <2>4 DEF sharedGet, Getting, Runs, read, goto
  <2>5. CASE sharedWait(p)
    BY <2>5 DEF sharedWait, Getting, Runs, enq, goto
  <2>6. CASE waited(p)
    BY <2>6 DEF waited, Runs, read, goto
  <2> QED BY <1>2, <2>1, <2>2, <2>3, <2>4, <2>5, <2>6 DEF future_get
<1>3. ASSUME NEW p \in Procs, future_set(p) PROVE FutExclusive'
  <2>1. CASE setRefused(p)
    BY <2>1 DEF setRefused, Setting, Runs, goto
  <2>2. CASE setEmpty(p)
    BY <2>2 DEF setEmpty, Setting, Runs, goto
  <2>3. CASE exclusiveSet(p)
    BY <2>3 DEF exclusiveSet, Setting, Runs, goto, resume
  <2>4. CASE sharedSet(p)
    BY <2>4 DEF sharedSet, Setting, Runs, goto, deq
  <2>5. CASE sharedResume(p)
    BY <2>5 DEF sharedResume, resume
  <2> QED BY <1>3, <2>1, <2>2, <2>3, <2>4, <2>5 DEF future_set
<1> QED BY <1>1, <1>2, <1>3 DEF FutureStep, step

\* What the condition says of the places.
FewConsumers == IsFiniteSet(Consumers) /\ Cardinality(Consumers) <= MAX_SIZE

\* A consumer that calls finds a place, and there is one less for the others.
LEMMA PlaceLeft ==
    ASSUME FewConsumers, FutType, NEW c \in Consumers, at[c] = "start",
           NEW e, at' = [at EXCEPT ![c] = e], e # "start"
    PROVE  /\ Cardinality(Called) \in Nat /\ Cardinality(Called) < MAX_SIZE
           /\ Cardinality(Called') = Cardinality(Called) + 1
<1>1. IsFiniteSet(Called) /\ Called \subseteq Consumers /\ c \notin Called
  BY FS_Subset DEF FewConsumers, Called
<1>2. Called' = Called \cup {c}
  BY DEF Called, FutType, Procs
<1>3. Cardinality(Called') = Cardinality(Called) + 1
  BY <1>1, <1>2, CardPlus
<1>4. Cardinality(Called') <= Cardinality(Consumers)
  BY <1>1, <1>2, FS_Subset DEF FewConsumers
<1>5. Cardinality(Called) \in Nat /\ Cardinality(Consumers) \in Nat
  BY <1>1, FS_CardinalityType DEF FewConsumers
<1> QED BY <1>3, <1>4, <1>5, FuturesAssumption DEF FewConsumers

\* No place is used but by a consumer that calls.
LEMMA FuturePlaces ==
    ASSUME FewConsumers, FutType, FutValues, used <= Cardinality(Called), FutureStep
    PROVE  used' <= Cardinality(Called')
<1>1. CASE \E c \in Consumers : future_free(c)
  BY <1>1 DEF future_free, Called
<1>2. ASSUME NEW p \in Procs, step(p) PROVE used' <= Cardinality(Called')
  <2>1. Cardinality(Called) \in Nat /\ used \in Nat
    BY FS_Subset, FS_CardinalityType DEF FewConsumers, Called, FutType
  <2>2. used' = used \/ used' = 0 \/ (p \in Consumers /\ at[p] = "start" /\ used' = used + 1)
    BY <1>2
    DEF step, future_get, future_set, exclusiveRefused, exclusiveGet, exclusiveWait, sharedGet,
        sharedWait, waited, setRefused, setEmpty, exclusiveSet, sharedSet, sharedResume,
        enq, deq, Getting, Runs
  <2>3. CASE p \in Consumers /\ at[p] = "start"
    <3>1. PICK e : at' = [at EXCEPT ![p] = e] /\ e # "start"
      BY <1>2, <2>3, FuturesAssumption
      DEF step, future_get, future_set, exclusiveRefused, exclusiveGet, exclusiveWait, sharedGet,
          sharedWait, waited, setRefused, setEmpty, exclusiveSet, sharedSet, sharedResume,
          Setting, Runs, read, goto
    <3>2. Cardinality(Called') = Cardinality(Called) + 1
      BY <2>3, <3>1, PlaceLeft
    <3> QED BY <2>1, <2>2, <3>2
  <2>4. CASE ~(p \in Consumers /\ at[p] = "start")
    <3>1. Called' = Called
      BY <1>2, <2>4, FuturesAssumption
      DEF step, future_get, future_set, exclusiveRefused, exclusiveGet, exclusiveWait, sharedGet,
          sharedWait, waited, setRefused, setEmpty, exclusiveSet, sharedSet, sharedResume,
          Getting, Setting, Runs, read, goto, Called, FutType, FutValues, Procs
    <3> QED BY <2>1, <2>2, <2>4, <3>1
  <2> QED BY <2>3, <2>4
<1> QED BY <1>1, <1>2 DEF FutureStep

\* Whoever waits for a shared future can be found.
LEMMA FutureQueued ==
    ASSUME FewConsumers, FutType, FutValues, FutQueue, FutureStep
    PROVE  flag' = "SHARED" => \A c \in suspended' :
              \/ \E p \in Producers : procID'[p] = c
              \/ \E k \in DOMAIN get_queue' : get_queue'[k] = c
<1> SUFFICES ASSUME flag' = "SHARED", NEW c \in suspended'
             PROVE  \/ \E p \in Producers : procID'[p] = c
                    \/ \E k \in DOMAIN get_queue' : get_queue'[k] = c
  OBVIOUS
<1>0. /\ c \in suspended /\ flag = "SHARED" =>
            \/ \E p \in Producers : procID[p] = c
            \/ \E k \in DOMAIN get_queue : get_queue[k] = c
      /\ get_queue \in Seq(Consumers)
  BY DEF FutQueue, FutType
<1>1. CASE \E e \in Consumers : future_free(e)
  BY <1>0, <1>1 DEF future_free
<1>2. ASSUME NEW e \in Consumers, sharedWait(e)
      PROVE  \/ \E p \in Producers : procID'[p] = c
             \/ \E k \in DOMAIN get_queue' : get_queue'[k] = c
  <2>1. used < MAX_SIZE
    <3>1. at[e] = "start" /\ at' = [at EXCEPT ![e] = "waited"]
      BY <1>2 DEF sharedWait, Getting, Runs, goto
    <3>2. Cardinality(Called) \in Nat /\ Cardinality(Called) < MAX_SIZE
      BY <3>1, PlaceLeft
    <3> QED BY <3>2, FuturesAssumption DEF FutQueue, FutType
  <2>2. /\ get_queue' = Append(get_queue, e) /\ suspended' = suspended \cup {e}
        /\ procID' = procID /\ flag' = flag
    BY <1>2, <2>1, FuturesAssumption DEF sharedWait, enq, FutType
  <2> QED BY <1>0, <2>2, QueueSteps
<1>3. ASSUME NEW e \in Producers, sharedSet(e)
      PROVE  \/ \E p \in Producers : procID'[p] = c
             \/ \E k \in DOMAIN get_queue' : get_queue'[k] = c
  <2>1. /\ suspended' = suspended /\ flag' = flag /\ c \in Consumers /\ at[e] = "start"
        /\ get_queue' = IF get_queue = <<>> THEN <<>> ELSE Tail(get_queue)
        /\ procID' = [procID EXCEPT ![e] = IF get_queue = <<>> THEN -1 ELSE Head(get_queue)]
    BY <1>3 DEF sharedSet, deq, Setting, Runs, FutType
  <2>2. procID[e] = 0 /\ c # 0
    BY <2>1, FuturesAssumption DEF FutValues, Procs
  <2>3. CASE \E p \in Producers : procID[p] = c
    BY <2>1, <2>2, <2>3 DEF FutType
  <2>4. CASE \E k \in DOMAIN get_queue : get_queue[k] = c
    <3>1. get_queue # <<>>
      BY <2>4
    <3>2. c = Head(get_queue) \/ \E m \in DOMAIN Tail(get_queue) : Tail(get_queue)[m] = c
      BY <1>0, <2>1, <2>4, <3>1, QueueSteps
    <3> QED BY <2>1, <3>1, <3>2 DEF FutType
  <2> QED BY <1>0, <2>1, <2>3, <2>4
<1>4. ASSUME NEW e \in Producers, sharedResume(e)
      PROVE  \/ \E p \in Producers : procID'[p] = c
             \/ \E k \in DOMAIN get_queue' : get_queue'[k] = c
  BY <1>0, <1>4 DEF sharedResume, resume, FutType
<1>5. ASSUME NEW e \in Procs, step(e), ~sharedWait(e), ~sharedSet(e), ~sharedResume(e)
      PROVE  /\ suspended' \subseteq suspended /\ flag = "SHARED"
             /\ UNCHANGED <<procID, get_queue>>
  BY <1>5
  DEF step, future_get, future_set, exclusiveRefused, exclusiveGet, exclusiveWait, sharedGet,
      waited, setRefused, setEmpty, exclusiveSet, Getting, resume
<1>6. ASSUME NEW e \in Procs, step(e)
      PROVE  \/ \E p \in Producers : procID'[p] = c
             \/ \E k \in DOMAIN get_queue' : get_queue'[k] = c
  <2>1. CASE sharedWait(e)
    BY <1>2, <2>1 DEF sharedWait, Getting
  <2>2. CASE sharedSet(e)
    BY <1>3, <2>2 DEF sharedSet, Setting
  <2>3. CASE sharedResume(e)
    BY <1>4, <2>3 DEF sharedResume
  <2>4. CASE ~sharedWait(e) /\ ~sharedSet(e) /\ ~sharedResume(e)
    BY <1>0, <1>5, <1>6, <2>4
  <2> QED BY <2>1, <2>2, <2>3, <2>4
<1> QED BY <1>1, <1>6 DEF FutureStep

\* A consumer that has called, and one that is handed the value, stays so.
LEMMA StaysHanded ==
    ASSUME FutType, FutValues, flag = "SHARED", FutureStep, NEW c \in Consumers, Came(c)
    PROVE  /\ at'[c] \in {"waited", "done"}
           /\ Handed(c) => Handed(c)'
<1> USE FuturesAssumption DEF FutType, FutValues, Came, Handed, Procs
<1>1. CASE \E e \in Consumers : future_free(e)
  BY <1>1 DEF future_free
<1>2. ASSUME NEW p \in Procs, future_get(p)
      PROVE  at'[c] \in {"waited", "done"} /\ (Handed(c) => Handed(c)')
  <2>1. CASE sharedGet(p)
    BY <2>1 DEF sharedGet, Getting, Runs, read, goto
  <2>2. CASE sharedWait(p)
    BY <2>2 DEF sharedWait, Getting, Runs, enq, goto
  <2>3. CASE waited(p)
    BY <2>3 DEF waited, Runs, read, goto
  <2> QED BY <1>2, <2>1, <2>2, <2>3
          DEF future_get, exclusiveRefused, exclusiveGet, exclusiveWait, Getting
<1>3. ASSUME NEW p \in Procs, future_set(p)
      PROVE  at'[c] \in {"waited", "done"} /\ (Handed(c) => Handed(c)')
  <2>1. CASE setRefused(p)
    BY <2>1 DEF setRefused, Setting, Runs, goto
  <2>2. CASE setEmpty(p)
    BY <2>2 DEF setEmpty, Setting, Runs, goto
  <2>3. CASE sharedSet(p)
    BY <2>3 DEF sharedSet, Setting, Runs, goto, deq
  <2>4. CASE sharedResume(p)
    BY <2>4 DEF sharedResume, resume
  <2> QED BY <1>3, <2>1, <2>2, <2>3, <2>4 DEF future_set, exclusiveSet
<1> QED BY <1>1, <1>2, <1>3 DEF FutureStep, step

\* What changes neither the queue nor the producers' IDs keeps the order.
LEMMA SameQueue ==
    ASSUME FutType, FutValues, FutOrder, FutureStep, UNCHANGED get_queue,
           \A p \in Producers : procID'[p] = procID[p] \/ procID'[p] \notin Consumers,
           flag' = flag, state' = state \/ (state = "EMPTY" /\ state' = "VALID") 
    PROVE  FutOrder'
<1> SUFFICES ASSUME flag = "SHARED"
             PROVE  FutOrder'
  BY DEF FutOrder
<1> USE DEF FutOrder, Came
<1>1. \A k \in DOMAIN get_queue : get_queue[k] \in Consumers /\ Came(get_queue[k])
  BY DEF FutType
<1>2. \A k \in DOMAIN get_queue' : at'[get_queue'[k]] \in {"waited", "done"}
  BY <1>1, StaysHanded
<1>3. \A p \in Producers : procID'[p] \in Consumers => at'[procID'[p]] \in {"waited", "done"}
  BY StaysHanded
<1>4. ASSUME state' = "VALID", NEW c \in Consumers, Queued(c)'
      PROVE  \E d \in Consumers \ {c} : Handed(d)'
  <2>1. Queued(c) /\ state = "VALID"
    BY <1>4 DEF Queued
  <2>2. PICK d \in Consumers \ {c} : Handed(d)
    BY <2>1
  <2>3. Came(d)
    BY <2>2 DEF Handed, Came
  <2> QED BY <2>2, <2>3, StaysHanded
<1> QED BY <1>2, <1>3, <1>4

\* Nobody is overlooked in a shared future.
LEMMA FutureOrder == ASSUME FutType, FutValues, FutOrder, FutureStep PROVE FutOrder'
<1> SUFFICES ASSUME flag' = "SHARED" PROVE FutOrder'
  BY DEF FutOrder
<1> USE DEF Came
<1>0. \A k \in DOMAIN get_queue : get_queue[k] \in Consumers
  BY DEF FutType
<1>1. ASSUME NEW e \in Consumers, sharedWait(e) PROVE FutOrder'
  <2>1. /\ flag = "SHARED" /\ at[e] = "start" /\ state' = "WAITING" /\ procID' = procID
        /\ at'[e] = "waited"
        /\ get_queue' = get_queue \/ get_queue' = Append(get_queue, e)
    BY <1>1 DEF sharedWait, Getting, Runs, enq, goto, FutType, Procs
  <2>2. \A k \in DOMAIN get_queue : get_queue[k] # e /\ at'[get_queue[k]] \in {"waited", "done"}
    BY <1>0, <2>1, StaysHanded DEF FutOrder
  <2>3. \A p \in Producers : procID'[p] \in Consumers => at'[procID'[p]] \in {"waited", "done"}
    BY <2>1, StaysHanded DEF FutOrder
  <2>4. CASE get_queue' = get_queue
    BY <2>1, <2>2, <2>3, <2>4 DEF FutOrder
  <2>5. CASE get_queue' = Append(get_queue, e)
    <3> DEFINE a == Append(get_queue, e)
    <3>1. \A k \in DOMAIN a : \/ k \in DOMAIN get_queue /\ a[k] = get_queue[k]
                              \/ k = Len(get_queue) + 1 /\ a[k] = e
      BY QueuePlaces DEF FutType
    <3>2. at'[e] \in {"waited", "done"}
      BY <2>1 DEF Came
    <3> HIDE DEF a
    <3>3. \A k \in DOMAIN a : at'[a[k]] \in {"waited", "done"}
      <4> TAKE k \in DOMAIN a
      <4>1. CASE k \in DOMAIN get_queue /\ a[k] = get_queue[k]
        BY <2>2, <4>1
      <4>2. CASE a[k] = e
        BY <3>2, <4>2
      <4> QED BY <3>1, <4>1, <4>2
    <3>4. \A k, m \in DOMAIN a : a[k] = a[m] => k = m
      BY <2>1, <2>2, <3>1 DEF FutOrder
    <3>5. get_queue' = a
      BY <2>5 DEF a
    <3> QED BY <2>1, <2>3, <3>3, <3>4, <3>5 DEF FutOrder
  <2> QED BY <2>1, <2>4, <2>5
<1>2. ASSUME NEW e \in Producers, sharedSet(e) PROVE FutOrder'
  <2>1. /\ flag = "SHARED" /\ state' = "VALID" /\ procID \in [Producers -> Int]
        /\ get_queue' = IF get_queue = <<>> THEN <<>> ELSE Tail(get_queue)
        /\ procID' = [procID EXCEPT ![e] = IF get_queue = <<>> THEN -1 ELSE Head(get_queue)]
    BY <1>2 DEF sharedSet, deq, FutType
  <2>2. CASE get_queue = <<>>
    <3>1. get_queue' = <<>> /\ -1 \notin Consumers
      BY <2>1, <2>2, FuturesAssumption DEF Procs
    <3>2. \A p \in Producers : procID'[p] \in Consumers => at'[procID'[p]] \in {"waited", "done"}
      BY <2>1, <2>2, <3>1, StaysHanded DEF FutOrder
    <3> QED BY <2>1, <3>1, <3>2 DEF FutOrder, Queued
  <2>3. CASE get_queue # <<>>
    <3> DEFINE t == Tail(get_queue)
               h == Head(get_queue)
    <3>1. /\ 1 \in DOMAIN get_queue /\ h = get_queue[1]
          /\ \A k \in DOMAIN t : /\ k + 1 \in DOMAIN get_queue /\ k + 1 # 1 /\ k \in Int
                                 /\ t[k] = get_queue[k + 1]
      <4>1. get_queue \in Seq(Consumers) /\ (Consumers # {} => \E c \in Consumers : TRUE)
        BY DEF FutType
      <4>2. Consumers # {}
        BY <2>3, <4>1
      <4> QED BY <2>3, <4>1, <4>2, QueuePlaces
    <3> HIDE DEF t, h
    <3>2. get_queue' = t /\ procID' = [procID EXCEPT ![e] = h]
      BY <2>1, <2>3 DEF t, h
    <3>3. h \in Consumers /\ Came(h)
      BY <1>0, <2>1, <3>1 DEF FutOrder
    <3>4. \A k \in DOMAIN t : t[k] \in Consumers /\ Came(t[k]) /\ t[k] # h
      BY <1>0, <2>1, <3>1 DEF FutOrder
    <3>5. \A k, m \in DOMAIN t : t[k] = t[m] => k = m
      BY <2>1, <3>1 DEF FutOrder
    <3>6. \A k \in DOMAIN t : at'[t[k]] \in {"waited", "done"}
      BY <2>1, <3>4, StaysHanded
    <3>7. ASSUME NEW p \in Producers, procID'[p] \in Consumers
          PROVE  at'[procID'[p]] \in {"waited", "done"}
      <4>1. procID'[p] \in Consumers /\ Came(procID'[p])
        <5>1. CASE p = e
          BY <2>1, <3>2, <3>3, <5>1
        <5>2. CASE p # e
          BY <2>1, <3>2, <3>7, <5>2 DEF FutOrder
        <5> QED BY <5>1, <5>2
      <4>2. \A c \in Consumers : Came(c) => at'[c] \in {"waited", "done"}
        BY <2>1, StaysHanded
      <4> QED BY <4>1, <4>2 DEF Came
    <3>8. ASSUME NEW c \in Consumers, Queued(c)'
          PROVE  \E d \in Consumers \ {c} : Handed(d)'
      <4>1. PICK d \in Consumers : d = h
        BY <3>3
      <4>2. d # c
        BY <3>2, <3>4, <3>8, <4>1 DEF Queued
      <4>3. procID'[e] = d
        BY <2>1, <3>2, <4>1
      <4> QED BY <4>2, <4>3 DEF Handed
    <3> QED BY <2>1, <3>2, <3>5, <3>6, <3>7, <3>8 DEF FutOrder
  <2> QED BY <2>2, <2>3
<1>3. ASSUME NEW e \in Producers, sharedResume(e) PROVE FutOrder'
  <2>1. 0 \notin Consumers
    BY FuturesAssumption DEF Procs
  <2> QED BY <1>3, <2>1, SameQueue DEF sharedResume, FutType
<1>4. CASE \E e \in Consumers : future_free(e)
  BY <1>4, SameQueue DEF future_free
<1>5. ASSUME NEW e \in Procs, step(e), ~sharedWait(e), ~sharedSet(e), ~sharedResume(e)
      PROVE  FutOrder'
  <2>1. /\ UNCHANGED <<procID, get_queue, flag>>
        /\ state' = state \/ (state = "EMPTY" /\ state' = "VALID")
    BY <1>5
    DEF step, future_get, future_set, exclusiveRefused, exclusiveGet, exclusiveWait, sharedGet,
        waited, setRefused, setEmpty, exclusiveSet, Getting, resume
  <2> QED BY <2>1, SameQueue
<1>6. ASSUME NEW e \in Procs, step(e) PROVE FutOrder'
  <2>1. CASE sharedWait(e)
    BY <1>1, <2>1 DEF sharedWait, Getting
  <2>2. CASE sharedSet(e)
    BY <1>2, <2>2 DEF sharedSet, Setting
  <2>3. CASE sharedResume(e)
    BY <1>3, <2>3 DEF sharedResume
  <2> QED BY <1>5, <1>6, <2>1, <2>2, <2>3
<1> QED BY <1>4, <1>6 DEF FutureStep

\* Every step of the shell, its commands and their processes.
LEMMA NextFuture == ASSUME FewConsumers, FutInv, [Next]_commandVars PROVE FutInv'
<1>1. CASE FutureStep
  BY <1>1, FutureTypes, FutureValues, FutureExclusives, FuturePlaces, FutureQueued, FutureOrder
  DEF FutInv, FutQueue
<1>2. CASE UNCHANGED futVars
  BY <1>2
  DEF futVars, FutInv, FutType, FutValues, FutExclusive, FutQueue, Called, FutOrder, Came,
      Queued, Handed
<1> QED BY <1>1, <1>2
        DEF Next, commandVars, Typing, Shelling, Restarting, Ending, xsh, Producing, Consuming,
            Future, Freeing, FutureStep

\* What a consumer returns is a value some producer set, an exclusive future is
\* assigned once, and no future_set() that is accepted overlooks who waits: a
\* suspended consumer is about to be resumed, the next future_set() is accepted
\* and can come to it, or, in shared mode, one that was accepted resumed another
\* consumer and left this one in the queue of a valid future, from where it may
\* never get on.  This holds for every number of producers, and of consumers that
\* the queue has places for: with more, enq() fails and nobody looks.
THEOREM FuturesSound ==
    ASSUME FewConsumers PROVE LiveSpec => []FutureSound
<1>1. Init => FutInv
  <2> SUFFICES ASSUME Init PROVE FutInv
    OBVIOUS
  <2>1. future_alloc
    BY DEF Init
  <2>2. Called = {} /\ Cardinality({}) = 0
    BY <2>1, FS_EmptySet DEF future_alloc, Procs, Called
  <2>3. FutQueue
    <3>1. used <= Cardinality(Called)
      BY <2>1, <2>2 DEF future_alloc
    <3>2. suspended = {}
      BY <2>1 DEF future_alloc
    <3> QED BY <3>1, <3>2 DEF FutQueue
  <2>4. FutType
    BY <2>1, FuturesAssumption DEF future_alloc, FutType
  <2>5. FutValues /\ FutExclusive
    BY <2>1, FuturesAssumption DEF future_alloc, FutValues, FutExclusive, Procs
  <2>6. FutOrder
    <3>1. get_queue = <<>> /\ state = "EMPTY" /\ \A p \in Producers : procID[p] \notin Consumers
      BY <2>1, FuturesAssumption DEF future_alloc, Procs
    <3> QED BY <3>1 DEF FutOrder
  <2> QED BY <2>3, <2>4, <2>5, <2>6 DEF FutInv
<1>2. FutInv /\ [Next]_commandVars => FutInv'
  BY NextFuture
<1>3. FutInv => FutureSound
  <2> SUFFICES ASSUME FutInv PROVE FutureSound
    OBVIOUS
  <2>1. OnlySetValues
    BY DEF FutInv, FutValues, OnlySetValues
  <2>2. OneSetter
    <3> SUFFICES ASSUME flag = "EXCLUSIVE"
                 PROVE  /\ Cardinality({p \in Producers : at[p] = "done"}) <= 1
                        /\ \A c \in Consumers : at[c] = "done" =>
                              \E p \in Producers : got[c] = p /\ at[p] = "done"
      BY DEF OneSetter
    <3> DEFINE D == {p \in Producers : at[p] = "done"}
    <3>1. D \subseteq {value}
      BY DEF FutInv, FutType, FutExclusive, Procs
    <3>2. Cardinality(D) <= 1
      <4>1. IsFiniteSet({value}) /\ Cardinality({value}) = 1
        BY FS_Singleton
      <4> HIDE DEF D
      <4>2. Cardinality(D) <= Cardinality({value})
        BY <3>1, <4>1, FS_Subset
      <4> QED BY <4>1, <4>2
    <3>3. \A c \in Consumers : at[c] = "done" =>
              \E p \in Producers : got[c] = p /\ at[p] = "done"
      BY DEF FutInv, FutExclusive, FutValues, Procs
    <3> QED BY <3>2, <3>3
  <2>3. WaitersFound
    <3> SUFFICES ASSUME NEW c \in suspended
                 PROVE  (\E p \in Producers : procID[p] = c) \/ Findable(c) \/ LeftBehind(c)
      BY DEF WaitersFound
    <3>1. c \in Consumers /\ flag \in {"EXCLUSIVE", "SHARED"}
      BY DEF FutInv, FutType
    <3>2. CASE flag = "EXCLUSIVE"
      BY <3>1, <3>2 DEF FutInv, FutExclusive, Findable
    <3>3. CASE flag = "SHARED" /\ Queued(c)
      <4>1. state # "EMPTY"
        BY <3>3 DEF FutInv, FutOrder, Queued
      <4>2. state = "WAITING" \/ state = "VALID"
        BY <4>1 DEF FutInv, FutType
      <4>3. state = "VALID" => \E d \in Consumers \ {c} : Handed(d)
        BY <3>1, <3>3 DEF FutInv, FutOrder
      <4> QED BY <3>3, <4>2, <4>3 DEF Findable, LeftBehind
    <3> QED BY <3>1, <3>2, <3>3 DEF FutInv, FutQueue, Queued
  <2> QED BY <2>1, <2>2, <2>3 DEF FutureSound
<1> QED BY <1>1, <1>2, <1>3, PTL DEF LiveSpec

-----------------------------------------------------------------------------
(* The first shell and the command it waits for.                           *)

ShellType ==
    /\ first \in BOOLEAN /\ sh \in Slots \cup {NONE} /\ shell \in {"prompt", "wait"}
    /\ DOMAIN proc = Slots /\ DOMAIN prmsg = Slots /\ DOMAIN prparent = Slots

\* The message of a command that ended is there, or the shell has taken it
\* and waits no more.
ChildHeard ==
    first =>
       /\ sh # NONE => proc[sh] = "shell"
       /\ shell = "wait" =>
             /\ sh \in Slots /\ child \in Slots /\ child # sh /\ prparent[child] = sh
             /\ proc[child] \in {"dying", "free"} => prmsg[sh] = child

ShellInv == ShellType /\ ChildHeard

\* While the first shell waits with no message, the others run, and no others.
LEMMA FirstWaits ==
    ASSUME ShellInv, first, OthersRun, shell = "wait" PROVE prmsg[sh] = NONE
BY ShellAssumption
DEF ShellInv, ShellType, ChildHeard, OthersRun, Ready, prprio, firstPrio, CMDPRIO

\* A step of the shell itself.
LEMMA ShellStepInv == ASSUME ShellInv, ShellStep PROVE ShellInv'
<1> USE ShellAssumption DEF ShellInv, ShellType, ChildHeard
<1>1. CASE refused
  BY <1>1 DEF refused
<1>2. CASE exit
  BY <1>2 DEF exit, endShell, reads, message, sent
<1>3. CASE xsh_kill
  BY <1>3 DEF xsh_kill, reads, message, sent
<1>4. CASE receive
  BY <1>4 DEF receive, isChild
<1>5. CASE \E p \in Slots, c \in menu : spawn(p, c)
  <2> PICK p \in Slots, c \in menu : spawn(p, c)
    BY <1>5
  <2>1. /\ sh \in Slots /\ proc[p] = "free" /\ UNCHANGED <<sh, first>>
        /\ proc' = [proc EXCEPT ![p] = "run"] /\ prparent' = [prparent EXCEPT ![p] = sh]
        /\ prmsg' = [prmsg EXCEPT ![p] = NONE, ![sh] = NONE]
        /\ \/ shell' = "prompt"
           \/ shell' = "wait" /\ child' = p
    BY DEF spawn, reads
  <2> QED BY <2>1
<1> QED BY <1>1, <1>2, <1>3, <1>4, <1>5 DEF ShellStep

\* A step of a command or of the main process.
LEMMA OtherStepInv ==
    ASSUME ShellInv, (\E p \in Slots : work(p) \/ return(p) \/ dies(p)) \/ MainStep
    PROVE  ShellInv'
<1>1. CASE \E p \in Slots : work(p)
  BY <1>1 DEF work, ShellInv, ShellType, ChildHeard
<1>2. CASE \E p \in Slots : return(p)
  <2> PICK p \in Slots : return(p)
    BY <1>2
  <2>1. first /\ shell = "wait" => prmsg[sh] = NONE
    BY FirstWaits DEF return
  <2>2. /\ proc[p] = "done" /\ proc' = [proc EXCEPT ![p] = "dying"]
        /\ UNCHANGED <<sh, shell, first, child, prparent>>
    BY DEF return
  <2>3. /\ DOMAIN prmsg' = Slots
        /\ sh \in Slots /\ prparent[p] = sh /\ proc[sh] # "free" /\ prmsg[sh] = NONE
              => prmsg'[sh] = p
        /\ sh \in Slots /\ prmsg[sh] # NONE => prmsg'[sh] = prmsg[sh]
    BY ShellAssumption DEF return, message, sent, ShellInv, ShellType
  <2>4. ShellType'
    BY <2>2, <2>3 DEF ShellInv, ShellType
  <2>5. ChildHeard'
    <3>1. first /\ sh # NONE => sh \in Slots /\ proc[sh] = "shell" /\ proc'[sh] = "shell"
      BY <2>2, ShellAssumption DEF ShellInv, ShellType, ChildHeard
    <3>2. ASSUME first, shell = "wait"
          PROVE  proc'[child] \in {"dying", "free"} => prmsg'[sh] = child
      <4>1. /\ sh \in Slots /\ child \in Slots /\ sh # NONE /\ prparent[child] = sh
            /\ prmsg[sh] = NONE
            /\ proc[child] \in {"dying", "free"} => prmsg[sh] = child
        BY <2>1, <3>2, ShellAssumption DEF ShellInv, ShellType, ChildHeard
      <4>2. CASE p = child
        BY <2>3, <3>1, <3>2, <4>1, <4>2
      <4>3. CASE p # child
        BY <2>2, <4>1, <4>3, ShellAssumption DEF ShellInv, ShellType
      <4> QED BY <4>2, <4>3
    <3> QED BY <2>2, <3>1, <3>2 DEF ShellInv, ShellType, ChildHeard
  <2> QED BY <2>4, <2>5 DEF ShellInv
<1>3. CASE \E p \in Slots : dies(p)
  BY <1>3 DEF dies, ShellInv, ShellType, ChildHeard
<1>4. CASE MainStep
  <2>1. CASE UNCHANGED <<sh, shell, first, child, proc, prparent, prmsg>>
    BY <2>1 DEF ShellInv, ShellType, ChildHeard
  <2>2. ASSUME NEW p \in Slots,
               proc' = [proc EXCEPT ![p] = "shell"], prparent' = [prparent EXCEPT ![p] = NONE],
               prmsg' = [prmsg EXCEPT ![p] = NONE], sh' = p, first' = FALSE, shell' = shell
        PROVE  ShellInv'
    BY <2>2 DEF ShellInv, ShellType, ChildHeard
  <2> QED BY <1>4, <2>1, <2>2 DEF MainStep, mainReceive, mainCreate
<1> QED BY <1>1, <1>2, <1>3, <1>4

\* For every size of the process table, every menu and every session: the
\* first shell never waits for a command that has ended.  Its priority is what
\* the proof uses, in FirstWaits; with the priority of a command the message
\* of the child may find the place taken by that of another.
THEOREM ChildNotMissed == LiveSpec => []ShellReturns
<1>1. Init => ShellInv
  <2> SUFFICES ASSUME Init PROVE ShellInv
    OBVIOUS
  <2>1. ShellInit
    BY DEF Init
  <2>2. sh \in Slots
    BY <2>1, ShellAssumption DEF ShellInit
  <2> QED BY <2>1, <2>2 DEF ShellInit, ShellInv, ShellType, ChildHeard
<1>2. ShellInv /\ [Next]_commandVars => ShellInv'
  <2> SUFFICES ASSUME ShellInv, [Next]_commandVars PROVE ShellInv'
    OBVIOUS
  <2>1. CASE Typing
    BY <2>1 DEF Typing, typeLine, ShellInv, ShellType, ChildHeard
  <2>2. CASE Shelling
    BY <2>2, ShellStepInv DEF Shelling
  <2>3. CASE Restarting \/ \E p \in Slots : xsh(p) \/ Ending(p)
    BY <2>3, OtherStepInv DEF Restarting, xsh, Ending
  <2>4. CASE UNCHANGED shellVars
    BY <2>4 DEF shellVars, ShellInv, ShellType, ChildHeard
  <2> QED BY <2>1, <2>2, <2>3, <2>4
          DEF Next, commandVars, Producing, Consuming, Future, Freeing
<1>3. ShellInv => ShellReturns
  BY DEF ShellInv, ChildHeard, ShellReturns
<1> QED BY <1>1, <1>2, <1>3, PTL DEF LiveSpec

-----------------------------------------------------------------------------
(* The grammar of a line, whatever its length.                             *)

Parsing == [toks : Seq(Types), files : SUBSET Types, err : BOOLEAN]
Words(k) == [j \in 1 .. k |-> "other"]
Operators == {"less", "greater"}

\* Words are tokens.
LEMMA WordsSeq ==
    ASSUME NEW k \in Nat
    PROVE  /\ Words(k) \in Seq(Types) /\ Len(Words(k)) = k
           /\ \A j \in 1 .. k : Words(k)[j] = "other"
BY DEF Words, Types

\* A sequence of "other" is Words.
LEMMA OnlyWords ==
    ASSUME NEW q \in Seq(Types), \A k \in DOMAIN q : q[k] = "other"
    PROVE  q = Words(Len(q))
BY DEF Words

\* An operator and a name at the end of q, and q without them.
LEMMA TwoMore ==
    ASSUME NEW q \in Seq(Types), NEW op \in Types
    PROVE  /\ q \o <<op, "other">> \in Seq(Types) /\ Len(q \o <<op, "other">>) = Len(q) + 2
           /\ (q \o <<op, "other">>)[Len(q) + 1] = op
           /\ (q \o <<op, "other">>)[Len(q) + 2] = "other"
           /\ SubSeq(q \o <<op, "other">>, 1, Len(q)) = q
<1>1. <<op, "other">> \in Seq(Types) /\ Len(<<op, "other">>) = 2
  BY DEF Types
<1>2. q \o <<op, "other">> \in Seq(Types) /\ Len(q \o <<op, "other">>) = Len(q) + 2
  BY <1>1
<1>3. /\ (q \o <<op, "other">>)[Len(q) + 1] = op
      /\ (q \o <<op, "other">>)[Len(q) + 2] = "other"
  BY <1>1
<1>4. \A k \in 1 .. Len(q) : (q \o <<op, "other">>)[k] = q[k]
  BY <1>1
<1>5. SubSeq(q \o <<op, "other">>, 1, Len(q)) = q
  BY <1>2, <1>4
<1> QED BY <1>2, <1>3, <1>5

\* A sequence is made of its parts.
LEMMA Joined ==
    ASSUME NEW S, NEW q \in Seq(S), NEW a \in Seq(S), NEW b \in Seq(S), Len(q) = Len(a) + Len(b),
           \A k \in 1 .. Len(a) : q[k] = a[k], \A k \in 1 .. Len(b) : q[Len(a) + k] = b[k]
    PROVE  q = a \o b
<1>1. a \o b \in Seq(S) /\ Len(a \o b) = Len(q)
  OBVIOUS
<1>2. ASSUME NEW k \in 1 .. Len(q) PROVE (a \o b)[k] = q[k]
  <2>1. CASE k \in 1 .. Len(a)
    BY <2>1
  <2>2. CASE k \notin 1 .. Len(a)
    <3>1. k - Len(a) \in 1 .. Len(b) /\ Len(a) + (k - Len(a)) = k
      BY <2>2
    <3>2. (a \o b)[k] = b[k - Len(a)]
      BY <2>2
    <3>3. q[Len(a) + (k - Len(a))] = b[k - Len(a)]
      BY <3>1
    <3> QED BY <3>1, <3>2, <3>3
  <2> QED BY <2>1, <2>2
<1> QED BY <1>1, <1>2

\* The tokens of a line that ends in an operator and a name.
LEMMA TwoLess ==
    ASSUME NEW q \in Seq(Types), Len(q) >= 3, q[Len(q)] = "other"
    PROVE  /\ SubSeq(q, 1, Len(q) - 2) \in Seq(Types) /\ SubSeq(q, 1, Len(q) - 2) # <<>>
           /\ q = SubSeq(q, 1, Len(q) - 2) \o <<q[Len(q) - 1], "other">>
<1> DEFINE m == Len(q) - 2
           a == SubSeq(q, 1, m)
           b == <<q[Len(q) - 1], "other">>
<1>1. m \in Nat /\ m >= 1 /\ Len(q) = m + 2 /\ Len(q) - 1 = m + 1 /\ q[m + 1] \in Types
  OBVIOUS
<1>2. a \in Seq(Types) /\ Len(a) = m /\ \A k \in 1 .. m : q[k] = a[k]
  BY <1>1
<1>3. b \in Seq(Types) /\ Len(b) = 2 /\ b[1] = q[m + 1] /\ b[2] = q[m + 2]
  BY <1>1 DEF Types
<1>4. q = a \o b
  <2> HIDE DEF m, a, b
  <2>1. \A k \in 1 .. Len(b) : q[Len(a) + k] = b[k]
    <3> SUFFICES ASSUME NEW k \in 1 .. 2 PROVE q[m + k] = b[k]
      BY <1>2, <1>3
    <3>1. k = 1 \/ k = 2
      OBVIOUS
    <3> QED BY <1>3, <3>1
  <2>2. Len(q) = Len(a) + Len(b) /\ \A k \in 1 .. Len(a) : q[k] = a[k]
    BY <1>1, <1>2, <1>3
  <2> QED BY <1>2, <1>3, <2>1, <2>2, Joined
<1>5. a # <<>>
  <2> HIDE DEF a, m
  <2> QED BY <1>1, <1>2
<1> QED BY <1>2, <1>4, <1>5

\* One round of the search, read from its end.
LEMMA RedirectedRound ==
    ASSUME NEW r \in Parsing
    PROVE  /\ redirected(r) \in Parsing
           /\ r.err => redirected(r).err
           /\ ~redirected(r).err =>
                 \/ redirected(r) = r
                 \/ \E op \in Operators \ r.files :
                       /\ r.toks = redirected(r).toks \o <<op, "other">>
                       /\ redirected(r).files = r.files \cup {op}
<1> DEFINE len == Len(r.toks)
           op == r.toks[len - 1]
<1>1. r.toks \in Seq(Types) /\ r.files \subseteq Types /\ r.err \in BOOLEAN /\ len \in Nat
  BY DEF Parsing
<1>2. CASE len < 3 \/ r.err \/ op \notin Operators
  BY <1>2 DEF redirected, Operators
<1>3. CASE ~(len < 3 \/ r.err \/ op \notin Operators) /\ (r.toks[len] # "other" \/ op \in r.files)
  <2>1. redirected(r) = [r EXCEPT !.err = TRUE]
    BY <1>3 DEF redirected, Operators
  <2> QED BY <1>1, <2>1 DEF Parsing
<1>4. CASE ~(len < 3 \/ r.err \/ op \notin Operators) /\ ~(r.toks[len] # "other" \/ op \in r.files)
  <2>1. redirected(r) =
           [r EXCEPT !.toks = SubSeq(r.toks, 1, len - 2), !.files = r.files \cup {op}]
    BY <1>4 DEF redirected, Operators
  <2>2. op \in Operators \ r.files /\ op \in Types
    BY <1>4 DEF Operators, Types
  <2>3. /\ SubSeq(r.toks, 1, len - 2) \in Seq(Types)
        /\ r.toks = SubSeq(r.toks, 1, len - 2) \o <<op, "other">>
    BY SMTT(30), <1>1, <1>4, TwoLess
  <2> HIDE DEF op, len
  <2>4. /\ redirected(r) \in Parsing
        /\ redirected(r).toks = SubSeq(r.toks, 1, len - 2)
        /\ redirected(r).files = r.files \cup {op}
    BY <1>1, <2>1, <2>2, <2>3 DEF Parsing
  <2> QED BY <1>4, <2>2, <2>3, <2>4
<1> QED BY <1>2, <1>3, <1>4

\* Words end the search.
LEMMA RedirectedStops ==
    ASSUME NEW r \in Parsing, NEW k \in Nat \ {0}, r.toks = Words(k)
    PROVE  redirected(r) = r
BY SMTT(30), WordsSeq DEF redirected

\* An operator, a name and something before them are taken.
LEMMA RedirectedTakes ==
    ASSUME NEW r \in Parsing, ~r.err, NEW q \in Seq(Types), q # <<>>,
           NEW op \in Operators \ r.files, r.toks = q \o <<op, "other">>
    PROVE  /\ redirected(r) \in Parsing /\ ~redirected(r).err
           /\ redirected(r).toks = q /\ redirected(r).files = r.files \cup {op}
<1>1. op \in Types /\ r.files \subseteq Types
  BY DEF Operators, Types, Parsing
<1>2. /\ Len(r.toks) = Len(q) + 2 /\ r.toks[Len(q) + 1] = op /\ r.toks[Len(q) + 2] = "other"
      /\ SubSeq(r.toks, 1, Len(q)) = q
  BY <1>1, TwoMore
<1>3. Len(q) \in Nat /\ Len(q) >= 1
  OBVIOUS
<1>4. redirected(r) = [r EXCEPT !.toks = q, !.files = r.files \cup {op}]
  <2>1. /\ ~(Len(r.toks) < 3 \/ r.err) /\ Len(r.toks) - 1 = Len(q) + 1 /\ Len(r.toks) - 2 = Len(q)
    BY <1>2, <1>3
  <2>2. r.toks[Len(r.toks) - 1] = op /\ r.toks[Len(r.toks)] = "other"
    BY <1>2, <2>1
  <2> QED BY <1>2, <2>1, <2>2 DEF redirected, Operators
<1> QED BY <1>1, <1>4 DEF Parsing

\* Two operators, each with a name.
LEMMA FourMore ==
    ASSUME NEW q \in Seq(Types), NEW op \in Types, NEW oq \in Types
    PROVE  (q \o <<oq, "other">>) \o <<op, "other">> = q \o <<oq, "other", op, "other">>
<1> DEFINE a == q \o <<oq, "other">>
           c == a \o <<op, "other">>
           b == <<oq, "other", op, "other">>
<1>1. /\ a \in Seq(Types) /\ Len(a) = Len(q) + 2
      /\ a[Len(q) + 1] = oq /\ a[Len(q) + 2] = "other" /\ \A k \in 1 .. Len(q) : a[k] = q[k]
  <2>1. \A k \in 1 .. Len(q) : a[k] = q[k]
    OBVIOUS
  <2> QED BY <2>1, TwoMore
<1>2. b \in Seq(Types) /\ Len(b) = 4
  BY DEF Types
<1>3. b[1] = oq /\ b[2] = "other" /\ b[3] = op /\ b[4] = "other"
  OBVIOUS
<1>4. /\ c \in Seq(Types) /\ Len(c) = Len(a) + 2
      /\ c[Len(a) + 1] = op /\ c[Len(a) + 2] = "other" /\ \A k \in 1 .. Len(a) : c[k] = a[k]
  <2> HIDE DEF a
  <2>1. \A k \in 1 .. Len(a) : c[k] = a[k]
    BY <1>1
  <2> QED BY <1>1, <2>1, TwoMore
<1> HIDE DEF a, b, c
<1>5. Len(c) = Len(q) + Len(b) /\ \A k \in 1 .. Len(q) : c[k] = q[k]
  BY <1>1, <1>2, <1>4
<1>6. \A k \in 1 .. Len(b) : c[Len(q) + k] = b[k]
  <2> SUFFICES ASSUME NEW k \in {1, 2, 3, 4} PROVE c[Len(q) + k] = b[k]
    BY <1>2
  <2>1. Len(q) + 1 \in 1 .. Len(a) /\ Len(q) + 2 \in 1 .. Len(a)
    BY <1>1
  <2>2. c[Len(q) + 1] = b[1] /\ c[Len(q) + 2] = b[2]
    BY <1>1, <1>3, <1>4, <2>1
  <2>3. Len(a) + 1 = Len(q) + 3 /\ Len(a) + 2 = Len(q) + 4
    BY <1>1
  <2>4. c[Len(q) + 3] = b[3] /\ c[Len(q) + 4] = b[4]
    BY <1>3, <1>4, <2>3
  <2> QED BY <2>2, <2>4
<1>7. c = q \o b
  BY <1>2, <1>4, <1>5, <1>6, Joined
<1> QED BY <1>7 DEF a, b, c

\* Two rounds leave words only if the tokens are words and a redirection.
LEMMA AcceptedOnly ==
    ASSUME NEW r \in Parsing, r.files = {}, ~redirections(r).err,
           \A k \in DOMAIN redirections(r).toks : redirections(r).toks[k] = "other"
    PROVE  /\ redirections(r).toks \in Seq(Types)
           /\ redirections(r).toks = Words(Len(redirections(r).toks))
           /\ \E R \in Redirections : /\ r.toks = redirections(r).toks \o R
                                      /\ redirections(r).files = ToSet(R) \ {"other"}
<1> DEFINE s == redirected(r)
           t == redirections(r)
<1>1. t = redirected(s)
  BY DEF redirections
<1>2. s \in Parsing /\ t \in Parsing /\ ~t.err /\ ~s.err
  BY <1>1, RedirectedRound
<1>3. s = r \/ \E op \in Operators : /\ r.toks = s.toks \o <<op, "other">> /\ s.files = {op}
  BY <1>2, RedirectedRound
<1>4. t = s \/ \E op \in Operators \ s.files :
                  /\ s.toks = t.toks \o <<op, "other">> /\ t.files = s.files \cup {op}
  BY <1>1, <1>2, RedirectedRound
<1>5. t.toks \in Seq(Types)
  BY <1>2 DEF Parsing
<1>6. \A k \in DOMAIN t.toks : t.toks[k] = "other"
  OBVIOUS
<1>7. r.files = {} /\ r.toks \in Seq(Types)
  BY DEF Parsing
<1> HIDE DEF s, t
<1>8. \E R \in Redirections : r.toks = t.toks \o R /\ t.files = ToSet(R) \ {"other"}
  <2>1. CASE t = s /\ s = r
    <3>1. r.toks = t.toks \o <<>> /\ t.files = ToSet(<<>>) \ {"other"}
      BY <1>5, <1>7, <2>1 DEF ToSet
    <3> QED BY <3>1 DEF Redirections
  <2>2. ASSUME NEW op \in Operators, r.toks = t.toks \o <<op, "other">>, t.files = {op}
        PROVE  \E R \in Redirections : r.toks = t.toks \o R /\ t.files = ToSet(R) \ {"other"}
    <3>1. ToSet(<<op, "other">>) = {op, "other"}
      BY DEF ToSet
    <3>2. <<op, "other">> \in Redirections /\ op # "other"
      BY DEF Redirections, Operators
    <3> QED BY <2>2, <3>1, <3>2
  <2>3. ASSUME NEW op \in Operators, NEW oq \in Operators, op # oq,
               r.toks = (t.toks \o <<oq, "other">>) \o <<op, "other">>, t.files = {op, oq}
        PROVE  \E R \in Redirections : r.toks = t.toks \o R /\ t.files = ToSet(R) \ {"other"}
    <3> DEFINE R == <<oq, "other", op, "other">>
    <3>1. ToSet(R) = {oq, op, "other"}
      BY DEF ToSet
    <3>2. R \in Redirections /\ op # "other" /\ oq # "other"
      BY <2>3 DEF Redirections, Operators
    <3>3. r.toks = t.toks \o R
      BY <1>5, <2>3, FourMore DEF Operators, Types
    <3> QED BY <2>3, <3>1, <3>2, <3>3
  <2>4. CASE t = s /\ s # r
    BY <1>3, <2>2, <2>4
  <2>5. CASE t # s /\ s = r
    BY <1>4, <1>7, <2>2, <2>5
  <2>6. CASE t # s /\ s # r
    <3>1. PICK op \in Operators : r.toks = s.toks \o <<op, "other">> /\ s.files = {op}
      BY <1>3, <2>6
    <3>2. PICK oq \in Operators \ s.files :
             s.toks = t.toks \o <<oq, "other">> /\ t.files = s.files \cup {oq}
      BY <1>4, <2>6
    <3>3. /\ op # oq /\ t.files = {op, oq}
          /\ r.toks = (t.toks \o <<oq, "other">>) \o <<op, "other">>
      BY <3>1, <3>2
    <3> QED BY <2>3, <3>3
  <2> QED BY <2>1, <2>4, <2>5, <2>6
<1> QED BY <1>5, <1>6, <1>8, OnlyWords DEF t

\* Words and a redirection come through the two rounds.
LEMMA Accepted ==
    ASSUME NEW r \in Parsing, r.files = {}, ~r.err, NEW k \in Nat \ {0},
           NEW R \in Redirections, r.toks = Words(k) \o R
    PROVE  ~redirections(r).err /\ redirections(r).toks = Words(k)
<1>0. Words(k) \in Seq(Types) /\ Words(k) # <<>>
  <2>1. Words(k) \in Seq(Types) /\ Len(Words(k)) = k
    BY WordsSeq
  <2> QED BY <2>1
<1>1. CASE R = <<>>
  <2>1. r.toks = Words(k)
    BY <1>0, <1>1
  <2>2. redirected(r) = r
    BY <2>1, RedirectedStops
  <2> QED BY <2>1, <2>2 DEF redirections
<1>2. ASSUME NEW op \in Operators, R = <<op, "other">>
      PROVE  ~redirections(r).err /\ redirections(r).toks = Words(k)
  <2>1. /\ redirected(r) \in Parsing /\ ~redirected(r).err
        /\ redirected(r).toks = Words(k)
    BY <1>0, <1>2, RedirectedTakes
  <2>2. redirected(redirected(r)) = redirected(r)
    BY <2>1, RedirectedStops
  <2> QED BY <2>1, <2>2 DEF redirections
<1>3. ASSUME NEW op \in Operators, NEW oq \in Operators, op # oq, R = <<oq, "other", op, "other">>
      PROVE  ~redirections(r).err /\ redirections(r).toks = Words(k)
  <2> DEFINE q == Words(k) \o <<oq, "other">>
  <2>1. q \in Seq(Types) /\ q # <<>>
    <3>1. oq \in Types
      BY DEF Operators, Types
    <3>2. Len(q) = Len(Words(k)) + 2 /\ q \in Seq(Types)
      BY <1>0, <3>1, TwoMore
    <3> QED BY <1>0, <3>2
  <2>2. r.toks = q \o <<op, "other">>
    <3>1. op \in Types /\ oq \in Types
      BY DEF Operators, Types
    <3>2. q \o <<op, "other">> = Words(k) \o <<oq, "other", op, "other">>
      BY <1>0, <3>1, FourMore
    <3> QED BY <1>3, <3>2
  <2> HIDE DEF q
  <2>3. /\ redirected(r) \in Parsing /\ ~redirected(r).err
        /\ redirected(r).toks = q /\ redirected(r).files = r.files \cup {op}
    <3>1. op \in Operators \ r.files
      OBVIOUS
    <3> QED BY <2>1, <2>2, <3>1, RedirectedTakes
  <2>4. /\ ~redirected(redirected(r)).err
        /\ redirected(redirected(r)).toks = Words(k)
    <3>1. oq \in Operators \ redirected(r).files
      BY <1>3, <2>3
    <3>2. redirected(r).toks = Words(k) \o <<oq, "other">>
      BY <2>3 DEF q
    <3> QED BY <1>0, <2>3, <3>1, <3>2, RedirectedTakes
  <2> QED BY <2>4 DEF redirections
<1> QED BY <1>1, <1>2, <1>3 DEF Redirections, Operators

\* A line and its last token.
LEMMA LastToken ==
    ASSUME NEW q \in Seq(Types), q # <<>>
    PROVE  /\ Front(q) \in Seq(Types) /\ Last(q) \in Types
           /\ q = Front(q) \o <<Last(q)>>
<1> DEFINE m == Len(q) - 1
<1>1. m \in Nat /\ Len(q) = m + 1 /\ q[m + 1] \in Types
  OBVIOUS
<1>2. /\ Front(q) \in Seq(Types) /\ Len(Front(q)) = m
      /\ \A k \in 1 .. m : q[k] = Front(q)[k]
  BY <1>1 DEF Front
<1>3. Last(q) = q[m + 1]
  BY <1>1 DEF Last
<1>4. <<Last(q)>> \in Seq(Types) /\ Len(<<Last(q)>>) = 1 /\ <<Last(q)>>[1] = q[m + 1]
  BY <1>1, <1>3
<1>5. q = Front(q) \o <<Last(q)>>
  <2> HIDE DEF m
  <2>1. \A k \in 1 .. Len(<<Last(q)>>) : q[Len(Front(q)) + k] = <<Last(q)>>[k]
    BY <1>1, <1>2, <1>4
  <2>2. /\ Len(q) = Len(Front(q)) + Len(<<Last(q)>>)
        /\ \A k \in 1 .. Len(Front(q)) : q[k] = Front(q)[k]
    BY <1>1, <1>2, <1>4
  <2> DEFINE a == Front(q)
             b == <<Last(q)>>
  <2> HIDE DEF a, b
  <2>3. a \in Seq(Types) /\ b \in Seq(Types)
    BY <1>2, <1>4 DEF a, b
  <2>4. /\ Len(q) = Len(a) + Len(b) /\ \A k \in 1 .. Len(a) : q[k] = a[k]
        /\ \A k \in 1 .. Len(b) : q[Len(a) + k] = b[k]
    BY <2>1, <2>2 DEF a, b
  <2>5. q = a \o b
    BY <2>3, <2>4, Joined
  <2> QED BY <2>5 DEF a, b
<1> QED BY <1>1, <1>2, <1>3, <1>5

\* What is put after a line can be told from it.
LEMMA TokenAdded ==
    ASSUME NEW q \in Seq(Types), NEW e \in Types
    PROVE  q \o <<e>> # <<>> /\ Last(q \o <<e>>) = e /\ Front(q \o <<e>>) = q
<1>1. /\ q \o <<e>> \in Seq(Types) /\ Len(q \o <<e>>) = Len(q) + 1
      /\ (q \o <<e>>)[Len(q) + 1] = e /\ \A k \in 1 .. Len(q) : (q \o <<e>>)[k] = q[k]
  OBVIOUS
<1>2. SubSeq(q \o <<e>>, 1, Len(q)) = q
  BY <1>1
<1>3. Len(q \o <<e>>) - 1 = Len(q)
  BY <1>1
<1> QED BY <1>1, <1>2, <1>3 DEF Last, Front

\* Words and a redirection do not end in an ampersand.
LEMMA EndsInWord ==
    ASSUME NEW k \in Nat \ {0}, NEW R \in Redirections
    PROVE  /\ Words(k) \o R \in Seq(Types) /\ Words(k) \o R # <<>>
           /\ Last(Words(k) \o R) = "other"
<1>1. Words(k) \in Seq(Types) /\ Len(Words(k)) = k /\ Words(k)[k] = "other"
  BY WordsSeq
<1>2. R \in Seq(Types) /\ (R = <<>> \/ R[Len(R)] = "other")
  <2>1. CASE R = <<>>
    BY <2>1
  <2>2. ASSUME NEW op \in Operators, R = <<op, "other">>
        PROVE  R \in Seq(Types) /\ Len(R) = 2 /\ R[2] = "other"
    BY <2>2 DEF Operators, Types
  <2>3. ASSUME NEW op \in Operators, NEW oq \in Operators, R = <<oq, "other", op, "other">>
        PROVE  R \in Seq(Types) /\ Len(R) = 4 /\ R[4] = "other"
    BY <2>3 DEF Operators, Types
  <2> QED BY <2>1, <2>2, <2>3 DEF Redirections, Operators
<1>3. /\ Words(k) \o R \in Seq(Types) /\ Len(Words(k) \o R) = k + Len(R)
      /\ (Words(k) \o R)[k + Len(R)] = "other"
  <2>1. CASE R = <<>>
    BY <1>1, <2>1
  <2>2. CASE R # <<>>
    BY <1>1, <1>2, <2>2
  <2> QED BY <2>1, <2>2
<1>4. k + Len(R) \in Nat /\ k + Len(R) >= 1
  BY <1>2
<1> QED BY <1>3, <1>4 DEF Last

\* parse() and the grammar agree on every line.
LEMMA Grammar == ASSUME line \in Seq(Types) PROVE ParseIsGrammar
<1> SUFFICES ASSUME line # <<>> PROVE ParseIsGrammar
  BY DEF ParseIsGrammar
<1> DEFINE b == Last(line) = "amper"
           u == IF b THEN Front(line) ELSE line
           r == [toks |-> u, files |-> {}, err |-> FALSE]
           t == redirections(r)
           A(x) == IF x THEN <<"amper">> ELSE <<>>
<1>1. /\ parse(line).ok <=> /\ ~t.err /\ t.toks # <<>>
                            /\ \A k \in DOMAIN t.toks : t.toks[k] = "other"
      /\ parse(line).backgnd = b /\ parse(line).files = t.files
      /\ parse(line).ntok = Len(t.toks)
  BY DEF parse
<1>2. u \in Seq(Types) /\ line = u \o A(b)
  BY LastToken
<1>3. r \in Parsing /\ r.toks = u /\ r.files = {} /\ ~r.err
  BY <1>2 DEF Parsing
<1> DEFINE l == parse(line)
<1> HIDE DEF r, t, u, l
<1>4. ASSUME l.ok
      PROVE  \E R \in Redirections :
                /\ line = (Words(l.ntok) \o R) \o A(l.backgnd)
                /\ l.files = ToSet(R) \ {"other"}
  <2>1. /\ ~redirections(r).err
        /\ \A k \in DOMAIN redirections(r).toks : redirections(r).toks[k] = "other"
    BY <1>1, <1>4 DEF t, l
  <2>2. /\ t.toks = Words(Len(t.toks))
        /\ \E R \in Redirections : r.toks = t.toks \o R /\ t.files = ToSet(R) \ {"other"}
    BY <1>3, <2>1, AcceptedOnly DEF t
  <2>3. PICK R \in Redirections : u = t.toks \o R /\ t.files = ToSet(R) \ {"other"}
    BY <1>3, <2>2
  <2>4. l.backgnd = b /\ l.files = t.files /\ l.ntok = Len(t.toks)
    BY <1>1 DEF l
  <2>5. line = (Words(l.ntok) \o R) \o A(l.backgnd)
    BY <1>2, <2>2, <2>3, <2>4
  <2> QED BY <2>3, <2>4, <2>5
<1>5. ASSUME NEW k \in 1 .. Len(line), NEW R \in Redirections, NEW x \in BOOLEAN,
             line = (Words(k) \o R) \o A(x)
      PROVE  l.ok
  <2> DEFINE q == Words(k) \o R
  <2>1. q \in Seq(Types) /\ q # <<>> /\ Last(q) = "other"
    BY EndsInWord
  <2>2. u = q
    <3>1. CASE x
      <4>1. line = q \o <<"amper">>
        BY <1>5, <3>1
      <4>2. Last(line) = "amper" /\ Front(line) = q
        BY <2>1, <4>1, TokenAdded DEF Types
      <4> QED BY <4>2 DEF u
    <3>2. CASE ~x
      <4>1. line = q
        BY <1>5, <2>1, <3>2
      <4> QED BY <2>1, <4>1 DEF u
    <3> QED BY <3>1, <3>2
  <2>3. ~t.err /\ t.toks = Words(k)
    <3>1. r.toks = Words(k) \o R /\ k \in Nat \ {0}
      BY <1>3, <2>2
    <3>2. ~redirections(r).err /\ redirections(r).toks = Words(k)
      BY <1>3, <3>1, Accepted
    <3> QED BY <3>2 DEF t
  <2>4. Words(k) # <<>> /\ \A j \in DOMAIN Words(k) : Words(k)[j] = "other"
    <3>1. Len(Words(k)) = k /\ k >= 1
      BY WordsSeq
    <3> QED BY <3>1 DEF Words
  <2> QED BY <1>1, <2>3, <2>4 DEF l
<1> QED BY <1>4, <1>5 DEF ParseIsGrammar, Words, l

\* "command_name [args*] [redirection] [&]": the shell accepts the lines of
\* this form and no others, and finds the parts as they were meant, for lines
\* of every length.
THEOREM GrammarOfLines == LiveSpec => []ParseIsGrammar
<1>1. Init => line \in Seq(Types)
  <2>1. \A m \in Nat : SeqOf(Types, m) \subseteq Seq(Types)
    <3> SUFFICES ASSUME NEW m \in Nat, NEW q \in SeqOf(Types, m) PROVE q \in Seq(Types)
      OBVIOUS
    <3>1. PICK j \in 0 .. m : q \in [1 .. j -> Types]
      BY DEF SeqOf
    <3>2. j \in Nat
      OBVIOUS
    <3> QED BY <3>1, <3>2
  <2> QED BY <2>1, ShellAssumption DEF Init, ShellInit
<1>2. line \in Seq(Types) /\ [Next]_commandVars => (line \in Seq(Types))'
  <2>1. <<>> \in Seq(Types) /\ <<"other">> \in Seq(Types) /\ <<"other", "amper">> \in Seq(Types)
    BY DEF Types
  <2>2. [Next]_commandVars =>
           line' = line \/ line' = <<>> \/ line' \in {<<"other">>, <<"other", "amper">>}
    BY DEF Next, commandVars, shellVars, Typing, typeLine, Shelling, ShellStep, refused, exit,
           xsh_kill, receive, spawn, reads, Restarting, MainStep, mainReceive, mainCreate,
           xsh, work, Ending, return, dies, Producing, Consuming, Future, Freeing
  <2> QED BY <2>1, <2>2
<1>3. line \in Seq(Types) => ParseIsGrammar
  BY Grammar
<1> QED BY <1>1, <1>2, <1>3, PTL DEF LiveSpec
=============================================================================
