--------------------------- MODULE KernelTheorems ----------------------------
(***************************************************************************)
(* For every size of the tables, every workload and every number of        *)
(* processes: the type invariant of the kernel, the agreement between the  *)
(* state of a process and the queue it is on, that resched() always finds  *)
(* a process to run, and that deferred rescheduling is always undone.      *)
(***************************************************************************)
EXTENDS Kernel, SharedLemmas

(***************************************************************************)
(* The inductive invariant.  TypeOK alone is not inductive: that           *)
(* dequeue(readylist) is a process ID needs SomethingToRun, which needs    *)
(* the agreement of queues and states, which needs that no process is      *)
(* switched out while rescheduling is deferred (DeferBalanced).            *)
(***************************************************************************)
Inv == TypeOK /\ QueueStateAgree /\ SomethingToRun /\ DeferBalanced

USE ConstantsAssumption, WorkloadAssumption

-----------------------------------------------------------------------------
(* What the queue operations do to the set of processes on a queue.        *)

\* insert() stops somewhere between the head and the tail.
LEMMA InsertPosRange ==
    ASSUME NEW q \in Seq(Pids), NEW k, NEW key
    PROVE  insertPos(q, k, key) \in 1 .. Len(q) + 1
<1> DEFINE P(i) == i = Len(q) + 1 \/ k[q[i]] < key
           S == {i \in 1 .. Len(q) + 1 : P(i)}
<1>1. Len(q) \in Nat
  OBVIOUS
<1>2. S \in SUBSET Nat /\ Len(q) + 1 \in S
  BY <1>1
<1>3. PICK i \in S : \A n \in S : i <= n
  <2> HIDE DEF S
  <2> QED BY <1>2, LeastNat
<1>4. \A j \in 1 .. i - 1 : ~P(j)
  BY <1>1, <1>2, <1>3
<1>5. i \in 1 .. Len(q) + 1 /\ P(i) /\ \A j \in 1 .. i - 1 : ~(k[q[j]] < key)
  BY <1>3, <1>4
<1> QED
  BY <1>5 DEF insertPos

\* The elements of a sequence after an insertion, by position.
LEMMA InsertAtFacts ==
    ASSUME NEW q \in Seq(Pids), NEW p \in Pids, NEW i \in 1 .. Len(q) + 1
    PROVE  /\ InsertAt(q, i, p) \in Seq(Pids)
           /\ Len(InsertAt(q, i, p)) = Len(q) + 1
           /\ \A j \in 1 .. Len(q) + 1 :
                 InsertAt(q, i, p)[j] = IF j < i THEN q[j] ELSE IF j = i THEN p ELSE q[j - 1]
<1> DEFINE A == SubSeq(q, 1, i - 1)
           B == A \o <<p>>
           C == SubSeq(q, i, Len(q))
<1>0. Len(q) \in Nat /\ i \in Nat
  OBVIOUS
<1>1. A \in Seq(Pids) /\ Len(A) = i - 1 /\ \A j \in 1 .. i - 1 : A[j] = q[j]
  BY <1>0, SubSeqProperties
<1>2. C \in Seq(Pids) /\ Len(C) = Len(q) - i + 1
        /\ \A j \in 1 .. Len(q) - i + 1 : C[j] = q[i + j - 1]
  BY <1>0, SubSeqProperties
<1>3. <<p>> \in Seq(Pids) /\ Len(<<p>>) = 1 /\ <<p>>[1] = p
  OBVIOUS
<1> HIDE DEF A, C
<1>4. B \in Seq(Pids) /\ Len(B) = i /\ \A j \in 1 .. i : B[j] = IF j < i THEN q[j] ELSE p
  BY <1>0, <1>1, <1>3, ConcatProperties
<1> HIDE DEF B
<1>5. /\ B \o C \in Seq(Pids)
      /\ Len(B \o C) = Len(B) + Len(C)
      /\ \A j \in 1 .. Len(B) + Len(C) :
            (B \o C)[j] = IF j <= Len(B) THEN B[j] ELSE C[j - Len(B)]
  BY ZenonT(30), <1>2, <1>4, ConcatProperties
<1>6. /\ Len(B \o C) = Len(q) + 1
      /\ \A j \in 1 .. Len(q) + 1 : (B \o C)[j] = IF j <= i THEN B[j] ELSE C[j - i]
  BY <1>0, <1>2, <1>4, <1>5
<1>7. \A j \in 1 .. Len(q) + 1 :
        (B \o C)[j] = IF j < i THEN q[j] ELSE IF j = i THEN p ELSE q[j - 1]
  BY <1>0, <1>2, <1>4, <1>6
<1> QED
  BY <1>5, <1>6, <1>7 DEF InsertAt, A, B, C

\* An inserted process is on the queue, the others are as before.
LEMMA InsertAtQueue ==
    ASSUME NEW q \in Seq(Pids), NEW p \in Pids, NEW i \in 1 .. Len(q) + 1
    PROVE  /\ InsertAt(q, i, p) \in Seq(Pids)
           /\ InsertAt(q, i, p) # <<>>
           /\ Len(InsertAt(q, i, p)) = Len(q) + 1
           /\ \A x \in Pids : On(x, InsertAt(q, i, p)) <=> On(x, q) \/ x = p
           /\ Distinct(q) /\ ~On(p, q) => Distinct(InsertAt(q, i, p))
<1> DEFINE r == InsertAt(q, i, p)
<1>0. Len(q) \in Nat /\ i \in Nat
  OBVIOUS
<1>1. /\ r \in Seq(Pids)
      /\ Len(r) = Len(q) + 1
      /\ \A j \in 1 .. Len(q) + 1 :
            r[j] = IF j < i THEN q[j] ELSE IF j = i THEN p ELSE q[j - 1]
  <2>1. /\ InsertAt(q, i, p) \in Seq(Pids)
        /\ Len(InsertAt(q, i, p)) = Len(q) + 1
        /\ \A j \in 1 .. Len(q) + 1 :
              InsertAt(q, i, p)[j] = IF j < i THEN q[j] ELSE IF j = i THEN p ELSE q[j - 1]
    BY InsertAtFacts
  <2> QED BY <2>1
<1> HIDE DEF r
<1>2. r # <<>>
  BY <1>0, <1>1
<1>3. ASSUME NEW x \in Pids PROVE On(x, r) <=> On(x, q) \/ x = p
  <2>1. ASSUME On(x, r) PROVE On(x, q) \/ x = p
    <3>1. PICK j \in 1 .. Len(q) + 1 : r[j] = x
      BY <1>1, <2>1 DEF On
    <3>2. CASE j < i
      <4>1. j \in 1 .. Len(q) /\ q[j] = x
        BY <1>0, <1>1, <3>1, <3>2
      <4> QED BY <4>1 DEF On
    <3>3. CASE j = i
      BY <1>1, <3>1, <3>3
    <3>4. CASE j > i
      <4>1. j - 1 \in 1 .. Len(q) /\ q[j - 1] = x
        BY <1>0, <1>1, <3>1, <3>4
      <4> QED BY <4>1 DEF On
    <3> QED BY <1>0, <3>2, <3>3, <3>4
  <2>2. ASSUME x = p PROVE On(x, r)
    <3>1. i \in 1 .. Len(r)
      BY <1>1
    <3>2. r[i] = p
      BY <1>0, <1>1
    <3> QED BY <2>2, <3>1, <3>2 DEF On
  <2>3. ASSUME On(x, q) PROVE On(x, r)
    <3>1. PICK j \in 1 .. Len(q) : q[j] = x
      BY <2>3 DEF On
    <3>2. CASE j < i
      BY <1>0, <1>1, <3>1, <3>2 DEF On
    <3>3. CASE j >= i
      <4>1. j + 1 \in 1 .. Len(r) /\ r[j + 1] = x
        BY <1>0, <1>1, <3>1, <3>3
      <4> QED BY <4>1 DEF On
    <3> QED BY <1>0, <3>2, <3>3
  <2> QED BY <2>1, <2>2, <2>3
<1>4. ASSUME Distinct(q), ~On(p, q) PROVE Distinct(r)
  <2>1. \A a, b \in 1 .. Len(q) : q[a] = q[b] => a = b
    BY <1>4 DEF Distinct
  <2>2. \A a \in 1 .. Len(q) : q[a] # p
    BY <1>4 DEF On
  <2>3. ASSUME NEW a \in 1 .. Len(r), NEW b \in 1 .. Len(r), r[a] = r[b] PROVE a = b
    <3> DEFINE f(c) == IF c < i THEN c ELSE c - 1
    <3>1. \A c \in 1 .. Len(r) :
             \/ c = i /\ r[c] = p
             \/ c # i /\ f(c) \in 1 .. Len(q) /\ r[c] = q[f(c)]
      BY <1>0, <1>1
    <3>2. a = i <=> b = i
      BY <2>2, <2>3, <3>1
    <3>3. a # i => f(a) = f(b)
      BY <2>1, <2>3, <3>1, <3>2
    <3> QED BY <1>0, <1>1, <3>2, <3>3
  <2> QED BY <2>3 DEF Distinct
<1> QED
  BY <1>1, <1>2, <1>3, <1>4 DEF r

\* getitem() takes its process off the queue and leaves the others on it.
LEMMA GetitemQueue ==
    ASSUME NEW q \in Seq(Pids), NEW p \in Pids, On(p, q), Distinct(q)
    PROVE  /\ getitem(q, p) \in Seq(Pids)
           /\ Len(getitem(q, p)) = Len(q) - 1
           /\ \A x \in Pids : On(x, getitem(q, p)) <=> On(x, q) /\ x # p
           /\ Distinct(getitem(q, p))
<1> DEFINE r == getitem(q, p)
           i == CHOOSE j \in 1 .. Len(q) : q[j] = p
<1>0. i \in 1 .. Len(q) /\ q[i] = p
  BY DEF On
<1>1. r = RemoveAt(q, i)
  BY DEF getitem
<1> HIDE DEF r, i
<1>2. Len(q) \in Nat /\ i \in Nat
  BY <1>0
<1>3. /\ r \in Seq(Pids)
      /\ Len(r) = Len(q) - 1
      /\ \A j \in 1 .. Len(q) - 1 : r[j] = IF j < i THEN q[j] ELSE q[j + 1]
  <2>1. /\ RemoveAt(q, i) \in Seq(Pids)
        /\ Len(RemoveAt(q, i)) = Len(q) - 1
        /\ \A j \in 1 .. Len(q) - 1 : RemoveAt(q, i)[j] = IF j < i THEN q[j] ELSE q[j + 1]
    BY <1>0, RemoveAtFacts
  <2> QED BY <1>1, <2>1
<1>4. \A a, b \in 1 .. Len(q) : q[a] = q[b] => a = b
  BY DEF Distinct
<1>5. Distinct(r)
  BY <1>2, <1>3, <1>4 DEF Distinct
<1>6. ASSUME NEW x \in Pids PROVE On(x, r) <=> On(x, q) /\ x # p
  <2>1. ASSUME On(x, r) PROVE On(x, q) /\ x # p
    BY <1>0, <1>2, <1>3, <1>4, <2>1 DEF On
  <2>2. ASSUME On(x, q), x # p PROVE On(x, r)
    <3>1. PICK j \in 1 .. Len(q) : q[j] = x
      BY <2>2 DEF On
    <3>2. CASE j < i
      BY <1>0, <1>2, <1>3, <3>1, <3>2 DEF On
    <3>3. CASE j > i
      <4>1. j - 1 \in 1 .. Len(r) /\ r[j - 1] = x
        BY <1>0, <1>2, <1>3, <3>1, <3>3
      <4> QED BY <4>1 DEF On
    <3> QED BY <1>0, <1>2, <2>2, <3>1, <3>2, <3>3
  <2> QED BY <2>1, <2>2
<1> QED
  BY <1>3, <1>5, <1>6 DEF r

\* dequeue() takes the first process off a queue that is not empty.
LEMMA TailQueue ==
    ASSUME NEW q \in Seq(Pids), q # <<>>, Distinct(q)
    PROVE  /\ Head(q) \in Pids
           /\ On(Head(q), q)
           /\ Tail(q) \in Seq(Pids)
           /\ Len(Tail(q)) = Len(q) - 1
           /\ \A x \in Pids : On(x, Tail(q)) <=> On(x, q) /\ x # Head(q)
           /\ Distinct(Tail(q))
<1>1. Len(q) \in Nat /\ Len(q) > 0
  BY EmptySeq
<1>2. Head(q) = q[1]
  BY <1>1
<1>3. /\ Head(q) \in Pids
      /\ Tail(q) \in Seq(Pids)
      /\ Len(Tail(q)) = Len(q) - 1
      /\ \A j \in 1 .. Len(q) - 1 : Tail(q)[j] = q[j + 1]
  BY <1>1, HeadTailProperties
<1>4. \A a, b \in 1 .. Len(q) : q[a] = q[b] => a = b
  BY DEF Distinct
<1> DEFINE r == Tail(q)
<1> HIDE DEF r
<1>5. /\ r \in Seq(Pids) /\ Len(r) = Len(q) - 1
      /\ \A j \in 1 .. Len(q) - 1 : r[j] = q[j + 1]
  BY <1>3 DEF r
<1>6. Distinct(r)
  BY <1>1, <1>4, <1>5 DEF Distinct
<1>7. On(Head(q), q)
  BY <1>1, <1>2 DEF On
<1>8. ASSUME NEW x \in Pids PROVE On(x, r) <=> On(x, q) /\ x # Head(q)
  <2>1. ASSUME On(x, r) PROVE On(x, q) /\ x # Head(q)
    BY <1>1, <1>2, <1>4, <1>5, <2>1 DEF On
  <2>2. ASSUME On(x, q), x # Head(q) PROVE On(x, r)
    <3>1. PICK j \in 1 .. Len(q) : q[j] = x
      BY <2>2 DEF On
    <3>2. j - 1 \in 1 .. Len(r) /\ r[j - 1] = x
      BY <1>1, <1>2, <1>5, <2>2, <3>1
    <3> QED BY <3>2 DEF On
  <2> QED BY <2>1, <2>2
<1> QED
  BY <1>3, <1>6, <1>7, <1>8 DEF r

\* enqueue() adds its process at the tail.
LEMMA EnqueueQueue ==
    ASSUME NEW q \in Seq(Pids), NEW p \in Pids
    PROVE  /\ enqueue(q, p) \in Seq(Pids)
           /\ Len(enqueue(q, p)) = Len(q) + 1
           /\ \A x \in Pids : On(x, enqueue(q, p)) <=> On(x, q) \/ x = p
           /\ Distinct(q) /\ ~On(p, q) => Distinct(enqueue(q, p))
<1> DEFINE r == enqueue(q, p)
<1>0. Len(q) \in Nat
  OBVIOUS
<1>1. /\ r \in Seq(Pids)
      /\ Len(r) = Len(q) + 1
      /\ \A j \in 1 .. Len(q) : r[j] = q[j]
      /\ r[Len(q) + 1] = p
  BY AppendProperties DEF enqueue
<1> HIDE DEF r
<1>2. ASSUME NEW x \in Pids PROVE On(x, r) <=> On(x, q) \/ x = p
  <2>1. ASSUME On(x, r) PROVE On(x, q) \/ x = p
    BY <1>0, <1>1, <2>1 DEF On
  <2>2. ASSUME On(x, q) PROVE On(x, r)
    BY <1>0, <1>1, <2>2 DEF On
  <2>3. ASSUME x = p PROVE On(x, r)
    BY <1>0, <1>1, <2>3 DEF On
  <2> QED BY <2>1, <2>2, <2>3
<1>3. ASSUME Distinct(q), ~On(p, q) PROVE Distinct(r)
  <2>1. \A a, b \in 1 .. Len(q) : q[a] = q[b] => a = b
    BY <1>3 DEF Distinct
  <2>2. \A a \in 1 .. Len(q) : q[a] # p
    BY <1>3 DEF On
  <2> QED BY <1>0, <1>1, <2>1, <2>2 DEF Distinct
<1> QED
  BY <1>1, <1>2, <1>3 DEF r

\* insert() adds its process somewhere, so the queue is not empty.
LEMMA InsertQueue ==
    ASSUME NEW q \in Seq(Pids), NEW p \in Pids, NEW k, NEW key
    PROVE  /\ insert(p, q, k, key) \in Seq(Pids)
           /\ insert(p, q, k, key) # <<>>
           /\ \A x \in Pids : On(x, insert(p, q, k, key)) <=> On(x, q) \/ x = p
           /\ Distinct(q) /\ ~On(p, q) => Distinct(insert(p, q, k, key))
<1>1. insertPos(q, k, key) \in 1 .. Len(q) + 1
  BY InsertPosRange
<1> QED
  BY <1>1, InsertAtQueue DEF insert

-----------------------------------------------------------------------------
(* resched().                                                              *)

\* What resched() relies on: states st and ready list rl agree, no process
\* but the current one is marked current, and the null process can run.
SchedReady(st, rl) ==
    /\ st \in [Pids -> PrStates]
    /\ rl \in Seq(Pids)
    /\ Distinct(rl)
    /\ \A p \in Pids : On(p, rl) <=> st[p] = "READY"
    /\ \A p \in Pids : st[p] = "CURR" => p = currpid
    /\ st[NULLPROC] \in {"CURR", "READY"}

\* What resched() leaves behind, called with process states st.
SchedDone(nd, st) ==
    /\ SchedTypeOK'
    /\ ReadyAgree'
    /\ SomethingToRun'
    /\ \A p \in Pids : st[p] \notin {"CURR", "READY"} => prstate'[p] = st[p]
    /\ \A p \in Pids : st[p] \in {"CURR", "READY"} => prstate'[p] \in {"CURR", "READY"}
    /\ nd > 0 => currpid' = currpid
    /\ currpid' # currpid => st[currpid'] = "READY"

\* The null process has a table entry, and process IDs are numbers.
LEMMA NullPid == NULLPROC \in Pids /\ Pids \subseteq Nat
BY DEF NULLPROC, Pids

\* Giving the CPU to the head of the ready list keeps states and queue in
\* agreement.
LEMMA SwitchLemma ==
    ASSUME NEW st, NEW rl, NEW k,
           SchedReady(st, rl), rl # <<>>,
           \A p \in Pids : st[p] # "CURR",
           attempt \in BOOLEAN, DOMAIN k = Pids,
           switch(st, rl, k)
    PROVE  /\ SchedTypeOK' /\ ReadyAgree' /\ SomethingToRun'
           /\ \A p \in Pids : st[p] # "READY" => prstate'[p] = st[p]
           /\ \A p \in Pids : st[p] = "READY" => prstate'[p] \in {"CURR", "READY"}
           /\ st[currpid'] = "READY"
<1>1. /\ Head(rl) \in Pids
      /\ On(Head(rl), rl)
      /\ Tail(rl) \in Seq(Pids)
      /\ \A x \in Pids : On(x, Tail(rl)) <=> On(x, rl) /\ x # Head(rl)
      /\ Distinct(Tail(rl))
  BY TailQueue DEF SchedReady
<1>2. /\ currpid' = Head(rl) /\ readylist' = Tail(rl)
      /\ prstate' = [st EXCEPT ![Head(rl)] = "CURR"]
      /\ qkey' = k /\ preempt' = QUANTUM /\ attempt' = attempt
  BY DEF switch
<1>3. SchedTypeOK'
  BY <1>1, <1>2 DEF SchedTypeOK, SchedReady, PrStates
<1>4. ReadyAgree'
  BY <1>1, <1>2 DEF ReadyAgree, SchedReady
<1>5. SomethingToRun'
  BY <1>1, <1>2, NullPid DEF SomethingToRun, SchedReady
<1> QED
  BY <1>1, <1>2, <1>3, <1>4, <1>5 DEF SchedReady

\* resched() leaves states and ready list in agreement, changes the state of
\* runnable processes only, and switches to a ready process if at all.
LEMMA ReschedLemma ==
    ASSUME NEW nd \in Nat, NEW st, NEW rl, NEW k, NEW pre \in 1 .. QUANTUM,
           SchedReady(st, rl), nd > 0 => st[currpid] = "CURR",
           currpid \in Pids, attempt \in BOOLEAN, DOMAIN k = Pids,
           resched(nd, st, rl, k, pre)
    PROVE  SchedDone(nd, st)
<1> DEFINE st2 == [st EXCEPT ![currpid] = "READY"]
           rl2 == insert(currpid, rl, k, prprio[currpid])
           k2  == [k EXCEPT ![currpid] = prprio[currpid]]
<1>1. ASSUME st[currpid] = "CURR", stay(st, rl, k, pre), attempt' \in BOOLEAN
      PROVE  SchedDone(nd, st)
  <2>1. currpid' = currpid /\ prstate' = st /\ readylist' = rl /\ qkey' = k /\ preempt' = pre
    BY <1>1 DEF stay
  <2>2. SchedTypeOK'
    BY <1>1, <2>1 DEF SchedTypeOK, SchedReady
  <2>3. ReadyAgree' /\ SomethingToRun'
    BY <1>1, <2>1 DEF ReadyAgree, SomethingToRun, SchedReady
  <2> QED
    BY <2>1, <2>2, <2>3, <1>1 DEF SchedDone
<1>2. ASSUME nd = 0, st[currpid] = "CURR", switch(st2, rl2, k2)
      PROVE  SchedDone(nd, st)
  <2>1. ~On(currpid, rl) /\ rl \in Seq(Pids) /\ Distinct(rl)
    BY <1>2 DEF SchedReady
  <2>2. /\ rl2 \in Seq(Pids) /\ rl2 # <<>> /\ Distinct(rl2)
        /\ \A x \in Pids : On(x, rl2) <=> On(x, rl) \/ x = currpid
    BY <2>1, InsertQueue
  <2> HIDE DEF rl2
  <2>3. st2 \in [Pids -> PrStates] /\ DOMAIN k2 = Pids
    BY DEF SchedReady, PrStates
  <2>4. SchedReady(st2, rl2) /\ \A p \in Pids : st2[p] # "CURR"
    BY <1>2, <2>2, <2>3, NullPid DEF SchedReady
  <2>5. \A p \in Pids : st2[p] = IF p = currpid THEN "READY" ELSE st[p]
    BY DEF SchedReady
  <2> HIDE DEF st2, k2
  <2>6. /\ SchedTypeOK' /\ ReadyAgree' /\ SomethingToRun'
        /\ \A p \in Pids : st2[p] # "READY" => prstate'[p] = st2[p]
        /\ \A p \in Pids : st2[p] = "READY" => prstate'[p] \in {"CURR", "READY"}
        /\ st2[currpid'] = "READY"
    BY <1>2, <2>2, <2>3, <2>4, SwitchLemma
  <2>7. currpid' \in Pids
    BY <2>6 DEF SchedTypeOK
  <2> QED
    BY <1>2, <2>5, <2>6, <2>7 DEF SchedDone
<1>3. ASSUME nd = 0, st[currpid] # "CURR", switch(st, rl, k)
      PROVE  SchedDone(nd, st)
  <2>1. \A p \in Pids : st[p] # "CURR"
    BY <1>3 DEF SchedReady
  <2>2. On(NULLPROC, rl)
    BY <2>1, NullPid DEF SchedReady
  <2>3. rl # <<>>
    BY <2>2 DEF On
  <2>4. /\ SchedTypeOK' /\ ReadyAgree' /\ SomethingToRun'
        /\ \A p \in Pids : st[p] # "READY" => prstate'[p] = st[p]
        /\ \A p \in Pids : st[p] = "READY" => prstate'[p] \in {"CURR", "READY"}
        /\ st[currpid'] = "READY"
    BY <1>3, <2>1, <2>3, SwitchLemma
  <2> QED
    BY <1>3, <2>1, <2>4 DEF SchedDone
<1> QED
  BY <1>1, <1>2, <1>3 DEF resched

-----------------------------------------------------------------------------
(* The callers of resched().                                               *)

Blocked == {"RECV", "SLEEP", "SUSP", "WAIT", "RECTIM", "FREE"}
Runnable == {"CURR", "READY"}

\* What resched() relies on follows from the invariant.
LEMMA InvSched ==
    ASSUME Inv
    PROVE  /\ SchedReady(prstate, readylist)
           /\ currpid \in Pids /\ prstate[currpid] = "CURR"
           /\ attempt \in BOOLEAN /\ DOMAIN qkey = Pids
           /\ preempt \in 1 .. QUANTUM /\ ndefers \in Nat
BY DEF Inv, TypeOK, SchedTypeOK, QueueStateAgree, ReadyAgree, SomethingToRun, SchedReady

\* In user mode rescheduling is not deferred and nobody alive is in a loop
\* that defers it.
LEMMA InvQuiet ==
    ASSUME Inv, frame[currpid].op \notin DeferLoops
    PROVE  /\ ndefers = 0
           /\ \A p \in Pids : frame[p].op \in DeferLoops => prstate[p] = "FREE"
BY DEF Inv, DeferBalanced

\* Outside a deferring loop rescheduling is not deferred.
LEMMA QuietDefer ==
    ASSUME currpid' \in Pids, ReadyAgree', ndefers' = 0,
           \A p \in Pids : frame'[p].op \in DeferLoops => prstate'[p] = "FREE"
    PROVE  DeferBalanced'
<1>1. prstate'[currpid'] = "CURR"
  BY DEF ReadyAgree
<1> QED
  BY <1>1 DEF DeferBalanced

\* The current process gives up the CPU: it is marked x and resched() called.
LEMMA BlockLemma ==
    ASSUME Inv, NEW x \in Blocked, currpid # NULLPROC, NEW k, DOMAIN k = Pids,
           resched(0, [prstate EXCEPT ![currpid] = x], readylist, k, preempt)
    PROVE  SchedDone(0, [prstate EXCEPT ![currpid] = x])
<1> DEFINE st == [prstate EXCEPT ![currpid] = x]
<1>1. SchedReady(st, readylist)
  BY InvSched, NullPid DEF SchedReady, Blocked, PrStates
<1> HIDE DEF st
<1>2. resched(0, st, readylist, k, preempt)
  BY DEF st
<1>3. SchedDone(0, st)
  BY <1>1, <1>2, InvSched, ReschedLemma
<1> QED
  BY <1>3 DEF st

\* resched() with nothing changed before it.
LEMMA YieldLemma ==
    ASSUME Inv, NEW nd \in Nat, NEW pre \in 1 .. QUANTUM,
           resched(nd, prstate, readylist, qkey, pre)
    PROVE  SchedDone(nd, prstate)
BY InvSched, ReschedLemma

\* ready() of a process that is blocked.
LEMMA ReadyLemma ==
    ASSUME Inv, NEW p \in Pids, prstate[p] \in Blocked, NEW k, DOMAIN k = Pids,
           ready(p, ndefers, prstate, k)
    PROVE  SchedDone(ndefers, [prstate EXCEPT ![p] = "READY"])
<1> DEFINE st == [prstate EXCEPT ![p] = "READY"]
           rl == insert(p, readylist, k, prprio[p])
           k2 == [k EXCEPT ![p] = prprio[p]]
<1>1. ~On(p, readylist) /\ readylist \in Seq(Pids) /\ Distinct(readylist)
  BY InvSched DEF SchedReady, Blocked
<1>2. /\ rl \in Seq(Pids) /\ rl # <<>> /\ Distinct(rl)
      /\ \A x \in Pids : On(x, rl) <=> On(x, readylist) \/ x = p
  BY <1>1, InsertQueue
<1> HIDE DEF rl
<1>3. SchedReady(st, rl) /\ st[currpid] = "CURR"
  BY <1>2, InvSched, NullPid DEF SchedReady, Blocked, PrStates
<1>4. DOMAIN k2 = Pids
  OBVIOUS
<1>5. resched(ndefers, st, rl, k2, preempt)
  BY DEF ready, rl
<1> HIDE DEF st, k2
<1>6. SchedDone(ndefers, st)
  BY <1>3, <1>4, <1>5, InvSched, ReschedLemma
<1> QED
  BY <1>6 DEF st

\* A resched() that finds the sleepers (the waiters) as they were leaves the
\* sleep queue (the semaphore queues) in agreement.
LEMMA SleepKept ==
    ASSUME Inv, NEW nd, NEW st, SchedDone(nd, st), sleepq' = sleepq,
           \A p \in Pids : st[p] \in {"SLEEP", "RECTIM"} <=> prstate[p] \in {"SLEEP", "RECTIM"},
           \A p \in Pids : st[p] \in PrStates
    PROVE  SleepAgree'
BY DEF Inv, QueueStateAgree, SleepAgree, SchedDone, PrStates

\* A semaphore queue agrees with states that changed for other processes only.
LEMMA SemKept ==
    ASSUME Inv, NEW nd, NEW st, SchedDone(nd, st), squeue' = squeue, prsem' = prsem,
           \A p \in Pids : st[p] = "WAIT" <=> prstate[p] = "WAIT",
           \A p \in Pids : st[p] \in PrStates
    PROVE  SemAgree'
<1>1. \A p \in Pids : prstate'[p] = "WAIT" <=> prstate[p] = "WAIT"
  BY DEF SchedDone, PrStates
<1> QED
  BY <1>1 DEF Inv, QueueStateAgree, SemAgree

\* A step that touches neither states nor queues.
LEMMA SchedSame ==
    ASSUME Inv, UNCHANGED schedVars
    PROVE  SchedTypeOK' /\ ReadyAgree' /\ SomethingToRun'
BY DEF Inv, TypeOK, SchedTypeOK, QueueStateAgree, ReadyAgree, SomethingToRun, schedVars

\* Frame lemmas: a part of the type invariant whose variables do not change.
LEMMA TabSame == ASSUME Inv, UNCHANGED tabVars PROVE TabTypeOK'
BY DEF Inv, TypeOK, TabTypeOK, tabVars

\* Frame lemma for the messages.
LEMMA MsgSame == ASSUME Inv, UNCHANGED msgVars PROVE MsgTypeOK'
BY DEF Inv, TypeOK, MsgTypeOK, msgVars

\* Frame lemma for the semaphores.
LEMMA SemSame == ASSUME Inv, UNCHANGED semVars PROVE SemTypeOK'
BY DEF Inv, TypeOK, SemTypeOK, semVars

\* Frame lemma for the clock.
LEMMA ClkSame == ASSUME Inv, UNCHANGED clkVars PROVE ClkTypeOK'
BY DEF Inv, TypeOK, ClkTypeOK, clkVars

\* Frame lemma for the calls in progress.
LEMMA FrameSame == ASSUME Inv, UNCHANGED frame PROVE FrameTypeOK'
BY DEF Inv, TypeOK, FrameTypeOK

FrameRecord == [op : Ops, tgt : Nat, cnt : Int]

\* A process that enters the next part of a call keeps the type of frame.
LEMMA FrameSet ==
    ASSUME Inv, NEW f \in FrameRecord, NEW q \in Pids,
           frame' = [frame EXCEPT ![q] = f],
           f.op = "kill" => f.tgt \in Pids \ {NULLPROC},
           f.op \in SemLoops => f.tgt \in Sids /\ f.cnt >= 0
    PROVE  /\ FrameTypeOK'
           /\ \A p \in Pids \ {q} : frame'[p] = frame[p]
           /\ frame'[q].op = f.op
<1>1. /\ frame \in [Pids -> FrameRecord]
      /\ \A p \in Pids :
            /\ frame[p].op = "kill" => frame[p].tgt \in Pids \ {NULLPROC}
            /\ frame[p].op \in SemLoops => frame[p].tgt \in Sids /\ frame[p].cnt >= 0
  BY DEF Inv, TypeOK, FrameTypeOK, FrameRecord
<1>2. frame' \in [Pids -> FrameRecord] /\ \A p \in Pids : frame'[p] = IF p = q THEN f ELSE frame[p]
  BY <1>1
<1>3. FrameTypeOK'
  BY <1>1, <1>2 DEF FrameTypeOK, FrameRecord
<1> QED
  BY <1>2, <1>3

\* A process that leaves a call keeps the type of frame.
LEMMA FrameUser ==
    ASSUME Inv, NEW q \in Pids, frame' = [frame EXCEPT ![q] = UserFrame]
    PROVE  /\ FrameTypeOK'
           /\ \A p \in Pids \ {q} : frame'[p] = frame[p]
           /\ frame'[q].op = "user"
<1>1. UserFrame \in FrameRecord /\ UserFrame.op = "user"
  BY DEF UserFrame, Frame, FrameRecord, Ops
<1> HIDE DEF UserFrame
<1>2. /\ UserFrame.op = "kill" => UserFrame.tgt \in Pids \ {NULLPROC}
      /\ UserFrame.op \in SemLoops => UserFrame.tgt \in Sids /\ UserFrame.cnt >= 0
  BY <1>1 DEF SemLoops
<1>3. FrameTypeOK' /\ (\A p \in Pids \ {q} : frame'[p] = frame[p]) /\ frame'[q].op = UserFrame.op
  BY <1>1, <1>2, FrameSet
<1> QED
  BY <1>1, <1>3

\* Everything of Inv' that the queues and the process states are part of.
QueuesDone == SchedTypeOK' /\ ReadyAgree' /\ SomethingToRun' /\ SleepAgree' /\ SemAgree'

OthersTypeOK == TabTypeOK /\ MsgTypeOK /\ SemTypeOK /\ ClkTypeOK /\ FrameTypeOK

FreeStaysFree == \A p \in Pids : prstate[p] = "FREE" => prstate'[p] = "FREE"

\* The parts of the type invariant, by name.
LEMMA InvTypes ==
    ASSUME Inv
    PROVE  /\ TabTypeOK /\ MsgTypeOK /\ SemTypeOK /\ ClkTypeOK /\ FrameTypeOK
           /\ SleepAgree /\ SemAgree /\ ReadyAgree
           /\ \A p \in Pids : prstate[p] \in PrStates
BY DEF Inv, TypeOK, QueueStateAgree, SchedTypeOK

\* A step that leaves the scheduler alone is one that resched() could have made.
LEMMA SchedIdle ==
    ASSUME Inv, NEW nd, UNCHANGED schedVars
    PROVE  SchedDone(nd, prstate)
<1>1. SchedTypeOK' /\ ReadyAgree' /\ SomethingToRun'
  BY SchedSame
<1>2. prstate' = prstate /\ currpid' = currpid
  BY DEF schedVars
<1> QED
  BY <1>1, <1>2 DEF SchedDone

\* A step outside the deferring loops that leaves Defer alone.
LEMMA QuietStep ==
    ASSUME Inv, frame[currpid].op \notin DeferLoops, QueuesDone, OthersTypeOK',
           ndefers' = ndefers,
           \A p \in Pids : frame'[p].op \in DeferLoops /\ frame[p].op \in DeferLoops
                             /\ prstate[p] = "FREE" => prstate'[p] = "FREE",
           \A p \in Pids : frame'[p].op \in DeferLoops => frame[p].op \in DeferLoops
    PROVE  Inv'
<1>1. ndefers = 0 /\ \A p \in Pids : frame[p].op \in DeferLoops => prstate[p] = "FREE"
  BY InvQuiet
<1>2. currpid' \in Pids
  BY DEF QueuesDone, SchedTypeOK
<1>3. \A p \in Pids : frame'[p].op \in DeferLoops => prstate'[p] = "FREE"
  BY <1>1
<1>4. ndefers' = 0
  BY <1>1
<1>5. DeferBalanced'
  BY <1>2, <1>3, <1>4, QuietDefer DEF QueuesDone
<1> QED
  BY <1>4, <1>5 DEF Inv, TypeOK, QueueStateAgree, QueuesDone, OthersTypeOK

\* resched_cntl(DEFER_START) from user mode.
LEMMA StartStep ==
    ASSUME Inv, frame[currpid].op \notin DeferLoops, QueuesDone, OthersTypeOK',
           deferStart, currpid' = currpid, FreeStaysFree,
           frame'[currpid].op \in DeferLoops,
           \A p \in Pids \ {currpid} : frame'[p] = frame[p]
    PROVE  Inv'
<1>1. ndefers = 0 /\ \A p \in Pids : frame[p].op \in DeferLoops => prstate[p] = "FREE"
  BY InvQuiet
<1>2. ndefers' = 1
  BY <1>1 DEF deferStart
<1>3. DeferBalanced'
  BY <1>1, <1>2 DEF DeferBalanced, FreeStaysFree
<1> QED
  BY <1>2, <1>3 DEF Inv, TypeOK, QueueStateAgree, QueuesDone, OthersTypeOK

\* An iteration with rescheduling deferred.
LEMMA LoopStep ==
    ASSUME Inv, frame[currpid].op \in DeferLoops, QueuesDone, OthersTypeOK',
           ndefers' = ndefers, currpid' = currpid, FreeStaysFree,
           frame'[currpid].op \in DeferLoops,
           \A p \in Pids \ {currpid} : frame'[p] = frame[p]
    PROVE  Inv'
<1>1. /\ ndefers = 1
      /\ \A p \in Pids \ {currpid} : frame[p].op \in DeferLoops => prstate[p] = "FREE"
  BY DEF Inv, DeferBalanced
<1>2. DeferBalanced'
  BY <1>1 DEF DeferBalanced, FreeStaysFree
<1>3. ndefers' \in Nat
  BY <1>1
<1> QED
  BY <1>2, <1>3 DEF Inv, TypeOK, QueueStateAgree, QueuesDone, OthersTypeOK

\* resched_cntl(DEFER_STOP) at the end of a loop.
LEMMA StopStep ==
    ASSUME Inv, frame[currpid].op \in DeferLoops, OthersTypeOK', deferStop,
           squeue' = squeue, prsem' = prsem, sleepq' = sleepq,
           frame'[currpid].op \notin DeferLoops,
           \A p \in Pids \ {currpid} : frame'[p] = frame[p]
    PROVE  Inv'
<1>1. /\ ndefers = 1
      /\ \A p \in Pids \ {currpid} : frame[p].op \in DeferLoops => prstate[p] = "FREE"
  BY DEF Inv, DeferBalanced
<1>2. ndefers' = 0
  BY <1>1 DEF deferStop
<1>3. SchedDone(0, prstate)
  BY <1>1, InvSched, YieldLemma, SchedIdle DEF deferStop
<1>4. SleepAgree' /\ SemAgree'
  BY <1>3, InvTypes, SleepKept, SemKept
<1>5. \A p \in Pids : frame'[p].op \in DeferLoops => prstate'[p] = "FREE"
  BY <1>1, <1>3 DEF SchedDone
<1>6. DeferBalanced'
  BY <1>2, <1>3, <1>5, QuietDefer DEF SchedDone, SchedTypeOK
<1> QED
  BY <1>2, <1>3, <1>4, <1>6
  DEF Inv, TypeOK, QueueStateAgree, OthersTypeOK, SchedDone

-----------------------------------------------------------------------------
(* Process management.                                                     *)

\* yield() puts the caller behind its equals and keeps the invariant.
LEMMA YieldInv == ASSUME Inv, yield PROVE Inv'
<1>1. /\ UNCHANGED <<tabVars, msgVars, semVars, clkVars, ndefers, frame>>
      /\ frame[currpid].op = "user"
      /\ resched(ndefers, prstate, readylist, qkey, preempt)
  BY DEF yield, Caller, UserMode
<1>2. frame[currpid].op \notin DeferLoops
  BY <1>1 DEF DeferLoops
<1>3. SchedDone(0, prstate)
  BY <1>1, <1>2, InvSched, InvQuiet, YieldLemma
<1>4. SleepAgree' /\ SemAgree'
  BY <1>1, <1>3, InvTypes, SleepKept, SemKept DEF clkVars, semVars
<1>5. OthersTypeOK'
  BY <1>1, TabSame, MsgSame, SemSame, ClkSame, FrameSame DEF OthersTypeOK
<1> QED
  BY <1>1, <1>2, <1>3, <1>4, <1>5, QuietStep DEF QueuesDone, SchedDone

\* resume() preserves the invariant: the process is on no queue before, on the
\* ready list after.
LEMMA ResumeInv == ASSUME Inv, NEW p \in Pids, resume(p) PROVE Inv'
<1> DEFINE st == [prstate EXCEPT ![p] = "READY"]
<1>1. /\ UNCHANGED <<tabVars, msgVars, semVars, clkVars, ndefers, frame>>
      /\ frame[currpid].op = "user"
      /\ prstate[p] = "SUSP"
      /\ ready(p, ndefers, prstate, qkey)
  BY DEF resume, resumable, Caller, UserMode
<1>2. frame[currpid].op \notin DeferLoops
  BY <1>1 DEF DeferLoops
<1>3. SchedDone(ndefers, st)
  BY <1>1, InvSched, ReadyLemma DEF Blocked
<1>4. \A x \in Pids : st[x] = IF x = p THEN "READY" ELSE prstate[x]
  BY InvSched DEF SchedReady
<1> HIDE DEF st
<1>5. \A x \in Pids : st[x] \in PrStates
  BY <1>4, InvTypes DEF PrStates
<1>6. SleepAgree' /\ SemAgree'
  BY <1>1, <1>3, <1>4, <1>5, SleepKept, SemKept DEF clkVars, semVars
<1>7. OthersTypeOK'
  BY <1>1, TabSame, MsgSame, SemSame, ClkSame, FrameSame DEF OthersTypeOK
<1>8. FreeStaysFree
  BY <1>1, <1>3, <1>4 DEF FreeStaysFree, SchedDone
<1> QED
  BY <1>1, <1>2, <1>3, <1>6, <1>7, <1>8, QuietStep DEF QueuesDone, SchedDone, FreeStaysFree

\* suspend() preserves the invariant: a ready process leaves the ready list,
\* the current one loses the CPU.
LEMMA SuspendInv == ASSUME Inv, NEW p \in Pids, suspend(p) PROVE Inv'
<1> DEFINE st == [prstate EXCEPT ![p] = "SUSP"]
<1>1. /\ UNCHANGED <<tabVars, msgVars, semVars, clkVars, ndefers, frame>>
      /\ frame[currpid].op = "user"
      /\ currpid # NULLPROC /\ p # NULLPROC
      /\ prstate[p] \in {"CURR", "READY"}
  BY DEF suspend, suspendable, Caller, UserMode
<1>2. frame[currpid].op \notin DeferLoops
  BY <1>1 DEF DeferLoops
<1>3. \A x \in Pids : st[x] = IF x = p THEN "SUSP" ELSE prstate[x]
  BY InvSched DEF SchedReady
<1>4. OthersTypeOK'
  BY <1>1, TabSame, MsgSame, SemSame, ClkSame, FrameSame DEF OthersTypeOK
<1>5. CASE /\ prstate[p] = "READY"
           /\ readylist' = getitem(readylist, p)
           /\ prstate' = st
           /\ UNCHANGED <<qkey, currpid, preempt, attempt>>
  <2>1. On(p, readylist) /\ Distinct(readylist) /\ readylist \in Seq(Pids)
    BY <1>5, InvSched DEF SchedReady
  <2>2. /\ readylist' \in Seq(Pids)
        /\ \A x \in Pids : On(x, readylist') <=> On(x, readylist) /\ x # p
        /\ Distinct(readylist')
    BY <1>5, <2>1, GetitemQueue
  <2>3. prstate' \in [Pids -> PrStates]
    BY <1>5, InvSched DEF SchedReady, PrStates
  <2>4. SchedTypeOK'
    BY <1>5, <2>2, <2>3, InvSched DEF SchedTypeOK
  <2>5. ReadyAgree'
    BY <1>3, <1>5, <2>2, InvTypes DEF ReadyAgree
  <2>6. SomethingToRun' /\ SleepAgree' /\ SemAgree' /\ FreeStaysFree
    BY <1>1, <1>3, <1>5, InvTypes, InvSched, NullPid
    DEF SomethingToRun, SleepAgree, SemAgree, FreeStaysFree, SchedReady, clkVars, semVars
  <2> QED
    BY <1>1, <1>2, <1>4, <2>4, <2>5, <2>6, QuietStep DEF QueuesDone, FreeStaysFree
<1>6. CASE /\ prstate[p] = "CURR"
           /\ resched(ndefers, st, readylist, qkey, preempt)
  <2>1. p = currpid /\ ndefers = 0
    BY <1>2, <1>6, InvTypes, InvQuiet DEF ReadyAgree
  <2>2. SchedDone(0, st)
    BY <1>1, <1>6, <2>1, InvSched, BlockLemma DEF Blocked
  <2> HIDE DEF st
  <2>3. \A x \in Pids : st[x] \in PrStates
    BY <1>3, InvTypes DEF PrStates
  <2>4. SleepAgree' /\ SemAgree'
    BY <1>1, <1>3, <1>6, <2>2, <2>3, SleepKept, SemKept DEF clkVars, semVars
  <2>5. FreeStaysFree
    BY <1>1, <1>3, <2>2 DEF FreeStaysFree, SchedDone
  <2> QED
    BY <1>1, <1>2, <1>4, <2>2, <2>4, <2>5, QuietStep DEF QueuesDone, SchedDone, FreeStaysFree
<1> QED
  BY <1>5, <1>6 DEF suspend

\* chprio() changes a priority, no queue and no state.
LEMMA ChprioInv == ASSUME Inv, NEW p \in Pids, NEW x \in NewPrios, chprio(p, x) PROVE Inv'
<1>1. /\ UNCHANGED <<prparent, prstkbase, stkfree, prcount, nextpid, halted,
                     schedVars, msgVars, semVars, clkVars, ndefers, frame>>
      /\ prprio' = [prprio EXCEPT ![p] = x]
      /\ frame[currpid].op \notin DeferLoops
  BY DEF chprio, Caller, UserMode, DeferLoops
<1>2. TabTypeOK'
  BY <1>1, InvTypes DEF TabTypeOK
<1>3. OthersTypeOK'
  BY <1>1, <1>2, MsgSame, SemSame, ClkSame, FrameSame DEF OthersTypeOK
<1>4. SchedDone(0, prstate)
  BY <1>1, SchedIdle
<1>5. SleepAgree' /\ SemAgree'
  BY <1>1, <1>4, InvTypes, SleepKept, SemKept DEF clkVars, semVars
<1> QED
  BY <1>1, <1>3, <1>4, <1>5, QuietStep DEF QueuesDone, SchedDone

\* The search of the process table finds a free entry if there is one.
LEMMA NewpidFacts ==
    ASSUME Inv, newpid # -1
    PROVE  newpid \in Pids /\ prstate[newpid] = "FREE"
<1> DEFINE at(i) == wrap(nextpid + i, NPROC)
           P(i)  == prstate[at(i)] = "FREE"
           S     == {i \in 0 .. NPROC - 1 : P(i)}
<1>1. PICK p \in Pids : prstate[p] = "FREE"
  BY DEF newpid
<1>2. nextpid \in 0 .. NPROC - 1 /\ p \in 0 .. NPROC - 1 /\ NPROC \in Nat
  BY InvTypes DEF TabTypeOK, Pids
<1>3. \A i \in 0 .. NPROC - 1 : at(i) \in Pids
  BY <1>2 DEF wrap, Pids
<1> DEFINE d == IF p >= nextpid THEN p - nextpid ELSE p - nextpid + NPROC
<1>4. d \in 0 .. NPROC - 1 /\ at(d) = p
  BY <1>2 DEF wrap
<1> HIDE DEF at, d
<1>5. S \in SUBSET Nat /\ S # {}
  BY <1>1, <1>4
<1>6. PICK m \in S : \A n \in S : m <= n
  <2> HIDE DEF S
  <2> QED BY <1>5, LeastNat
<1>7. m \in 0 .. NPROC - 1 /\ P(m) /\ \A j \in 0 .. m - 1 : ~P(j)
  BY <1>2, <1>6
<1> DEFINE Q(i) == P(i) /\ \A j \in 0 .. i - 1 : ~P(j)
<1>8. \E i \in 0 .. NPROC - 1 : Q(i)
  BY <1>7
<1> DEFINE c == CHOOSE i \in 0 .. NPROC - 1 : Q(i)
<1>9. c \in 0 .. NPROC - 1 /\ Q(c)
  <2> HIDE DEF Q
  <2> QED BY <1>8
<1>10. newpid = at(c)
  BY <1>1 DEF newpid, at
<1> HIDE DEF c
<1> QED
  BY <1>3, <1>9, <1>10

\* getstk() takes a free stack.
LEMMA GetstkFacts ==
    ASSUME Inv, stkfree # {}
    PROVE  getstk \in stkfree /\ getstk \in Stacks
<1> DEFINE T == {NSTK - x : x \in stkfree}
<1>1. stkfree \subseteq 1 .. NSTK /\ NSTK \in Nat
  BY InvTypes DEF TabTypeOK, Stacks
<1>2. T \in SUBSET Nat /\ T # {}
  <2>1. \A x \in stkfree : NSTK - x \in Nat
    BY <1>1
  <2>2. PICK x \in stkfree : TRUE
    OBVIOUS
  <2>3. NSTK - x \in T
    OBVIOUS
  <2> QED BY <2>1, <2>3
<1>3. PICK m \in T : \A n \in T : m <= n
  <2> HIDE DEF T
  <2> QED BY <1>2, LeastNat
<1>4. PICK x \in stkfree : m = NSTK - x
  BY <1>3
<1>5. ASSUME NEW y \in stkfree PROVE x >= y
  <2>1. NSTK - y \in T
    OBVIOUS
  <2>2. m <= NSTK - y
    BY <1>3, <2>1
  <2> QED BY <1>1, <1>4, <2>2
<1> QED
  BY <1>1, <1>5 DEF getstk, Max, Stacks

\* create() preserves the invariant: the new process is suspended and on no
\* queue.
LEMMA CreateInv == ASSUME Inv, NEW x \in Prios, create(x) PROVE Inv'
<1> DEFINE p == newpid
<1>1. /\ p # -1 /\ stkfree # {}
      /\ stkfree' = stkfree \ {getstk}
      /\ prstkbase' = [prstkbase EXCEPT ![p] = getstk]
      /\ nextpid' = wrap(p + 1, NPROC)
      /\ prcount' = prcount + 1
      /\ prstate' = [prstate EXCEPT ![p] = "SUSP"]
      /\ prprio' = [prprio EXCEPT ![p] = x]
      /\ prsem' = [prsem EXCEPT ![p] = NOSEM]
      /\ prparent' = [prparent EXCEPT ![p] = currpid]
      /\ prhasmsg' = [prhasmsg EXCEPT ![p] = FALSE]
      /\ frame' = [frame EXCEPT ![p] = UserFrame]
      /\ UNCHANGED <<readylist, qkey, currpid, preempt, attempt, halted, prmsg,
                     sstate, scount, squeue, nextsem, clkVars, ndefers>>
      /\ frame[currpid].op = "user"
  BY DEF create, Caller, UserMode
<1>2. p \in Pids /\ prstate[p] = "FREE"
  BY <1>1, NewpidFacts
<1> HIDE DEF p
<1>3. frame[currpid].op \notin DeferLoops
  BY <1>1 DEF DeferLoops
<1>4. TabTypeOK'
  <2>1. nextpid' \in Pids
    BY <1>1, <1>2 DEF wrap, Pids
  <2>2. x \in Int
    OBVIOUS
  <2>3. prstkbase' \in [Pids -> Stacks \cup {NOSTACK}] /\ stkfree' \subseteq Stacks
    BY <1>1, GetstkFacts, InvTypes DEF TabTypeOK
  <2> QED
    BY <1>1, <2>1, <2>2, <2>3, InvTypes, InvSched DEF TabTypeOK
<1>5. MsgTypeOK' /\ SemTypeOK' /\ ClkTypeOK'
  BY <1>1, InvTypes DEF MsgTypeOK, SemTypeOK, ClkTypeOK, clkVars
<1>6. FrameTypeOK' /\ (\A y \in Pids \ {p} : frame'[y] = frame[y]) /\ frame'[p].op = "user"
  BY <1>1, <1>2, FrameUser
<1>7. SchedTypeOK'
  BY <1>1, InvSched DEF SchedTypeOK, SchedReady, PrStates
<1>8. \A y \in Pids : prstate'[y] = IF y = p THEN "SUSP" ELSE prstate[y]
  BY <1>1, InvSched DEF SchedReady
<1>9. ReadyAgree' /\ SomethingToRun' /\ SleepAgree'
  BY <1>1, <1>2, <1>8, InvTypes, InvSched, NullPid
  DEF ReadyAgree, SomethingToRun, SleepAgree, SchedReady, clkVars
<1>10. SemAgree'
  BY <1>1, <1>2, <1>8, InvTypes DEF SemAgree, SemTypeOK
<1>11. \A y \in Pids : frame'[y].op \in DeferLoops => frame[y].op \in DeferLoops /\ y # p
  BY <1>6 DEF DeferLoops
<1> QED
  BY <1>1, <1>3, <1>4, <1>5, <1>6, <1>7, <1>8, <1>9, <1>10, <1>11, QuietStep
  DEF QueuesDone, OthersTypeOK

\* A create() that finds no free entry changes no process.
LEMMA CreateFailsInv == ASSUME Inv, NEW x \in Prios, createFails(x) PROVE Inv'
<1>1. /\ stkfree # {} /\ stkfree' = stkfree \ {getstk}
      /\ nextpid' = IF newpid = -1 THEN nextpid ELSE wrap(newpid + 1, NPROC)
      /\ UNCHANGED <<prprio, prparent, prstkbase, prcount, halted, schedVars,
                     msgVars, semVars, clkVars, ndefers, frame>>
      /\ frame[currpid].op \notin DeferLoops
  BY DEF createFails, Caller, UserMode, DeferLoops
<1>2. nextpid' \in Pids
  <2>1. CASE newpid = -1
    BY <1>1, <2>1, InvTypes DEF TabTypeOK
  <2>2. CASE newpid # -1
    <3>1. newpid \in Pids
      BY <2>2, NewpidFacts
    <3>2. nextpid' = wrap(newpid + 1, NPROC)
      BY <1>1, <2>2
    <3> HIDE DEF newpid
    <3> QED BY <3>1, <3>2 DEF wrap, Pids
  <2> QED BY <2>1, <2>2
<1>3. TabTypeOK'
  BY <1>1, <1>2, InvTypes DEF TabTypeOK
<1>4. OthersTypeOK'
  BY <1>1, <1>3, MsgSame, SemSame, ClkSame, FrameSame DEF OthersTypeOK
<1>5. SchedDone(0, prstate)
  BY <1>1, SchedIdle
<1>6. SleepAgree' /\ SemAgree'
  BY <1>1, <1>5, InvTypes, SleepKept, SemKept DEF clkVars, semVars
<1> QED
  BY <1>1, <1>4, <1>5, <1>6, QuietStep DEF QueuesDone, SchedDone

-----------------------------------------------------------------------------
(* A process joins or leaves the sleep queue or a semaphore queue.         *)

\* Only p, whose new state is not a sleeping one, has left the sleep queue.
LEMMA SleepLeft ==
    ASSUME Inv, NEW p \in Pids, NEW nd, NEW st, SchedDone(nd, st), Distinct(sleepq'),
           \A x \in Pids : On(x, sleepq') <=> On(x, sleepq) /\ x # p,
           \A x \in Pids \ {p} : st[x] = prstate[x],
           st[p] \in PrStates \ {"SLEEP", "RECTIM"}
    PROVE  SleepAgree'
<1>1. \A x \in Pids : st[x] \in PrStates
  BY InvTypes
<1>2. \A x \in Pids : prstate'[x] \in {"SLEEP", "RECTIM"} <=> st[x] \in {"SLEEP", "RECTIM"}
  BY <1>1 DEF SchedDone, PrStates
<1> QED
  BY <1>2, InvTypes DEF SleepAgree

\* Only p, which is now sleeping, has joined the sleep queue.
LEMMA SleepJoined ==
    ASSUME Inv, NEW p \in Pids, NEW nd, NEW st, SchedDone(nd, st), Distinct(sleepq'),
           \A x \in Pids : On(x, sleepq') <=> On(x, sleepq) \/ x = p,
           \A x \in Pids \ {p} : st[x] = prstate[x],
           st[p] \in {"SLEEP", "RECTIM"}
    PROVE  SleepAgree'
<1>1. \A x \in Pids : st[x] \in PrStates
  BY InvTypes DEF PrStates
<1>2. \A x \in Pids : prstate'[x] \in {"SLEEP", "RECTIM"} <=> st[x] \in {"SLEEP", "RECTIM"}
  BY <1>1 DEF SchedDone, PrStates
<1> QED
  BY <1>2, InvTypes DEF SleepAgree

\* Only p, which is no longer waiting, has left the queue of semaphore s.
LEMMA SemLeft ==
    ASSUME Inv, NEW p \in Pids, NEW s \in Sids, NEW nd, NEW st, SchedDone(nd, st),
           Distinct(squeue'[s]), \A t \in Sids \ {s} : squeue'[t] = squeue[t],
           prsem' = prsem, prsem[p] = s,
           \A x \in Pids : On(x, squeue'[s]) <=> On(x, squeue[s]) /\ x # p,
           \A x \in Pids \ {p} : st[x] = prstate[x],
           st[p] \in PrStates \ {"WAIT"}
    PROVE  SemAgree'
<1>1. \A x \in Pids : st[x] \in PrStates
  BY InvTypes
<1>2. \A x \in Pids : prstate'[x] = "WAIT" <=> st[x] = "WAIT"
  BY <1>1 DEF SchedDone, PrStates
<1> QED
  BY <1>2, InvTypes DEF SemAgree

\* unsleep() and insertd() change keys, not which processes have one.
LEMMA UnsleepDomain ==
    ASSUME NEW p, NEW q, NEW k
    PROVE  DOMAIN unsleepKeys(p, q, k) = DOMAIN k
BY DEF unsleepKeys

\* The keys are still those of all processes after insertd().
LEMMA InsertdDomain ==
    ASSUME NEW p, NEW q, NEW k, NEW key
    PROVE  DOMAIN insertdKeys(p, q, k, key) = DOMAIN k
BY DEF insertdKeys

\* insertd() stops somewhere between the head and the tail.
LEMMA InsertdPosRange ==
    ASSUME NEW q \in Seq(Pids), NEW k, NEW key
    PROVE  insertdPos(q, k, key) \in 1 .. Len(q) + 1
<1> DEFINE r == remaining(q, k, key)
           P(i) == i = Len(q) + 1 \/ k[q[i]] > r[i - 1]
           S == {i \in 1 .. Len(q) + 1 : P(i)}
<1> HIDE DEF r
<1>1. Len(q) \in Nat
  OBVIOUS
<1>2. S \in SUBSET Nat /\ Len(q) + 1 \in S
  BY <1>1
<1>3. PICK i \in S : \A n \in S : i <= n
  <2> HIDE DEF S
  <2> QED BY <1>2, LeastNat
<1>4. \A j \in 1 .. i - 1 : ~P(j)
  BY <1>1, <1>2, <1>3
<1>5. i \in 1 .. Len(q) + 1 /\ P(i) /\ \A j \in 1 .. i - 1 : ~(k[q[j]] > r[j - 1])
  BY <1>3, <1>4
<1> QED
  BY <1>5 DEF insertdPos, r

\* insertd() puts the process on the sleep queue once and moves nobody else.
LEMMA InsertdQueue ==
    ASSUME NEW q \in Seq(Pids), NEW p \in Pids, NEW k, NEW key
    PROVE  /\ insertd(p, q, k, key) \in Seq(Pids)
           /\ \A x \in Pids : On(x, insertd(p, q, k, key)) <=> On(x, q) \/ x = p
           /\ Distinct(q) /\ ~On(p, q) => Distinct(insertd(p, q, k, key))
<1>1. insertdPos(q, k, key) \in 1 .. Len(q) + 1
  BY InsertdPosRange
<1> QED
  BY <1>1, InsertAtQueue DEF insertd

-----------------------------------------------------------------------------
(* Messages.                                                               *)

\* send(), wherever it is called: the receiver is made ready or left alone.
LEMMA SendToLemma ==
    ASSUME Inv, NEW p \in Pids, NEW msg \in Pids, sendTo(p, msg),
           squeue' = squeue, prsem' = prsem
    PROVE  QueuesDone /\ MsgTypeOK' /\ sleepq' \in Seq(Pids) /\ FreeStaysFree
<1> DEFINE st == [prstate EXCEPT ![p] = "READY"]
<1>1. ASSUME UNCHANGED schedVars, sleepq' = sleepq
      PROVE  QueuesDone /\ sleepq' \in Seq(Pids) /\ FreeStaysFree
  <2>1. SchedDone(0, prstate)
    BY <1>1, SchedIdle
  <2>2. SleepAgree' /\ SemAgree'
    BY <1>1, <2>1, InvTypes, SleepKept, SemKept
  <2> QED
    BY <1>1, <2>1, <2>2, InvTypes
    DEF QueuesDone, SchedDone, FreeStaysFree, schedVars, ClkTypeOK
<1>2. \A x \in Pids : st[x] = IF x = p THEN "READY" ELSE prstate[x]
  BY InvSched DEF SchedReady
<1>3. \A x \in Pids : st[x] \in PrStates
  BY <1>2, InvTypes DEF PrStates
<1>4. CASE sendRefused(p)
  <2>1. UNCHANGED <<msgVars, sleepq, schedVars>>
    BY <1>4 DEF sendTo
  <2> QED BY <1>1, <2>1, MsgSame
<1>5. CASE ~sendRefused(p)
  <2>0. MsgTypeOK'
    BY <1>5, InvTypes DEF sendTo, MsgTypeOK
  <2>1. CASE prstate[p] = "RECV"
    <3>1. ready(p, ndefers, prstate, qkey) /\ sleepq' = sleepq
      BY <1>5, <2>1 DEF sendTo
    <3>2. SchedDone(ndefers, st)
      BY <2>1, <3>1, InvSched, ReadyLemma DEF Blocked
    <3> HIDE DEF st
    <3>3. SleepAgree' /\ SemAgree'
      BY <1>2, <1>3, <2>1, <3>1, <3>2, SleepKept, SemKept
    <3> QED
      BY <1>2, <2>0, <2>1, <3>1, <3>2, <3>3, InvTypes
      DEF QueuesDone, SchedDone, FreeStaysFree, ClkTypeOK
  <2>2. CASE prstate[p] = "RECTIM"
    <3>1. /\ sleepq' = getitem(sleepq, p)
          /\ ready(p, ndefers, prstate, unsleepKeys(p, sleepq, qkey))
      BY <1>5, <2>2 DEF sendTo
    <3>2. DOMAIN unsleepKeys(p, sleepq, qkey) = Pids
      BY UnsleepDomain, InvSched
    <3>3. SchedDone(ndefers, st)
      BY <2>2, <3>1, <3>2, ReadyLemma DEF Blocked
    <3> HIDE DEF st
    <3>4. On(p, sleepq) /\ Distinct(sleepq) /\ sleepq \in Seq(Pids)
      BY <2>2, InvTypes DEF SleepAgree, ClkTypeOK
    <3>5. /\ sleepq' \in Seq(Pids)
          /\ \A x \in Pids : On(x, sleepq') <=> On(x, sleepq) /\ x # p
          /\ Distinct(sleepq')
      BY <3>1, <3>4, GetitemQueue
    <3>6. SleepAgree'
      <4>1. st[p] \in PrStates \ {"SLEEP", "RECTIM"}
        BY <1>2 DEF PrStates
      <4> QED BY <1>2, <3>3, <3>5, <4>1, SleepLeft
    <3>7. SemAgree'
      BY <1>2, <1>3, <2>2, <3>3, SemKept
    <3> QED
      BY <1>2, <2>0, <2>2, <3>3, <3>5, <3>6, <3>7 DEF QueuesDone, SchedDone, FreeStaysFree
  <2>3. CASE prstate[p] \notin {"RECV", "RECTIM"}
    <3>1. UNCHANGED <<sleepq, schedVars>>
      BY <1>5, <2>3 DEF sendTo
    <3> QED BY <1>1, <2>0, <3>1
  <2> QED BY <2>1, <2>2, <2>3
<1> QED BY <1>4, <1>5

\* send() preserves the invariant: the receiver, if it waits, leaves the queue
\* it is on.
LEMMA SendInv == ASSUME Inv, NEW p \in Pids, NEW msg \in Msgs, send(p, msg) PROVE Inv'
<1>1. /\ UNCHANGED <<left, semVars, tabVars, ndefers, frame>>
      /\ frame[currpid].op \notin DeferLoops
      /\ sendTo(p, msg)
  BY DEF send, Caller, UserMode, DeferLoops
<1>2. msg \in Pids
  OBVIOUS
<1>3. QueuesDone /\ MsgTypeOK' /\ sleepq' \in Seq(Pids) /\ FreeStaysFree
  BY <1>1, <1>2, SendToLemma DEF semVars
<1>4. OthersTypeOK'
  BY <1>1, <1>3, TabSame, SemSame, FrameSame, InvTypes DEF OthersTypeOK, ClkTypeOK
<1> QED
  BY <1>1, <1>3, <1>4, QuietStep DEF FreeStaysFree

\* The current process blocks in state x.
LEMMA BlockStates ==
    ASSUME Inv, NEW x \in Blocked
    PROVE  /\ \A p \in Pids : [prstate EXCEPT ![currpid] = x][p]
                                = IF p = currpid THEN x ELSE prstate[p]
           /\ \A p \in Pids : [prstate EXCEPT ![currpid] = x][p] \in PrStates
           /\ prstate[currpid] = "CURR" /\ currpid \in Pids
BY InvSched, InvTypes DEF SchedReady, Blocked, PrStates

\* A call that only takes the message from the caller's buffer.
LEMMA TakeMsg ==
    ASSUME Inv, prhasmsg' = [prhasmsg EXCEPT ![currpid] = FALSE],
           frame[currpid].op \notin DeferLoops, FrameTypeOK',
           \A p \in Pids : frame'[p].op \in DeferLoops => frame[p].op \in DeferLoops,
           UNCHANGED <<prmsg, schedVars, clkVars, semVars, tabVars, ndefers>>
    PROVE  Inv'
<1>1. SchedDone(0, prstate)
  BY SchedIdle
<1>2. SleepAgree' /\ SemAgree'
  BY <1>1, InvTypes, SleepKept, SemKept DEF clkVars, semVars
<1>3. MsgTypeOK'
  BY InvTypes DEF MsgTypeOK
<1>4. OthersTypeOK'
  BY <1>3, TabSame, SemSame, ClkSame DEF OthersTypeOK
<1> QED
  BY <1>1, <1>2, <1>4, QuietStep DEF QueuesDone, SchedDone, schedVars

\* receive() blocks outside of every queue, or takes the message.
LEMMA ReceiveInv == ASSUME Inv, receive PROVE Inv'
<1> DEFINE st == [prstate EXCEPT ![currpid] = "RECV"]
           fr == Frame("receive", 0, 0)
<1>1. /\ UNCHANGED <<prmsg, clkVars, semVars, tabVars, ndefers>>
      /\ frame[currpid].op = "user" /\ currpid # NULLPROC
      /\ frame[currpid].op \notin DeferLoops
  BY DEF receive, Caller, UserMode, DeferLoops
<1>2. CASE prhasmsg[currpid]
  <2>1. /\ prhasmsg' = [prhasmsg EXCEPT ![currpid] = FALSE]
        /\ UNCHANGED <<frame, schedVars>>
    BY <1>2 DEF receive
  <2> QED BY <1>1, <2>1, TakeMsg, FrameSame
<1>3. CASE ~prhasmsg[currpid]
  <2>1. /\ frame' = [frame EXCEPT ![currpid] = fr]
        /\ resched(ndefers, st, readylist, qkey, preempt)
        /\ prhasmsg' = prhasmsg
    BY <1>3 DEF receive
  <2>2. ndefers = 0 /\ \A x \in Pids : frame[x].op \in DeferLoops => prstate[x] = "FREE"
    BY <1>1, InvQuiet
  <2>3. SchedDone(0, st)
    BY <1>1, <2>1, <2>2, InvSched, BlockLemma DEF Blocked
  <2>4. /\ \A x \in Pids : st[x] = IF x = currpid THEN "RECV" ELSE prstate[x]
        /\ \A x \in Pids : st[x] \in PrStates
        /\ prstate[currpid] = "CURR" /\ currpid \in Pids
    BY BlockStates DEF Blocked
  <2>5. fr \in FrameRecord /\ fr.op = "receive"
    BY DEF Frame, FrameRecord, Ops
  <2> HIDE DEF st, fr
  <2>6. /\ FrameTypeOK' /\ \A x \in Pids \ {currpid} : frame'[x] = frame[x]
        /\ frame'[currpid].op = "receive"
    BY <2>1, <2>4, <2>5, FrameSet DEF SemLoops
  <2>7. SleepAgree' /\ SemAgree'
    BY <1>1, <2>3, <2>4, SleepKept, SemKept DEF clkVars, semVars
  <2>8. OthersTypeOK'
    BY <1>1, <2>1, <2>6, TabSame, SemSame, ClkSame, MsgSame DEF OthersTypeOK, msgVars
  <2>9. FreeStaysFree
    BY <2>3, <2>4 DEF FreeStaysFree, SchedDone
  <2>10. \A x \in Pids : frame'[x].op \in DeferLoops => frame[x].op \in DeferLoops
    BY <2>6 DEF DeferLoops
  <2> QED
    BY <1>1, <2>3, <2>7, <2>8, <2>9, <2>10, QuietStep DEF QueuesDone, SchedDone, FreeStaysFree
<1> QED BY <1>2, <1>3

\* The rest of receive() takes the message.
LEMMA ReceiveEndInv == ASSUME Inv, receiveEnd PROVE Inv'
<1>1. /\ prhasmsg' = [prhasmsg EXCEPT ![currpid] = FALSE]
      /\ frame' = [frame EXCEPT ![currpid] = UserFrame]
      /\ UNCHANGED <<prmsg, schedVars, clkVars, semVars, tabVars, ndefers>>
      /\ frame[currpid].op \notin DeferLoops
  BY DEF receiveEnd, Inside, DeferLoops
<1>2. /\ FrameTypeOK' /\ \A x \in Pids \ {currpid} : frame'[x] = frame[x]
      /\ frame'[currpid].op = "user"
  BY <1>1, InvSched, FrameUser
<1>3. \A x \in Pids : frame'[x].op \in DeferLoops => frame[x].op \in DeferLoops
  BY <1>2 DEF DeferLoops
<1> QED BY <1>1, <1>2, <1>3, TakeMsg

\* The rest of recvtime() takes the message, if there is one.
LEMMA RecvtimeEndInv == ASSUME Inv, recvtimeEnd PROVE Inv'
<1>1. /\ prhasmsg' = [prhasmsg EXCEPT ![currpid] = FALSE]
      /\ frame' = [frame EXCEPT ![currpid] = UserFrame]
      /\ UNCHANGED <<prmsg, schedVars, clkVars, semVars, tabVars, ndefers>>
      /\ frame[currpid].op \notin DeferLoops
  BY DEF recvtimeEnd, Inside, DeferLoops
<1>2. /\ FrameTypeOK' /\ \A x \in Pids \ {currpid} : frame'[x] = frame[x]
      /\ frame'[currpid].op = "user"
  BY <1>1, InvSched, FrameUser
<1>3. \A x \in Pids : frame'[x].op \in DeferLoops => frame[x].op \in DeferLoops
  BY <1>2 DEF DeferLoops
<1> QED BY <1>1, <1>2, <1>3, TakeMsg

\* recvclr() takes the message and never blocks.
LEMMA RecvclrInv == ASSUME Inv, recvclr PROVE Inv'
<1>1. /\ prhasmsg' = [prhasmsg EXCEPT ![currpid] = FALSE]
      /\ UNCHANGED <<prmsg, schedVars, clkVars, semVars, tabVars, ndefers, frame>>
      /\ frame[currpid].op \notin DeferLoops
  BY DEF recvclr, Caller, UserMode, DeferLoops
<1> QED BY <1>1, TakeMsg, FrameSame

\* The current process goes to sleep in state x: it joins the sleep queue and
\* gives up the CPU.
LEMMA SleepStep ==
    ASSUME Inv, NEW x \in {"SLEEP", "RECTIM"}, NEW key, currpid # NULLPROC,
           frame[currpid].op \notin DeferLoops,
           sleepq' = insertd(currpid, sleepq, qkey, key),
           resched(0, [prstate EXCEPT ![currpid] = x], readylist,
                   insertdKeys(currpid, sleepq, qkey, key), preempt),
           squeue' = squeue, prsem' = prsem
    PROVE  QueuesDone /\ sleepq' \in Seq(Pids) /\ FreeStaysFree
<1> DEFINE st == [prstate EXCEPT ![currpid] = x]
<1>0. x \in Blocked
  BY DEF Blocked
<1>1. DOMAIN insertdKeys(currpid, sleepq, qkey, key) = Pids
  BY InsertdDomain, InvSched
<1>2. SchedDone(0, st)
  BY <1>0, <1>1, BlockLemma
<1>3. /\ \A y \in Pids : st[y] = IF y = currpid THEN x ELSE prstate[y]
      /\ \A y \in Pids : st[y] \in PrStates
      /\ prstate[currpid] = "CURR" /\ currpid \in Pids
  BY <1>0, BlockStates
<1> HIDE DEF st
<1>4. ~On(currpid, sleepq) /\ Distinct(sleepq) /\ sleepq \in Seq(Pids)
  BY <1>3, InvTypes DEF SleepAgree, ClkTypeOK
<1>5. /\ sleepq' \in Seq(Pids)
      /\ \A y \in Pids : On(y, sleepq') <=> On(y, sleepq) \/ y = currpid
      /\ Distinct(sleepq')
  BY <1>3, <1>4, InsertdQueue
<1>6. SleepAgree'
  BY <1>2, <1>3, <1>5, SleepJoined
<1>7. SemAgree'
  BY <1>2, <1>3, SemKept
<1> QED
  BY <1>2, <1>3, <1>5, <1>6, <1>7 DEF QueuesDone, SchedDone, FreeStaysFree

\* recvtime() joins the sleep queue in state PR_RECTIM, or takes the message.
LEMMA RecvtimeInv == ASSUME Inv, NEW t \in RecvWaits, recvtime(t) PROVE Inv'
<1> DEFINE fr == Frame("recvtime", 0, 0)
<1>1. /\ UNCHANGED <<prmsg, semVars, tabVars, ndefers>>
      /\ frame[currpid].op \notin DeferLoops /\ currpid # NULLPROC
  BY DEF recvtime, Caller, UserMode, DeferLoops
<1>2. CASE prhasmsg[currpid]
  <2>1. /\ prhasmsg' = [prhasmsg EXCEPT ![currpid] = FALSE]
        /\ UNCHANGED <<frame, clkVars, schedVars>>
    BY <1>2 DEF recvtime
  <2> QED BY <1>1, <2>1, TakeMsg, FrameSame
<1>3. CASE ~prhasmsg[currpid]
  <2>1. /\ frame' = [frame EXCEPT ![currpid] = fr]
        /\ sleepq' = insertd(currpid, sleepq, qkey, t)
        /\ left' = [left EXCEPT ![currpid] = t]
        /\ resched(ndefers, [prstate EXCEPT ![currpid] = "RECTIM"], readylist,
                   insertdKeys(currpid, sleepq, qkey, t), preempt)
        /\ prhasmsg' = prhasmsg
    BY <1>3 DEF recvtime
  <2>2. ndefers = 0
    BY <1>1, InvQuiet
  <2>3. QueuesDone /\ sleepq' \in Seq(Pids) /\ FreeStaysFree
    BY <1>1, <2>1, <2>2, SleepStep DEF semVars
  <2>4. fr \in FrameRecord /\ fr.op = "recvtime"
    BY DEF Frame, FrameRecord, Ops
  <2> HIDE DEF fr
  <2>5. /\ FrameTypeOK' /\ \A x \in Pids \ {currpid} : frame'[x] = frame[x]
        /\ frame'[currpid].op = "recvtime"
    BY <2>1, <2>4, InvSched, FrameSet DEF SemLoops
  <2>6. t \in Int
    OBVIOUS
  <2>7. ClkTypeOK'
    BY <2>1, <2>3, <2>6, InvTypes DEF ClkTypeOK
  <2>8. OthersTypeOK'
    BY <1>1, <2>1, <2>5, <2>7, TabSame, SemSame, MsgSame DEF OthersTypeOK, msgVars
  <2>9. \A x \in Pids : frame'[x].op \in DeferLoops => frame[x].op \in DeferLoops
    BY <2>5 DEF DeferLoops
  <2> QED
    BY <1>1, <2>3, <2>8, <2>9, QuietStep DEF FreeStaysFree
<1> QED BY <1>2, <1>3

-----------------------------------------------------------------------------
(* The clock.                                                              *)

\* sleepms() moves the caller from the CPU to the sleep queue.
LEMMA SleepmsInv == ASSUME Inv, NEW t \in Delays, sleepms(t) PROVE Inv'
<1>1. /\ UNCHANGED <<msgVars, semVars, tabVars, ndefers, frame>>
      /\ frame[currpid].op \notin DeferLoops /\ currpid # NULLPROC
  BY DEF sleepms, Caller, UserMode, DeferLoops
<1>2. ndefers = 0
  BY <1>1, InvQuiet
<1>3. CASE t = 0
  <2>1. resched(0, prstate, readylist, qkey, preempt) /\ UNCHANGED clkVars
    BY <1>2, <1>3 DEF sleepms
  <2>2. SchedDone(0, prstate)
    BY <2>1, InvSched, YieldLemma
  <2>3. SleepAgree' /\ SemAgree'
    BY <1>1, <2>1, <2>2, InvTypes, SleepKept, SemKept DEF clkVars, semVars
  <2>4. OthersTypeOK'
    BY <1>1, <2>1, TabSame, MsgSame, SemSame, ClkSame, FrameSame DEF OthersTypeOK
  <2> QED
    BY <1>1, <2>2, <2>3, <2>4, QuietStep DEF QueuesDone, SchedDone
<1>4. CASE t # 0
  <2>1. /\ sleepq' = insertd(currpid, sleepq, qkey, int32(t))
        /\ left' = [left EXCEPT ![currpid] = t]
        /\ resched(0, [prstate EXCEPT ![currpid] = "SLEEP"], readylist,
                   insertdKeys(currpid, sleepq, qkey, int32(t)), preempt)
    BY <1>2, <1>4 DEF sleepms
  <2>2. QueuesDone /\ sleepq' \in Seq(Pids) /\ FreeStaysFree
    BY <1>1, <2>1, SleepStep DEF semVars
  <2>3. t \in Int
    OBVIOUS
  <2>4. ClkTypeOK'
    BY <2>1, <2>2, <2>3, InvTypes DEF ClkTypeOK
  <2>5. OthersTypeOK'
    BY <1>1, <2>4, TabSame, MsgSame, SemSame, FrameSame DEF OthersTypeOK
  <2> QED
    BY <1>1, <2>2, <2>5, QuietStep DEF FreeStaysFree
<1> QED BY <1>3, <1>4

\* A tick changes keys only, so states and queues agree as before.
LEMMA TickQueues ==
    ASSUME Inv, DOMAIN qkey' = Pids, attempt' \in BOOLEAN,
           UNCHANGED <<sleepq, prstate, readylist, currpid, preempt, semVars>>
    PROVE  QueuesDone /\ FreeStaysFree
<1>1. SchedTypeOK' /\ ReadyAgree' /\ SomethingToRun'
  BY DEF Inv, TypeOK, SchedTypeOK, QueueStateAgree, ReadyAgree, SomethingToRun
<1>2. SleepAgree' /\ SemAgree'
  BY InvTypes DEF SleepAgree, SemAgree, semVars
<1> QED
  BY <1>1, <1>2 DEF QueuesDone, FreeStaysFree

\* The tick up to the calls of wakeup() and resched(): only keys and the slice
\* change.
LEMMA ClkhandlerInv == ASSUME Inv, clkhandler PROVE Inv'
<1> DEFINE fc == Frame("clk", 0, 0)
           fw == Frame("wakeup", 0, 0)
<1>1. /\ UNCHANGED <<sleepq, prstate, readylist, currpid, preempt, msgVars, semVars, tabVars>>
      /\ left' = tickLeft
      /\ frame[currpid].op \notin DeferLoops
  BY DEF clkhandler, UserMode, DeferLoops
<1>2. fc \in FrameRecord /\ fc.op = "clk" /\ fw \in FrameRecord /\ fw.op = "wakeup"
  BY DEF Frame, FrameRecord, Ops
<1>3. \/ /\ frame' = [frame EXCEPT ![currpid] = fc]
         /\ UNCHANGED <<ndefers, attempt>>
      \/ /\ frame' = [frame EXCEPT ![currpid] = fw]
         /\ deferStart
  BY DEF clkhandler
<1>4. DOMAIN qkey' = Pids
  BY InvSched DEF clkhandler
<1> HIDE DEF fc, fw
<1>5. ClkTypeOK'
  <2>1. \A p \in Pids : left[p] \in Int
    BY InvTypes DEF ClkTypeOK
  <2>2. left' \in [Pids -> Int]
    BY <1>1, <2>1 DEF tickLeft
  <2> QED BY <1>1, <2>2, InvTypes DEF ClkTypeOK
<1>6. TabTypeOK' /\ MsgTypeOK' /\ SemTypeOK'
  BY <1>1, TabSame, MsgSame, SemSame
<1>7. attempt' \in BOOLEAN
  BY <1>3, InvSched DEF deferStart
<1>8. QueuesDone /\ FreeStaysFree
  BY <1>1, <1>4, <1>7, TickQueues
<1>9. CASE frame' = [frame EXCEPT ![currpid] = fc] /\ UNCHANGED <<ndefers, attempt>>
  <2>1. /\ FrameTypeOK' /\ \A x \in Pids \ {currpid} : frame'[x] = frame[x]
        /\ frame'[currpid].op = "clk"
    BY <1>2, <1>9, InvSched, FrameSet DEF SemLoops
  <2>2. \A x \in Pids : frame'[x].op \in DeferLoops => frame[x].op \in DeferLoops
    BY <2>1 DEF DeferLoops
  <2>3. OthersTypeOK'
    BY <1>5, <1>6, <2>1 DEF OthersTypeOK
  <2> QED
    BY <1>1, <1>8, <1>9, <2>2, <2>3, QuietStep DEF FreeStaysFree
<1>10. CASE frame' = [frame EXCEPT ![currpid] = fw] /\ deferStart
  <2>1. /\ FrameTypeOK' /\ \A x \in Pids \ {currpid} : frame'[x] = frame[x]
        /\ frame'[currpid].op = "wakeup"
    BY <1>2, <1>10, InvSched, FrameSet DEF SemLoops
  <2>2. OthersTypeOK'
    BY <1>5, <1>6, <2>1 DEF OthersTypeOK
  <2>3. frame'[currpid].op \in DeferLoops
    BY <2>1 DEF DeferLoops
  <2> QED
    BY <1>1, <1>8, <1>10, <2>1, <2>2, <2>3, StartStep
<1> QED BY <1>3, <1>9, <1>10

\* wakeup() moves the expired processes from the sleep queue to the ready
\* list, deferring.
LEMMA WakeupInv == ASSUME Inv, wakeup PROVE Inv'
<1> DEFINE p  == Head(sleepq)
           st == [prstate EXCEPT ![p] = "READY"]
           fc == Frame("clk", 0, 0)
<1>1. /\ UNCHANGED <<left, msgVars, semVars, tabVars>>
      /\ frame[currpid].op = "wakeup"
  BY DEF wakeup, Inside
<1>2. frame[currpid].op \in DeferLoops
  BY <1>1 DEF DeferLoops
<1>3. TabTypeOK' /\ MsgTypeOK' /\ SemTypeOK'
  BY <1>1, TabSame, MsgSame, SemSame
<1>4. CASE expired(sleepq, qkey)
  <2>1. /\ sleepq # <<>> /\ sleepq' = Tail(sleepq)
        /\ ready(p, ndefers, prstate, qkey)
        /\ UNCHANGED <<frame, ndefers>>
    BY <1>4 DEF wakeup, expired
  <2>2. /\ p \in Pids /\ On(p, sleepq) /\ sleepq' \in Seq(Pids)
        /\ \A x \in Pids : On(x, sleepq') <=> On(x, sleepq) /\ x # p
        /\ Distinct(sleepq')
    BY <2>1, InvTypes, TailQueue DEF SleepAgree, ClkTypeOK
  <2> HIDE DEF p
  <2>3. prstate[p] \in {"SLEEP", "RECTIM"}
    BY <2>2, InvTypes DEF SleepAgree
  <2>4. SchedDone(ndefers, st)
    BY <2>1, <2>2, <2>3, InvSched, ReadyLemma DEF Blocked
  <2>5. \A x \in Pids : st[x] = IF x = p THEN "READY" ELSE prstate[x]
    BY InvSched DEF SchedReady
  <2>6. \A x \in Pids : st[x] \in PrStates
    BY <2>5, InvTypes DEF PrStates
  <2> HIDE DEF st
  <2>7. SleepAgree'
    <3>1. st[p] \in PrStates \ {"SLEEP", "RECTIM"}
      BY <2>2, <2>5 DEF PrStates
    <3> QED BY <2>2, <2>4, <2>5, <3>1, SleepLeft
  <2>8. SemAgree'
    BY <1>1, <2>3, <2>4, <2>5, <2>6, SemKept DEF semVars
  <2>9. ClkTypeOK'
    BY <1>1, <2>2, InvTypes DEF ClkTypeOK
  <2>10. OthersTypeOK'
    BY <1>3, <2>1, <2>9, FrameSame DEF OthersTypeOK
  <2>11. ndefers > 0
    BY <1>2 DEF Inv, DeferBalanced
  <2>12. FreeStaysFree /\ currpid' = currpid
    BY <2>3, <2>4, <2>5, <2>11 DEF FreeStaysFree, SchedDone
  <2> QED
    BY <1>2, <2>1, <2>4, <2>7, <2>8, <2>10, <2>12, LoopStep DEF QueuesDone, SchedDone
<1>5. CASE ~expired(sleepq, qkey)
  <2>1. deferStop /\ sleepq' = sleepq /\ frame' = [frame EXCEPT ![currpid] = fc]
    BY <1>5 DEF wakeup
  <2>2. fc \in FrameRecord /\ fc.op = "clk"
    BY DEF Frame, FrameRecord, Ops
  <2> HIDE DEF fc
  <2>3. /\ FrameTypeOK' /\ \A x \in Pids \ {currpid} : frame'[x] = frame[x]
        /\ frame'[currpid].op = "clk"
    BY <2>1, <2>2, InvSched, FrameSet DEF SemLoops
  <2>4. OthersTypeOK'
    BY <1>1, <1>3, <2>1, <2>3, ClkSame DEF OthersTypeOK, clkVars
  <2>5. frame'[currpid].op \notin DeferLoops
    BY <2>3 DEF DeferLoops
  <2> QED
    BY <1>1, <1>2, <2>1, <2>3, <2>4, <2>5, StopStep DEF semVars
<1> QED BY <1>4, <1>5

\* The end of a time slice reschedules with the whole slice restored.
LEMMA ClkPreemptInv == ASSUME Inv, clkPreempt PROVE Inv'
<1>1. /\ UNCHANGED <<clkVars, msgVars, semVars, tabVars, ndefers>>
      /\ frame' = [frame EXCEPT ![currpid] = UserFrame]
      /\ frame[currpid].op \notin DeferLoops
  BY DEF clkPreempt, Inside, DeferLoops
<1>2. /\ FrameTypeOK' /\ \A x \in Pids \ {currpid} : frame'[x] = frame[x]
      /\ frame'[currpid].op = "user"
  BY <1>1, InvSched, FrameUser
<1>3. \A x \in Pids : frame'[x].op \in DeferLoops => frame[x].op \in DeferLoops
  BY <1>2 DEF DeferLoops
<1>4. SchedDone(0, prstate)
  <2>1. CASE preempt = 1
    <3>1. resched(0, prstate, readylist, qkey, QUANTUM)
      BY <1>1, <2>1, InvQuiet DEF clkPreempt
    <3>2. QUANTUM \in 1 .. QUANTUM
      OBVIOUS
    <3> QED BY <3>1, <3>2, YieldLemma
  <2>2. CASE preempt # 1
    <3>1. preempt' = preempt - 1 /\ UNCHANGED <<prstate, readylist, qkey, currpid, attempt>>
      BY <2>2 DEF clkPreempt
    <3>2. preempt' \in 1 .. QUANTUM
      BY <2>2, <3>1, InvSched
    <3>3. SchedTypeOK' /\ ReadyAgree' /\ SomethingToRun'
      BY <3>1, <3>2 DEF Inv, TypeOK, SchedTypeOK, QueueStateAgree, ReadyAgree, SomethingToRun
    <3> QED BY <3>1, <3>3 DEF SchedDone
  <2> QED BY <2>1, <2>2
<1>5. SleepAgree' /\ SemAgree'
  BY <1>1, <1>4, InvTypes, SleepKept, SemKept DEF clkVars, semVars
<1>6. OthersTypeOK'
  BY <1>1, <1>2, TabSame, MsgSame, SemSame, ClkSame DEF OthersTypeOK
<1>7. FreeStaysFree
  BY <1>4 DEF FreeStaysFree, SchedDone
<1> QED
  BY <1>1, <1>3, <1>4, <1>5, <1>6, <1>7, QuietStep DEF QueuesDone, SchedDone, FreeStaysFree

-----------------------------------------------------------------------------
(* kill().                                                                 *)

\* The first half of kill(): the processor halts, or the parent gets its message
\* and may be made ready while the victim is still where it was.
LEMMA KillInv == ASSUME Inv, NEW p \in Pids, kill(p) PROVE Inv'
<1> DEFINE fr == Frame("kill", p, 0)
<1>1. /\ UNCHANGED <<prprio, prparent, prstkbase, stkfree, nextpid, left, semVars, ndefers>>
      /\ prcount' = prcount - 1
      /\ frame[currpid].op \notin DeferLoops
      /\ p # NULLPROC
  BY DEF kill, killable, Caller, UserMode, DeferLoops
<1>2. CASE halted' = TRUE /\ UNCHANGED <<frame, msgVars, sleepq, schedVars>>
  <2>1. TabTypeOK'
    BY <1>1, <1>2, InvTypes DEF TabTypeOK
  <2>2. OthersTypeOK'
    BY <1>1, <1>2, <2>1, MsgSame, SemSame, ClkSame, FrameSame DEF OthersTypeOK, clkVars
  <2>3. SchedDone(0, prstate)
    BY <1>2, SchedIdle
  <2>4. SleepAgree' /\ SemAgree'
    BY <1>1, <1>2, <2>3, InvTypes, SleepKept, SemKept DEF semVars
  <2> QED
    BY <1>1, <1>2, <2>2, <2>3, <2>4, QuietStep DEF QueuesDone, SchedDone, schedVars
<1>3. CASE /\ frame' = [frame EXCEPT ![currpid] = fr]
           /\ sendTo(prparent[p], p)
           /\ UNCHANGED halted
  <2>1. TabTypeOK'
    BY <1>1, <1>3, InvTypes DEF TabTypeOK
  <2>2. prparent[p] \in Pids
    BY InvTypes DEF TabTypeOK
  <2>3. QueuesDone /\ MsgTypeOK' /\ sleepq' \in Seq(Pids) /\ FreeStaysFree
    BY <1>1, <1>3, <2>2, SendToLemma DEF semVars
  <2>4. fr \in FrameRecord /\ fr.op = "kill" /\ fr.tgt = p
    BY NullPid DEF Frame, FrameRecord, Ops
  <2> HIDE DEF fr
  <2>5. /\ FrameTypeOK' /\ \A x \in Pids \ {currpid} : frame'[x] = frame[x]
        /\ frame'[currpid].op = "kill"
    BY <1>1, <1>3, <2>4, InvSched, FrameSet DEF SemLoops
  <2>6. \A x \in Pids : frame'[x].op \in DeferLoops => frame[x].op \in DeferLoops
    BY <2>5 DEF DeferLoops
  <2>7. OthersTypeOK'
    BY <1>1, <2>1, <2>3, <2>5, SemSame, InvTypes DEF OthersTypeOK, ClkTypeOK
  <2> QED
    BY <1>1, <2>3, <2>6, <2>7, QuietStep DEF FreeStaysFree
<1> QED
  BY <1>2, <1>3 DEF kill

\* A blocked or ready process p is marked free without a resched().
LEMMA FreeLemma ==
    ASSUME Inv, NEW p \in Pids \ {NULLPROC}, prstate[p] # "CURR",
           prstate' = [prstate EXCEPT ![p] = "FREE"],
           readylist' \in Seq(Pids), Distinct(readylist'),
           \A x \in Pids : On(x, readylist') <=> On(x, readylist) /\ x # p,
           DOMAIN qkey' = Pids, UNCHANGED <<currpid, preempt, attempt>>
    PROVE  /\ SchedDone(0, [prstate EXCEPT ![p] = "FREE"])
           /\ \A x \in Pids : [prstate EXCEPT ![p] = "FREE"][x]
                                 = IF x = p THEN "FREE" ELSE prstate[x]
           /\ \A x \in Pids : [prstate EXCEPT ![p] = "FREE"][x] \in PrStates
<1>1. \A x \in Pids : prstate'[x] = IF x = p THEN "FREE" ELSE prstate[x]
  BY InvSched DEF SchedReady
<1>2. SchedTypeOK'
  BY InvSched DEF SchedTypeOK, SchedReady, PrStates
<1>3. ReadyAgree'
  BY <1>1, InvTypes DEF ReadyAgree
<1>4. SomethingToRun'
  BY <1>1, InvSched, NullPid DEF SomethingToRun, SchedReady
<1>5. \A x \in Pids : prstate'[x] \in PrStates
  BY <1>2 DEF SchedTypeOK
<1> DEFINE st == [prstate EXCEPT ![p] = "FREE"]
<1>6. prstate' = st
  OBVIOUS
<1> HIDE DEF st
<1>7. SchedDone(0, st)
  BY <1>2, <1>3, <1>4, <1>6 DEF SchedDone
<1> QED
  BY <1>1, <1>5, <1>6, <1>7 DEF st

\* kill() after the message to the parent: the victim leaves the queue its
\* state names.
LEMMA KillEndInv == ASSUME Inv, killEnd PROVE Inv'
<1> DEFINE p  == frame[currpid].tgt
           s  == prsem[p]
           st == [prstate EXCEPT ![p] = "FREE"]
<1>1. /\ UNCHANGED <<prprio, prparent, prstkbase, prcount, nextpid, halted, msgVars,
                     prsem, sstate, nextsem, left, ndefers>>
      /\ frame' = [frame EXCEPT ![currpid] = UserFrame]
      /\ frame[currpid].op = "kill"
      /\ frame[currpid].op \notin DeferLoops
      /\ stkfree' = stkfree \cup killedStack(p)
  BY DEF killEnd, Inside, DeferLoops
<1>2. p \in Pids \ {NULLPROC}
  BY <1>1, InvTypes, InvSched DEF FrameTypeOK
<1>3. /\ FrameTypeOK' /\ \A x \in Pids \ {currpid} : frame'[x] = frame[x]
      /\ frame'[currpid].op = "user"
  BY <1>1, InvSched, FrameUser
<1>4. \A x \in Pids : frame'[x].op \in DeferLoops => frame[x].op \in DeferLoops
  BY <1>3 DEF DeferLoops
<1>5. TabTypeOK' /\ MsgTypeOK'
  BY <1>1, InvTypes, MsgSame DEF TabTypeOK, killedStack
<1>6. readylist \in Seq(Pids) /\ Distinct(readylist)
  BY InvSched DEF SchedReady
<1>7. ASSUME SchedDone(0, st), SleepAgree', SemAgree', ClkTypeOK', SemTypeOK',
             \A x \in Pids : st[x] = IF x = p THEN "FREE" ELSE prstate[x]
      PROVE  Inv'
  <2>1. OthersTypeOK'
    BY <1>3, <1>5, <1>7 DEF OthersTypeOK
  <2>2. FreeStaysFree
    BY <1>7 DEF FreeStaysFree, SchedDone
  <2> QED
    BY <1>1, <1>4, <1>7, <2>1, <2>2, QuietStep DEF QueuesDone, SchedDone, FreeStaysFree
<1>8. CASE /\ prstate[p] = "CURR"
           /\ resched(ndefers, st, readylist, qkey, preempt)
           /\ UNCHANGED <<sleepq, scount, squeue>>
  <2>1. p = currpid /\ ndefers = 0
    BY <1>1, <1>2, <1>8, InvTypes, InvQuiet DEF ReadyAgree
  <2>2. SchedDone(0, st)
    BY <1>2, <1>8, <2>1, InvSched, BlockLemma DEF Blocked
  <2>3. /\ \A x \in Pids : st[x] = IF x = p THEN "FREE" ELSE prstate[x]
        /\ \A x \in Pids : st[x] \in PrStates
    BY <2>1, BlockStates DEF Blocked
  <2> HIDE DEF st, p
  <2>4. SleepAgree' /\ SemAgree'
    BY <1>1, <1>8, <2>2, <2>3, SleepKept, SemKept
  <2>5. ClkTypeOK' /\ SemTypeOK'
    BY <1>1, <1>8, ClkSame, SemSame DEF clkVars, semVars
  <2> QED BY <1>7, <2>2, <2>3, <2>4, <2>5
<1>9. CASE /\ prstate[p] \in {"SLEEP", "RECTIM"}
           /\ sleepq' = getitem(sleepq, p)
           /\ qkey' = unsleepKeys(p, sleepq, qkey)
           /\ prstate' = st
           /\ UNCHANGED <<readylist, currpid, preempt, attempt, scount, squeue>>
  <2>1. On(p, sleepq) /\ Distinct(sleepq) /\ sleepq \in Seq(Pids) /\ ~On(p, readylist)
    BY <1>2, <1>9, InvTypes DEF SleepAgree, ClkTypeOK, ReadyAgree
  <2>2. /\ sleepq' \in Seq(Pids)
        /\ \A x \in Pids : On(x, sleepq') <=> On(x, sleepq) /\ x # p
        /\ Distinct(sleepq')
    BY <1>2, <1>9, <2>1, GetitemQueue
  <2>3. DOMAIN qkey' = Pids
    BY <1>9, UnsleepDomain, InvSched
  <2>4. /\ SchedDone(0, st)
        /\ \A x \in Pids : st[x] = IF x = p THEN "FREE" ELSE prstate[x]
        /\ \A x \in Pids : st[x] \in PrStates
    <3>1. \A x \in Pids : On(x, readylist') <=> On(x, readylist) /\ x # p
      BY <1>9, <2>1
    <3>2. prstate[p] # "CURR" /\ readylist' = readylist
      BY <1>9
    <3> HIDE DEF p
    <3> QED BY ZenonT(30), <1>2, <1>6, <1>9, <2>3, <3>1, <3>2, FreeLemma
  <2> HIDE DEF st, p
  <2>5. SleepAgree'
    <3>1. st[p] \in PrStates \ {"SLEEP", "RECTIM"}
      BY <1>2, <2>4 DEF PrStates
    <3> QED BY <1>2, <2>2, <2>4, <3>1, SleepLeft
  <2>6. SemAgree'
    BY <1>1, <1>9, <2>4, SemKept
  <2>7. ClkTypeOK' /\ SemTypeOK'
    BY <1>1, <1>9, <2>2, SemSame, InvTypes DEF ClkTypeOK, semVars
  <2> QED BY <1>7, <2>4, <2>5, <2>6, <2>7
<1>10. CASE /\ prstate[p] = "WAIT"
            /\ scount' = [scount EXCEPT ![s] = killedCount(s)]
            /\ squeue' = [squeue EXCEPT ![s] = getitem(squeue[s], p)]
            /\ prstate' = st
            /\ UNCHANGED <<readylist, qkey, currpid, preempt, attempt, sleepq>>
  <2>1. s \in Sids /\ On(p, squeue[s]) /\ Distinct(squeue[s]) /\ squeue[s] \in Seq(Pids)
    BY <1>2, <1>10, InvTypes DEF SemAgree, SemTypeOK
  <2> DEFINE q == getitem(squeue[s], p)
  <2>2. /\ q \in Seq(Pids)
        /\ \A x \in Pids : On(x, q) <=> On(x, squeue[s]) /\ x # p
        /\ Distinct(q)
    BY <1>2, <2>1, GetitemQueue
  <2>3. squeue' = [squeue EXCEPT ![s] = q]
    BY <1>10
  <2>4. ~On(p, readylist)
    BY <1>2, <1>10, InvTypes DEF ReadyAgree
  <2>5. /\ SchedDone(0, st)
        /\ \A x \in Pids : st[x] = IF x = p THEN "FREE" ELSE prstate[x]
        /\ \A x \in Pids : st[x] \in PrStates
    BY ZenonT(30), <1>2, <1>6, <1>10, <2>4, InvSched, FreeLemma
  <2>6. prsem[p] = s
    OBVIOUS
  <2> HIDE DEF st, q, s, p
  <2>7. SleepAgree'
    BY <1>10, <2>5, SleepKept
  <2>8. SemAgree'
    <3>1. st[p] \in PrStates \ {"WAIT"}
      BY <1>2, <2>5 DEF PrStates
    <3>2. prsem' = prsem /\ p \in Pids /\ \A x \in Pids \ {p} : st[x] = prstate[x]
      BY <1>1, <1>2, <2>5
    <3>3. squeue'[s] = q /\ \A t \in Sids \ {s} : squeue'[t] = squeue[t]
      BY <2>1, <2>3, InvTypes DEF SemTypeOK
    <3> QED BY <2>1, <2>2, <2>5, <2>6, <3>1, <3>2, <3>3, SemLeft
  <2>9. SemTypeOK'
    <3>1. killedCount(s) \in Int
      BY <2>1, InvTypes DEF SemTypeOK, killedCount
    <3>2. scount' \in [Sids -> Int] /\ squeue' \in [Sids -> Seq(Pids)]
      BY <1>10, <2>2, <2>3, <3>1, InvTypes DEF SemTypeOK
    <3> QED BY <1>1, <3>2, InvTypes DEF SemTypeOK
  <2>10. ClkTypeOK'
    BY <1>1, <1>10, ClkSame DEF clkVars
  <2> QED BY <1>7, <2>5, <2>7, <2>8, <2>9, <2>10
<1>11. CASE /\ prstate[p] = "READY"
            /\ readylist' = getitem(readylist, p)
            /\ prstate' = st
            /\ UNCHANGED <<qkey, currpid, preempt, attempt, sleepq, scount, squeue>>
  <2>1. On(p, readylist)
    BY <1>2, <1>11, InvTypes DEF ReadyAgree
  <2>2. /\ readylist' \in Seq(Pids)
        /\ \A x \in Pids : On(x, readylist') <=> On(x, readylist) /\ x # p
        /\ Distinct(readylist')
    BY <1>2, <1>6, <1>11, <2>1, GetitemQueue
  <2>3. /\ SchedDone(0, st)
        /\ \A x \in Pids : st[x] = IF x = p THEN "FREE" ELSE prstate[x]
        /\ \A x \in Pids : st[x] \in PrStates
    BY <1>2, <1>11, <2>2, InvSched, FreeLemma
  <2> HIDE DEF st, p
  <2>4. SleepAgree' /\ SemAgree'
    BY <1>1, <1>11, <2>3, SleepKept, SemKept
  <2>5. ClkTypeOK' /\ SemTypeOK'
    BY <1>1, <1>11, ClkSame, SemSame DEF clkVars, semVars
  <2> QED BY <1>7, <2>3, <2>4, <2>5
<1>12. CASE /\ prstate[p] \in {"RECV", "SUSP", "FREE"}
            /\ prstate' = st
            /\ UNCHANGED <<readylist, qkey, currpid, preempt, attempt, sleepq, scount, squeue>>
  <2>1. ~On(p, readylist)
    BY <1>2, <1>12, InvTypes DEF ReadyAgree
  <2>2. /\ SchedDone(0, st)
        /\ \A x \in Pids : st[x] = IF x = p THEN "FREE" ELSE prstate[x]
        /\ \A x \in Pids : st[x] \in PrStates
    BY ZenonT(30), <1>2, <1>6, <1>12, <2>1, InvSched, FreeLemma
  <2> HIDE DEF st, p
  <2>3. SleepAgree' /\ SemAgree'
    BY <1>1, <1>12, <2>2, SleepKept, SemKept
  <2>4. ClkTypeOK' /\ SemTypeOK'
    BY <1>1, <1>12, ClkSame, SemSame DEF clkVars, semVars
  <2> QED BY <1>7, <2>2, <2>3, <2>4
<1> QED
  BY <1>8, <1>9, <1>10, <1>11, <1>12 DEF killEnd

-----------------------------------------------------------------------------
(* Semaphores.                                                             *)

\* The search of the semaphore table finds a free entry if there is one.
LEMMA NewsemFacts ==
    ASSUME Inv, newsem # -1
    PROVE  newsem \in Sids /\ sstate[newsem] = "FREE"
<1> DEFINE at(i) == wrap(nextsem + i, NSEM)
           P(i)  == sstate[at(i)] = "FREE"
           S     == {i \in 0 .. NSEM - 1 : P(i)}
<1>1. PICK s \in Sids : sstate[s] = "FREE"
  BY DEF newsem
<1>2. nextsem \in 0 .. NSEM - 1 /\ s \in 0 .. NSEM - 1 /\ NSEM \in Nat
  BY InvTypes DEF SemTypeOK, Sids
<1>3. \A i \in 0 .. NSEM - 1 : at(i) \in Sids
  BY <1>2 DEF wrap, Sids
<1> DEFINE d == IF s >= nextsem THEN s - nextsem ELSE s - nextsem + NSEM
<1>4. d \in 0 .. NSEM - 1 /\ at(d) = s
  BY <1>2 DEF wrap
<1> HIDE DEF at, d
<1>5. S \in SUBSET Nat /\ S # {}
  BY <1>1, <1>4
<1>6. PICK m \in S : \A n \in S : m <= n
  <2> HIDE DEF S
  <2> QED BY <1>5, LeastNat
<1>7. m \in 0 .. NSEM - 1 /\ P(m) /\ \A j \in 0 .. m - 1 : ~P(j)
  BY <1>2, <1>6
<1> DEFINE Q(i) == P(i) /\ \A j \in 0 .. i - 1 : ~P(j)
<1>8. \E i \in 0 .. NSEM - 1 : Q(i)
  BY <1>7
<1> DEFINE c == CHOOSE i \in 0 .. NSEM - 1 : Q(i)
<1>9. c \in 0 .. NSEM - 1 /\ Q(c)
  <2> HIDE DEF Q
  <2> QED BY <1>8
<1>10. newsem = at(c)
  BY <1>1 DEF newsem, at
<1> HIDE DEF c
<1> QED
  BY <1>3, <1>9, <1>10

\* semcreate() reuses a free entry, whose queue is empty.
LEMMA SemcreateInv == ASSUME Inv, NEW n \in Counts, semcreate(n) PROVE Inv'
<1> DEFINE s == newsem
<1>1. /\ UNCHANGED <<prsem, squeue, schedVars, tabVars, msgVars, clkVars, ndefers, frame>>
      /\ frame[currpid].op \notin DeferLoops
      /\ s # -1
      /\ sstate' = [sstate EXCEPT ![s] = "USED"]
      /\ scount' = [scount EXCEPT ![s] = n]
      /\ nextsem' = wrap(s + 1, NSEM)
  BY DEF semcreate, Caller, UserMode, DeferLoops
<1>2. s \in Sids
  BY <1>1, NewsemFacts
<1> HIDE DEF s
<1>3. n \in Int
  OBVIOUS
<1>4. nextsem' \in Sids
  BY <1>1, <1>2 DEF wrap, Sids
<1>5. SemTypeOK'
  BY <1>1, <1>3, <1>4, InvTypes DEF SemTypeOK
<1>6. OthersTypeOK'
  BY <1>1, <1>5, TabSame, MsgSame, ClkSame, FrameSame DEF OthersTypeOK
<1>7. SchedDone(0, prstate)
  BY <1>1, SchedIdle
<1>8. SleepAgree' /\ SemAgree'
  BY <1>1, <1>7, InvTypes, SleepKept, SemKept DEF clkVars
<1> QED
  BY <1>1, <1>6, <1>7, <1>8, QuietStep DEF QueuesDone, SchedDone, schedVars

\* wait() puts the current process on the queue of the semaphore, or lets it
\* pass.
LEMMA WaitInv == ASSUME Inv, NEW s \in Sids, wait(s) PROVE Inv'
<1> DEFINE st == [prstate EXCEPT ![currpid] = "WAIT"]
           q  == enqueue(squeue[s], currpid)
<1>1. /\ UNCHANGED <<sstate, nextsem, tabVars, msgVars, clkVars, ndefers, frame>>
      /\ frame[currpid].op \notin DeferLoops /\ currpid # NULLPROC
      /\ scount' = [scount EXCEPT ![s] = scount[s] - 1]
  BY DEF wait, Caller, UserMode, DeferLoops
<1>2. scount' \in [Sids -> Int]
  BY <1>1, InvTypes DEF SemTypeOK
<1>3. CASE UNCHANGED <<prsem, squeue, schedVars>>
  <2>1. SemTypeOK'
    BY <1>1, <1>2, <1>3, InvTypes DEF SemTypeOK
  <2>2. OthersTypeOK'
    BY <1>1, <2>1, TabSame, MsgSame, ClkSame, FrameSame DEF OthersTypeOK
  <2>3. SchedDone(0, prstate)
    BY <1>3, SchedIdle
  <2>4. SleepAgree' /\ SemAgree'
    BY <1>1, <1>3, <2>3, InvTypes, SleepKept, SemKept DEF clkVars
  <2> QED
    BY <1>1, <1>3, <2>2, <2>3, <2>4, QuietStep DEF QueuesDone, SchedDone, schedVars
<1>4. CASE /\ prsem' = [prsem EXCEPT ![currpid] = s]
           /\ squeue' = [squeue EXCEPT ![s] = enqueue(squeue[s], currpid)]
           /\ resched(ndefers, st, readylist, qkey, preempt)
  <2>1. ndefers = 0
    BY <1>1, InvQuiet
  <2>2. SchedDone(0, st)
    BY <1>1, <1>4, <2>1, InvSched, BlockLemma DEF Blocked
  <2>3. /\ \A x \in Pids : st[x] = IF x = currpid THEN "WAIT" ELSE prstate[x]
        /\ \A x \in Pids : st[x] \in PrStates
        /\ prstate[currpid] = "CURR" /\ currpid \in Pids
    BY BlockStates DEF Blocked
  <2>4. ~On(currpid, squeue[s]) /\ Distinct(squeue[s]) /\ squeue[s] \in Seq(Pids)
    BY <2>3, InvTypes DEF SemAgree, SemTypeOK
  <2>5. /\ q \in Seq(Pids)
        /\ \A x \in Pids : On(x, q) <=> On(x, squeue[s]) \/ x = currpid
        /\ Distinct(q)
    BY <2>3, <2>4, EnqueueQueue
  <2> HIDE DEF st
  <2>6. SleepAgree'
    BY <1>1, <2>2, <2>3, SleepKept DEF clkVars
  <2>7. squeue' = [squeue EXCEPT ![s] = q]
    BY <1>4
  <2> HIDE DEF q
  <2>8. SemTypeOK'
    BY <1>1, <1>2, <1>4, <2>5, <2>7, InvTypes DEF SemTypeOK
  <2>9. SemAgree'
    <3>1. \A x \in Pids : prstate'[x] = "WAIT" <=> x = currpid \/ prstate[x] = "WAIT"
      BY <2>2, <2>3 DEF SchedDone, PrStates
    <3>2. \A t \in Sids : squeue'[t] = IF t = s THEN q ELSE squeue[t]
      BY <2>7, InvTypes DEF SemTypeOK
    <3>3. \A x \in Pids : prsem'[x] = IF x = currpid THEN s ELSE prsem[x]
      BY <1>4, InvTypes DEF SemTypeOK
    <3>4. \A t \in Sids : ~On(currpid, squeue[t])
      BY <2>3, InvTypes DEF SemAgree
    <3> QED
      BY <2>5, <3>1, <3>2, <3>3, <3>4, InvTypes DEF SemAgree
  <2>10. OthersTypeOK'
    BY <1>1, <2>8, TabSame, MsgSame, ClkSame, FrameSame DEF OthersTypeOK
  <2>11. FreeStaysFree
    BY <2>2, <2>3 DEF FreeStaysFree, SchedDone
  <2> QED
    BY <1>1, <2>2, <2>6, <2>9, <2>10, <2>11, QuietStep
    DEF QueuesDone, SchedDone, FreeStaysFree
<1> QED
  BY <1>3, <1>4 DEF wait

\* ready(dequeue(squeue)): the first waiter, if there is one, becomes ready.
LEMMA ReadyFirstLemma ==
    ASSUME Inv, NEW s \in Sids, readyFirst(s), prsem' = prsem, sleepq' = sleepq
    PROVE  /\ QueuesDone /\ FreeStaysFree
           /\ squeue' \in [Sids -> Seq(Pids)]
           /\ ndefers > 0 => currpid' = currpid
<1> DEFINE p  == Head(squeue[s])
           st == [prstate EXCEPT ![p] = "READY"]
<1>1. CASE squeue[s] = <<>>
  <2>1. UNCHANGED <<squeue, schedVars>>
    BY <1>1 DEF readyFirst
  <2>2. SchedDone(0, prstate)
    BY <2>1, SchedIdle
  <2>3. SleepAgree' /\ SemAgree'
    BY <2>1, <2>2, InvTypes, SleepKept, SemKept
  <2> QED
    BY <2>1, <2>2, <2>3, InvTypes
    DEF QueuesDone, SchedDone, FreeStaysFree, schedVars, SemTypeOK
<1>2. CASE squeue[s] # <<>>
  <2>1. /\ squeue' = [squeue EXCEPT ![s] = Tail(squeue[s])]
        /\ ready(p, ndefers, prstate, qkey)
    BY <1>2 DEF readyFirst
  <2>2. squeue[s] \in Seq(Pids) /\ Distinct(squeue[s])
    BY InvTypes DEF SemAgree, SemTypeOK
  <2> DEFINE q == Tail(squeue[s])
  <2>3. /\ p \in Pids /\ On(p, squeue[s]) /\ q \in Seq(Pids)
        /\ \A x \in Pids : On(x, q) <=> On(x, squeue[s]) /\ x # p
        /\ Distinct(q)
    BY <1>2, <2>2, TailQueue
  <2>4. squeue' = [squeue EXCEPT ![s] = q]
    BY <2>1
  <2> HIDE DEF q, p
  <2>5. prstate[p] = "WAIT" /\ prsem[p] = s
    BY <2>3, InvTypes DEF SemAgree
  <2>6. SchedDone(ndefers, st)
    BY <2>1, <2>3, <2>5, InvSched, ReadyLemma DEF Blocked
  <2>7. \A x \in Pids : st[x] = IF x = p THEN "READY" ELSE prstate[x]
    BY InvSched DEF SchedReady
  <2>8. \A x \in Pids : st[x] \in PrStates
    BY <2>7, InvTypes DEF PrStates
  <2> HIDE DEF st
  <2>9. SleepAgree'
    BY <2>5, <2>6, <2>7, <2>8, SleepKept
  <2>10. squeue'[s] = q /\ \A t \in Sids \ {s} : squeue'[t] = squeue[t]
    BY <2>4, InvTypes DEF SemTypeOK
  <2>11. SemAgree'
    <3>1. st[p] \in PrStates \ {"WAIT"}
      BY <2>3, <2>7 DEF PrStates
    <3>2. \A x \in Pids \ {p} : st[x] = prstate[x]
      BY <2>7
    <3> QED BY <2>3, <2>5, <2>6, <2>10, <3>1, <3>2, SemLeft
  <2>12. squeue' \in [Sids -> Seq(Pids)]
    BY <2>3, <2>4, InvTypes DEF SemTypeOK
  <2> QED
    BY <2>5, <2>6, <2>7, <2>9, <2>11, <2>12 DEF QueuesDone, SchedDone, FreeStaysFree
<1> QED BY <1>1, <1>2

\* scount[s]++ and the ready() that goes with it.
LEMMA SignalOnceLemma ==
    ASSUME Inv, NEW s \in Sids, signalOnce(s),
           UNCHANGED <<prsem, sstate, nextsem, sleepq>>
    PROVE  /\ QueuesDone /\ FreeStaysFree /\ SemTypeOK'
           /\ ndefers > 0 => currpid' = currpid
<1>1. scount' \in [Sids -> Int]
  BY InvTypes DEF SemTypeOK, signalOnce
<1>2. CASE readyFirst(s)
  <2>1. /\ QueuesDone /\ FreeStaysFree
        /\ squeue' \in [Sids -> Seq(Pids)]
        /\ ndefers > 0 => currpid' = currpid
    BY <1>2, ReadyFirstLemma
  <2> QED BY <1>1, <2>1, InvTypes DEF SemTypeOK
<1>3. CASE UNCHANGED <<squeue, schedVars>>
  <2>1. SchedDone(0, prstate)
    BY <1>3, SchedIdle
  <2>2. SleepAgree' /\ SemAgree'
    BY <1>3, <2>1, InvTypes, SleepKept, SemKept
  <2>3. SemTypeOK'
    BY <1>1, <1>3, InvTypes DEF SemTypeOK
  <2> QED
    BY <1>3, <2>1, <2>2, <2>3 DEF QueuesDone, SchedDone, FreeStaysFree, schedVars
<1> QED
  BY <1>2, <1>3 DEF signalOnce

\* signal() makes the first waiting process ready.
LEMMA SignalInv == ASSUME Inv, NEW s \in Sids, signal(s) PROVE Inv'
<1>1. /\ UNCHANGED <<prsem, sstate, nextsem, tabVars, msgVars, clkVars, ndefers, frame>>
      /\ frame[currpid].op \notin DeferLoops
      /\ signalOnce(s)
  BY DEF signal, Caller, UserMode, DeferLoops
<1>2. QueuesDone /\ FreeStaysFree /\ SemTypeOK'
  BY <1>1, SignalOnceLemma DEF clkVars
<1>3. OthersTypeOK'
  BY <1>1, <1>2, TabSame, MsgSame, ClkSame, FrameSame DEF OthersTypeOK
<1> QED
  BY <1>1, <1>2, <1>3, QuietStep DEF FreeStaysFree

\* The start of a loop over semaphore s that defers rescheduling.
LEMMA SemLoopStart ==
    ASSUME Inv, NEW op \in SemLoops, NEW s \in Sids, NEW n \in Nat,
           frame' = [frame EXCEPT ![currpid] = Frame(op, s, n)],
           frame[currpid].op \notin DeferLoops, deferStart, SemTypeOK',
           UNCHANGED <<prstate, readylist, qkey, currpid, preempt, prsem, squeue,
                       tabVars, msgVars, clkVars>>
    PROVE  Inv'
<1> DEFINE fr == Frame(op, s, n)
<1>1. fr \in FrameRecord /\ fr.op = op /\ fr.tgt = s /\ fr.cnt = n
  BY DEF Frame, FrameRecord, Ops, SemLoops, Sids
<1> HIDE DEF fr
<1>2. frame' = [frame EXCEPT ![currpid] = fr]
  BY DEF fr
<1>3. /\ FrameTypeOK' /\ \A x \in Pids \ {currpid} : frame'[x] = frame[x]
      /\ frame'[currpid].op = op
  <2>1. fr.op # "kill" /\ fr.tgt \in Sids /\ fr.cnt >= 0
    BY <1>1 DEF SemLoops
  <2> QED BY <1>1, <1>2, <2>1, InvSched, FrameSet
<1>4. OthersTypeOK'
  BY <1>3, TabSame, MsgSame, ClkSame DEF OthersTypeOK
<1>5. attempt' \in BOOLEAN
  BY InvSched DEF deferStart
<1>6. SchedTypeOK' /\ ReadyAgree' /\ SomethingToRun'
  BY <1>5 DEF Inv, TypeOK, SchedTypeOK, QueueStateAgree, ReadyAgree, SomethingToRun
<1>7. SleepAgree' /\ SemAgree'
  BY InvTypes DEF SleepAgree, SemAgree, clkVars
<1>8. frame'[currpid].op \in DeferLoops
  BY <1>3 DEF SemLoops, DeferLoops
<1> QED
  BY <1>3, <1>4, <1>6, <1>7, <1>8, StartStep DEF QueuesDone, FreeStaysFree

\* signaln() starts to defer before its loop.
LEMMA SignalnInv ==
    ASSUME Inv, NEW s \in Sids, NEW n \in Counts, signaln(s, n) PROVE Inv'
<1>1. /\ frame' = [frame EXCEPT ![currpid] = Frame("signaln", s, n)]
      /\ frame[currpid].op \notin DeferLoops /\ deferStart /\ n >= 0
      /\ UNCHANGED <<prstate, readylist, qkey, currpid, preempt,
                     semVars, tabVars, msgVars, clkVars>>
  BY DEF signaln, Caller, UserMode, DeferLoops
<1>2. n \in Nat /\ "signaln" \in SemLoops
  BY <1>1 DEF SemLoops
<1> QED
  BY <1>1, <1>2, SemSame, SemLoopStart DEF semVars

\* semreset() starts to defer before its loop.
LEMMA SemresetInv ==
    ASSUME Inv, NEW s \in Sids, NEW n \in Counts, semreset(s, n) PROVE Inv'
<1>1. /\ frame' = [frame EXCEPT ![currpid] = Frame("semreset", s, n)]
      /\ frame[currpid].op \notin DeferLoops /\ deferStart /\ n >= 0
      /\ UNCHANGED <<prstate, readylist, qkey, currpid, preempt,
                     semVars, tabVars, msgVars, clkVars>>
  BY DEF semreset, Caller, UserMode, DeferLoops
<1>2. n \in Nat /\ "semreset" \in SemLoops
  BY <1>1 DEF SemLoops
<1> QED
  BY <1>1, <1>2, SemSame, SemLoopStart DEF semVars

\* semdelete() starts to defer before its loop.
LEMMA SemdeleteInv == ASSUME Inv, NEW s \in Sids, semdelete(s) PROVE Inv'
<1>1. /\ frame' = [frame EXCEPT ![currpid] = Frame("semdelete", s, 0)]
      /\ frame[currpid].op \notin DeferLoops /\ deferStart
      /\ sstate' = [sstate EXCEPT ![s] = "FREE"]
      /\ UNCHANGED <<prstate, readylist, qkey, currpid, preempt, prsem, scount, squeue,
                     nextsem, tabVars, msgVars, clkVars>>
  BY DEF semdelete, Caller, UserMode, DeferLoops
<1>2. SemTypeOK'
  BY <1>1, InvTypes DEF SemTypeOK
<1>3. "semdelete" \in SemLoops /\ 0 \in Nat
  BY DEF SemLoops
<1> QED
  BY <1>1, <1>2, <1>3, SemLoopStart

\* An iteration of such a loop, and its end.
LEMMA SemLoopStep ==
    ASSUME Inv, frame[currpid].op \in SemLoops, QueuesDone, FreeStaysFree, SemTypeOK',
           ndefers > 0 => currpid' = currpid, FrameTypeOK', ndefers' = ndefers,
           frame'[currpid].op = frame[currpid].op,
           \A x \in Pids \ {currpid} : frame'[x] = frame[x],
           UNCHANGED <<tabVars, msgVars, clkVars>>
    PROVE  Inv'
<1>1. frame[currpid].op \in DeferLoops
  BY DEF SemLoops, DeferLoops
<1>2. ndefers > 0
  BY <1>1 DEF Inv, DeferBalanced
<1>3. OthersTypeOK'
  BY TabSame, MsgSame, ClkSame DEF OthersTypeOK
<1> QED
  BY <1>1, <1>2, <1>3, LoopStep

\* The end of a deferring loop of the semaphores preserves the invariant.
LEMMA SemLoopEnd ==
    ASSUME Inv, frame[currpid].op \in SemLoops, deferStop, SemTypeOK',
           frame' = [frame EXCEPT ![currpid] = UserFrame],
           squeue' = squeue, prsem' = prsem, UNCHANGED <<tabVars, msgVars, clkVars>>
    PROVE  Inv'
<1>1. frame[currpid].op \in DeferLoops
  BY DEF SemLoops, DeferLoops
<1>2. /\ FrameTypeOK' /\ \A x \in Pids \ {currpid} : frame'[x] = frame[x]
      /\ frame'[currpid].op = "user"
  BY InvSched, FrameUser
<1>3. OthersTypeOK'
  BY <1>2, TabSame, MsgSame, ClkSame DEF OthersTypeOK
<1>4. frame'[currpid].op \notin DeferLoops /\ sleepq' = sleepq
  BY <1>2 DEF DeferLoops, clkVars
<1> QED
  BY <1>1, <1>2, <1>3, <1>4, StopStep

\* One round of the loop of signaln().
LEMMA SignalnLoopInv == ASSUME Inv, signalnLoop PROVE Inv'
<1> DEFINE f == frame[currpid]
           g == [f EXCEPT !.cnt = f.cnt - 1]
<1>1. /\ f.op = "signaln" /\ f.cnt > 0 /\ signalOnce(f.tgt)
      /\ frame' = [frame EXCEPT ![currpid] = g]
      /\ UNCHANGED <<prsem, sstate, nextsem, tabVars, msgVars, clkVars, ndefers>>
  BY DEF signalnLoop, Inside
<1>2. f \in FrameRecord /\ f.op \in SemLoops /\ f.tgt \in Sids
  BY <1>1, InvTypes, InvSched DEF FrameTypeOK, FrameRecord, SemLoops
<1> HIDE DEF f
<1>3. g \in FrameRecord /\ g.op = f.op /\ g.tgt = f.tgt /\ g.cnt = f.cnt - 1
  BY <1>2 DEF FrameRecord
<1> HIDE DEF g
<1>4. g.op # "kill" /\ g.cnt >= 0
  BY <1>1, <1>2, <1>3 DEF FrameRecord
<1>5. /\ FrameTypeOK' /\ \A x \in Pids \ {currpid} : frame'[x] = frame[x]
      /\ frame'[currpid].op = f.op
  BY <1>1, <1>2, <1>3, <1>4, InvSched, FrameSet
<1>6. /\ QueuesDone /\ FreeStaysFree /\ SemTypeOK'
      /\ ndefers > 0 => currpid' = currpid
  BY <1>1, <1>2, SignalOnceLemma DEF clkVars
<1> QED
  BY <1>1, <1>2, <1>5, <1>6, SemLoopStep DEF f

\* The end of signaln(): the deferred rescheduling takes place.
LEMMA SignalnEndInv == ASSUME Inv, signalnEnd PROVE Inv'
<1>1. /\ frame[currpid].op \in SemLoops /\ deferStop
      /\ frame' = [frame EXCEPT ![currpid] = UserFrame]
      /\ UNCHANGED <<semVars, tabVars, msgVars, clkVars>>
  BY DEF signalnEnd, Inside, SemLoops
<1> QED
  BY <1>1, SemSame, SemLoopEnd DEF semVars

\* The semaphore that a loop is about.
LEMMA LoopTarget ==
    ASSUME Inv, frame[currpid].op \in SemLoops
    PROVE  frame[currpid].tgt \in Sids /\ frame[currpid].cnt \in Int
BY InvTypes, InvSched DEF FrameTypeOK

\* One round of the loop of semdelete(), or its end.
LEMMA SemdeleteLoopInv == ASSUME Inv, semdeleteLoop PROVE Inv'
<1> DEFINE s == frame[currpid].tgt
<1>1. /\ frame[currpid].op \in SemLoops
      /\ scount' = [scount EXCEPT ![s] = scount[s] + 1]
      /\ UNCHANGED <<prsem, sstate, nextsem, tabVars, msgVars, clkVars>>
  BY DEF semdeleteLoop, Inside, SemLoops
<1>2. s \in Sids
  BY <1>1, LoopTarget
<1>3. scount' \in [Sids -> Int]
  BY <1>1, <1>2, InvTypes DEF SemTypeOK
<1>4. CASE readyFirst(s) /\ UNCHANGED <<ndefers, frame>>
  <2> HIDE DEF s
  <2>1. /\ QueuesDone /\ FreeStaysFree
        /\ squeue' \in [Sids -> Seq(Pids)]
        /\ ndefers > 0 => currpid' = currpid
    BY <1>1, <1>2, <1>4, ReadyFirstLemma DEF clkVars
  <2>2. SemTypeOK'
    BY <1>1, <1>3, <2>1, InvTypes DEF SemTypeOK
  <2> QED
    BY <1>1, <1>4, <2>1, <2>2, FrameSame, SemLoopStep
<1>5. CASE /\ deferStop
           /\ frame' = [frame EXCEPT ![currpid] = UserFrame]
           /\ UNCHANGED squeue
  <2>1. SemTypeOK'
    BY <1>1, <1>3, <1>5, InvTypes DEF SemTypeOK
  <2> QED
    BY <1>1, <1>5, <2>1, SemLoopEnd
<1> QED
  BY <1>4, <1>5 DEF semdeleteLoop

\* One round of the loop of semreset(), or its end.
LEMMA SemresetLoopInv == ASSUME Inv, semresetLoop PROVE Inv'
<1> DEFINE s == frame[currpid].tgt
<1>1. /\ frame[currpid].op \in SemLoops
      /\ UNCHANGED <<prsem, sstate, nextsem, tabVars, msgVars, clkVars>>
  BY DEF semresetLoop, Inside, SemLoops
<1>2. s \in Sids /\ frame[currpid].cnt \in Int
  BY <1>1, LoopTarget
<1>3. CASE readyFirst(s) /\ UNCHANGED <<scount, ndefers, frame>>
  <2> HIDE DEF s
  <2>1. /\ QueuesDone /\ FreeStaysFree
        /\ squeue' \in [Sids -> Seq(Pids)]
        /\ ndefers > 0 => currpid' = currpid
    BY <1>1, <1>2, <1>3, ReadyFirstLemma DEF clkVars
  <2>2. SemTypeOK'
    BY <1>1, <1>3, <2>1, InvTypes DEF SemTypeOK
  <2> QED
    BY <1>1, <1>3, <2>1, <2>2, FrameSame, SemLoopStep
<1>4. CASE /\ scount' = [scount EXCEPT ![s] = frame[currpid].cnt]
           /\ deferStop
           /\ frame' = [frame EXCEPT ![currpid] = UserFrame]
           /\ UNCHANGED squeue
  <2>1. SemTypeOK'
    BY <1>1, <1>2, <1>4, InvTypes DEF SemTypeOK
  <2> QED
    BY <1>1, <1>4, <2>1, SemLoopEnd
<1> QED
  BY <1>3, <1>4 DEF semresetLoop

-----------------------------------------------------------------------------
(* The whole kernel.                                                       *)

\* What sysinit() leaves: the null process runs, the first process is ready.
LEMMA InitInv == ASSUME Init PROVE Inv
<1>1. NULLPROC \in Pids /\ 1 \in Pids /\ 1 # NULLPROC /\ 0 \in Pids /\ NULLPROC = 0
  BY DEF NULLPROC, Pids
<1>2. readylist = <<NULLPROC>> /\ Len(<<NULLPROC>>) = 1 /\ <<NULLPROC>>[1] = NULLPROC
  BY DEF Init
<1>3. Distinct(readylist) /\ \A p \in Pids : On(p, readylist) <=> p = NULLPROC
  BY <1>2 DEF Distinct, On
<1>4. \A p \in Pids : prstate[p] = IF p = NULLPROC THEN "READY" ELSE IF p = 1 THEN "CURR" ELSE "FREE"
  BY DEF Init
<1>5. Distinct(<<>>) /\ \A p \in Pids : ~On(p, <<>>)
  BY DEF Distinct, On
<1>6. ReadyAgree
  <2>1. currpid = 1
    BY DEF Init
  <2> QED BY <1>1, <1>3, <1>4, <2>1 DEF ReadyAgree
<1>7. SleepAgree
  <2>1. sleepq = <<>>
    BY DEF Init
  <2> QED BY <1>4, <1>5, <2>1 DEF SleepAgree
<1>8. SemAgree
  <2>1. \A s \in Sids : squeue[s] = <<>>
    BY DEF Init
  <2> QED BY <1>4, <1>5, <2>1 DEF SemAgree
<1>9. SomethingToRun
  BY <1>1, <1>4 DEF SomethingToRun
<1>10. SchedTypeOK
  <2>1. prstate \in [Pids -> PrStates]
    BY <1>1 DEF Init, PrStates
  <2>2. readylist \in Seq(Pids)
    BY <1>1, <1>2
  <2>3. DOMAIN qkey = Pids /\ currpid \in Pids /\ attempt \in BOOLEAN
    BY <1>1 DEF Init
  <2>4. preempt \in 1 .. QUANTUM
    BY DEF Init
  <2> QED BY <2>1, <2>2, <2>3, <2>4 DEF SchedTypeOK
<1>11. TabTypeOK
  <2>1. prprio \in [Pids -> Int]
    BY DEF Init
  <2>2. prparent \in [Pids -> Pids]
    BY <1>1 DEF Init
  <2>3. prstkbase \in [Pids -> Stacks \cup {NOSTACK}] /\ stkfree \subseteq Stacks
    BY DEF Init, Stacks
  <2>4. prcount = 2 /\ nextpid = wrap(2, NPROC) /\ halted = FALSE
    BY DEF Init
  <2>5. wrap(2, NPROC) \in Pids
    BY DEF wrap, Pids
  <2>6. prcount \in Int /\ nextpid \in Pids
    BY <2>4, <2>5
  <2>7. halted \in BOOLEAN
    BY <2>4
  <2> QED BY <2>1, <2>2, <2>3, <2>6, <2>7 DEF TabTypeOK
<1>12. MsgTypeOK
  BY <1>1 DEF Init, MsgTypeOK
<1>13. SemTypeOK
  <2>1. 0 \in Sids
    BY DEF Sids
  <2>2. squeue \in [Sids -> Seq(Pids)]
    BY DEF Init
  <2> QED BY <2>1, <2>2 DEF Init, SemTypeOK
<1>14. ClkTypeOK
  BY DEF Init, ClkTypeOK
<1>15. frame = [p \in Pids |-> UserFrame] /\ UserFrame \in FrameRecord /\ UserFrame.op = "user"
  BY DEF Init, UserFrame, Frame, FrameRecord, Ops
<1> HIDE DEF UserFrame
<1>16. FrameTypeOK
  BY <1>15 DEF FrameTypeOK, FrameRecord, SemLoops
<1>17. DeferBalanced
  <2>1. \A p \in Pids : frame[p].op \notin DeferLoops
    BY <1>15 DEF DeferLoops
  <2>2. ndefers = 0 /\ currpid \in Pids
    BY <1>1 DEF Init
  <2> QED BY <2>1, <2>2 DEF DeferBalanced
<1> QED
  BY <1>6, <1>7, <1>8, <1>9, <1>10, <1>11, <1>12, <1>13, <1>14, <1>16, <1>17
  DEF Inv, TypeOK, QueueStateAgree, Init

\* A step that changes nothing.
LEMMA StutterInv == ASSUME Inv, UNCHANGED vars PROVE Inv'
<1>1. UNCHANGED <<schedVars, tabVars, msgVars, semVars, clkVars, ndefers, frame>>
  BY DEF vars
<1>2. SchedDone(0, prstate)
  BY <1>1, SchedIdle
<1>3. SleepAgree' /\ SemAgree'
  BY <1>1, <1>2, InvTypes, SleepKept, SemKept DEF clkVars, semVars
<1>4. TabTypeOK' /\ MsgTypeOK' /\ SemTypeOK' /\ ClkTypeOK' /\ FrameTypeOK'
  BY <1>1, TabSame, MsgSame, SemSame, ClkSame, FrameSame
<1>5. DeferBalanced' /\ ndefers' \in Nat
  BY <1>1 DEF Inv, TypeOK, DeferBalanced, schedVars
<1> QED
  BY <1>2, <1>3, <1>4, <1>5 DEF Inv, TypeOK, QueueStateAgree, SchedDone

\* Every system call preserves the invariant: one step for each.
LEMMA SystemCallInv == ASSUME Inv, SystemCall PROVE Inv'
<1>1. currpid \in Pids
  BY InvSched
<1>2. CASE \E prio \in Prios : create(prio) \/ createFails(prio)
  BY <1>2, CreateInv, CreateFailsInv
<1>3. CASE \E p \in Pids : kill(p)
  BY <1>3, KillInv
<1>4. CASE \E p \in Pids : suspend(p)
  BY <1>4, SuspendInv
<1>5. CASE \E p \in Pids : resume(p)
  BY <1>5, ResumeInv
<1>6. CASE yield
  BY <1>6, YieldInv
<1>7. CASE \E p \in Pids, prio \in NewPrios : chprio(p, prio)
  BY <1>7, ChprioInv
<1>8. CASE \E n \in Counts : semcreate(n)
  BY <1>8, SemcreateInv
<1>9. CASE \E s \in Sids : wait(s)
  BY <1>9, WaitInv
<1>10. CASE \E s \in Sids : signal(s)
  BY <1>10, SignalInv
<1>11. CASE \E s \in Sids, n \in Counts : signaln(s, n)
  BY <1>11, SignalnInv
<1>12. CASE \E s \in Sids : semdelete(s)
  BY <1>12, SemdeleteInv
<1>13. CASE \E s \in Sids, n \in Counts : semreset(s, n)
  BY <1>13, SemresetInv
<1>14. CASE \E p \in Pids, msg \in Msgs : send(p, msg)
  BY <1>14, SendInv
<1>15. CASE receive
  BY <1>15, ReceiveInv
<1>16. CASE recvclr
  BY <1>16, RecvclrInv
<1>17. CASE \E t \in RecvWaits : recvtime(t)
  BY <1>17, RecvtimeInv
<1>18. CASE \E t \in Delays : sleepms(t)
  BY <1>18, SleepmsInv
<1> QED
  BY <1>1, <1>2, <1>3, <1>4, <1>5, <1>6, <1>7, <1>8, <1>9, <1>10, <1>11, <1>12,
     <1>13, <1>14, <1>15, <1>16, <1>17, <1>18 DEF SystemCall

\* Every step of the kernel preserves the invariant.
LEMMA NextInv == Inv /\ [Next]_vars => Inv'
<1> SUFFICES ASSUME Inv, [Next]_vars PROVE Inv'
  OBVIOUS
<1>1. CASE SystemCall
  BY <1>1, SystemCallInv
<1>2. CASE Continue
  BY <1>2, ReceiveEndInv, RecvtimeEndInv, KillEndInv, SignalnLoopInv, SignalnEndInv,
     SemdeleteLoopInv, SemresetLoopInv, WakeupInv, ClkPreemptInv DEF Continue
<1>3. CASE clkhandler
  BY <1>3, ClkhandlerInv
<1>4. CASE halt
  BY <1>4, StutterInv DEF halt
<1>5. CASE UNCHANGED vars
  BY <1>5, StutterInv
<1> QED
  BY <1>1, <1>2, <1>3, <1>4, <1>5 DEF Next

\* The inductive invariant holds in every reachable state of the kernel,
\* whatever the user processes and the clock do.
THEOREM KernelInvariant == Spec => []Inv
<1>1. Init => Inv
  BY InitInv
<1>2. Inv /\ [Next]_vars => Inv'
  BY NextInv
<1> QED
  BY <1>1, <1>2, PTL DEF Spec

\* Type correctness: every kernel variable keeps the type its C declaration
\* gives it, for every size of the tables and every workload.
THEOREM TypeCorrect == Spec => []TypeOK
<1>1. Inv => TypeOK
  BY DEF Inv
<1> QED
  BY <1>1, KernelInvariant, PTL

\* Queues and states agree: getitem() in kill(), suspend() and unsleep()
\* unlinks the process from the queue that it is meant to leave, always.
THEOREM QueuesAgree == Spec => []QueueStateAgree
<1>1. Inv => QueueStateAgree
  BY DEF Inv
<1> QED
  BY <1>1, KernelInvariant, PTL

\* The dequeue(readylist) in resched() never finds the ready list empty.
THEOREM AlwaysSomethingToRun == Spec => []SomethingToRun
<1>1. Inv => SomethingToRun
  BY DEF Inv
<1> QED
  BY <1>1, KernelInvariant, PTL

\* Every DEFER_START is undone by its DEFER_STOP before user code runs again.
THEOREM DeferralBalanced == Spec => []DeferBalanced
<1>1. Inv => DeferBalanced
  BY DEF Inv
<1> QED
  BY <1>1, KernelInvariant, PTL
=============================================================================
