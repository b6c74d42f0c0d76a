---------------------------- MODULE SharedLemmas -----------------------------
(***************************************************************************)
(* Lemmas that the proofs about several components share: sequences, which *)
(* model the queues and lists of the code, and what each semaphore call    *)
(* does to a semaphore as its users see it (module UserSem).               *)
(***************************************************************************)
EXTENDS UserSem, FiniteSets, FiniteSetTheorems, WellFoundedInduction, SequenceTheorems, TLAPS

-----------------------------------------------------------------------------
(* Sequences.                                                              *)

\* A place that is not the one behind the end is one of the sequence.
LEMMA InsidePlace ==
    ASSUME NEW n \in Nat, NEW i \in 1 .. n + 1, i # n + 1
    PROVE  i \in 1 .. n
OBVIOUS

\* A nonempty set of numbers has a least element: what CHOOSE needs in
\* a search from the front.
LEMMA LeastNat ==
    ASSUME NEW S \in SUBSET Nat, S # {}
    PROVE  \E m \in S : \A n \in S : m <= n
<1>1. IsWellFoundedOn(OpToRel(<, Nat), Nat)
  BY NatLessThanWellFounded
<1>2. PICK m \in S : \A n \in S : ~(<<n, m>> \in OpToRel(<, Nat))
  BY <1>1, WFMin
<1>3. \A n \in S : ~(n < m)
  BY <1>2 DEF OpToRel
<1> QED
  BY <1>3

\* The elements of a sequence after a removal, by position.
LEMMA RemoveAtFacts ==
    ASSUME NEW S, NEW q \in Seq(S), NEW i \in 1 .. Len(q)
    PROVE  /\ RemoveAt(q, i) \in Seq(S)
           /\ Len(RemoveAt(q, i)) = Len(q) - 1
           /\ \A j \in 1 .. Len(q) - 1 :
                 RemoveAt(q, i)[j] = IF j < i THEN q[j] ELSE q[j + 1]
<1> DEFINE A == SubSeq(q, 1, i - 1)
           C == SubSeq(q, i + 1, Len(q))
<1>0. Len(q) \in Nat /\ i \in Nat
  OBVIOUS
<1>1. A \in Seq(S) /\ Len(A) = i - 1 /\ \A j \in 1 .. i - 1 : A[j] = q[j]
  BY <1>0, SubSeqProperties
<1>2. C \in Seq(S) /\ Len(C) = Len(q) - i
        /\ \A j \in 1 .. Len(q) - i : C[j] = q[i + j]
  BY <1>0, SubSeqProperties
<1> HIDE DEF A, C
<1>3. /\ A \o C \in Seq(S)
      /\ Len(A \o C) = Len(A) + Len(C)
      /\ \A j \in 1 .. Len(A) + Len(C) :
            (A \o C)[j] = IF j <= Len(A) THEN A[j] ELSE C[j - Len(A)]
  BY <1>1, <1>2, ConcatProperties
<1>4. /\ Len(A \o C) = Len(q) - 1
      /\ \A j \in 1 .. Len(q) - 1 : (A \o C)[j] = IF j < i THEN q[j] ELSE q[j + 1]
  BY <1>0, <1>1, <1>2, <1>3
<1> QED
  BY <1>3, <1>4 DEF RemoveAt, A, C

-----------------------------------------------------------------------------
(* Lists whose elements are all different.                                 *)

NoRepeat(q) == \A i, j \in 1 .. Len(q) : q[i] = q[j] => i = j

\* The operators of the library.
LEMMA ListFacts ==
    ASSUME NEW S, NEW q \in Seq(S)
    PROVE  /\ IsInjective(q) <=> NoRepeat(q)
           /\ \A m : m \in ToSet(q) <=> Contains(q, m)
           /\ \A m : Contains(q, m) => m \in S
<1>1. DOMAIN q = 1 .. Len(q) /\ \A i \in 1 .. Len(q) : q[i] \in S
  OBVIOUS
<1> QED BY <1>1 DEF IsInjective, ToSet, Contains, NoRepeat

\* The first element is taken off.
LEMMA TailList ==
    ASSUME NEW S, NEW q \in Seq(S), q # <<>>, NoRepeat(q)
    PROVE  /\ Tail(q) \in Seq(S) /\ Len(Tail(q)) = Len(q) - 1 /\ Head(q) \in S
           /\ NoRepeat(Tail(q)) /\ Contains(q, Head(q))
           /\ \A m : Contains(Tail(q), m) <=> Contains(q, m) /\ m # Head(q)
<1> DEFINE t == Tail(q)
           h == Head(q)
<1>1. Len(q) \in Nat /\ Len(q) > 0 /\ h = q[1] /\ h \in S /\ 1 \in 1 .. Len(q)
  OBVIOUS
<1>2. t \in Seq(S) /\ Len(t) = Len(q) - 1 /\ \A i \in 1 .. Len(t) : t[i] = q[i + 1]
  BY <1>1
<1> HIDE DEF t, h
<1>3. \A i \in 1 .. Len(t) : i + 1 \in 1 .. Len(q) /\ i + 1 # 1
  BY <1>1, <1>2
<1>4. \A i \in 1 .. Len(q) : i = 1 \/ (i - 1 \in 1 .. Len(t) /\ (i - 1) + 1 = i)
  BY <1>1, <1>2
<1>5. NoRepeat(t)
  <2> SUFFICES ASSUME NEW i \in 1 .. Len(t), NEW j \in 1 .. Len(t), t[i] = t[j] PROVE i = j
    BY DEF NoRepeat
  <2>1. i + 1 = j + 1
    BY <1>2, <1>3 DEF NoRepeat
  <2> QED BY <2>1
<1>6. ASSUME NEW m, Contains(t, m) PROVE Contains(q, m) /\ m # h
  <2>1. PICK i \in 1 .. Len(t) : t[i] = m
    BY <1>6 DEF Contains
  <2>2. i + 1 \in 1 .. Len(q) /\ i + 1 # 1 /\ q[i + 1] = m
    BY <1>2, <1>3, <2>1
  <2> QED BY <1>1, <2>2 DEF Contains, NoRepeat
<1>7. ASSUME NEW m, Contains(q, m), m # h PROVE Contains(t, m)
  <2>1. PICK i \in 1 .. Len(q) : q[i] = m
    BY <1>7 DEF Contains
  <2>2. i - 1 \in 1 .. Len(t) /\ t[i - 1] = m
    BY <1>1, <1>2, <1>4, <1>7, <2>1
  <2> QED BY <2>2 DEF Contains
<1>8. Contains(q, h)
  BY <1>1 DEF Contains
<1> QED BY <1>1, <1>2, <1>5, <1>6, <1>7, <1>8 DEF t, h

\* One element is taken out.
LEMMA RemoveAtList ==
    ASSUME NEW S, NEW q \in Seq(S), NoRepeat(q), NEW n \in 1 .. Len(q)
    PROVE  /\ RemoveAt(q, n) \in Seq(S) /\ Len(RemoveAt(q, n)) = Len(q) - 1
           /\ q[n] \in S /\ Contains(q, q[n]) /\ NoRepeat(RemoveAt(q, n))
           /\ \A m : Contains(RemoveAt(q, n), m) <=> Contains(q, m) /\ m # q[n]
<1> DEFINE t == RemoveAt(q, n)
           f(j) == IF j < n THEN j ELSE j + 1
<1>1. /\ t \in Seq(S) /\ Len(t) = Len(q) - 1
      /\ \A j \in 1 .. Len(q) - 1 : t[j] = IF j < n THEN q[j] ELSE q[j + 1]
  BY RemoveAtFacts
<1>2. Len(q) \in Nat /\ n \in Nat /\ q[n] \in S /\ Contains(q, q[n])
  BY DEF Contains
<1> HIDE DEF t
<1>3. \A j \in 1 .. Len(t) : f(j) \in 1 .. Len(q) /\ f(j) # n /\ t[j] = q[f(j)]
  BY <1>1, <1>2
<1>4. \A i, j \in 1 .. Len(t) : f(i) = f(j) => i = j
  BY <1>1, <1>2
<1>5. ASSUME NEW i \in 1 .. Len(q), i # n PROVE \E j \in 1 .. Len(t) : f(j) = i
  <2>1. CASE i < n
    <3>1. i \in 1 .. Len(t) /\ f(i) = i
      BY <1>1, <1>2, <2>1
    <3> QED BY <3>1
  <2>2. CASE i > n
    <3>1. i - 1 \in 1 .. Len(t) /\ f(i - 1) = i
      BY <1>1, <1>2, <2>2
    <3> QED BY <3>1
  <2> QED BY <1>2, <1>5, <2>1, <2>2
<1> HIDE DEF f
<1>6. NoRepeat(t)
  <2> SUFFICES ASSUME NEW i \in 1 .. Len(t), NEW j \in 1 .. Len(t), t[i] = t[j] PROVE i = j
    BY DEF NoRepeat
  <2>1. f(i) = f(j)
    BY <1>3 DEF NoRepeat
  <2> QED BY <1>4, <2>1
<1>7. ASSUME NEW m, Contains(t, m) PROVE Contains(q, m) /\ m # q[n]
  <2>1. PICK j \in 1 .. Len(t) : t[j] = m
    BY <1>7 DEF Contains
  <2>2. f(j) \in 1 .. Len(q) /\ f(j) # n /\ q[f(j)] = m
    BY <1>3, <2>1
  <2> QED BY <2>2 DEF Contains, NoRepeat
<1>8. ASSUME NEW m, Contains(q, m), m # q[n] PROVE Contains(t, m)
  <2>1. PICK i \in 1 .. Len(q) : q[i] = m
    BY <1>8 DEF Contains
  <2>2. PICK j \in 1 .. Len(t) : f(j) = i
    BY <1>5, <1>8, <2>1
  <2> QED BY <1>3, <2>1, <2>2 DEF Contains
<1> QED BY <1>1, <1>2, <1>6, <1>7, <1>8 DEF t

\* Two lists, one after the other.
LEMMA ConcatList ==
    ASSUME NEW S, NEW q \in Seq(S), NEW r \in Seq(S)
    PROVE  /\ q \o r \in Seq(S) /\ Len(q \o r) = Len(q) + Len(r)
           /\ \A m : Contains(q \o r, m) <=> Contains(q, m) \/ Contains(r, m)
           /\ (NoRepeat(q) /\ NoRepeat(r) /\ \A m : ~(Contains(q, m) /\ Contains(r, m)))
                 => NoRepeat(q \o r)
<1> DEFINE c == q \o r
<1>1. /\ c \in Seq(S) /\ Len(c) = Len(q) + Len(r)
      /\ \A i \in 1 .. Len(q) + Len(r) : c[i] = IF i <= Len(q) THEN q[i] ELSE r[i - Len(q)]
  BY ConcatProperties
<1>2. Len(q) \in Nat /\ Len(r) \in Nat
  OBVIOUS
<1> HIDE DEF c
<1>3. \A i \in 1 .. Len(c) : \/ i \in 1 .. Len(q) /\ c[i] = q[i]
                             \/ i - Len(q) \in 1 .. Len(r) /\ c[i] = r[i - Len(q)]
  BY <1>1, <1>2
<1>4. \A i \in 1 .. Len(q) : i \in 1 .. Len(c) /\ c[i] = q[i]
  BY <1>1, <1>2
<1>5. \A i \in 1 .. Len(r) : i + Len(q) \in 1 .. Len(c) /\ c[i + Len(q)] = r[i]
  BY <1>1, <1>2
<1>6. ASSUME NEW m PROVE Contains(c, m) <=> Contains(q, m) \/ Contains(r, m)
  <2>1. ASSUME Contains(c, m) PROVE Contains(q, m) \/ Contains(r, m)
    BY <1>3, <2>1 DEF Contains
  <2>2. ASSUME Contains(q, m) PROVE Contains(c, m)
    BY <1>4, <2>2 DEF Contains
  <2>3. ASSUME Contains(r, m) PROVE Contains(c, m)
    BY <1>5, <2>3 DEF Contains
  <2> QED BY <2>1, <2>2, <2>3
<1>7. ASSUME NoRepeat(q), NoRepeat(r), \A m : ~(Contains(q, m) /\ Contains(r, m))
      PROVE  NoRepeat(c)
  <2> SUFFICES ASSUME NEW i \in 1 .. Len(c), NEW j \in 1 .. Len(c), c[i] = c[j] PROVE i = j
    BY DEF NoRepeat
  <2>1. CASE i \in 1 .. Len(q) /\ c[i] = q[i] /\ j \in 1 .. Len(q) /\ c[j] = q[j]
    BY <1>7, <2>1 DEF NoRepeat
  <2>2. CASE /\ i - Len(q) \in 1 .. Len(r) /\ c[i] = r[i - Len(q)]
             /\ j - Len(q) \in 1 .. Len(r) /\ c[j] = r[j - Len(q)]
    <3>1. i - Len(q) = j - Len(q)
      BY <1>7, <2>2 DEF NoRepeat
    <3> QED BY <1>2, <3>1
  <2>3. CASE i \in 1 .. Len(q) /\ c[i] = q[i] /\ j - Len(q) \in 1 .. Len(r) /\ c[j] = r[j - Len(q)]
    <3>1. Contains(q, c[i]) /\ Contains(r, c[i])
      BY <2>3 DEF Contains
    <3> QED BY <1>7, <3>1
  <2>4. CASE j \in 1 .. Len(q) /\ c[j] = q[j] /\ i - Len(q) \in 1 .. Len(r) /\ c[i] = r[i - Len(q)]
    <3>1. Contains(q, c[j]) /\ Contains(r, c[j])
      BY <2>4 DEF Contains
    <3> QED BY <1>7, <3>1
  <2> QED BY <1>3, <2>1, <2>2, <2>3, <2>4
<1> QED BY <1>1, <1>6, <1>7 DEF c

\* A list of one element.
LEMMA UnitList ==
    ASSUME NEW S, NEW e \in S
    PROVE  /\ <<e>> \in Seq(S) /\ Len(<<e>>) = 1 /\ NoRepeat(<<e>>)
           /\ \A m : Contains(<<e>>, m) <=> m = e
<1>1. <<e>> \in Seq(S) /\ Len(<<e>>) = 1 /\ <<e>>[1] = e
  OBVIOUS
<1> QED BY <1>1 DEF NoRepeat, Contains

\* An element is put at an end.
LEMMA AppendList ==
    ASSUME NEW S, NEW q \in Seq(S), NEW e \in S
    PROVE  /\ Append(q, e) \in Seq(S) /\ Len(Append(q, e)) = Len(q) + 1
           /\ \A m : Contains(Append(q, e), m) <=> Contains(q, m) \/ m = e
           /\ NoRepeat(q) /\ ~Contains(q, e) => NoRepeat(Append(q, e))
<1>1. Append(q, e) = q \o <<e>>
  OBVIOUS
<1>2. /\ <<e>> \in Seq(S) /\ Len(<<e>>) = 1 /\ NoRepeat(<<e>>)
      /\ \A m : Contains(<<e>>, m) <=> m = e
  BY UnitList
<1>3. /\ q \o <<e>> \in Seq(S) /\ Len(q \o <<e>>) = Len(q) + Len(<<e>>)
      /\ \A m : Contains(q \o <<e>>, m) <=> Contains(q, m) \/ Contains(<<e>>, m)
      /\ (NoRepeat(q) /\ NoRepeat(<<e>>) /\ \A m : ~(Contains(q, m) /\ Contains(<<e>>, m)))
            => NoRepeat(q \o <<e>>)
  BY <1>2, ConcatList
<1> QED BY <1>1, <1>2, <1>3

\* The empty list.
LEMMA EmptyList ==
    NoRepeat(<<>>) /\ Len(<<>>) = 0 /\ (\A m : ~Contains(<<>>, m)) /\ (\A S : <<>> \in Seq(S))
<1>1. Len(<<>>) = 0
  OBVIOUS
<1>2. \A S : <<>> \in Seq(S)
  OBVIOUS
<1> QED BY <1>1, <1>2 DEF NoRepeat, Contains

-----------------------------------------------------------------------------
(* Semaphores: who waits after a call, and how many permits there are for  *)
(* the taking.                                                             *)

\* A semaphore of processes in P: a negative count is the number of processes
\* that wait, all different, and nobody waits otherwise.  One that does not
\* exist is NoSem.
SemSound(s, P) ==
    /\ s \in [used : BOOLEAN, count : Int, queue : Seq(P)]
    /\ \A i, j \in 1 .. Len(s.queue) : s.queue[i] = s.queue[j] => i = j
    /\ Len(s.queue) = IF s.count < 0 THEN -s.count ELSE 0
    /\ ~s.used => s.count = 0

\* The same wait on s and t, but for p.
SameWaiters(s, t, p, P) == \A q \in P \ {p} : waitsOn(q, t) <=> waitsOn(q, s)

\* Who waits, by position.
LEMMA WaitsOnAt ==
    ASSUME NEW P, NEW s, SemSound(s, P), NEW p
    PROVE  waitsOn(p, s) <=> \E i \in 1 .. Len(s.queue) : s.queue[i] = p
<1>1. DOMAIN s.queue = 1 .. Len(s.queue)
  BY DEF SemSound
<1> QED BY <1>1 DEF waitsOn, ToSet

\* The fields of a semaphore that gets a count and a queue.
LEMMA SemFields ==
    ASSUME NEW Q, NEW s \in [used : BOOLEAN, count : Int, queue : Q], NEW c \in Int, NEW q \in Q,
           NEW t, t = [s EXCEPT !.count = c, !.queue = q]
    PROVE  /\ t \in [used : BOOLEAN, count : Int, queue : Q]
           /\ t.count = c /\ t.queue = q /\ t.used = s.used
OBVIOUS

\* Only processes wait, on semaphores with a negative count.
LEMMA WaitsOnProc ==
    ASSUME NEW P, NEW s, SemSound(s, P), NEW p, waitsOn(p, s)
    PROVE  p \in P /\ s.count < 0 /\ s.used /\ available(s) = 0
<1>1. PICK i \in 1 .. Len(s.queue) : s.queue[i] = p
  BY WaitsOnAt
<1>2. s.queue \in Seq(P) /\ s.count \in Int
  BY DEF SemSound
<1>3. s.count < 0
  BY <1>1, <1>2 DEF SemSound
<1> QED BY <1>1, <1>2, <1>3 DEF SemSound, available

\* semcreate(), and semreset() of a semaphore that exists.
LEMMA SemNew ==
    ASSUME NEW P, NEW n \in Nat
    PROVE  SemSound(Sem(n), P) /\ available(Sem(n)) = n /\ Sem(n).used /\ \A q : ~waitsOn(q, Sem(n))
<1>1. SemSound(Sem(n), P)
  BY DEF SemSound, Sem
<1> QED BY <1>1 DEF Sem, available, waitsOn, ToSet

\* A semaphore that does not exist.
LEMMA SemNone ==
    ASSUME NEW P
    PROVE  SemSound(NoSem, P) /\ available(NoSem) = 0 /\ ~NoSem.used /\ \A q : ~waitsOn(q, NoSem)
<1>1. SemSound(NoSem, P)
  BY DEF SemSound, NoSem
<1> QED BY <1>1 DEF NoSem, available, waitsOn, ToSet

\* wait() that does not block.
LEMMA SemPassed ==
    ASSUME NEW P, NEW s, SemSound(s, P), passes(s)
    PROVE  /\ SemSound(passed(s), P) /\ passed(s).used
           /\ available(s) = available(passed(s)) + 1
           /\ available(passed(s)) \in Nat
           /\ \A q : waitsOn(q, passed(s)) <=> waitsOn(q, s)
<1>1. s.count \in Int /\ s.count > 0 /\ s.used
  BY DEF SemSound, passes
<1>2. /\ passed(s) \in [used : BOOLEAN, count : Int, queue : Seq(P)]
      /\ passed(s).count = s.count - 1 /\ passed(s).queue = s.queue /\ passed(s).used = s.used
  BY DEF SemSound, passed
<1> HIDE DEF passed
<1> QED BY <1>1, <1>2 DEF SemSound, available, waitsOn

\* wait() that blocks.
LEMMA SemBlocked ==
    ASSUME NEW P, NEW s, SemSound(s, P), blocks(s), NEW p \in P, ~waitsOn(p, s)
    PROVE  /\ SemSound(blocked(s, p), P) /\ blocked(s, p).used
           /\ available(s) = 0 /\ available(blocked(s, p)) = 0
           /\ waitsOn(p, blocked(s, p)) /\ SameWaiters(s, blocked(s, p), p, P)
<1> DEFINE t == blocked(s, p)
<1>1. s.count \in Int /\ s.count <= 0 /\ s.used /\ s.queue \in Seq(P) /\ Len(s.queue) \in Nat
  BY DEF SemSound, blocks
<1>2. /\ t \in [used : BOOLEAN, count : Int, queue : Seq(P)]
      /\ t.count = s.count - 1 /\ t.queue = Append(s.queue, p) /\ t.used = s.used
  <2> DEFINE c == s.count - 1
             r == Append(s.queue, p)
  <2>1. c \in Int /\ r \in Seq(P) /\ s \in [used : BOOLEAN, count : Int, queue : Seq(P)]
    BY <1>1 DEF SemSound
  <2>2. t = [s EXCEPT !.count = c, !.queue = r]
    BY DEF blocked
  <2> HIDE DEF c, r, t
  <2>3. /\ t \in [used : BOOLEAN, count : Int, queue : Seq(P)]
        /\ t.count = c /\ t.queue = r /\ t.used = s.used
    BY <2>1, <2>2, SemFields
  <2> QED BY <2>3 DEF c, r
<1> HIDE DEF t
<1>3. /\ Len(t.queue) = Len(s.queue) + 1 /\ t.queue[Len(s.queue) + 1] = p
      /\ \A i \in 1 .. Len(s.queue) : t.queue[i] = s.queue[i]
  BY <1>1, <1>2
<1>4. \A i \in 1 .. Len(s.queue) : s.queue[i] # p
  BY WaitsOnAt
<1>5. \A i, j \in 1 .. Len(t.queue) : t.queue[i] = t.queue[j] => i = j
  <2> SUFFICES ASSUME NEW i \in 1 .. Len(t.queue), NEW j \in 1 .. Len(t.queue), t.queue[i] = t.queue[j]
               PROVE  i = j
    OBVIOUS
  <2>1. /\ i = Len(s.queue) + 1 \/ i \in 1 .. Len(s.queue)
        /\ j = Len(s.queue) + 1 \/ j \in 1 .. Len(s.queue)
    BY <1>1, <1>3
  <2> QED BY <1>3, <1>4, <2>1 DEF SemSound
<1>6. Len(t.queue) = -t.count /\ t.count < 0
  BY <1>1, <1>2, <1>3 DEF SemSound
<1>7. SemSound(t, P)
  BY <1>1, <1>2, <1>5, <1>6 DEF SemSound
<1>8. \A q : waitsOn(q, t) <=> \E i \in 1 .. Len(t.queue) : t.queue[i] = q
  BY <1>7, WaitsOnAt
<1>9. \A q : waitsOn(q, s) <=> \E i \in 1 .. Len(s.queue) : s.queue[i] = q
  BY WaitsOnAt
<1>10. waitsOn(p, t)
  <2>1. Len(s.queue) + 1 \in 1 .. Len(t.queue)
    BY <1>1, <1>3
  <2> QED BY <1>3, <1>8, <2>1
<1>11. SameWaiters(s, t, p, P)
  <2>1. \A i \in 1 .. Len(t.queue) : i \in 1 .. Len(s.queue) \/ t.queue[i] = p
    BY <1>1, <1>3
  <2>2. \A i \in 1 .. Len(s.queue) : i \in 1 .. Len(t.queue)
    BY <1>1, <1>3
  <2> QED BY <1>3, <1>8, <1>9, <2>1, <2>2 DEF SameWaiters
<1>12. available(s) = 0 /\ available(t) = 0
  BY <1>1, <1>2, <1>6 DEF available
<1> QED BY <1>1, <1>2, <1>7, <1>10, <1>11, <1>12 DEF t

\* signal() when nobody waits.
LEMMA SemSignaled ==
    ASSUME NEW P, NEW s, SemSound(s, P), s.used, s.count >= 0
    PROVE  /\ SemSound(signaled(s), P) /\ signaled(s).used
           /\ available(signaled(s)) = available(s) + 1
           /\ \A q : waitsOn(q, signaled(s)) <=> waitsOn(q, s)
<1>1. s.count \in Int /\ ~(s.count < 0)
  BY DEF SemSound
<1>2. /\ signaled(s) \in [used : BOOLEAN, count : Int, queue : Seq(P)]
      /\ signaled(s).count = s.count + 1 /\ signaled(s).queue = s.queue /\ signaled(s).used = s.used
  <2> DEFINE c == s.count + 1
             r == s.queue
             t == signaled(s)
  <2>1. c \in Int /\ r \in Seq(P) /\ s \in [used : BOOLEAN, count : Int, queue : Seq(P)]
    BY <1>1 DEF SemSound
  <2>2. t = [s EXCEPT !.count = c, !.queue = r]
    BY <1>1 DEF signaled
  <2> HIDE DEF c, r, t
  <2>3. /\ t \in [used : BOOLEAN, count : Int, queue : Seq(P)]
        /\ t.count = c /\ t.queue = r /\ t.used = s.used
    BY <2>1, <2>2, SemFields
  <2> QED BY <2>3 DEF c, r, t
<1> HIDE DEF signaled
<1> QED BY <1>1, <1>2 DEF SemSound, available, waitsOn

\* signal() when somebody does: the first in the queue is let go.
LEMMA SemSignaledFirst ==
    ASSUME NEW P, NEW s, SemSound(s, P), s.used, s.count < 0
    PROVE  /\ SemSound(signaled(s), P) /\ signaled(s).used
           /\ available(signaled(s)) = 0 /\ available(s) = 0
           /\ \E p \in P : waitsOn(p, s) /\ ~waitsOn(p, signaled(s)) /\ SameWaiters(s, signaled(s), p, P)
<1> DEFINE t == signaled(s)
           p == s.queue[1]
<1>1. /\ s.count \in Int /\ s.queue \in Seq(P) /\ Len(s.queue) \in Nat
      /\ Len(s.queue) = -s.count /\ Len(s.queue) > 0 /\ s.queue # <<>>
  BY DEF SemSound
<1>2. /\ t \in [used : BOOLEAN, count : Int, queue : Seq(P)]
      /\ t.count = s.count + 1 /\ t.queue = Tail(s.queue) /\ t.used = s.used
  <2> DEFINE c == s.count + 1
             r == Tail(s.queue)
  <2>1. c \in Int /\ r \in Seq(P) /\ s \in [used : BOOLEAN, count : Int, queue : Seq(P)]
    BY <1>1 DEF SemSound
  <2>2. t = [s EXCEPT !.count = c, !.queue = r]
    BY DEF signaled
  <2> HIDE DEF c, r, t
  <2>3. /\ t \in [used : BOOLEAN, count : Int, queue : Seq(P)]
        /\ t.count = c /\ t.queue = r /\ t.used = s.used
    BY <2>1, <2>2, SemFields
  <2> QED BY <2>3 DEF c, r
<1> HIDE DEF t
<1>3. Len(t.queue) = Len(s.queue) - 1 /\ \A i \in 1 .. Len(t.queue) : t.queue[i] = s.queue[i + 1]
  BY <1>1, <1>2
<1>4. \A i \in 1 .. Len(t.queue) : i + 1 \in 1 .. Len(s.queue) /\ i + 1 # 1
  BY <1>1, <1>3
<1>5. \A i, j \in 1 .. Len(t.queue) : t.queue[i] = t.queue[j] => i = j
  <2> SUFFICES ASSUME NEW i \in 1 .. Len(t.queue), NEW j \in 1 .. Len(t.queue), t.queue[i] = t.queue[j]
               PROVE  i = j
    OBVIOUS
  <2>1. i + 1 = j + 1
    BY <1>3, <1>4 DEF SemSound
  <2> QED BY <2>1
<1>6. Len(t.queue) = IF t.count < 0 THEN -t.count ELSE 0
  BY <1>1, <1>2, <1>3
<1>7. SemSound(t, P)
  BY <1>2, <1>5, <1>6 DEF SemSound
<1>8. \A q : waitsOn(q, t) <=> \E i \in 1 .. Len(t.queue) : t.queue[i] = q
  BY <1>7, WaitsOnAt
<1>9. \A q : waitsOn(q, s) <=> \E i \in 1 .. Len(s.queue) : s.queue[i] = q
  BY WaitsOnAt
<1>10. p \in P /\ 1 \in 1 .. Len(s.queue) /\ waitsOn(p, s)
  BY <1>1, <1>9
<1>11. ~waitsOn(p, t)
  <2>1. ASSUME NEW i \in 1 .. Len(t.queue) PROVE t.queue[i] # p
    <3>1. i + 1 \in 1 .. Len(s.queue) /\ i + 1 # 1 /\ t.queue[i] = s.queue[i + 1]
      BY <1>3, <1>4
    <3> QED BY <1>10, <3>1 DEF SemSound
  <2> QED BY <1>8, <2>1
<1>12. SameWaiters(s, t, p, P)
  <2> HIDE DEF p
  <2>1. \A i \in 1 .. Len(s.queue) : s.queue[i] = p \/ (i - 1 \in 1 .. Len(t.queue) /\ (i - 1) + 1 = i)
    <3> SUFFICES ASSUME NEW i \in 1 .. Len(s.queue)
                 PROVE  s.queue[i] = p \/ (i - 1 \in 1 .. Len(t.queue) /\ (i - 1) + 1 = i)
      OBVIOUS
    <3>1. CASE i = 1
      BY <3>1 DEF p
    <3>2. CASE i # 1
      <4>1. i - 1 \in 1 .. Len(s.queue) - 1 /\ (i - 1) + 1 = i
        BY <1>1, <3>2
      <4>2. Len(t.queue) = Len(s.queue) - 1
        BY <1>3
      <4> QED BY <4>1, <4>2
    <3> QED BY <3>1, <3>2
  <2> SUFFICES ASSUME NEW q \in P \ {p} PROVE waitsOn(q, t) <=> waitsOn(q, s)
    BY DEF SameWaiters
  <2>2. ASSUME waitsOn(q, t) PROVE waitsOn(q, s)
    BY <1>3, <1>4, <1>8, <1>9, <2>2
  <2>3. ASSUME waitsOn(q, s) PROVE waitsOn(q, t)
    <3>1. PICK i \in 1 .. Len(s.queue) : s.queue[i] = q
      BY <1>9, <2>3
    <3>2. i - 1 \in 1 .. Len(t.queue) /\ t.queue[i - 1] = q
      BY <1>3, <2>1, <3>1
    <3> QED BY <1>8, <3>2
  <2> QED BY <2>2, <2>3
<1>13. available(t) = 0 /\ available(s) = 0
  BY <1>1, <1>2 DEF available
<1> QED BY <1>2, <1>7, <1>10, <1>11, <1>12, <1>13 DEF t

\* The first m elements of a list whose elements are all different.
LEMMA FirstOfList ==
    ASSUME NEW S, NEW q \in Seq(S), NoRepeat(q), NEW m \in 0 .. Len(q),
           NEW R, \A x : x \in R <=> \E i \in 1 .. m : q[i] = x
    PROVE  IsFiniteSet(R) /\ Cardinality(R) = m
<1> DEFINE f == [i \in 1 .. m |-> q[i]]
<1>1. \A i, j \in 1 .. m : f[i] = f[j] => i = j
  <2>1. \A i \in 1 .. m : i \in 1 .. Len(q) /\ f[i] = q[i]
    OBVIOUS
  <2> QED BY <2>1 DEF NoRepeat
<1>2. f \in [1 .. m -> R] /\ \A r \in R : \E i \in 1 .. m : f[i] = r
  OBVIOUS
<1> HIDE DEF f
<1>3. f \in Bijection(1 .. m, R)
  BY <1>1, <1>2 DEF Bijection, Injection, IsInjective, Surjection
<1>4. IsFiniteSet(1 .. m) /\ Cardinality(1 .. m) = m
  BY FS_Interval
<1>5. ExistsBijection(1 .. m, R)
  BY <1>3 DEF ExistsBijection
<1> QED BY <1>4, <1>5, FS_Bijection

\* R are the processes that n signals let go, which lead from s to t.
Released(s, t, n, R, P) ==
    /\ IsFiniteSet(R) /\ Cardinality(R) \in Nat
    /\ \A p \in R : p \in P /\ waitsOn(p, s)
    /\ \A p : waitsOn(p, t) <=> waitsOn(p, s) /\ p \notin R
    /\ available(t) + Cardinality(R) = available(s) + n

\* signaln(): the first processes of the queue are let go.
LEMMA SemSignaledN ==
    ASSUME NEW P, NEW s, SemSound(s, P), s.used, NEW n \in Nat
    PROVE  /\ SemSound(signaledN(s, n), P) /\ signaledN(s, n).used
           /\ \E R : Released(s, signaledN(s, n), n, R, P)
<1> DEFINE t == signaledN(s, n)
           m == IF Len(s.queue) <= n THEN Len(s.queue) ELSE n
           r == IF Len(s.queue) <= n THEN <<>> ELSE SubSeq(s.queue, n + 1, Len(s.queue))
           R == {s.queue[i] : i \in 1 .. m}
           c == s.count + n
<1>1. /\ s.count \in Int /\ s.queue \in Seq(P) /\ Len(s.queue) \in Nat /\ NoRepeat(s.queue)
      /\ Len(s.queue) = IF s.count < 0 THEN -s.count ELSE 0
      /\ s \in [used : BOOLEAN, count : Int, queue : Seq(P)]
  BY DEF SemSound, NoRepeat
<1>2. /\ r \in Seq(P) /\ m \in 0 .. Len(s.queue) /\ Len(r) = Len(s.queue) - m
      /\ \A i \in 1 .. Len(r) : i + m \in 1 .. Len(s.queue) /\ r[i] = s.queue[i + m]
  <2>1. CASE Len(s.queue) <= n
    BY <1>1, <2>1
  <2>2. CASE ~(Len(s.queue) <= n)
    <3>1. r = SubSeq(s.queue, n + 1, Len(s.queue)) /\ m = n
      BY <2>2
    <3>2. n + 1 \in 1 .. Len(s.queue) /\ Len(s.queue) \in 1 .. Len(s.queue)
      BY <1>1, <2>2
    <3> HIDE DEF r, m
    <3> QED BY <1>1, <3>1, <3>2
  <2> QED BY <2>1, <2>2
<1>3. t = [s EXCEPT !.count = c, !.queue = r] /\ c \in Int
  BY <1>1 DEF signaledN
<1>4. c < 0 => m = n /\ Len(r) = -c
  BY <1>1, <1>2
<1>5. c >= 0 => Len(r) = 0 /\ (s.count < 0 => m = -s.count) /\ (s.count >= 0 => m = 0)
  BY <1>1
<1> HIDE DEF t, r, m, c
<1>6. /\ t \in [used : BOOLEAN, count : Int, queue : Seq(P)]
      /\ t.count = c /\ t.queue = r /\ t.used = s.used
  BY <1>1, <1>2, <1>3, SemFields
<1>7. \A i, j \in 1 .. Len(r) : r[i] = r[j] => i = j
  <2> SUFFICES ASSUME NEW i \in 1 .. Len(r), NEW j \in 1 .. Len(r), r[i] = r[j] PROVE i = j
    OBVIOUS
  <2>1. i + m = j + m
    BY <1>1, <1>2 DEF NoRepeat
  <2> QED BY <1>2, <2>1
<1>8. Len(r) = IF c < 0 THEN -c ELSE 0
  BY <1>3, <1>4, <1>5
<1>9. SemSound(t, P)
  BY <1>6, <1>7, <1>8 DEF SemSound
<1>10. IsFiniteSet(R) /\ Cardinality(R) = m
  <2>1. m \in 0 .. Len(s.queue) /\ \A x : x \in R <=> \E i \in 1 .. m : s.queue[i] = x
    BY <1>2
  <2> HIDE DEF R
  <2> QED BY <1>1, <2>1, FirstOfList
<1>11. \A q : waitsOn(q, s) <=> \E i \in 1 .. Len(s.queue) : s.queue[i] = q
  BY WaitsOnAt
<1>12. \A q : waitsOn(q, t) <=> \E i \in 1 .. Len(r) : r[i] = q
  BY <1>6, <1>9, WaitsOnAt
<1>13. \A q \in R : q \in P /\ waitsOn(q, s)
  BY <1>1, <1>2, <1>11
<1>14. ASSUME NEW q, waitsOn(q, t) PROVE waitsOn(q, s) /\ q \notin R
  <2>1. PICK i \in 1 .. Len(r) : r[i] = q
    BY <1>12, <1>14
  <2>2. i + m \in 1 .. Len(s.queue) /\ s.queue[i + m] = q
    BY <1>2, <2>1
  <2>3. \A j \in 1 .. m : j \in 1 .. Len(s.queue) /\ j # i + m
    BY <1>2, <2>1
  <2>4. q \notin R
    BY <2>2, <2>3, <1>1 DEF NoRepeat
  <2> QED BY <1>11, <2>2, <2>4
<1>15. ASSUME NEW q, waitsOn(q, s), q \notin R PROVE waitsOn(q, t)
  <2>1. PICK i \in 1 .. Len(s.queue) : s.queue[i] = q
    BY <1>11, <1>15
  <2>2. ~(i \in 1 .. m)
    BY <1>15, <2>1
  <2>3. i - m \in 1 .. Len(r) /\ (i - m) + m = i
    BY <1>2, <2>2
  <2>4. r[i - m] = q
    BY <1>2, <2>1, <2>3
  <2> QED BY <1>12, <2>3, <2>4
<1>16. available(t) + m = available(s) + n
  <2>1. available(t) = IF c > 0 THEN c ELSE 0
    BY <1>6 DEF available
  <2>2. available(s) = IF s.count > 0 THEN s.count ELSE 0
    BY DEF available
  <2> QED BY <1>1, <1>3, <1>4, <1>5, <2>1, <2>2 DEF c
<1> QED
  <2> HIDE DEF R
  <2>1. m \in Nat /\ t.used
    BY <1>1, <1>2, <1>6
  <2>2. Released(s, t, n, R, P)
    BY <1>10, <1>13, <1>14, <1>15, <1>16, <2>1 DEF Released
  <2> QED BY <1>9, <2>1, <2>2 DEF t

\* kill() of a process that waits.
LEMMA SemAbandoned ==
    ASSUME NEW P, NEW s, SemSound(s, P), NEW p, waitsOn(p, s)
    PROVE  /\ SemSound(abandoned(s, p), P) /\ abandoned(s, p).used
           /\ available(abandoned(s, p)) = 0 /\ available(s) = 0
           /\ ~waitsOn(p, abandoned(s, p)) /\ SameWaiters(s, abandoned(s, p), p, P)
<1> DEFINE t == abandoned(s, p)
           n == CHOOSE i \in 1 .. Len(s.queue) : s.queue[i] = p
<1>1. p \in P /\ s.count < 0 /\ s.used /\ available(s) = 0
  BY WaitsOnProc
<1>2. /\ s.count \in Int /\ s.queue \in Seq(P) /\ Len(s.queue) \in Nat /\ Len(s.queue) = -s.count
      /\ DOMAIN s = {"used", "count", "queue"} /\ s.used \in BOOLEAN
  BY <1>1 DEF SemSound
<1>3. n \in 1 .. Len(s.queue) /\ s.queue[n] = p
  BY WaitsOnAt
<1>4. t.count = s.count + 1 /\ t.queue = RemoveAt(s.queue, n) /\ t.used = s.used
  BY <1>2 DEF abandoned
<1>5. /\ RemoveAt(s.queue, n) \in Seq(P)
      /\ Len(RemoveAt(s.queue, n)) = Len(s.queue) - 1
      /\ \A j \in 1 .. Len(s.queue) - 1 :
            RemoveAt(s.queue, n)[j] = IF j < n THEN s.queue[j] ELSE s.queue[j + 1]
  <2> HIDE DEF n
  <2> QED BY <1>2, <1>3, RemoveAtFacts
<1>6. t \in [used : BOOLEAN, count : Int, queue : Seq(P)]
  <2> DEFINE r == RemoveAt(s.queue, n)
  <2>1. r \in Seq(P) /\ t = [s EXCEPT !.count = s.count + 1, !.queue = r]
    BY <1>5 DEF abandoned
  <2>2. s \in [used : BOOLEAN, count : Int, queue : Seq(P)] /\ s.count + 1 \in Int
    BY <1>2 DEF SemSound
  <2> HIDE DEF r, t
  <2> QED BY <2>1, <2>2, SemFields
<1> HIDE DEF t, n
<1>7. \A i \in 1 .. Len(t.queue) : t.queue[i] = IF i < n THEN s.queue[i] ELSE s.queue[i + 1]
  BY <1>4, <1>5
<1>8. Len(t.queue) = Len(s.queue) - 1
  BY <1>4, <1>5
<1> DEFINE f(i) == IF i < n THEN i ELSE i + 1
<1>9. \A i \in 1 .. Len(t.queue) : f(i) \in 1 .. Len(s.queue) /\ f(i) # n /\ t.queue[i] = s.queue[f(i)]
  BY <1>2, <1>3, <1>7, <1>8
<1>10. \A i, j \in 1 .. Len(t.queue) : f(i) = f(j) => i = j
  BY <1>2, <1>3, <1>8
<1>11. \A i \in 1 .. Len(s.queue) : i # n => \E j \in 1 .. Len(t.queue) : f(j) = i
  <2> SUFFICES ASSUME NEW i \in 1 .. Len(s.queue), i # n PROVE \E j \in 1 .. Len(t.queue) : f(j) = i
    OBVIOUS
  <2>1. CASE i < n
    <3>1. i \in 1 .. Len(t.queue) /\ f(i) = i
      BY <1>2, <1>3, <1>8, <2>1
    <3> QED BY <3>1
  <2>2. CASE i > n
    <3>1. i - 1 \in 1 .. Len(t.queue) /\ f(i - 1) = i
      BY <1>2, <1>3, <1>8, <2>2
    <3> QED BY <3>1
  <2> QED BY <1>2, <1>3, <2>1, <2>2
<1> HIDE DEF f
<1>12. \A i, j \in 1 .. Len(t.queue) : t.queue[i] = t.queue[j] => i = j
  BY SMTT(30), <1>9, <1>10 DEF SemSound
<1>13. Len(t.queue) = IF t.count < 0 THEN -t.count ELSE 0
  BY <1>1, <1>2, <1>4, <1>8
<1>14. SemSound(t, P)
  BY <1>1, <1>4, <1>6, <1>12, <1>13 DEF SemSound
<1>15. \A q : waitsOn(q, t) <=> \E i \in 1 .. Len(t.queue) : t.queue[i] = q
  BY <1>14, WaitsOnAt
<1>16. \A q : waitsOn(q, s) <=> \E i \in 1 .. Len(s.queue) : s.queue[i] = q
  BY WaitsOnAt
<1>17. ~waitsOn(p, t)
  BY <1>3, <1>9, <1>15 DEF SemSound
<1>18. SameWaiters(s, t, p, P)
  <2> SUFFICES ASSUME NEW q \in P \ {p} PROVE waitsOn(q, t) <=> waitsOn(q, s)
    BY DEF SameWaiters
  <2>1. ASSUME waitsOn(q, t) PROVE waitsOn(q, s)
    BY <1>9, <1>15, <1>16, <2>1
  <2>2. ASSUME waitsOn(q, s) PROVE waitsOn(q, t)
    <3>1. PICK i \in 1 .. Len(s.queue) : s.queue[i] = q
      BY <1>16, <2>2
    <3>2. PICK j \in 1 .. Len(t.queue) : f(j) = i
      BY <1>3, <1>11, <3>1
    <3> QED BY <1>9, <1>15, <3>1, <3>2
  <2> QED BY <2>1, <2>2
<1>19. available(t) = 0
  BY <1>1, <1>2, <1>4 DEF available
<1> QED BY <1>1, <1>4, <1>14, <1>17, <1>18, <1>19 DEF t

-----------------------------------------------------------------------------
(* Permits, counting those that were given to processes which have not run *)
(* since.                                                                  *)

\* Of the processes W that called wait(s), the ones that were let go.
letGo(s, W) == {p \in W : ~waitsOn(p, s)}

\* Permits to go past wait(s).
permits(s, W) == available(s) + Cardinality(letGo(s, W))

\* A semaphore on which nobody waits but processes in W.
SemOf(s, P, W) ==
    SemSound(s, P) /\ W \subseteq P /\ \A p \in P : waitsOn(p, s) => p \in W

\* One process more or less.
LEMMA CardPlus ==
    ASSUME NEW S, NEW T, NEW p, IsFiniteSet(S), p \notin S, T = S \cup {p}
    PROVE  Cardinality(T) = Cardinality(S) + 1
BY FS_AddElement

\* Permits are numbers.
LEMMA PermitsNat ==
    ASSUME NEW P, IsFiniteSet(P), NEW s, NEW W, SemOf(s, P, W)
    PROVE  /\ available(s) \in Nat /\ IsFiniteSet(letGo(s, W)) /\ Cardinality(letGo(s, W)) \in Nat
           /\ permits(s, W) \in Nat
<1> DEFINE S == letGo(s, W)
<1>1. S \subseteq P
  BY DEF SemOf, letGo
<1> HIDE DEF S
<1>2. IsFiniteSet(S) /\ Cardinality(S) \in Nat
  BY <1>1, FS_Subset, FS_CardinalityType
<1>3. available(s) \in Nat
  BY DEF SemOf, SemSound, available
<1> QED BY <1>2, <1>3 DEF S, permits

\* A semaphore nobody has called wait() on.
LEMMA PermitsNew ==
    ASSUME NEW P, NEW s, SemSound(s, P), \A p \in P : ~waitsOn(p, s)
    PROVE  SemOf(s, P, {}) /\ permits(s, {}) = available(s)
<1>1. letGo(s, {}) = {} /\ Cardinality({}) = 0
  BY FS_EmptySet DEF letGo
<1>2. available(s) \in Nat
  BY DEF SemSound, available
<1> QED BY <1>1, <1>2 DEF SemOf, permits

\* wait() that does not block takes a permit.
LEMMA PermitsPassed ==
    ASSUME NEW P, IsFiniteSet(P), NEW s, NEW W, SemOf(s, P, W), passes(s)
    PROVE  /\ SemOf(passed(s), P, W) /\ passed(s).used
           /\ permits(s, W) = permits(passed(s), W) + 1
<1>1. /\ SemSound(passed(s), P) /\ passed(s).used
      /\ available(s) = available(passed(s)) + 1 /\ available(passed(s)) \in Nat
      /\ \A q : waitsOn(q, passed(s)) <=> waitsOn(q, s)
  BY SemPassed DEF SemOf
<1> DEFINE t == passed(s)
<1> HIDE DEF t
<1>2. letGo(t, W) = letGo(s, W)
  BY <1>1 DEF letGo, t
<1>3. SemOf(t, P, W)
  BY <1>1 DEF SemOf, t
<1>4. Cardinality(letGo(s, W)) \in Nat
  BY PermitsNat
<1>5. permits(s, W) = permits(t, W) + 1
  BY <1>1, <1>2, <1>4 DEF permits, t
<1> QED BY <1>1, <1>3, <1>5 DEF t

\* wait() that blocks leaves the permits alone.
LEMMA PermitsBlocked ==
    ASSUME NEW P, IsFiniteSet(P), NEW s, NEW W, SemOf(s, P, W), blocks(s), NEW p \in P \ W
    PROVE  /\ SemOf(blocked(s, p), P, W \cup {p}) /\ blocked(s, p).used
           /\ permits(blocked(s, p), W \cup {p}) = permits(s, W)
<1> DEFINE t == blocked(s, p)
<1>1. /\ SemSound(t, P) /\ t.used /\ available(s) = 0 /\ available(t) = 0
      /\ waitsOn(p, t) /\ SameWaiters(s, t, p, P)
  BY SemBlocked DEF SemOf
<1> HIDE DEF t
<1>2. letGo(t, W \cup {p}) = letGo(s, W)
  BY <1>1 DEF letGo, SemOf, SameWaiters
<1>3. SemOf(t, P, W \cup {p})
  BY <1>1 DEF SemOf, SameWaiters
<1> QED BY <1>1, <1>2, <1>3 DEF permits, t

\* signal() adds a permit, which the first that waits gets.
LEMMA PermitsSignaled ==
    ASSUME NEW P, IsFiniteSet(P), NEW s, NEW W, SemOf(s, P, W), s.used
    PROVE  /\ SemOf(signaled(s), P, W) /\ signaled(s).used
           /\ permits(signaled(s), W) = permits(s, W) + 1
<1> DEFINE t == signaled(s)
<1>0. /\ s.count \in Int /\ available(s) \in Nat /\ Cardinality(letGo(s, W)) \in Nat
      /\ IsFiniteSet(letGo(s, W))
  BY PermitsNat DEF SemOf, SemSound
<1>1. CASE s.count >= 0
  <2>1. /\ SemSound(t, P) /\ t.used /\ available(t) = available(s) + 1
        /\ \A q : waitsOn(q, t) <=> waitsOn(q, s)
    BY <1>1, SemSignaled DEF SemOf
  <2> HIDE DEF t
  <2>2. letGo(t, W) = letGo(s, W) /\ SemOf(t, P, W)
    BY <2>1 DEF letGo, SemOf
  <2>3. permits(t, W) = permits(s, W) + 1
    BY <1>0, <2>1, <2>2 DEF permits
  <2> QED BY <2>1, <2>2, <2>3 DEF t
<1>2. CASE s.count < 0
  <2>1. /\ SemSound(t, P) /\ t.used /\ available(t) = 0 /\ available(s) = 0
        /\ \E q \in P : waitsOn(q, s) /\ ~waitsOn(q, t) /\ SameWaiters(s, t, q, P)
    BY <1>2, SemSignaledFirst DEF SemOf
  <2>2. PICK q \in P : waitsOn(q, s) /\ ~waitsOn(q, t) /\ SameWaiters(s, t, q, P)
    BY <2>1
  <2> HIDE DEF t
  <2>3. q \in W /\ q \notin letGo(s, W) /\ letGo(t, W) = letGo(s, W) \cup {q}
    BY <2>2 DEF letGo, SemOf, SameWaiters
  <2>4. Cardinality(letGo(t, W)) = Cardinality(letGo(s, W)) + 1
    BY <1>0, <2>3, CardPlus
  <2>5. SemOf(t, P, W)
    BY <2>1, <2>2, <2>3 DEF SemOf, SameWaiters
  <2>6. permits(t, W) = permits(s, W) + 1
    BY <1>0, <2>1, <2>4 DEF permits
  <2> QED BY <2>1, <2>5, <2>6 DEF t
<1> QED BY <1>0, <1>1, <1>2

\* semreset() to one less when nobody waits takes a permit.
LEMMA PermitsLess ==
    ASSUME NEW P, IsFiniteSet(P), NEW s, NEW W, SemOf(s, P, W), s.used, s.count - 1 >= 0
    PROVE  LET t == reset(s, s.count - 1) IN
              SemOf(t, P, W) /\ t.used /\ permits(s, W) = permits(t, W) + 1
<1> DEFINE t == reset(s, s.count - 1)
<1>1. s.count \in Int /\ s.count > 0 /\ s.count - 1 \in Nat /\ SemSound(s, P)
  BY DEF SemOf, SemSound
<1>2. t = Sem(s.count - 1)
  BY DEF reset
<1>3. /\ SemSound(t, P) /\ available(t) = s.count - 1 /\ t.used /\ \A q : ~waitsOn(q, t)
  BY <1>1, <1>2, SemNew
<1>4. available(s) = s.count /\ \A q : ~waitsOn(q, s)
  BY <1>1, WaitsOnProc DEF available
<1> HIDE DEF t
<1>5. letGo(t, W) = letGo(s, W) /\ SemOf(t, P, W)
  BY <1>3, <1>4 DEF letGo, SemOf
<1>6. Cardinality(letGo(s, W)) \in Nat
  BY PermitsNat
<1>7. permits(s, W) = permits(t, W) + 1
  BY <1>1, <1>3, <1>4, <1>5, <1>6 DEF permits
<1> QED BY <1>3, <1>5, <1>7 DEF t

\* A process that was let go goes on.
LEMMA PermitsTaken ==
    ASSUME NEW P, IsFiniteSet(P), NEW s, NEW W, SemOf(s, P, W), NEW p \in W, ~waitsOn(p, s)
    PROVE  SemOf(s, P, W \ {p}) /\ permits(s, W) = permits(s, W \ {p}) + 1
<1>1. SemOf(s, P, W \ {p})
  BY DEF SemOf
<1>2. p \notin letGo(s, W \ {p}) /\ letGo(s, W) = letGo(s, W \ {p}) \cup {p}
  BY DEF letGo
<1>3. available(s) \in Nat /\ IsFiniteSet(letGo(s, W \ {p})) /\ Cardinality(letGo(s, W \ {p})) \in Nat
  BY <1>1, PermitsNat
<1>4. Cardinality(letGo(s, W)) = Cardinality(letGo(s, W \ {p})) + 1
  BY <1>2, <1>3, CardPlus
<1> QED BY <1>1, <1>3, <1>4 DEF permits

\* A process that called wait() is killed: what it was given is lost.
LEMMA PermitsAbandoned ==
    ASSUME NEW P, IsFiniteSet(P), NEW s, NEW W, SemOf(s, P, W), NEW p \in P,
           NEW t, t = IF waitsOn(p, s) THEN abandoned(s, p) ELSE s
    PROVE  /\ SemOf(t, P, W \ {p}) /\ t.used = s.used
           /\ permits(t, W \ {p}) <= permits(s, W)
<1>0. SemSound(s, P)
  BY DEF SemOf
<1>1. /\ SemSound(t, P) /\ t.used = s.used /\ available(t) = available(s)
      /\ ~waitsOn(p, t) /\ SameWaiters(s, t, p, P)
  <2>1. CASE waitsOn(p, s)
    <3>1. s.used
      BY <1>0, <2>1, WaitsOnProc
    <3>2. t = abandoned(s, p)
      BY <2>1
    <3>3. t.used \in BOOLEAN /\ s.used \in BOOLEAN
      BY SMTT(30), <1>0, <2>1, <3>2, SemAbandoned DEF SemSound
    <3> QED BY <1>0, <2>1, <3>1, <3>2, <3>3, SemAbandoned
  <2>2. CASE ~waitsOn(p, s)
    BY <1>0, <2>2 DEF SameWaiters
  <2> QED BY <2>1, <2>2
<1>2. SemOf(t, P, W \ {p})
  BY <1>1 DEF SemOf, SameWaiters
<1>3. letGo(t, W \ {p}) \subseteq letGo(s, W)
  BY <1>1 DEF letGo, SemOf, SameWaiters
<1>4. /\ IsFiniteSet(letGo(s, W)) /\ Cardinality(letGo(s, W)) \in Nat /\ available(s) \in Nat
      /\ Cardinality(letGo(t, W \ {p})) \in Nat
  BY <1>2, PermitsNat
<1>5. Cardinality(letGo(t, W \ {p})) <= Cardinality(letGo(s, W))
  BY <1>3, <1>4, FS_Subset
<1> QED BY <1>1, <1>2, <1>4, <1>5 DEF permits

\* signaln() adds its permits, which the first that wait get.
LEMMA PermitsSignaledN ==
    ASSUME NEW P, IsFiniteSet(P), NEW s, NEW W, SemOf(s, P, W), s.used, NEW n \in Nat
    PROVE  /\ SemOf(signaledN(s, n), P, W) /\ signaledN(s, n).used
           /\ permits(signaledN(s, n), W) = permits(s, W) + n
<1>1. SemSound(s, P) /\ W \subseteq P /\ \A q \in P : waitsOn(q, s) => q \in W
  BY DEF SemOf
<1>2. SemSound(signaledN(s, n), P) /\ signaledN(s, n).used
  BY <1>1, SemSignaledN
<1>3. PICK R : Released(s, signaledN(s, n), n, R, P)
  BY <1>1, SemSignaledN
<1> DEFINE t == signaledN(s, n)
<1> HIDE DEF t
<1>9. /\ SemSound(t, P) /\ t.used
      /\ \A p : waitsOn(p, t) <=> waitsOn(p, s) /\ p \notin R
      /\ available(t) + Cardinality(R) = available(s) + n
  BY <1>2, <1>3 DEF t, Released
<1>4. SemOf(t, P, W)
  BY <1>1, <1>9 DEF SemOf
<1>5. letGo(t, W) = letGo(s, W) \cup R /\ letGo(s, W) \cap R = {}
  BY <1>1, <1>3, <1>9 DEF letGo, Released
<1>6. /\ IsFiniteSet(letGo(s, W)) /\ Cardinality(letGo(s, W)) \in Nat
      /\ available(s) \in Nat /\ available(t) \in Nat
  BY <1>4, PermitsNat
<1>7. Cardinality(letGo(t, W)) = Cardinality(letGo(s, W)) + Cardinality(R)
  BY <1>3, <1>5, <1>6, FS_Union, FS_EmptySet DEF Released
<1>8. permits(t, W) = permits(s, W) + n
  BY <1>3, <1>6, <1>7, <1>9 DEF permits, Released
<1> QED BY <1>4, <1>8, <1>9 DEF t

\* wait() by p, which goes on now or later: a permit is taken when it does.
LEMMA PermitsWait ==
    ASSUME NEW P, IsFiniteSet(P), NEW s, NEW W, SemOf(s, P, W), s.used, NEW p \in P \ W,
           NEW t, t = IF passes(s) THEN passed(s) ELSE blocked(s, p)
    PROVE  /\ SemOf(t, P, W \cup {p}) /\ t.used
           /\ permits(t, W \cup {p}) = permits(s, W)
<1>1. CASE passes(s)
  <2>1. SemOf(t, P, W) /\ t.used /\ permits(s, W) = permits(t, W) + 1
    BY <1>1, PermitsPassed
  <2>2. SemOf(t, P, W \cup {p}) /\ ~waitsOn(p, t) /\ (W \cup {p}) \ {p} = W
    BY <2>1 DEF SemOf
  <2>3. permits(t, W \cup {p}) = permits(t, W) + 1
    BY <2>2, PermitsTaken, p \in W \cup {p}
  <2> QED BY <2>1, <2>2, <2>3
<1>2. CASE ~passes(s)
  <2>1. blocks(s) /\ t = blocked(s, p)
    BY <1>2 DEF passes, blocks, SemOf, SemSound
  <2> QED BY <2>1, PermitsBlocked
<1> QED BY <1>1, <1>2
=============================================================================
