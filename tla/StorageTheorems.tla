--------------------------- MODULE StorageTheorems ----------------------------
(***************************************************************************)
(* The memory manager, for every heap, block size and set of requests that *)
(* can be rounded up: the free list and the callers share the heap         *)
(* exactly.                                                                *)
(*                                                                         *)
(* Buffer pools, for every number of pools, buffers and processes: a       *)
(* process that gets past the wait() of getbuf() finds a buffer, although  *)
(* getbuf() does not look at the result, and nobody else has that buffer.  *)
(***************************************************************************)
EXTENDS Memory, BufPool, SharedLemmas

-----------------------------------------------------------------------------
(* Memory: rounding.                                                       *)

\* What a quotient is.
LEMMA DivFacts ==
    ASSUME NEW a \in Nat, NEW m \in Nat \ {0}
    PROVE  a \div m \in Nat /\ m * (a \div m) <= a /\ a < m * (a \div m) + m
OBVIOUS

\* A multiple of m that is not 0 is at least m away from it.
LEMMA MultipleFacts ==
    ASSUME NEW m \in Nat \ {0}, NEW k \in Int
    PROVE  m * k \in Int /\ (k >= 1 => m * k >= m) /\ (k <= -1 => m * k <= -m)
OBVIOUS

\* A quotient is determined by the interval its dividend is in.
LEMMA DivIs ==
    ASSUME NEW a \in Nat, NEW m \in Nat \ {0}, NEW q \in Nat, m * q <= a, a < m * q + m
    PROVE  a \div m = q
<1> DEFINE d == a \div m
           k == d - q
<1>1. d \in Nat /\ m * d <= a /\ a < m * d + m
  BY DivFacts
<1> HIDE DEF d
<1>2. k \in Int /\ m * k = m * d - m * q
  BY <1>1
<1>3. m * k < m /\ m * k > -m
  BY <1>1, <1>2
<1>4. ~(k >= 1) /\ ~(k <= -1)
  BY <1>2, <1>3, MultipleFacts
<1> QED BY <1>1, <1>4 DEF d

\* roundmb(n) is a multiple of MB and at least n, where the addition does not
\* wrap around.
LEMMA RoundUp ==
    ASSUME NEW n \in Nat, n + MB - 1 < U32
    PROVE  roundmb(n) \in Nat /\ n <= roundmb(n) /\ \E q \in Nat : roundmb(n) = MB * q
<1> DEFINE a == n + MB - 1
           q == a \div MB
<1>1. a \in Nat /\ a % U32 = a /\ MB \in Nat \ {0}
  BY HeapAssumption
<1> HIDE DEF a
<1>2. q \in Nat /\ MB * q <= a /\ a < MB * q + MB
  BY <1>1, DivFacts
<1>3. roundmb(n) = q * MB
  BY <1>1 DEF roundmb, a
<1> HIDE DEF q
<1>4. q * MB = MB * q /\ MB * q \in Nat
  BY <1>1, <1>2
<1>5. n <= MB * q
  BY <1>1, <1>2, <1>4 DEF a
<1>6. roundmb(n) = MB * q
  BY <1>3, <1>4
<1> QED BY <1>2, <1>4, <1>5, <1>6

\* A size that was rounded up is not rounded any further.
LEMMA RoundTwice ==
    ASSUME NEW r \in Nat, r + MB - 1 < U32, NEW q \in Nat, r = MB * q
    PROVE  roundmb(r) = r
<1> DEFINE a == r + MB - 1
<1>1. a \in Nat /\ a % U32 = a /\ MB \in Nat \ {0} /\ MB * q <= a /\ a < MB * q + MB
  BY HeapAssumption
<1> HIDE DEF a
<1>2. a \div MB = q
  BY <1>1, DivIs
<1>3. roundmb(r) = q * MB
  BY <1>1, <1>2 DEF roundmb, a
<1> QED BY <1>1, <1>3

-----------------------------------------------------------------------------
(* Memory: free lists.                                                     *)

Blocks == [addr : Int, len : Int]

\* Address a is in block b; it is in a block of list L.
In(b, a) == b.addr <= a /\ a < top(b)
Covers(L, a) == \E i \in 1 .. Len(L) : In(L[i], a)

\* Block b is not empty and lies in the heap.
Placed(b) == b \in Blocks /\ b.len > 0 /\ minheap <= b.addr /\ top(b) <= maxheap

\* The blocks are in order, and there is a gap between any two.
Ordered(L) ==
    /\ L \in Seq(Blocks)
    /\ \A i \in 1 .. Len(L) : Placed(L[i])
    /\ \A i, j \in 1 .. Len(L) : i < j => top(L[i]) < L[j].addr

\* A block of the model.
LEMMA BlockFacts ==
    ASSUME NEW addr \in Int, NEW len \in Int
    PROVE  /\ Block(addr, len) \in Blocks /\ Block(addr, len).addr = addr
           /\ Block(addr, len).len = len /\ top(Block(addr, len)) = addr + len
BY DEF Block, Blocks, top

\* The end of a block.
LEMMA TopFacts ==
    ASSUME NEW b \in Blocks
    PROVE  b.addr \in Int /\ b.len \in Int /\ top(b) \in Int /\ top(b) = b.addr + b.len
BY DEF Blocks, top

\* The list with everything between places lo and hi replaced by one block.
splice(L, lo, c, hi) == SubSeq(L, 1, lo) \o << c >> \o SubSeq(L, hi, Len(L))

\* The places of the elements of such a list N.
SplicedAt(N, L, lo, c, hi, d) ==
    /\ Len(N) = Len(L) - d
    /\ \A i \in 1 .. lo : N[i] = L[i]
    /\ N[lo + 1] = c
    /\ \A i \in lo + 2 .. Len(L) - d : i + d \in hi .. Len(L) /\ N[i] = L[i + d]

\* The elements of a spliced list, by position.
LEMMA SpliceFacts ==
    ASSUME NEW S, NEW L \in Seq(S), NEW lo \in Nat, NEW hi \in Nat, lo < hi, hi <= Len(L) + 1,
           NEW c \in S
    PROVE  /\ splice(L, lo, c, hi) \in Seq(S)
           /\ SplicedAt(splice(L, lo, c, hi), L, lo, c, hi, hi - lo - 2)
<1> DEFINE A == SubSeq(L, 1, lo)
           C == SubSeq(L, hi, Len(L))
           m == Len(L)
           d == hi - lo - 2
<1>1. m \in Nat /\ d \in Int /\ m - d = (lo + 1) + (m - hi + 1)
  OBVIOUS
<1>2. A \in Seq(S) /\ Len(A) = lo /\ \A j \in 1 .. lo : A[j] = L[j]
  BY SubSeqProperties
<1>3. C \in Seq(S) /\ Len(C) = m - hi + 1 /\ \A j \in 1 .. m - hi + 1 : C[j] = L[hi + j - 1]
  BY SubSeqProperties
<1>4. <<c>> \in Seq(S) /\ Len(<<c>>) = 1 /\ <<c>>[1] = c
  OBVIOUS
<1> HIDE DEF A, C, m
<1> DEFINE B == A \o <<c>>
<1>5. B \in Seq(S) /\ Len(B) = lo + 1 /\ (\A j \in 1 .. lo : B[j] = L[j]) /\ B[lo + 1] = c
  <2>1. /\ B \in Seq(S) /\ Len(B) = Len(A) + Len(<<c>>)
        /\ \A j \in 1 .. Len(A) + Len(<<c>>) : B[j] = IF j <= Len(A) THEN A[j] ELSE <<c>>[j - Len(A)]
    BY <1>2, <1>4, ConcatProperties
  <2> HIDE DEF B
  <2>2. B \in Seq(S) /\ Len(B) = lo + 1
    BY <1>2, <1>4, <2>1
  <2>3. ASSUME NEW j \in 1 .. lo PROVE B[j] = L[j]
    <3>1. j \in 1 .. Len(A) + Len(<<c>>) /\ j <= Len(A)
      BY <1>2, <1>4
    <3> QED BY <1>2, <2>1, <3>1
  <2>4. B[lo + 1] = c
    <3>1. lo + 1 \in 1 .. Len(A) + Len(<<c>>) /\ ~(lo + 1 <= Len(A)) /\ lo + 1 - Len(A) = 1
      BY <1>2, <1>4
    <3> QED BY <1>4, <2>1, <3>1
  <2> QED BY <2>2, <2>3, <2>4
<1> DEFINE N == B \o C
<1> HIDE DEF B
<1>6. /\ N \in Seq(S) /\ Len(N) = Len(B) + Len(C)
      /\ \A j \in 1 .. Len(B) + Len(C) : N[j] = IF j <= Len(B) THEN B[j] ELSE C[j - Len(B)]
  BY <1>3, <1>5, ConcatProperties
<1> HIDE DEF N
<1>7. N \in Seq(S) /\ Len(N) = m - d
  <2>1. Len(N) = (lo + 1) + (m - hi + 1)
    BY <1>3, <1>5, <1>6
  <2> QED BY <1>1, <1>6, <2>1
<1>8. (\A i \in 1 .. lo : N[i] = L[i]) /\ N[lo + 1] = c
  <2>1. Len(C) \in Nat
    BY <1>1, <1>3 DEF m
  <2>2. \A i \in 1 .. lo + 1 : i \in 1 .. Len(B) + Len(C) /\ i <= Len(B)
    BY <1>5, <2>1
  <2>3. \A i \in 1 .. lo + 1 : N[i] = B[i]
    BY <1>6, <2>2
  <2>4. lo + 1 \in 1 .. lo + 1 /\ \A i \in 1 .. lo : i \in 1 .. lo + 1
    OBVIOUS
  <2> QED BY <1>5, <2>3, <2>4
<1>9. ASSUME NEW i \in lo + 2 .. m - d PROVE i + d \in hi .. m /\ N[i] = L[i + d]
  <2>1. i \in 1 .. Len(B) + Len(C) /\ ~(i <= Len(B)) /\ i - Len(B) \in 1 .. m - hi + 1
    BY <1>1, <1>3, <1>5, <1>9
  <2>2. N[i] = C[i - Len(B)]
    BY <1>6, <2>1
  <2>3. C[i - Len(B)] = L[hi + (i - Len(B)) - 1] /\ hi + (i - Len(B)) - 1 = i + d
    BY <1>3, <1>5, <2>1
  <2> QED BY <1>1, <1>9, <2>2, <2>3
<1>10. N = splice(L, lo, c, hi)
  BY DEF N, B, A, C, m, splice
<1>11. SplicedAt(N, L, lo, c, hi, d)
  BY <1>7, <1>8, <1>9 DEF SplicedAt, m
<1> QED BY <1>7, <1>10, <1>11

\* A block that fits between its neighbours can take the place of the blocks
\* between them.
LEMMA SpliceOrdered ==
    ASSUME NEW L, Ordered(L), NEW lo \in Nat, NEW hi \in Nat, lo < hi, hi <= Len(L) + 1,
           NEW c, Placed(c),
           lo > 0 => top(L[lo]) < c.addr,
           hi <= Len(L) => top(c) < L[hi].addr
    PROVE  /\ Ordered(splice(L, lo, c, hi))
           /\ \A a : Covers(splice(L, lo, c, hi), a) <=>
                        \/ In(c, a)
                        \/ \E i \in 1 .. lo : In(L[i], a)
                        \/ \E i \in hi .. Len(L) : In(L[i], a)
<1> DEFINE N == splice(L, lo, c, hi)
           d == hi - lo - 2
           m == Len(L)
<1>1. L \in Seq(Blocks) /\ m \in Nat /\ c \in Blocks /\ d \in Int
  BY DEF Ordered, Placed
<1>2. /\ N \in Seq(Blocks) /\ Len(N) = m - d
      /\ \A i \in 1 .. lo : N[i] = L[i]
      /\ N[lo + 1] = c
      /\ \A i \in lo + 2 .. m - d : i + d \in hi .. m /\ N[i] = L[i + d]
  <2>1. N \in Seq(Blocks) /\ SplicedAt(N, L, lo, c, hi, d)
    BY <1>1, SpliceFacts
  <2> HIDE DEF N, d
  <2> QED BY <2>1 DEF SplicedAt
<1> HIDE DEF N, m
<1>3. \A i \in 1 .. m - d : i \in 1 .. lo \/ i = lo + 1 \/ i \in lo + 2 .. m - d
  BY <1>1
<1>4. \A i \in 1 .. m : Placed(L[i]) /\ L[i].addr \in Int /\ top(L[i]) \in Int /\ L[i].addr < top(L[i])
  BY SMTT(30), TopFacts DEF Ordered, Placed, m
<1>5. \A i, j \in 1 .. m : i < j => top(L[i]) < L[j].addr
  BY DEF Ordered, m
<1>6. c.addr \in Int /\ top(c) \in Int /\ c.addr < top(c)
  BY <1>1, TopFacts DEF Placed
<1>7. \A i \in 1 .. lo : i \in 1 .. m /\ top(L[i]) < c.addr
  <2> SUFFICES ASSUME NEW i \in 1 .. lo PROVE i \in 1 .. m /\ top(L[i]) < c.addr
    OBVIOUS
  <2>1. i \in 1 .. m /\ lo \in 1 .. m /\ lo > 0
    BY <1>1 DEF m
  <2>2. i = lo \/ top(L[i]) < L[lo].addr
    BY <1>5, <2>1
  <2>3. L[lo].addr < top(L[lo]) /\ L[lo].addr \in Int /\ top(L[lo]) \in Int /\ top(L[i]) \in Int
    BY <1>4, <2>1
  <2> QED BY <1>6, <2>1, <2>2, <2>3
<1>8. \A i \in hi .. m : i \in 1 .. m /\ top(c) < L[i].addr
  <2> SUFFICES ASSUME NEW i \in hi .. m PROVE i \in 1 .. m /\ top(c) < L[i].addr
    OBVIOUS
  <2>1. i \in 1 .. m /\ hi \in 1 .. m /\ hi <= Len(L)
    BY <1>1 DEF m
  <2>2. i = hi \/ top(L[hi]) < L[i].addr
    BY <1>5, <2>1
  <2>3. L[hi].addr < top(L[hi]) /\ L[hi].addr \in Int /\ top(L[hi]) \in Int /\ L[i].addr \in Int
    BY <1>4, <2>1
  <2> QED BY <1>6, <2>1, <2>2, <2>3
<1>9. \A i \in 1 .. Len(N) : Placed(N[i])
  BY <1>2, <1>3, <1>4, <1>7, <1>8
<1>10. ASSUME NEW i \in 1 .. Len(N), NEW j \in 1 .. Len(N), i < j
       PROVE  top(N[i]) < N[j].addr
  <2>1. CASE i \in 1 .. lo /\ j \in 1 .. lo
    BY <1>2, <1>5, <1>7, <1>10, <2>1
  <2>2. CASE i \in 1 .. lo /\ j = lo + 1
    BY <1>2, <1>7, <2>2
  <2>3. CASE i \in 1 .. lo /\ j \in lo + 2 .. m - d
    <3>1. N[i] = L[i] /\ N[j] = L[j + d] /\ i \in 1 .. m /\ j + d \in 1 .. m /\ i < j + d
      BY <1>1, <1>2, <1>7, <1>8, <2>3
    <3> QED BY <1>5, <3>1
  <2>4. CASE i = lo + 1 /\ j \in lo + 2 .. m - d
    <3>1. N[i] = c /\ N[j] = L[j + d] /\ j + d \in hi .. m
      BY <1>2, <2>4
    <3> QED BY <1>8, <3>1
  <2>5. CASE i \in lo + 2 .. m - d /\ j \in lo + 2 .. m - d
    <3>1. N[i] = L[i + d] /\ N[j] = L[j + d] /\ i + d \in hi .. m /\ j + d \in hi .. m /\ i + d < j + d
      BY <1>1, <1>2, <1>10, <2>5
    <3>2. i + d \in 1 .. m /\ j + d \in 1 .. m
      BY <1>8, <3>1
    <3> QED BY <1>5, <3>1, <3>2
  <2> QED BY <1>2, <1>3, <1>10, <2>1, <2>2, <2>3, <2>4, <2>5
<1>11. Ordered(N)
  BY <1>2, <1>9, <1>10 DEF Ordered
<1>12. ASSUME NEW a
       PROVE  Covers(N, a) <=> \/ In(c, a)
                               \/ \E i \in 1 .. lo : In(L[i], a)
                               \/ \E i \in hi .. m : In(L[i], a)
  <2>1. ASSUME Covers(N, a)
        PROVE  In(c, a) \/ (\E i \in 1 .. lo : In(L[i], a)) \/ \E i \in hi .. m : In(L[i], a)
    BY <1>2, <1>3, <2>1 DEF Covers
  <2>2. lo + 1 \in 1 .. Len(N) /\ \A i \in 1 .. lo : i \in 1 .. Len(N)
    BY SMTT(30), <1>1, <1>2 DEF m
  <2>3. ASSUME NEW i \in hi .. m PROVE \E j \in 1 .. Len(N) : N[j] = L[i]
    <3>1. i - d \in lo + 2 .. m - d /\ (i - d) + d = i /\ i - d \in 1 .. Len(N)
      BY <1>1, <1>2 DEF m
    <3>2. N[i - d] = L[i]
      BY <1>2, <3>1
    <3> QED BY <3>1, <3>2
  <2>4. ASSUME In(c, a) \/ (\E i \in 1 .. lo : In(L[i], a)) \/ \E i \in hi .. m : In(L[i], a)
        PROVE  Covers(N, a)
    BY <1>2, <2>2, <2>3, <2>4 DEF Covers
  <2> QED BY <2>1, <2>4
<1> QED BY <1>11, <1>12 DEF N, m

\* No address is in two blocks of the list.
LEMMA OneBlock ==
    ASSUME NEW L, Ordered(L), NEW i \in 1 .. Len(L), NEW j \in 1 .. Len(L), NEW a \in Int,
           In(L[i], a), In(L[j], a)
    PROVE  i = j
<1>1. /\ L[i].addr \in Int /\ top(L[i]) \in Int /\ L[j].addr \in Int /\ top(L[j]) \in Int
      /\ Len(L) \in Nat
  BY TopFacts DEF Ordered, Placed
<1>2. ~(i < j) /\ ~(j < i)
  BY <1>1 DEF Ordered, In
<1> QED BY <1>1, <1>2

\* What getmem() and getstk() leave of the list.
LEMMA CutFacts ==
    ASSUME Ordered(memlist), NEW i \in 1 .. Len(memlist), NEW rest \in Blocks, rest.len >= 0,
           memlist[i].addr <= rest.addr, top(rest) <= top(memlist[i])
    PROVE  /\ Ordered(cut(i, rest))
           /\ \A a \in Int : Covers(cut(i, rest), a) <=>
                   (Covers(memlist, a) /\ ~In(memlist[i], a)) \/ In(rest, a)
<1> DEFINE L == memlist
           m == Len(memlist)
           N == cut(i, rest)
<1>1. L \in Seq(Blocks) /\ m \in Nat /\ i \in 1 .. m
  BY DEF Ordered
<1>2. rest.addr \in Int /\ rest.len \in Int /\ top(rest) \in Int /\ top(rest) = rest.addr + rest.len
  BY TopFacts
<1>3. \A j \in 1 .. m : /\ Placed(L[j]) /\ L[j].addr \in Int /\ top(L[j]) \in Int
                        /\ L[j].addr < top(L[j])
  BY SMTT(30), TopFacts DEF Ordered, Placed
<1>4. \A j, k \in 1 .. m : j < k => top(L[j]) < L[k].addr
  BY DEF Ordered
<1>5. CASE rest.len = 0
  <2>1. N = RemoveAt(memlist, i)
    BY <1>5 DEF cut
  <2>2. /\ N \in Seq(Blocks) /\ Len(N) = m - 1
        /\ \A j \in 1 .. m - 1 : N[j] = IF j < i THEN L[j] ELSE L[j + 1]
    BY <1>1, <2>1, RemoveAtFacts
  <2> HIDE DEF N, L, m
  <2> DEFINE f(j) == IF j < i THEN j ELSE j + 1
  <2>3. \A j \in 1 .. Len(N) : f(j) \in 1 .. m /\ f(j) # i /\ N[j] = L[f(j)]
    BY SMTT(30), <1>1, <2>2
  <2>4. \A j, k \in 1 .. Len(N) : j < k => f(j) < f(k)
    BY <1>1, <2>2
  <2>5. \A k \in 1 .. m : k # i => \E j \in 1 .. Len(N) : f(j) = k
    <3> SUFFICES ASSUME NEW k \in 1 .. m, k # i PROVE \E j \in 1 .. Len(N) : f(j) = k
      OBVIOUS
    <3>1. CASE k < i
      <4>1. k \in 1 .. Len(N) /\ f(k) = k
        BY <1>1, <2>2, <3>1
      <4> QED BY <4>1
    <3>2. CASE k > i
      <4>1. k - 1 \in 1 .. Len(N) /\ f(k - 1) = k
        BY <1>1, <2>2, <3>2
      <4> QED BY <4>1
    <3> QED BY <1>1, <3>1, <3>2
  <2> HIDE DEF f
  <2>6. Ordered(N)
    <3>1. \A j \in 1 .. Len(N) : Placed(N[j])
      BY <1>3, <2>3
    <3>2. \A j, k \in 1 .. Len(N) : j < k => top(N[j]) < N[k].addr
      BY <1>4, <2>3, <2>4
    <3> QED BY <2>2, <3>1, <3>2 DEF Ordered
  <2>7. ASSUME NEW a \in Int
        PROVE  Covers(N, a) <=> (Covers(L, a) /\ ~In(L[i], a)) \/ In(rest, a)
    <3>1. ~In(rest, a)
      BY <1>2, <1>5 DEF In
    <3>2. ASSUME Covers(N, a) PROVE Covers(L, a) /\ ~In(L[i], a)
      <4>1. PICK j \in 1 .. Len(N) : In(N[j], a)
        BY <3>2 DEF Covers
      <4>2. f(j) \in 1 .. m /\ f(j) # i /\ In(L[f(j)], a)
        BY <2>3, <4>1
      <4>3. ~In(L[i], a)
        BY <1>1, <4>2, OneBlock DEF L, m
      <4> QED BY <4>2, <4>3 DEF Covers, m, L
    <3>3. ASSUME Covers(L, a), ~In(L[i], a) PROVE Covers(N, a)
      <4>1. PICK k \in 1 .. m : In(L[k], a) /\ k # i
        BY <3>3 DEF Covers, m, L
      <4>2. PICK j \in 1 .. Len(N) : f(j) = k
        BY <2>5, <4>1
      <4> QED BY <2>3, <4>1, <4>2 DEF Covers
    <3> QED BY <3>1, <3>2, <3>3
  <2> QED BY <2>6, <2>7 DEF N, L
<1>6. CASE rest.len # 0
  <2>1. N = [memlist EXCEPT ![i] = rest]
    BY <1>6 DEF cut
  <2>2. /\ N \in Seq(Blocks) /\ Len(N) = m /\ N[i] = rest
        /\ \A j \in 1 .. m : j # i => N[j] = L[j]
    BY <1>1, <2>1
  <2> HIDE DEF N, L, m
  <2>3. Placed(rest) /\ L[i].addr <= rest.addr /\ top(rest) <= top(L[i]) /\ Placed(L[i])
    <3>1. L[i].addr <= rest.addr /\ top(rest) <= top(L[i])
      BY DEF L
    <3>2. Placed(L[i]) /\ L[i].addr \in Int /\ top(L[i]) \in Int
      BY <1>1, <1>3
    <3> QED BY <1>2, <1>6, <3>1, <3>2, HeapAssumption DEF Placed
  <2>4. ASSUME NEW j \in 1 .. m, NEW k \in 1 .. m, j < k PROVE top(N[j]) < N[k].addr
    <3>1. top(L[j]) < L[k].addr /\ top(L[j]) \in Int /\ L[k].addr \in Int
      BY <1>3, <1>4, <2>4
    <3>2. (j = i /\ k # i) \/ (j # i /\ k = i) \/ (j # i /\ k # i)
      BY <1>1, <2>4
    <3>3. CASE j = i /\ k # i
      BY <1>2, <2>2, <2>3, <3>1, <3>3
    <3>4. CASE j # i /\ k = i
      BY <1>2, <2>2, <2>3, <3>1, <3>4
    <3>5. CASE j # i /\ k # i
      BY <2>2, <3>1, <3>5
    <3> QED BY <3>2, <3>3, <3>4, <3>5
  <2>5. \A j \in 1 .. m : Placed(N[j])
    BY <1>3, <2>2, <2>3
  <2>6. Ordered(N)
    BY <2>2, <2>4, <2>5 DEF Ordered
  <2>7. ASSUME NEW a \in Int
        PROVE  Covers(N, a) <=> (Covers(L, a) /\ ~In(L[i], a)) \/ In(rest, a)
    <3>1. ASSUME Covers(N, a) PROVE (Covers(L, a) /\ ~In(L[i], a)) \/ In(rest, a)
      <4>1. PICK j \in 1 .. m : In(N[j], a)
        BY <2>2, <3>1 DEF Covers
      <4>2. CASE j = i
        BY <2>2, <4>1, <4>2
      <4>3. CASE j # i
        <5>1. In(L[j], a)
          BY <2>2, <4>1, <4>3
        <5>2. ~In(L[i], a)
          BY <1>1, <4>3, <5>1, OneBlock DEF L, m
        <5> QED BY <5>1, <5>2 DEF Covers, m, L
      <4> QED BY <4>2, <4>3
    <3>2. ASSUME Covers(L, a), ~In(L[i], a) PROVE Covers(N, a)
      <4>1. PICK j \in 1 .. m : In(L[j], a) /\ j # i
        BY <3>2 DEF Covers, m, L
      <4> QED BY <2>2, <4>1 DEF Covers
    <3>3. ASSUME In(rest, a) PROVE Covers(N, a)
      BY <1>1, <2>2, <3>3 DEF Covers
    <3> QED BY <3>1, <3>2, <3>3
  <2> QED BY <2>6, <2>7 DEF N, L
<1> QED BY <1>5, <1>6

\* freemem() stops in front of the first block that is not below addr.
LEMMA WalkFacts ==
    ASSUME Ordered(memlist), NEW addr \in Int
    PROVE  /\ walk(addr) \in 0 .. Len(memlist)
           /\ walk(addr) = Len(memlist) \/ memlist[walk(addr) + 1].addr >= addr
           /\ \A j \in 1 .. walk(addr) : memlist[j].addr < addr
<1> DEFINE m == Len(memlist)
           S == {k \in Nat : k <= m /\ (k = m \/ memlist[k + 1].addr >= addr)}
           P(k) == /\ k = m \/ memlist[k + 1].addr >= addr
                   /\ \A j \in 1 .. k : memlist[j].addr < addr
<1>1. m \in Nat /\ \A j \in 1 .. m : memlist[j].addr \in Int
  BY TopFacts DEF Ordered, Placed
<1> HIDE DEF m
<1>2. m \in S /\ S \in SUBSET Nat
  BY <1>1
<1>3. PICK k \in S : \A n \in S : k <= n
  BY <1>2, LeastNat
<1>4. k \in 0 .. m /\ (k = m \/ memlist[k + 1].addr >= addr)
  BY <1>1
<1>5. ASSUME NEW j \in 1 .. k PROVE memlist[j].addr < addr
  <2>1. j - 1 \in Nat /\ j - 1 < k /\ j - 1 <= m /\ j - 1 # m /\ j \in 1 .. m /\ (j - 1) + 1 = j
    BY <1>1, <1>4
  <2>2. j - 1 \notin S
    BY <1>1, <1>3, <1>4, <2>1
  <2>3. ~(memlist[j].addr >= addr)
    BY <2>1, <2>2
  <2> QED BY <1>1, <2>1, <2>3
<1>6. \E n \in 0 .. m : P(n)
  BY <1>4, <1>5
<1>7. walk(addr) = CHOOSE n \in 0 .. m : P(n)
  BY DEF walk, m
<1> HIDE DEF P
<1>8. walk(addr) \in 0 .. m /\ P(walk(addr))
  BY <1>6, <1>7
<1> QED BY <1>8 DEF P, m

\* What freemem() makes of the list: exactly the bytes of b are added to it, and
\* b is merged with the blocks it touches.
LEMMA CoalesceFacts ==
    ASSUME Ordered(memlist), NEW b, Placed(b), NEW k \in 0 .. Len(memlist), ~overlaps(b, k)
    PROVE  /\ Ordered(coalesce(b, k))
           /\ \A a \in Int : Covers(coalesce(b, k), a) <=> Covers(memlist, a) \/ In(b, a)
<1> DEFINE L == memlist
           m == Len(memlist)
           withPrev == k > 0 /\ top(L[k]) = b.addr
           withNext == k < m /\ top(b) = L[k + 1].addr
           first == IF withPrev THEN L[k].addr ELSE b.addr
           last == IF withNext THEN top(L[k + 1]) ELSE top(b)
           lo == IF withPrev THEN k - 1 ELSE k
           hi == IF withNext THEN k + 2 ELSE k + 1
           c == Block(first, last - first)
           N == splice(L, lo, c, hi)
<1>1. coalesce(b, k) = N
  BY DEF coalesce, splice
<1>2. L \in Seq(Blocks) /\ m \in Nat /\ k \in 0 .. m /\ Ordered(L) /\ m = Len(L)
  BY DEF Ordered
<1>3. \A j \in 1 .. m : /\ Placed(L[j]) /\ L[j].addr \in Int /\ top(L[j]) \in Int
                        /\ L[j].addr < top(L[j]) /\ minheap <= L[j].addr /\ top(L[j]) <= maxheap
  BY SMTT(30), TopFacts DEF Ordered, Placed
<1>4. \A i, j \in 1 .. m : i < j => top(L[i]) < L[j].addr
  BY DEF Ordered
<1>5. b.addr \in Int /\ top(b) \in Int /\ b.addr < top(b) /\ minheap <= b.addr /\ top(b) <= maxheap
  BY TopFacts DEF Placed
<1>6. (k > 0 => b.addr >= top(L[k])) /\ (k < m => top(b) <= L[k + 1].addr)
  <2>1. ~(k > 0 /\ b.addr < top(L[k])) /\ ~(k < m /\ top(b) > L[k + 1].addr)
    BY DEF overlaps
  <2>2. (k > 0 => k \in 1 .. m) /\ (k < m => k + 1 \in 1 .. m)
    BY <1>2
  <2> QED BY <1>3, <1>5, <2>1, <2>2
<1> HIDE DEF L, m, N
<1>7. (k > 0 => k \in 1 .. m) /\ (k < m => k + 1 \in 1 .. m) /\ k \in Nat
  BY <1>2
<1>8. first \in Int /\ last \in Int /\ first < last /\ minheap <= first /\ last <= maxheap
  <2>1. first \in Int /\ first <= b.addr /\ minheap <= first
    BY <1>3, <1>5, <1>7
  <2>2. last \in Int /\ top(b) <= last /\ last <= maxheap
    BY <1>3, <1>5, <1>7
  <2> HIDE DEF first, last
  <2> QED BY <1>5, <2>1, <2>2
<1>9. c \in Blocks /\ c.addr = first /\ c.len = last - first /\ top(c) = last
  <2> HIDE DEF first, last
  <2>1. last - first \in Int /\ first + (last - first) = last
    BY <1>8
  <2> QED BY <1>8, <2>1, BlockFacts
<1>10. Placed(c)
  <2> HIDE DEF c, first, last
  <2> QED BY <1>8, <1>9 DEF Placed
<1>11. lo \in Nat /\ hi \in Nat /\ lo < hi /\ hi <= m + 1
  BY <1>2
<1>12. lo > 0 => top(L[lo]) < first
  <2>1. CASE withPrev
    <3>1. lo = k - 1 /\ first = L[k].addr /\ k \in 1 .. m
      BY <1>7, <2>1
    <3> HIDE DEF lo, first, withPrev
    <3>2. lo > 0 => lo \in 1 .. m /\ lo < k
      BY <1>2, <3>1
    <3> QED BY <1>4, <3>1, <3>2
  <2>2. CASE ~withPrev
    <3>1. lo = k /\ first = b.addr
      BY <2>2
    <3>2. k > 0 => top(L[k]) # b.addr /\ top(L[k]) <= b.addr
      BY <1>3, <1>5, <1>6, <1>7, <2>2
    <3> QED BY <1>3, <1>5, <1>7, <3>1, <3>2
  <2> QED BY <2>1, <2>2
<1>13. hi <= m => last < L[hi].addr
  <2>1. CASE withNext
    <3>1. hi = k + 2 /\ last = top(L[k + 1]) /\ k + 1 \in 1 .. m
      BY <1>7, <2>1
    <3> HIDE DEF hi, last, withNext
    <3>2. hi <= m => hi \in 1 .. m /\ k + 1 < hi
      BY <1>2, <3>1
    <3> QED BY <1>4, <3>1, <3>2
  <2>2. CASE ~withNext
    <3>1. hi = k + 1 /\ last = top(b)
      BY <2>2
    <3>2. k < m => top(b) # L[k + 1].addr /\ top(b) <= L[k + 1].addr
      BY <1>3, <1>5, <1>6, <1>7, <2>2
    <3>3. hi <= m => k < m
      BY <1>2, <3>1
    <3> QED BY <1>3, <1>5, <1>7, <3>1, <3>2, <3>3
  <2> QED BY <2>1, <2>2
<1>14. ASSUME NEW a \in Int
       PROVE  In(c, a) <=> \/ In(b, a)
                           \/ withPrev /\ In(L[k], a)
                           \/ withNext /\ In(L[k + 1], a)
  <2>1. In(c, a) <=> first <= a /\ a < last
    BY <1>9 DEF In
  <2>2. withPrev => /\ first = L[k].addr /\ top(L[k]) = b.addr /\ L[k].addr < b.addr
                    /\ L[k].addr \in Int
    BY <1>3, <1>7
  <2>3. withNext => /\ last = top(L[k + 1]) /\ L[k + 1].addr = top(b) /\ top(b) < top(L[k + 1])
                    /\ top(L[k + 1]) \in Int
    BY <1>3, <1>7
  <2>4. (~withPrev => first = b.addr) /\ (~withNext => last = top(b))
    OBVIOUS
  <2> HIDE DEF first, last, withPrev, withNext, c
  <2> QED BY <1>5, <2>1, <2>2, <2>3, <2>4 DEF In
<1>15. ASSUME NEW a \in Int
       PROVE  Covers(L, a) <=> \/ \E i \in 1 .. lo : In(L[i], a)
                               \/ withPrev /\ In(L[k], a)
                               \/ withNext /\ In(L[k + 1], a)
                               \/ \E i \in hi .. m : In(L[i], a)
  <2>1. \A i \in 1 .. m : i \in 1 .. lo \/ (withPrev /\ i = k) \/ (withNext /\ i = k + 1) \/ i \in hi .. m
    BY <1>2
  <2>2. (withPrev => k \in 1 .. m) /\ (withNext => k + 1 \in 1 .. m)
    BY <1>7
  <2>3. (\A i \in 1 .. lo : i \in 1 .. m) /\ (\A i \in hi .. m : i \in 1 .. m)
    BY <1>2, <1>11
  <2> HIDE DEF lo, hi, withPrev, withNext
  <2>4. Covers(L, a) <=> \E i \in 1 .. m : In(L[i], a)
    BY <1>2 DEF Covers
  <2> QED BY <2>1, <2>2, <2>3, <2>4
<1> HIDE DEF withPrev, withNext, first, last, lo, hi, c
<1>16. /\ Ordered(N)
       /\ \A a : Covers(N, a) <=> \/ In(c, a)
                                  \/ \E i \in 1 .. lo : In(L[i], a)
                                  \/ \E i \in hi .. m : In(L[i], a)
  <2>1. (lo > 0 => top(L[lo]) < c.addr) /\ (hi <= Len(L) => top(c) < L[hi].addr) /\ hi <= Len(L) + 1
    BY <1>2, <1>9, <1>11, <1>12, <1>13
  <2>2. /\ Ordered(splice(L, lo, c, hi))
        /\ \A a : Covers(splice(L, lo, c, hi), a) <=>
                        \/ In(c, a)
                        \/ \E i \in 1 .. lo : In(L[i], a)
                        \/ \E i \in hi .. Len(L) : In(L[i], a)
    BY <1>2, <1>10, <1>11, <2>1, SpliceOrdered
  <2> QED BY <1>2, <2>2 DEF N
<1>17. \A a \in Int : Covers(N, a) <=> Covers(L, a) \/ In(b, a)
  BY <1>14, <1>15, <1>16
<1> QED BY <1>1, <1>16, <1>17 DEF L

-----------------------------------------------------------------------------
(* Memory: the inductive invariant.                                        *)

\* Every request can be rounded up without wrapping around.
CanRound == \A n \in Requests : n + MB - 1 < U32

\* The block that was set aside for h, and its lowest address.
lowest(h) == IF h.kind = "mem" THEN h.ptr ELSE stkbase(h.ptr, h.n)
aside(h)  == Block(lowest(h), roundmb(h.n))

\* Something a caller holds.
Holds(h) ==
    /\ h.kind \in {"mem", "stk"} /\ h.ptr \in Int
    /\ h.n \in Requests /\ h.n # 0
    /\ Placed(aside(h))

\* What the callers hold and the free list share the heap without a gap.
\* HeapSound is not inductive: a block is set aside in whole units of MB, and
\* what freemem() takes back is all of it, not the bytes that were asked for.
HeapInv ==
    /\ Ordered(memlist)
    /\ \A h \in held : Holds(h)
    /\ \A h \in held : \A a \in Int : ~(In(aside(h), a) /\ Covers(memlist, a))
    /\ \A g, h \in held : g # h => \A a \in Int : ~(In(aside(g), a) /\ In(aside(h), a))
    /\ \A a \in Int : minheap <= a /\ a < maxheap =>
          Covers(memlist, a) \/ \E h \in held : In(aside(h), a)

\* A request is rounded up to a block of at least its size.
LEMMA RequestFacts ==
    ASSUME CanRound, NEW n \in Requests, n # 0
    PROVE  /\ n \in Nat /\ n > 0 /\ roundmb(n) \in Nat /\ n <= roundmb(n)
           /\ roundmb(n) + MB - 1 < U32 => roundmb(roundmb(n)) = roundmb(n)
<1>1. n \in Nat /\ n > 0 /\ n + MB - 1 < U32
  BY HeapAssumption DEF CanRound
<1>2. roundmb(n) \in Nat /\ n <= roundmb(n)
  BY <1>1, RoundUp
<1>3. PICK q \in Nat : roundmb(n) = MB * q
  BY <1>1, RoundUp
<1>4. roundmb(n) + MB - 1 < U32 => roundmb(roundmb(n)) = roundmb(n)
  BY <1>2, <1>3, RoundTwice
<1> QED BY <1>1, <1>2, <1>4

\* The block that was set aside for h.
LEMMA AsideFacts ==
    ASSUME CanRound, NEW h, Holds(h)
    PROVE  /\ aside(h) \in Blocks /\ aside(h).addr = lowest(h) /\ lowest(h) \in Int
           /\ aside(h).len = roundmb(h.n) /\ top(aside(h)) = lowest(h) + roundmb(h.n)
           /\ h.n \in Nat /\ h.n > 0 /\ h.n <= roundmb(h.n) /\ roundmb(h.n) \in Nat
           /\ minheap <= lowest(h) /\ lowest(h) + roundmb(h.n) <= maxheap
           /\ roundmb(roundmb(h.n)) = roundmb(h.n)
           /\ h.kind = "stk" => lowest(h) + roundmb(h.n) = h.ptr + WSIZE
<1>1. /\ h.n \in Nat /\ h.n > 0 /\ h.n <= roundmb(h.n) /\ roundmb(h.n) \in Nat
      /\ roundmb(h.n) + MB - 1 < U32 => roundmb(roundmb(h.n)) = roundmb(h.n)
  BY RequestFacts DEF Holds
<1>2. /\ lowest(h) \in Int
      /\ h.kind = "stk" => lowest(h) + roundmb(h.n) = h.ptr + WSIZE
  BY <1>1, HeapAssumption DEF Holds, lowest, stkbase
<1>3. /\ aside(h) \in Blocks /\ aside(h).addr = lowest(h)
      /\ aside(h).len = roundmb(h.n) /\ top(aside(h)) = lowest(h) + roundmb(h.n)
  <2> DEFINE l == lowest(h)
             r == roundmb(h.n)
  <2>1. l \in Int /\ r \in Int /\ aside(h) = Block(l, r)
    BY <1>1, <1>2 DEF aside
  <2> HIDE DEF l, r
  <2>2. Block(l, r) \in Blocks /\ Block(l, r).addr = l /\ Block(l, r).len = r /\ top(Block(l, r)) = l + r
    BY <2>1, BlockFacts
  <2>3. aside(h) \in Blocks /\ aside(h).addr = l /\ aside(h).len = r /\ top(aside(h)) = l + r
    BY <2>1, <2>2
  <2> QED BY <2>3 DEF l, r
<1>4. minheap <= lowest(h) /\ lowest(h) + roundmb(h.n) <= maxheap
  BY <1>3 DEF Holds, Placed
<1>5. roundmb(h.n) + MB - 1 < U32
  <2> DEFINE r == roundmb(h.n)
             l == lowest(h)
  <2>1. r \in Nat /\ l \in Int /\ minheap <= l /\ l + r <= maxheap
    BY <1>1, <1>2, <1>4
  <2> HIDE DEF r, l
  <2>2. r + MB - 1 < U32
    BY <2>1, HeapAssumption
  <2> QED BY <2>2 DEF r
<1> QED BY <1>1, <1>2, <1>3, <1>4, <1>5

\* A block is taken off the free list and set aside for a caller.
LEMMA Allocated ==
    ASSUME CanRound, HeapInv, NEW h, Holds(h), held' = held \cup {h}, Ordered(memlist'),
           \A a \in Int : In(aside(h), a) => Covers(memlist, a),
           \A a \in Int : Covers(memlist', a) <=> Covers(memlist, a) /\ ~In(aside(h), a)
    PROVE  HeapInv'
<1>1. \A g \in held' : g \in held \/ g = h
  OBVIOUS
<1>2. \A g \in held' : Holds(g)
  BY <1>1 DEF HeapInv
<1>3. \A g \in held : \A a \in Int : ~(In(aside(g), a) /\ Covers(memlist, a))
  BY DEF HeapInv
<1>4. \A g \in held' : \A a \in Int : ~(In(aside(g), a) /\ Covers(memlist', a))
  BY <1>1, <1>3
<1>5. \A f, g \in held' : f # g => \A a \in Int : ~(In(aside(f), a) /\ In(aside(g), a))
  BY <1>1, <1>3 DEF HeapInv
<1>6. ASSUME NEW a \in Int, minheap <= a, a < maxheap
      PROVE  Covers(memlist', a) \/ \E g \in held' : In(aside(g), a)
  BY <1>6 DEF HeapInv
<1> QED BY <1>2, <1>4, <1>5, <1>6 DEF HeapInv

\* A block is returned to the free list.
LEMMA Returned ==
    ASSUME CanRound, HeapInv, NEW h \in held, held' = held \ {h}, Ordered(memlist'),
           \A a \in Int : Covers(memlist', a) <=> Covers(memlist, a) \/ In(aside(h), a)
    PROVE  HeapInv'
<1>1. \A g \in held' : g \in held /\ g # h
  OBVIOUS
<1>2. \A g \in held' : Holds(g)
  BY <1>1 DEF HeapInv
<1>3. \A g \in held' : \A a \in Int : ~(In(aside(g), a) /\ Covers(memlist', a))
  BY <1>1 DEF HeapInv
<1>4. \A f, g \in held' : f # g => \A a \in Int : ~(In(aside(f), a) /\ In(aside(g), a))
  BY <1>1 DEF HeapInv
<1>5. ASSUME NEW a \in Int, minheap <= a, a < maxheap
      PROVE  Covers(memlist', a) \/ \E g \in held' : In(aside(g), a)
  BY <1>5 DEF HeapInv
<1> QED BY <1>2, <1>3, <1>4, <1>5 DEF HeapInv

\* The blocks that are on the list and fit.
LEMMA FitFacts ==
    ASSUME HeapInv, NEW i \in 1 .. Len(memlist), NEW r \in Int, fits(i, r)
    PROVE  /\ memlist[i].addr \in Int /\ memlist[i].len \in Int /\ memlist[i].len >= r
           /\ top(memlist[i]) = memlist[i].addr + memlist[i].len
           /\ minheap <= memlist[i].addr /\ top(memlist[i]) <= maxheap
           /\ Ordered(memlist)
BY TopFacts DEF HeapInv, Ordered, Placed, fits

\* getmem() keeps the invariant.
LEMMA GetmemInv == ASSUME CanRound, HeapInv, NEW n \in Requests, getmem(n) PROVE HeapInv'
<1> DEFINE r == roundmb(n)
           L == memlist
<1>1. n # 0 /\ n \in Nat /\ n > 0 /\ r \in Nat /\ n <= r
  BY RequestFacts DEF getmem
<1>2. PICK i \in 1 .. Len(L) :
         /\ fits(i, r)
         /\ memlist' = cut(i, Block(L[i].addr + r, L[i].len - r))
         /\ held' = held \cup {[kind |-> "mem", ptr |-> L[i].addr, n |-> n]}
  BY DEF getmem
<1> DEFINE A == L[i].addr
           l == L[i].len
           T == top(L[i])
           rest == Block(A + r, l - r)
           h == [kind |-> "mem", ptr |-> A, n |-> n]
<1>3. /\ A \in Int /\ l \in Int /\ l >= r /\ T = A + l /\ minheap <= A /\ T <= maxheap
      /\ Ordered(memlist)
  BY <1>1, <1>2, FitFacts
<1>4. h.kind = "mem" /\ h.ptr = A /\ h.n = n /\ aside(h) = Block(A, r)
  BY DEF aside, lowest
<1>5. memlist' = cut(i, rest) /\ held' = held \cup {h} /\ i \in 1 .. Len(memlist)
  BY <1>2
<1>6. \A a : In(L[i], a) <=> A <= a /\ a < T
  BY DEF In
<1>7. \A a : In(L[i], a) => Covers(memlist, a)
  BY <1>2 DEF Covers
<1>8. memlist[i].addr = A /\ top(memlist[i]) = T
  OBVIOUS
<1>9. r > 0 /\ A + r \in Int /\ l - r \in Int /\ l - r >= 0 /\ A + r <= T /\ (A + r) + (l - r) = T
  <2> HIDE DEF r, A, l, T
  <2> QED BY <1>1, <1>3
<1> HIDE DEF h, r, A, l, T, L
<1>10. rest \in Blocks /\ rest.addr = A + r /\ rest.len = l - r /\ top(rest) = T
  BY ZenonT(30), <1>9, BlockFacts
<1>11. aside(h) \in Blocks /\ aside(h).addr = A /\ aside(h).len = r /\ top(aside(h)) = A + r
  <2>1. A \in Int /\ r \in Int
    BY <1>1, <1>3
  <2>2. Block(A, r) \in Blocks /\ Block(A, r).addr = A /\ Block(A, r).len = r /\ top(Block(A, r)) = A + r
    BY <2>1, BlockFacts
  <2> QED BY <1>4, <2>2
<1>12. Holds(h)
  <2>1. Placed(aside(h))
    BY <1>3, <1>9, <1>11, HeapAssumption DEF Placed
  <2> QED BY <1>1, <1>3, <1>4, <2>1 DEF Holds
<1> HIDE DEF rest
<1>13. /\ Ordered(cut(i, rest))
       /\ \A a \in Int : Covers(cut(i, rest), a) <=>
                   (Covers(memlist, a) /\ ~In(memlist[i], a)) \/ In(rest, a)
  <2>1. rest.len >= 0 /\ memlist[i].addr <= rest.addr /\ top(rest) <= top(memlist[i])
    BY <1>1, <1>3, <1>8, <1>9, <1>10
  <2> QED BY <1>3, <1>5, <1>10, <2>1, CutFacts
<1>14. ASSUME NEW a \in Int
       PROVE  /\ In(aside(h), a) => Covers(memlist, a)
              /\ In(memlist[i], a) /\ ~In(rest, a) <=> In(aside(h), a)
              /\ In(rest, a) => Covers(memlist, a) /\ ~In(aside(h), a)
  <2>1. /\ In(aside(h), a) <=> A <= a /\ a < A + r
        /\ In(rest, a) <=> A + r <= a /\ a < T
        /\ In(memlist[i], a) <=> A <= a /\ a < T
    BY <1>6, <1>10, <1>11 DEF In, L
  <2>2. In(memlist[i], a) => Covers(memlist, a)
    BY <1>7 DEF L
  <2> QED BY <1>1, <1>3, <1>9, <2>1, <2>2
<1>15. \A a \in Int : Covers(memlist', a) <=> Covers(memlist, a) /\ ~In(aside(h), a)
  BY <1>5, <1>13, <1>14
<1>16. Ordered(memlist')
  BY <1>5, <1>13
<1>17. \A a \in Int : In(aside(h), a) => Covers(memlist, a)
  BY <1>14
<1> QED BY <1>5, <1>12, <1>15, <1>16, <1>17, Allocated

\* getstk() keeps the invariant.
LEMMA GetstkInv == ASSUME CanRound, HeapInv, NEW n \in Requests, getstk(n) PROVE HeapInv'
<1> DEFINE r == roundmb(n)
           L == memlist
<1>1. n # 0 /\ n \in Nat /\ n > 0 /\ r \in Nat /\ n <= r /\ WSIZE \in Nat
  BY RequestFacts, HeapAssumption DEF getstk
<1>2. PICK i \in 1 .. Len(L) :
         /\ fits(i, r)
         /\ memlist' = cut(i, Block(L[i].addr, L[i].len - r))
         /\ held' = held \cup {[kind |-> "stk", ptr |-> top(L[i]) - WSIZE, n |-> n]}
  BY DEF getstk
<1> DEFINE A == L[i].addr
           l == L[i].len
           T == top(L[i])
           rest == Block(A, l - r)
           h == [kind |-> "stk", ptr |-> T - WSIZE, n |-> n]
<1>3. /\ A \in Int /\ l \in Int /\ l >= r /\ T = A + l /\ minheap <= A /\ T <= maxheap
      /\ Ordered(memlist)
  BY <1>1, <1>2, FitFacts
<1>4. h.kind = "stk" /\ h.ptr = T - WSIZE /\ h.n = n /\ aside(h) = Block((T - WSIZE) - r + WSIZE, r)
  BY DEF aside, lowest, stkbase
<1>5. memlist' = cut(i, rest) /\ held' = held \cup {h} /\ i \in 1 .. Len(memlist)
  BY <1>2
<1>6. \A a : In(L[i], a) <=> A <= a /\ a < T
  BY DEF In
<1>7. \A a : In(L[i], a) => Covers(memlist, a)
  BY <1>2 DEF Covers
<1>8. memlist[i].addr = A /\ top(memlist[i]) = T
  OBVIOUS
<1>9. /\ r > 0 /\ T - r \in Int /\ l - r \in Int /\ l - r >= 0 /\ A <= T - r /\ A + (l - r) = T - r
      /\ T - WSIZE \in Int /\ (T - WSIZE) - r + WSIZE = T - r /\ (T - r) + r = T /\ T \in Int
  <2> HIDE DEF r, A, l, T
  <2> QED BY <1>1, <1>3
<1> HIDE DEF h, r, A, l, T, L
<1>10. rest \in Blocks /\ rest.addr = A /\ rest.len = l - r /\ top(rest) = T - r
  BY <1>3, <1>9, BlockFacts
<1>11. aside(h) \in Blocks /\ aside(h).addr = T - r /\ aside(h).len = r /\ top(aside(h)) = T
  <2> DEFINE B == T - r
  <2>1. B \in Int /\ r \in Int /\ aside(h) = Block(B, r) /\ B + r = T
    BY <1>1, <1>4, <1>9
  <2> HIDE DEF B
  <2>2. Block(B, r) \in Blocks /\ Block(B, r).addr = B /\ Block(B, r).len = r /\ top(Block(B, r)) = B + r
    BY <2>1, BlockFacts
  <2>3. aside(h) \in Blocks /\ aside(h).addr = B /\ aside(h).len = r /\ top(aside(h)) = T
    BY <2>1, <2>2
  <2> QED BY <2>3 DEF B
<1>12. Holds(h)
  <2>1. Placed(aside(h))
    BY <1>3, <1>9, <1>11, HeapAssumption DEF Placed
  <2> QED BY <1>1, <1>4, <1>9, <2>1 DEF Holds
<1> HIDE DEF rest
<1>13. /\ Ordered(cut(i, rest))
       /\ \A a \in Int : Covers(cut(i, rest), a) <=>
                   (Covers(memlist, a) /\ ~In(memlist[i], a)) \/ In(rest, a)
  <2>1. rest.len >= 0 /\ memlist[i].addr <= rest.addr /\ top(rest) <= top(memlist[i])
    BY <1>1, <1>3, <1>8, <1>9, <1>10
  <2> QED BY <1>3, <1>5, <1>10, <2>1, CutFacts
<1>14. ASSUME NEW a \in Int
       PROVE  /\ In(aside(h), a) => Covers(memlist, a)
              /\ In(memlist[i], a) /\ ~In(rest, a) <=> In(aside(h), a)
              /\ In(rest, a) => Covers(memlist, a) /\ ~In(aside(h), a)
  <2>1. /\ In(aside(h), a) <=> T - r <= a /\ a < T
        /\ In(rest, a) <=> A <= a /\ a < T - r
        /\ In(memlist[i], a) <=> A <= a /\ a < T
    BY <1>6, <1>10, <1>11 DEF In, L
  <2>2. In(memlist[i], a) => Covers(memlist, a)
    BY <1>7 DEF L
  <2> QED BY <1>1, <1>3, <1>9, <2>1, <2>2
<1>15. \A a \in Int : Covers(memlist', a) <=> Covers(memlist, a) /\ ~In(aside(h), a)
  BY <1>5, <1>13, <1>14
<1>16. Ordered(memlist')
  BY <1>5, <1>13
<1>17. \A a \in Int : In(aside(h), a) => Covers(memlist, a)
  BY <1>14
<1> QED BY <1>5, <1>12, <1>15, <1>16, <1>17, Allocated

\* freemem() takes back the whole block that was set aside, and never refuses it.
LEMMA FreeAside ==
    ASSUME CanRound, HeapInv, NEW h \in held, NEW n, n # 0, freemem(lowest(h), n),
           Block(lowest(h), roundmb(n)) = aside(h)
    PROVE  /\ Ordered(memlist')
           /\ \A a \in Int : Covers(memlist', a) <=> Covers(memlist, a) \/ In(aside(h), a)
<1> DEFINE b == aside(h)
           addr == lowest(h)
           k == walk(addr)
           m == Len(memlist)
<1>1. Holds(h) /\ Ordered(memlist) /\ \A a \in Int : ~(In(b, a) /\ Covers(memlist, a))
  BY DEF HeapInv
<1>2. /\ Placed(b) /\ b.addr = addr /\ addr \in Int /\ top(b) \in Int /\ addr < top(b)
      /\ minheap <= addr /\ top(b) <= maxheap
  <2>1. Placed(b)
    BY <1>1 DEF Holds
  <2> QED BY <1>1, <2>1, AsideFacts, TopFacts DEF Placed
<1>3. /\ k \in 0 .. m /\ (k = m \/ memlist[k + 1].addr >= addr)
      /\ \A j \in 1 .. k : memlist[j].addr < addr
  BY <1>1, <1>2, WalkFacts
<1>4. \A j \in 1 .. m : memlist[j].addr \in Int /\ top(memlist[j]) \in Int /\ memlist[j].addr < top(memlist[j])
  <2>1. \A j \in 1 .. m : Placed(memlist[j])
    BY <1>1 DEF Ordered
  <2>2. ASSUME NEW j \in 1 .. m
        PROVE  memlist[j].addr \in Int /\ top(memlist[j]) \in Int /\ memlist[j].addr < top(memlist[j])
    <3>1. memlist[j] \in Blocks /\ memlist[j].len > 0
      BY <2>1 DEF Placed
    <3> QED BY <3>1, TopFacts
  <2> QED BY <2>2
<1> HIDE DEF b, addr, k, m
<1>5. ~(k > 0 /\ b.addr < top(memlist[k]))
  <2> SUFFICES ASSUME k > 0, addr < top(memlist[k]) PROVE FALSE
    BY <1>2
  <2>1. k \in 1 .. m /\ k \in 1 .. k
    BY <1>3 DEF m
  <2>2. memlist[k].addr < addr
    BY <1>3, <2>1
  <2>3. In(memlist[k], addr)
    BY <1>2, <1>4, <2>1, <2>2 DEF In
  <2>4. Covers(memlist, addr)
    BY <2>1, <2>3 DEF Covers, m
  <2>5. In(b, addr)
    BY <1>2 DEF In
  <2> QED BY <1>1, <1>2, <2>4, <2>5
<1>6. ~(k < m /\ top(b) > memlist[k + 1].addr)
  <2> SUFFICES ASSUME k < m, top(b) > memlist[k + 1].addr PROVE FALSE
    OBVIOUS
  <2>1. k + 1 \in 1 .. m /\ k # m
    BY <1>1, <1>3 DEF m, Ordered
  <2> DEFINE a == memlist[k + 1].addr
  <2>2. a \in Int /\ a >= addr /\ a < top(b) /\ In(memlist[k + 1], a)
    BY <1>2, <1>3, <1>4, <2>1 DEF In
  <2> HIDE DEF a
  <2>3. Covers(memlist, a)
    BY <2>1, <2>2 DEF Covers, m
  <2>4. In(b, a)
    BY <1>2, <2>2 DEF In
  <2> QED BY <1>1, <2>2, <2>3, <2>4
<1>7. ~overlaps(b, k)
  BY <1>5, <1>6 DEF overlaps, m
<1>8. ~(n = 0 \/ addr < minheap \/ addr > maxheap \/ overlaps(b, k))
  BY <1>2, <1>7, HeapAssumption
<1>9. memlist' = coalesce(b, k)
  BY <1>8 DEF freemem, b, addr, k
<1>10. /\ Ordered(coalesce(b, k))
       /\ \A a \in Int : Covers(coalesce(b, k), a) <=> Covers(memlist, a) \/ In(b, a)
  BY <1>1, <1>2, <1>3, <1>7, CoalesceFacts DEF m
<1> QED BY <1>9, <1>10 DEF b

\* Returning a block keeps the invariant.
LEMMA ReleaseInv == ASSUME CanRound, HeapInv, Release PROVE HeapInv'
<1>1. PICK h \in held :
         /\ \/ h.kind = "mem" /\ freemem(h.ptr, h.n)
            \/ h.kind = "stk" /\ freestk(h.ptr, h.n)
         /\ held' = held \ {h}
  BY DEF Release
<1>2. Holds(h)
  BY DEF HeapInv
<1>3. /\ h.n # 0 /\ roundmb(h.n) # 0 /\ roundmb(roundmb(h.n)) = roundmb(h.n)
  BY <1>2, AsideFacts
<1>4. \E n : n # 0 /\ freemem(lowest(h), n) /\ Block(lowest(h), roundmb(n)) = aside(h)
  <2>1. CASE h.kind = "mem" /\ freemem(h.ptr, h.n)
    <3>1. lowest(h) = h.ptr
      BY <2>1 DEF lowest
    <3>2. h.n # 0 /\ freemem(lowest(h), h.n) /\ Block(lowest(h), roundmb(h.n)) = aside(h)
      BY <1>3, <2>1, <3>1 DEF aside
    <3> QED BY <3>2
  <2>2. CASE h.kind = "stk" /\ freestk(h.ptr, h.n)
    <3> DEFINE r == roundmb(h.n)
    <3>1. lowest(h) = stkbase(h.ptr, h.n)
      BY <2>2 DEF lowest
    <3>2. r # 0 /\ freemem(lowest(h), r) /\ Block(lowest(h), roundmb(r)) = aside(h)
      BY <1>3, <2>2, <3>1 DEF aside, freestk
    <3> QED BY <3>2
  <2> QED BY <1>1, <2>1, <2>2
<1>5. PICK n : n # 0 /\ freemem(lowest(h), n) /\ Block(lowest(h), roundmb(n)) = aside(h)
  BY <1>4
<1>6. /\ Ordered(memlist')
      /\ \A a \in Int : Covers(memlist', a) <=> Covers(memlist, a) \/ In(aside(h), a)
  BY <1>5, FreeAside
<1> QED BY <1>1, <1>6, Returned

\* freemem() refuses a block that is free already.
LEMMA ReleaseAgainRefused == ASSUME CanRound, HeapInv, ReleaseAgain PROVE UNCHANGED memVars
<1>1. Ordered(memlist) /\ DOMAIN memlist = 1 .. Len(memlist) /\ Len(memlist) \in Nat
  BY DEF HeapInv, Ordered
<1>0. PICK b \in ToSet(memlist) :
         \E n \in Requests : \E addr \in b.addr .. top(b) - 1 :
            addr + n <= top(b) /\ freemem(addr, n) /\ UNCHANGED held
  BY DEF ReleaseAgain
<1>2. PICK n \in Requests :
         \E addr \in b.addr .. top(b) - 1 :
            addr + n <= top(b) /\ freemem(addr, n) /\ UNCHANGED held
  BY <1>0
<1>a. PICK addr \in b.addr .. top(b) - 1 :
         addr + n <= top(b) /\ freemem(addr, n) /\ UNCHANGED held
  BY <1>2
<1>3. PICK i \in 1 .. Len(memlist) : memlist[i] = b
  BY <1>1 DEF ToSet
<1> DEFINE k == walk(addr)
           m == Len(memlist)
           c == Block(addr, roundmb(n))
<1>4. \A j \in 1 .. m : /\ Placed(memlist[j]) /\ memlist[j].addr \in Int
                        /\ top(memlist[j]) \in Int /\ memlist[j].addr < top(memlist[j])
  BY <1>1, TopFacts DEF Ordered, Placed
<1>5. /\ b.addr \in Int /\ top(b) \in Int /\ addr \in Int /\ b.addr <= addr /\ addr < top(b)
      /\ n \in Nat
  BY SMTT(30), <1>3, <1>4, HeapAssumption
<1>6. /\ k \in 0 .. m /\ (k = m \/ memlist[k + 1].addr >= addr)
      /\ \A j \in 1 .. k : memlist[j].addr < addr
  BY <1>1, <1>5, WalkFacts
<1>7. \A p, q \in 1 .. m : p < q => top(memlist[p]) < memlist[q].addr
  BY <1>1 DEF Ordered
<1>8. n # 0 => overlaps(c, k)
  <2> SUFFICES ASSUME n # 0 PROVE overlaps(c, k)
    OBVIOUS
  <2>1. roundmb(n) \in Nat /\ roundmb(n) > 0
    BY <1>5, RequestFacts
  <2> DEFINE r == roundmb(n)
  <2>2. c.addr = addr /\ top(c) = addr + r
    <3> HIDE DEF r
    <3>1. r \in Int
      BY <2>1 DEF r
    <3>2. Block(addr, r).addr = addr /\ top(Block(addr, r)) = addr + r
      BY <1>5, <3>1, BlockFacts
    <3> QED BY <3>2 DEF r
  <2> HIDE DEF c, k, m, r
  <2>3. i \in 1 .. m /\ m \in Nat /\ memlist[i].addr <= addr /\ addr < top(memlist[i])
    BY <1>1, <1>3, <1>5 DEF m
  <2>4. CASE i <= k
    <3>1. k \in 1 .. m /\ k \in 1 .. k
      BY <1>6, <2>3, <2>4
    <3>2. i = k
      <4> SUFFICES ASSUME i < k PROVE FALSE
        BY <1>6, <2>3, <2>4
      <4>1. top(memlist[i]) < memlist[k].addr /\ memlist[k].addr < addr
        BY <1>6, <1>7, <2>3, <3>1
      <4> QED BY <1>4, <1>5, <2>3, <3>1, <4>1
    <3> QED BY <2>2, <2>3, <3>1, <3>2 DEF overlaps
  <2>5. CASE i > k
    <3>1. k # m /\ k + 1 \in 1 .. m /\ k < m
      BY <1>6, <2>3, <2>5
    <3>2. memlist[k + 1].addr >= addr
      BY <1>6, <3>1
    <3>3. memlist[k + 1].addr < top(memlist[k + 1]) /\ memlist[k + 1].addr \in Int /\ top(memlist[k + 1]) \in Int
      BY <1>4, <3>1
    <3>4. i = k + 1
      <4> SUFFICES ASSUME k + 1 < i PROVE FALSE
        BY <1>6, <2>3, <2>5
      <4>1. top(memlist[k + 1]) < memlist[i].addr /\ memlist[i].addr \in Int
        BY <1>4, <1>7, <2>3, <3>1
      <4> QED BY <1>5, <2>3, <3>2, <3>3, <4>1
    <3>5. top(c) > memlist[k + 1].addr
      BY <1>5, <2>1, <2>2, <2>3, <3>2, <3>3, <3>4 DEF r
    <3> QED BY <3>1, <3>5 DEF overlaps, m
  <2> QED BY <1>6, <2>3, <2>4, <2>5
<1>9. n = 0 \/ addr < minheap \/ addr > maxheap \/ overlaps(c, k)
  BY <1>8
<1>10. memlist' = memlist
  BY <1>a, <1>9 DEF freemem
<1> QED BY <1>a, <1>10 DEF memVars

-----------------------------------------------------------------------------
(* Memory: the theorem.                                                    *)

\* The whole heap is one free block.
LEMMA InitHeap == ASSUME meminit PROVE HeapInv
<1> DEFINE b == Block(minheap, maxheap - minheap)
<1>1. minheap \in Int /\ maxheap - minheap \in Int /\ minheap + (maxheap - minheap) = maxheap /\ maxheap - minheap > 0
  BY HeapAssumption
<1>2. b \in Blocks /\ b.addr = minheap /\ b.len = maxheap - minheap /\ top(b) = maxheap
  BY <1>1, BlockFacts
<1>3. Placed(b)
  BY <1>1, <1>2, HeapAssumption DEF Placed
<1> HIDE DEF b
<1>4. memlist = <<b>> /\ held = {}
  BY DEF meminit, b
<1>5. memlist \in Seq(Blocks) /\ Len(memlist) = 1 /\ memlist[1] = b
  BY <1>2, <1>4
<1>6. Ordered(memlist)
  BY <1>3, <1>5 DEF Ordered
<1>7. \A a \in Int : minheap <= a /\ a < maxheap => Covers(memlist, a)
  BY <1>2, <1>5 DEF Covers, In
<1> QED BY <1>4, <1>6, <1>7 DEF HeapInv

\* Every call.
LEMMA NextHeap == ASSUME CanRound, HeapInv, [HeapNext]_memVars PROVE HeapInv'
<1>1. CASE UNCHANGED memVars
  <2>1. memlist' = memlist /\ held' = held
    BY <1>1 DEF memVars
  <2> QED BY <2>1 DEF HeapInv
<1>2. CASE Allocate
  BY <1>2, GetmemInv, GetstkInv DEF Allocate
<1>3. CASE Release
  BY <1>3, ReleaseInv
<1>4. CASE ReleaseAgain
  BY <1>1, <1>4, ReleaseAgainRefused
<1> QED BY <1>1, <1>2, <1>3, <1>4 DEF HeapNext

\* The sets of the properties, with the invariant.
LEMMA SetFacts ==
    ASSUME CanRound, HeapInv
    PROVE  /\ Free = {a \in Int : Covers(memlist, a)}
           /\ \A h \in held : SetAside(h) = {a \in Int : In(aside(h), a)}
           /\ \A h \in held : Granted(h) \subseteq SetAside(h) /\ SetAside(h) \subseteq Heap
<1>1. /\ Ordered(memlist) /\ DOMAIN memlist = 1 .. Len(memlist)
      /\ \A i \in 1 .. Len(memlist) : memlist[i].addr \in Int /\ top(memlist[i]) \in Int
  BY TopFacts DEF HeapInv, Ordered, Placed
<1>2. \A i \in 1 .. Len(memlist) : Bytes(memlist[i]) = {a \in Int : In(memlist[i], a)}
  BY <1>1 DEF Bytes, In
<1>3. Free = {a \in Int : Covers(memlist, a)}
  <2>1. ToSet(memlist) = {memlist[i] : i \in 1 .. Len(memlist)}
    BY <1>1 DEF ToSet
  <2>2. ASSUME NEW a PROVE a \in Free <=> \E i \in 1 .. Len(memlist) : a \in Bytes(memlist[i])
    BY <2>1 DEF Free
  <2> QED BY <1>2, <2>2 DEF Covers
<1>4. ASSUME NEW h \in held
      PROVE  /\ SetAside(h) = {a \in Int : In(aside(h), a)}
             /\ Granted(h) \subseteq SetAside(h) /\ SetAside(h) \subseteq Heap
  <2>1. Holds(h)
    BY DEF HeapInv
  <2> DEFINE l == lowest(h)
             r == roundmb(h.n)
  <2>2. /\ aside(h).addr = l /\ l \in Int /\ top(aside(h)) = l + r
        /\ h.n \in Nat /\ h.n <= r /\ r \in Nat
        /\ minheap <= l /\ l + r <= maxheap
        /\ h.kind = "stk" => l + r = h.ptr + WSIZE
    BY <2>1, AsideFacts
  <2>3. h.ptr \in Int /\ h.kind \in {"mem", "stk"} /\ WSIZE \in Nat /\ minheap \in Nat /\ maxheap \in Nat
    BY <2>1, HeapAssumption DEF Holds
  <2>4. CASE h.kind = "mem"
    <3>1. SetAside(h) = l .. l + r - 1 /\ Granted(h) = l .. l + h.n - 1
      BY <2>4 DEF SetAside, Granted, lowest
    <3> HIDE DEF l, r
    <3> QED BY <2>2, <2>3, <3>1 DEF In, Heap
  <2>5. CASE h.kind = "stk"
    <3>1. /\ SetAside(h) = l .. h.ptr + WSIZE - 1
          /\ Granted(h) = h.ptr + WSIZE - h.n .. h.ptr + WSIZE - 1
      BY <2>5 DEF SetAside, Granted, lowest
    <3> HIDE DEF l, r
    <3> QED BY SMTT(30), <2>2, <2>3, <2>5, <3>1 DEF In, Heap
  <2> QED BY <2>3, <2>4, <2>5
<1> QED BY <1>3, <1>4

\* What the invariant is for.
LEMMA HeapImplies == ASSUME CanRound, HeapInv PROVE HeapSound
<1>1. /\ Ordered(memlist) /\ Len(memlist) \in Nat
      /\ \A i \in 1 .. Len(memlist) : /\ Placed(memlist[i]) /\ memlist[i].addr \in Int
                                      /\ top(memlist[i]) \in Int
  <2>1. Ordered(memlist)
    BY DEF HeapInv
  <2>2. Len(memlist) \in Nat /\ \A i \in 1 .. Len(memlist) : Placed(memlist[i])
    BY <2>1 DEF Ordered
  <2>3. ASSUME NEW i \in 1 .. Len(memlist)
        PROVE  memlist[i].addr \in Int /\ top(memlist[i]) \in Int
    <3>1. Placed(memlist[i])
      BY <2>2
    <3> QED BY <3>1, TopFacts DEF Placed
  <2> QED BY <2>1, <2>2, <2>3
<1>2. FreeListSound
  <2>1. \A i \in 1 .. Len(memlist) : memlist[i].len > 0 /\ Bytes(memlist[i]) \subseteq Heap
    BY <1>1, HeapAssumption DEF Placed, Bytes, Heap
  <2>2. ASSUME NEW i \in 1 .. Len(memlist) - 1 PROVE top(memlist[i]) < memlist[i + 1].addr
    <3>1. i \in 1 .. Len(memlist) /\ i + 1 \in 1 .. Len(memlist) /\ i < i + 1
      BY <1>1
    <3> QED BY <1>1, <3>1 DEF Ordered
  <2> QED BY <2>1, <2>2 DEF FreeListSound
<1>3. NoSharing
  <2> SUFFICES ASSUME NEW h \in held
               PROVE  /\ Granted(h) \subseteq Heap /\ Granted(h) \cap Free = {}
                      /\ \A g \in held \ {h} : Granted(h) \cap Granted(g) = {}
    BY DEF NoSharing
  <2>1. SetAside(h) \cap Free = {} /\ \A g \in held \ {h} : SetAside(h) \cap SetAside(g) = {}
    BY SetFacts DEF HeapInv
  <2> QED BY <2>1, SetFacts
<1>4. NoLeak
  <2>1. \A a \in Heap : a \in Int /\ minheap <= a /\ a < maxheap
    BY HeapAssumption DEF Heap
  <2>2. Heap \subseteq Free \cup UNION {SetAside(h) : h \in held}
    BY <2>1, SetFacts DEF HeapInv
  <2>3. Free \subseteq Heap
    BY <1>2, <1>1 DEF FreeListSound, Free, ToSet, Ordered
  <2>4. UNION {SetAside(h) : h \in held} \subseteq Heap
    BY SetFacts
  <2> QED BY <2>2, <2>3, <2>4 DEF NoLeak
<1> QED BY <1>2, <1>3, <1>4 DEF HeapSound

\* The free list and the callers of getmem(), getstk(), freemem() and freestk()
\* share the heap exactly, in whatever order blocks come back, and freemem()
\* refuses a block that is free already.  A request within MB of the largest
\* integer is out of the question: roundmb() wraps around to 0 for it, and
\* getmem() grants what it has not got.
THEOREM HeapAlwaysSound ==
    ASSUME \A n \in Requests : n + MB - 1 < U32
    PROVE  HeapSpec => []HeapSound
<1>0. CanRound
  BY DEF CanRound
<1>1. meminit => HeapInv
  BY InitHeap
<1>2. HeapInv /\ [HeapNext]_memVars => HeapInv'
  BY <1>0, NextHeap
<1>3. HeapInv => HeapSound
  BY <1>0, HeapImplies
<1> QED BY <1>1, <1>2, <1>3, PTL DEF HeapSpec

-----------------------------------------------------------------------------
(* Buffer pools: the inductive invariant.                                  *)

USE PoolsAssumption

\* The processes that asked for a buffer of pool x and do not wait any more.
LetGo(bs, ak, x) == {p \in Procs : ak[p] = x /\ ~waitsOn(p, bs[x])}

PoolType ==
    /\ nbpools \in 0 .. NBPOOLS /\ brk \in Nat
    /\ DOMAIN bpsem = PoolIds /\ bpnext \in [PoolIds -> Seq(Bufs)]
    /\ DOMAIN word = Bufs /\ DOMAIN owner = Bufs
    /\ has \in [Procs -> SUBSET Bufs] /\ asks \in [Procs -> PoolIds \cup {NoPool}]

\* The semaphores that exist are those of the pools; a process waits on the one
\* of the pool it asked, and there is a buffer for every permit, the ones that
\* were given to processes which have not run since included.
PermitInv ==
    /\ \A x \in PoolIds : SemSound(bpsem[x], Procs) /\ (bpsem[x].used <=> x < nbpools)
    /\ \A p \in Procs : asks[p] # NoPool => asks[p] < nbpools
    /\ \A p \in Procs, x \in PoolIds : waitsOn(p, bpsem[x]) => asks[p] = x
    /\ \A x \in 0 .. nbpools - 1 :
          available(bpsem[x]) + Cardinality(LetGo(bpsem, asks, x)) <= Len(bpnext[x])

\* Every buffer is in the pool it was made for, or one process has it and its
\* first word names that pool.
BufferInv ==
    /\ \A b \in Bufs : owner[b] # NoPool => b <= brk
    /\ \A x \in 0 .. nbpools - 1 :
          /\ \A i, j \in 1 .. Len(bpnext[x]) : bpnext[x][i] = bpnext[x][j] => i = j
          /\ \A i \in 1 .. Len(bpnext[x]) :
                owner[bpnext[x][i]] = x /\ \A p \in Procs : bpnext[x][i] \notin has[p]
    /\ \A p \in Procs : \A b \in has[p] : word[b] = owner[b] /\ owner[b] \in 0 .. nbpools - 1
    /\ \A p, q \in Procs : p # q => has[p] \cap has[q] = {}

\* BufferForPermit is not inductive: a permit is only taken by processes that
\* wait on the pool they asked, and freebuf() returns a buffer to the pool its
\* first word names.
PoolInv == PoolType /\ PermitInv /\ BufferInv

\* The pools are entries of the table.
LEMMA PoolIdsFacts ==
    ASSUME PoolType
    PROVE  /\ nbpools \in Nat /\ nbpools <= NBPOOLS /\ NBPOOLS \in Nat
           /\ \A x \in 0 .. nbpools - 1 : x \in PoolIds /\ x # NoPool /\ x < nbpools /\ x \in Nat
           /\ NoPool \notin PoolIds
           /\ \A x \in PoolIds : x < nbpools => x \in 0 .. nbpools - 1
BY DEF PoolType, PoolIds, NoPool

\* The processes that were let go are finitely many.
LEMMA LetGoFinite ==
    ASSUME NEW bs, NEW ak, NEW x
    PROVE  IsFiniteSet(LetGo(bs, ak, x)) /\ Cardinality(LetGo(bs, ak, x)) \in Nat
<1>1. LetGo(bs, ak, x) \subseteq Procs
  BY DEF LetGo
<1> HIDE DEF LetGo
<1>2. IsFiniteSet(LetGo(bs, ak, x))
  BY <1>1, FS_Subset
<1> QED BY <1>2, FS_CardinalityType

\* The operators of the properties, with the invariant.
LEMMA PromisedIs ==
    ASSUME PoolInv, NEW x \in 0 .. nbpools - 1
    PROVE  Promised(x) = LetGo(bpsem, asks, x)
<1>1. x \in PoolIds
  BY PoolIdsFacts DEF PoolInv
<1>2. \A p \in Procs : asks[p] = x => (Waiting(p) <=> waitsOn(p, bpsem[x]))
  BY <1>1 DEF PoolInv, PermitInv, Waiting
<1> QED BY <1>2 DEF Promised, LetGo

\* What the invariant is for.
LEMMA PoolImplies == ASSUME PoolInv PROVE PoolsSound
<1>1. BufferForPermit
  BY PromisedIs DEF PoolInv, PermitInv, BufferForPermit
<1>2. BuffersExclusive
  <2>1. \A x \in 0 .. nbpools - 1 : DOMAIN bpnext[x] = 1 .. Len(bpnext[x])
    BY PoolIdsFacts DEF PoolInv, PoolType
  <2>2. \A x \in 0 .. nbpools - 1 : IsInjective(bpnext[x])
    BY <2>1 DEF PoolInv, BufferInv, IsInjective
  <2> QED BY <2>2 DEF PoolInv, BufferInv, BuffersExclusive
<1> QED BY <1>1, <1>2 DEF PoolsSound

-----------------------------------------------------------------------------
(* Steps on the semaphore of one pool.                                     *)

\* The others are as before, and x has a buffer for every permit.
LEMMA PermitStep ==
    ASSUME PoolInv, NEW x \in 0 .. nbpools - 1, nbpools' = nbpools,
           \A y \in PoolIds \ {x} : bpsem'[y] = bpsem[y] /\ bpnext'[y] = bpnext[y],
           SemSound(bpsem'[x], Procs), bpsem'[x].used,
           \A p \in Procs : asks'[p] = asks[p] \/ (asks[p] \in {x, NoPool} /\ asks'[p] \in {x, NoPool}),
           \A p \in Procs : waitsOn(p, bpsem'[x]) => asks'[p] = x,
           available(bpsem'[x]) + Cardinality(LetGo(bpsem', asks', x)) <= Len(bpnext'[x])
    PROVE  PermitInv'
<1>0. PoolType /\ PermitInv
  BY DEF PoolInv
<1>1. x \in PoolIds /\ x # NoPool /\ x < nbpools /\ NoPool \notin PoolIds
  BY <1>0, PoolIdsFacts
<1>2. \A y \in PoolIds : SemSound(bpsem'[y], Procs) /\ (bpsem'[y].used <=> y < nbpools)
  BY <1>0, <1>1 DEF PermitInv
<1>3. \A p \in Procs : asks'[p] # NoPool => asks'[p] < nbpools
  BY <1>0, <1>1 DEF PermitInv
<1>4. \A p \in Procs, y \in PoolIds : waitsOn(p, bpsem'[y]) => asks'[p] = y
  BY <1>0, <1>1 DEF PermitInv
<1>5. ASSUME NEW y \in 0 .. nbpools - 1, y # x
      PROVE  available(bpsem'[y]) + Cardinality(LetGo(bpsem', asks', y)) <= Len(bpnext'[y])
  <2>1. y \in PoolIds \ {x} /\ y # NoPool
    BY <1>0, <1>5, PoolIdsFacts
  <2>2. \A p \in Procs : asks'[p] = y <=> asks[p] = y
    BY <1>5, <2>1
  <2>3. LetGo(bpsem', asks', y) = LetGo(bpsem, asks, y)
    BY <2>1, <2>2 DEF LetGo
  <2> QED BY <1>0, <2>1, <2>3 DEF PermitInv
<1>6. \A y \in 0 .. nbpools - 1 :
        available(bpsem'[y]) + Cardinality(LetGo(bpsem', asks', y)) <= Len(bpnext'[y])
  BY <1>5
<1> QED BY <1>2, <1>3, <1>4, <1>6 DEF PermitInv

\* getbuf() takes a permit and a buffer.
LEMMA GetbufPermit ==
    ASSUME PoolInv, NEW p \in Procs, NEW x \in PoolIds, getbuf(p, x)
    PROVE  PermitInv' /\ x \in 0 .. nbpools - 1 /\ bpnext[x] # <<>>
<1> DEFINE s == bpsem[x]
           n == Cardinality(LetGo(bpsem, asks, x))
<1>0. PoolType /\ PermitInv
  BY DEF PoolInv
<1>1. x \in 0 .. nbpools - 1 /\ passes(s) /\ SemSound(s, Procs)
  BY <1>0, PoolIdsFacts DEF getbuf, PermitInv
<1>2. /\ SemSound(passed(s), Procs) /\ passed(s).used
      /\ available(s) = available(passed(s)) + 1 /\ available(passed(s)) \in Nat
      /\ \A q : waitsOn(q, passed(s)) <=> waitsOn(q, s)
  BY <1>1, SemPassed
<1>3. /\ nbpools' = nbpools /\ asks' = asks
      /\ bpsem' = [bpsem EXCEPT ![x] = passed(s)]
      /\ bpnext' = [bpnext EXCEPT ![x] = Tail(bpnext[x])]
  BY DEF getbuf, unlink
<1>4. bpsem'[x] = passed(s) /\ bpnext'[x] = Tail(bpnext[x])
  BY <1>0, <1>3 DEF PoolType
<1>5. \A y \in PoolIds \ {x} : bpsem'[y] = bpsem[y] /\ bpnext'[y] = bpnext[y]
  BY <1>0, <1>3 DEF PoolType
<1>6. LetGo(bpsem', asks', x) = LetGo(bpsem, asks, x)
  BY <1>2, <1>3, <1>4 DEF LetGo
<1>7. n \in Nat
  BY LetGoFinite
<1>8. bpnext[x] \in Seq(Bufs) /\ Len(bpnext[x]) \in Nat /\ available(s) + n <= Len(bpnext[x])
  BY <1>0, <1>1 DEF PoolType, PermitInv
<1> HIDE DEF n, s
<1>9. bpnext[x] # <<>> /\ available(passed(s)) + n <= Len(Tail(bpnext[x]))
  <2>1. Len(bpnext[x]) > 0
    BY <1>2, <1>7, <1>8
  <2>2. Len(Tail(bpnext[x])) = Len(bpnext[x]) - 1
    BY <1>8, <2>1
  <2> QED BY <1>2, <1>7, <1>8, <2>1, <2>2
<1>10. \A q \in Procs : waitsOn(q, bpsem'[x]) => asks'[q] = x
  BY <1>0, <1>2, <1>3, <1>4 DEF PermitInv, s
<1>11. available(bpsem'[x]) + Cardinality(LetGo(bpsem', asks', x)) <= Len(bpnext'[x])
  BY <1>4, <1>6, <1>9 DEF n
<1>12. SemSound(bpsem'[x], Procs) /\ bpsem'[x].used
  BY <1>2, <1>4
<1> QED BY <1>1, <1>3, <1>5, <1>9, <1>10, <1>11, <1>12, PermitStep

\* getbuf() blocks.
LEMMA GetbufWaitPermit ==
    ASSUME PoolInv, NEW p \in Procs, NEW x \in PoolIds, getbufWait(p, x)
    PROVE  PermitInv'
<1> DEFINE s == bpsem[x]
           t == blocked(s, p)
<1>0. PoolType /\ PermitInv
  BY DEF PoolInv
<1>1. x \in 0 .. nbpools - 1 /\ blocks(s) /\ SemSound(s, Procs) /\ asks[p] = NoPool /\ x # NoPool
  BY <1>0, PoolIdsFacts DEF getbufWait, Starts, PermitInv
<1>2. ~waitsOn(p, s)
  BY <1>0, <1>1 DEF PermitInv
<1>3. /\ SemSound(t, Procs) /\ t.used /\ available(s) = 0 /\ available(t) = 0
      /\ waitsOn(p, t) /\ SameWaiters(s, t, p, Procs)
  BY <1>1, <1>2, SemBlocked
<1>4. /\ nbpools' = nbpools /\ bpnext' = bpnext
      /\ bpsem' = [bpsem EXCEPT ![x] = t] /\ asks' = [asks EXCEPT ![p] = x]
  BY DEF getbufWait
<1>5. bpsem'[x] = t /\ \A y \in PoolIds \ {x} : bpsem'[y] = bpsem[y] /\ bpnext'[y] = bpnext[y]
  BY <1>0, <1>4 DEF PoolType
<1>6. asks'[p] = x /\ \A q \in Procs \ {p} : asks'[q] = asks[q]
  BY <1>0, <1>4 DEF PoolType
<1> HIDE DEF s, t
<1>7. LetGo(bpsem', asks', x) = LetGo(bpsem, asks, x)
  BY <1>1, <1>3, <1>5, <1>6 DEF LetGo, SameWaiters, s
<1>8. \A q \in Procs : waitsOn(q, bpsem'[x]) => asks'[q] = x
  BY <1>0, <1>3, <1>5, <1>6 DEF PermitInv, SameWaiters, s
<1>9. available(bpsem'[x]) + Cardinality(LetGo(bpsem', asks', x)) <= Len(bpnext'[x])
  <2>1. available(s) + Cardinality(LetGo(bpsem, asks, x)) <= Len(bpnext[x])
    BY <1>0, <1>1 DEF PermitInv, s
  <2> QED BY <1>3, <1>4, <1>5, <1>7, <2>1
<1>10. SemSound(bpsem'[x], Procs) /\ bpsem'[x].used
  BY <1>3, <1>5
<1>11. \A q \in Procs : asks'[q] = asks[q] \/ (asks[q] \in {x, NoPool} /\ asks'[q] \in {x, NoPool})
  BY <1>1, <1>6
<1> QED BY <1>1, <1>4, <1>5, <1>8, <1>9, <1>10, <1>11, PermitStep

\* The rest of getbuf(): the permit was kept for this process.
LEMMA GetbufEndPermit ==
    ASSUME PoolInv, NEW p \in Procs, getbufEnd(p)
    PROVE  PermitInv' /\ asks[p] \in 0 .. nbpools - 1 /\ bpnext[asks[p]] # <<>>
<1> DEFINE x == asks[p]
           L == LetGo(bpsem, asks, x)
           M == LetGo(bpsem', asks', x)
<1>0. PoolType /\ PermitInv
  BY DEF PoolInv
<1>1. x \in PoolIds /\ x \in 0 .. nbpools - 1 /\ x # NoPool /\ ~Waiting(p)
  BY <1>0, PoolIdsFacts DEF getbufEnd, PoolType, PermitInv
<1>2. /\ nbpools' = nbpools /\ bpsem' = bpsem
      /\ bpnext' = [bpnext EXCEPT ![x] = Tail(bpnext[x])] /\ asks' = [asks EXCEPT ![p] = NoPool]
  BY DEF getbufEnd, unlink
<1>3. bpnext'[x] = Tail(bpnext[x]) /\ \A y \in PoolIds \ {x} : bpnext'[y] = bpnext[y]
  BY <1>0, <1>1, <1>2 DEF PoolType
<1>4. asks'[p] = NoPool /\ \A q \in Procs \ {p} : asks'[q] = asks[q]
  BY <1>0, <1>2 DEF PoolType
<1>5. p \in L /\ p \notin M /\ L = M \cup {p}
  BY <1>1, <1>2, <1>4 DEF LetGo, Waiting
<1>6. /\ bpsem[x].used /\ SemSound(bpsem[x], Procs)
      /\ available(bpsem[x]) + Cardinality(L) <= Len(bpnext[x])
      /\ \A q \in Procs : waitsOn(q, bpsem[x]) => asks[q] = x
  BY <1>0, <1>1 DEF PermitInv
<1>7. available(bpsem[x]) \in Nat
  BY <1>6 DEF available, SemSound
<1>8. bpnext[x] \in Seq(Bufs)
  BY <1>0, <1>1 DEF PoolType
<1>9. Cardinality(L) = Cardinality(M) + 1 /\ Cardinality(M) \in Nat
  BY <1>5, LetGoFinite, CardPlus
<1>10. \A q \in Procs : waitsOn(q, bpsem'[x]) => asks'[q] = x
  BY <1>1, <1>2, <1>4, <1>6 DEF Waiting
<1>11. \A q \in Procs : asks'[q] = asks[q] \/ (asks[q] \in {x, NoPool} /\ asks'[q] \in {x, NoPool})
  BY <1>4
<1> DEFINE a == available(bpsem[x])
           m == Cardinality(M)
           l == Cardinality(L)
           B == bpnext[x]
<1>12. a + l <= Len(B) /\ a \in Nat /\ m \in Nat /\ l = m + 1 /\ B \in Seq(Bufs)
  BY <1>6, <1>7, <1>8, <1>9
<1>13. B # <<>> /\ a + m <= Len(Tail(B))
  <2> HIDE DEF a, l, m, B
  <2>1. Len(B) \in Nat /\ Len(B) > 0
    BY <1>12
  <2>2. Len(Tail(B)) = Len(B) - 1
    BY <1>12, <2>1
  <2> QED BY <1>12, <2>1, <2>2
<1>14. available(bpsem'[x]) + Cardinality(M) <= Len(bpnext'[x])
  BY <1>2, <1>3, <1>13
<1>15. SemSound(bpsem'[x], Procs) /\ bpsem'[x].used
  BY <1>2, <1>6
<1> QED BY ZenonT(30), <1>1, <1>2, <1>3, <1>10, <1>11, <1>13, <1>14, <1>15, PermitStep

\* A buffer is put at the front of a list.
LEMMA PushFacts ==
    ASSUME NEW q \in Seq(Bufs), NEW b \in Bufs
    PROVE  /\ <<b>> \o q \in Seq(Bufs) /\ Len(<<b>> \o q) = Len(q) + 1
           /\ \A i \in 1 .. Len(q) + 1 : (<<b>> \o q)[i] = IF i = 1 THEN b ELSE q[i - 1]
<1>1. <<b>> \in Seq(Bufs) /\ Len(<<b>>) = 1 /\ <<b>>[1] = b /\ Len(q) \in Nat
  OBVIOUS
<1>2. /\ <<b>> \o q \in Seq(Bufs)
      /\ Len(<<b>> \o q) = Len(<<b>>) + Len(q)
      /\ \A i \in 1 .. Len(<<b>>) + Len(q) :
            (<<b>> \o q)[i] = IF i <= Len(<<b>>) THEN <<b>>[i] ELSE q[i - Len(<<b>>)]
  BY <1>1, ConcatProperties
<1> QED BY <1>1, <1>2

\* The pool a buffer goes back to is the one it was made for.
LEMMA HomePool ==
    ASSUME PoolInv, NEW p \in Procs, NEW b \in Bufs, freebuf(p, b)
    PROVE  home(b) = owner[b] /\ home(b) \in 0 .. nbpools - 1 /\ home(b) \in PoolIds
BY PoolIdsFacts DEF PoolInv, BufferInv, freebuf, home

\* freebuf() leaves a permit, or gives it to the first that waits.
LEMMA FreebufPermit ==
    ASSUME PoolInv, NEW p \in Procs, NEW b \in Bufs, freebuf(p, b)
    PROVE  PermitInv'
<1> DEFINE x == home(b)
           s == bpsem[x]
           t == signaled(s)
           L == LetGo(bpsem, asks, x)
           M == LetGo(bpsem', asks', x)
<1>0. PoolType /\ PermitInv
  BY DEF PoolInv
<1>1. x \in PoolIds /\ x \in 0 .. nbpools - 1 /\ x < nbpools
  BY <1>0, HomePool, PoolIdsFacts
<1>2. /\ nbpools' = nbpools /\ asks' = asks
      /\ bpsem' = [bpsem EXCEPT ![x] = t] /\ bpnext' = [bpnext EXCEPT ![x] = <<b>> \o bpnext[x]]
  BY DEF freebuf
<1>3. /\ s.used /\ SemSound(s, Procs) /\ s.count \in Int
      /\ available(s) + Cardinality(L) <= Len(bpnext[x])
      /\ \A q \in Procs : waitsOn(q, s) => asks[q] = x
  BY <1>0, <1>1 DEF PermitInv, SemSound
<1>4. bpnext[x] \in Seq(Bufs)
  BY <1>0, <1>1 DEF PoolType
<1> HIDE DEF x
<1>5. bpsem'[x] = t /\ bpnext'[x] = <<b>> \o bpnext[x]
  BY <1>0, <1>1, <1>2 DEF PoolType
<1>6. \A y \in PoolIds \ {x} : bpsem'[y] = bpsem[y] /\ bpnext'[y] = bpnext[y]
  BY <1>0, <1>2 DEF PoolType
<1>7. Len(bpnext'[x]) = Len(bpnext[x]) + 1 /\ Len(bpnext[x]) \in Nat
  BY <1>4, <1>5, PushFacts
<1>8. /\ SemSound(t, Procs) /\ t.used /\ \A q \in Procs : waitsOn(q, t) => waitsOn(q, s)
      /\ available(t) + Cardinality(M) <= Len(bpnext[x]) + 1
  <2>1. CASE s.count >= 0
    <3>1. /\ SemSound(t, Procs) /\ t.used /\ available(t) = available(s) + 1
          /\ \A q : waitsOn(q, t) <=> waitsOn(q, s)
      BY <1>3, <2>1, SemSignaled
    <3> HIDE DEF t
    <3>2. M = L
      BY <1>2, <1>5, <3>1 DEF LetGo
    <3>3. available(s) \in Nat /\ Cardinality(L) \in Nat
      BY <1>3, LetGoFinite DEF available
    <3> QED BY <1>3, <1>7, <3>1, <3>2, <3>3
  <2>2. CASE s.count < 0
    <3>1. /\ SemSound(t, Procs) /\ t.used /\ available(t) = 0 /\ available(s) = 0
          /\ \E q \in Procs : waitsOn(q, s) /\ ~waitsOn(q, t) /\ SameWaiters(s, t, q, Procs)
      BY <1>3, <2>2, SemSignaledFirst
    <3>2. PICK q \in Procs : waitsOn(q, s) /\ ~waitsOn(q, t) /\ SameWaiters(s, t, q, Procs)
      BY <3>1
    <3> HIDE DEF s, t
    <3>3. q \notin L /\ q \in M /\ M = L \cup {q}
      BY <1>2, <1>3, <1>5, <3>2 DEF LetGo, SameWaiters, s
    <3>4. Cardinality(M) = Cardinality(L) + 1 /\ Cardinality(L) \in Nat
      BY <3>3, LetGoFinite, CardPlus
    <3>5. available(t) + Cardinality(M) <= Len(bpnext[x]) + 1
      BY <1>3, <1>7, <3>1, <3>4
    <3> QED BY <3>1, <3>2, <3>5 DEF SameWaiters
  <2> QED BY <1>3, <2>1, <2>2
<1> HIDE DEF t, s
<1>9. \A q \in Procs : waitsOn(q, bpsem'[x]) => asks'[q] = x
  BY <1>2, <1>3, <1>5, <1>8
<1>10. available(bpsem'[x]) + Cardinality(M) <= Len(bpnext'[x])
  BY <1>5, <1>7, <1>8
<1>11. SemSound(bpsem'[x], Procs) /\ bpsem'[x].used
  BY <1>5, <1>8
<1> QED BY <1>1, <1>2, <1>6, <1>9, <1>10, <1>11, PermitStep

\* kill() takes a process off its semaphore; what it was given is lost.
LEMMA KilledPermit == ASSUME PoolInv, NEW p \in Procs, killed(p) PROVE PermitInv'
<1> DEFINE x == asks[p]
           s == bpsem[x]
           t == IF waitsOn(p, s) THEN abandoned(s, p) ELSE s
           L == LetGo(bpsem, asks, x)
           M == LetGo(bpsem', asks', x)
<1>0. PoolType /\ PermitInv
  BY DEF PoolInv
<1>1. /\ nbpools' = nbpools /\ bpnext' = bpnext /\ asks' = [asks EXCEPT ![p] = NoPool]
      /\ bpsem' = [y \in PoolIds |-> IF waitsOn(p, bpsem[y]) THEN abandoned(bpsem[y], p) ELSE bpsem[y]]
  BY DEF killed
<1>2. asks'[p] = NoPool /\ \A q \in Procs \ {p} : asks'[q] = asks[q]
  BY <1>0, <1>1 DEF PoolType
<1>3. \A y \in PoolIds : y # x => bpsem'[y] = bpsem[y]
  BY <1>0, <1>1 DEF PermitInv
<1>4. CASE x = NoPool
  <2>1. \A y \in PoolIds : bpsem'[y] = bpsem[y]
    BY <1>0, <1>3, <1>4, PoolIdsFacts
  <2>2. \A q \in Procs : asks'[q] = asks[q]
    BY <1>2, <1>4
  <2>3. \A y \in PoolIds : LetGo(bpsem', asks', y) = LetGo(bpsem, asks, y)
    BY <2>1, <2>2 DEF LetGo
  <2>4. \A y \in 0 .. nbpools - 1 : y \in PoolIds
    BY <1>0, PoolIdsFacts
  <2>5. \A y \in 0 .. nbpools - 1 :
          available(bpsem'[y]) + Cardinality(LetGo(bpsem', asks', y)) <= Len(bpnext'[y])
    BY <1>0, <1>1, <2>1, <2>3, <2>4 DEF PermitInv
  <2> QED BY <1>0, <1>1, <2>1, <2>2, <2>5 DEF PermitInv
<1>5. CASE x # NoPool
  <2>1. x \in PoolIds /\ x \in 0 .. nbpools - 1
    BY <1>0, <1>5, PoolIdsFacts DEF PoolType, PermitInv
  <2>2. /\ s.used /\ SemSound(s, Procs) /\ available(s) + Cardinality(L) <= Len(bpnext[x])
        /\ \A q \in Procs : waitsOn(q, s) => asks[q] = x
    <3>1. x < nbpools
      BY <1>0, <2>1, PoolIdsFacts
    <3> HIDE DEF x
    <3>2. s.used /\ SemSound(s, Procs)
      BY <1>0, <2>1, <3>1 DEF PermitInv
    <3>3. available(s) + Cardinality(L) <= Len(bpnext[x])
      BY <1>0, <2>1 DEF PermitInv
    <3>4. \A q \in Procs : waitsOn(q, s) => asks[q] = x
      BY <1>0, <2>1 DEF PermitInv
    <3> QED BY <3>2, <3>3, <3>4
  <2>3. bpsem'[x] = t
    BY <1>1, <2>1
  <2>4. /\ SemSound(t, Procs) /\ t.used /\ available(t) = available(s)
        /\ ~waitsOn(p, t) /\ SameWaiters(s, t, p, Procs)
    <3>1. CASE waitsOn(p, s)
      BY <2>2, <3>1, SemAbandoned
    <3>2. CASE ~waitsOn(p, s)
      BY <2>2, <3>2 DEF SameWaiters
    <3> QED BY <3>1, <3>2
  <2> HIDE DEF t
  <2>5. M \subseteq L
    BY <1>2, <1>5, <2>3, <2>4 DEF LetGo, SameWaiters
  <2>6. Cardinality(M) <= Cardinality(L) /\ Cardinality(M) \in Nat /\ Cardinality(L) \in Nat
    BY <2>5, LetGoFinite, FS_Subset
  <2>7. available(s) \in Nat /\ Len(bpnext[x]) \in Nat
    BY <1>0, <2>1, <2>2 DEF PoolType, available, SemSound
  <2>8. available(bpsem'[x]) + Cardinality(M) <= Len(bpnext'[x])
    BY <1>1, <2>2, <2>3, <2>4, <2>6, <2>7
  <2>9. \A q \in Procs : waitsOn(q, bpsem'[x]) => asks'[q] = x
    BY <1>2, <2>2, <2>3, <2>4 DEF SameWaiters
  <2>10. \A y \in PoolIds \ {x} : bpsem'[y] = bpsem[y] /\ bpnext'[y] = bpnext[y]
    BY <1>1, <1>3
  <2>11. \A q \in Procs : asks'[q] = asks[q] \/ (asks[q] \in {x, NoPool} /\ asks'[q] \in {x, NoPool})
    BY <1>2
  <2>12. SemSound(bpsem'[x], Procs) /\ bpsem'[x].used
    BY <2>3, <2>4
  <2> QED BY <1>1, <2>1, <2>8, <2>9, <2>10, <2>11, <2>12, PermitStep
<1> QED BY <1>4, <1>5

\* A new pool has a permit for each of its buffers, and nobody knows it yet.
LEMMA MkbufpoolPermit ==
    ASSUME PoolInv, NEW p \in Procs, NEW n \in Sizes, mkbufpool(p, n)
    PROVE  PermitInv'
<1>0. PoolType /\ PermitInv
  BY DEF PoolInv
<1>1. asks' = asks /\ n \in Nat /\ nbpools < NBPOOLS
  BY DEF mkbufpool
<1>2. CASE UNCHANGED <<nbpools, bpsem, bpnext>>
  BY <1>0, <1>1, <1>2 DEF PermitInv, LetGo
<1>3. CASE /\ nbpools' = nbpools + 1 /\ bpsem' = [bpsem EXCEPT ![nbpools] = Sem(n)]
           /\ bpnext' = [bpnext EXCEPT ![nbpools] = [i \in 1 .. n |-> brk + i]]
  <2> DEFINE x == nbpools
  <2>1. x \in PoolIds /\ x \in Nat /\ x # NoPool
    BY <1>0, <1>1 DEF PoolType, PoolIds, NoPool
  <2>2. bpsem'[x] = Sem(n) /\ \A y \in PoolIds \ {x} : bpsem'[y] = bpsem[y] /\ bpnext'[y] = bpnext[y]
    BY <1>0, <1>3, <2>1 DEF PoolType
  <2>3. Len(bpnext'[x]) = n
    BY <1>0, <1>1, <1>3, <2>1 DEF PoolType
  <2>4. SemSound(Sem(n), Procs) /\ available(Sem(n)) = n /\ Sem(n).used /\ \A q : ~waitsOn(q, Sem(n))
    BY <1>1, SemNew
  <2>5. \A q \in Procs : asks[q] # x
    BY <1>0, <2>1 DEF PermitInv
  <2>6. LetGo(bpsem', asks', x) = {}
    BY <1>1, <2>5 DEF LetGo
  <2>7. \A y \in PoolIds : y < x + 1 <=> (y < x \/ y = x)
    BY <2>1 DEF PoolIds
  <2>8. \A y \in PoolIds : SemSound(bpsem'[y], Procs) /\ (bpsem'[y].used <=> y < nbpools')
    BY <1>0, <1>3, <2>2, <2>4, <2>7 DEF PermitInv
  <2>9. \A q \in Procs : asks'[q] # NoPool => asks'[q] < nbpools'
    BY <1>0, <1>1, <1>3, <2>7 DEF PermitInv, PoolType
  <2>10. \A q \in Procs, y \in PoolIds : waitsOn(q, bpsem'[y]) => asks'[q] = y
    BY <1>0, <1>1, <2>2, <2>4 DEF PermitInv
  <2>11. ASSUME NEW y \in 0 .. nbpools' - 1
         PROVE  available(bpsem'[y]) + Cardinality(LetGo(bpsem', asks', y)) <= Len(bpnext'[y])
    <3>1. CASE y = x
      <4>1. available(bpsem'[y]) = n /\ LetGo(bpsem', asks', y) = {} /\ Len(bpnext'[y]) = n
        BY <2>2, <2>3, <2>4, <2>6, <3>1
      <4>2. Cardinality({}) = 0 /\ n + 0 <= n
        BY <1>1, FS_EmptySet
      <4> QED BY <4>1, <4>2
    <3>2. CASE y # x
      <4>0. y \in 0 .. nbpools - 1
        BY <1>3, <2>1, <3>2
      <4>1. y \in 0 .. nbpools - 1 /\ y \in PoolIds
        BY <1>0, <4>0, PoolIdsFacts
      <4>2. LetGo(bpsem', asks', y) = LetGo(bpsem, asks, y)
        BY <1>1, <2>2, <3>2, <4>1 DEF LetGo
      <4> QED BY <1>0, <2>2, <3>2, <4>1, <4>2 DEF PermitInv
    <3> QED BY <3>1, <3>2
  <2> QED BY <2>8, <2>9, <2>10, <2>11 DEF PermitInv
<1> QED BY <1>2, <1>3 DEF mkbufpool

-----------------------------------------------------------------------------
(* Steps on the buffers.                                                   *)

\* The first buffer of a pool goes to a process.
LEMMA UnlinkBuffers ==
    ASSUME PoolInv, NEW p \in Procs, NEW x \in 0 .. nbpools - 1, bpnext[x] # <<>>, unlink(p, x),
           nbpools' = nbpools, brk' = brk, owner' = owner
    PROVE  /\ bpnext' \in [PoolIds -> Seq(Bufs)] /\ DOMAIN word' = Bufs
           /\ has' \in [Procs -> SUBSET Bufs] /\ BufferInv'
<1> DEFINE h == Head(bpnext[x])
           B == bpnext[x]
           C == Tail(bpnext[x])
<1>0. PoolType /\ BufferInv
  BY DEF PoolInv
<1>1. x \in PoolIds /\ B \in Seq(Bufs) /\ Len(B) \in Nat /\ Len(B) > 0
  BY <1>0, PoolIdsFacts DEF PoolType
<1>2. h = B[1] /\ h \in Bufs /\ 1 \in 1 .. Len(B)
  BY <1>1
<1>3. C \in Seq(Bufs) /\ Len(C) = Len(B) - 1 /\ \A i \in 1 .. Len(C) : C[i] = B[i + 1]
  BY <1>1
<1>4. /\ bpnext' = [bpnext EXCEPT ![x] = C] /\ word' = [word EXCEPT ![h] = x]
      /\ has' = [has EXCEPT ![p] = has[p] \cup {h}]
  BY DEF unlink
<1> HIDE DEF h, B, C
<1>5. /\ bpnext' \in [PoolIds -> Seq(Bufs)] /\ DOMAIN word' = Bufs
      /\ has' \in [Procs -> SUBSET Bufs]
  BY <1>0, <1>1, <1>2, <1>3, <1>4 DEF PoolType
<1>6. bpnext'[x] = C /\ \A y \in PoolIds \ {x} : bpnext'[y] = bpnext[y]
  BY <1>0, <1>1, <1>4 DEF PoolType
<1>7. has'[p] = has[p] \cup {h} /\ \A q \in Procs \ {p} : has'[q] = has[q]
  BY <1>0, <1>4 DEF PoolType
<1>8. word'[h] = x /\ \A b \in Bufs \ {h} : word'[b] = word[b]
  BY <1>0, <1>2, <1>4 DEF PoolType
<1>9. /\ \A i, j \in 1 .. Len(B) : B[i] = B[j] => i = j
      /\ \A i \in 1 .. Len(B) : owner[B[i]] = x /\ \A q \in Procs : B[i] \notin has[q]
  BY <1>0 DEF BufferInv, B
<1>10. owner[h] = x /\ \A q \in Procs : h \notin has[q]
  BY <1>2, <1>9
<1>11. \A i \in 1 .. Len(C) : i + 1 \in 1 .. Len(B) /\ i + 1 # 1 /\ C[i] = B[i + 1] /\ C[i] # h
  BY <1>1, <1>2, <1>3, <1>9
<1>12. ASSUME NEW y \in 0 .. nbpools' - 1
       PROVE  /\ \A i, j \in 1 .. Len(bpnext'[y]) : bpnext'[y][i] = bpnext'[y][j] => i = j
              /\ \A i \in 1 .. Len(bpnext'[y]) :
                    owner'[bpnext'[y][i]] = y /\ \A q \in Procs : bpnext'[y][i] \notin has'[q]
  <2>0. y \in 0 .. nbpools - 1 /\ y \in PoolIds
    BY <1>0, <1>12, PoolIdsFacts
  <2>1. CASE y = x
    <3>1. \A i, j \in 1 .. Len(C) : C[i] = C[j] => i = j
      <4> SUFFICES ASSUME NEW i \in 1 .. Len(C), NEW j \in 1 .. Len(C), C[i] = C[j] PROVE i = j
        OBVIOUS
      <4>1. i + 1 = j + 1
        BY <1>9, <1>11
      <4> QED BY <4>1
    <3>2. \A i \in 1 .. Len(C) : owner[C[i]] = x /\ \A q \in Procs : C[i] \notin has'[q]
      <4> SUFFICES ASSUME NEW i \in 1 .. Len(C)
                   PROVE  owner[C[i]] = x /\ \A q \in Procs : C[i] \notin has'[q]
        OBVIOUS
      <4>1. owner[C[i]] = x /\ C[i] # h /\ \A q \in Procs : C[i] \notin has[q]
        BY <1>9, <1>11
      <4> HIDE DEF C
      <4> QED BY <1>7, <4>1
    <3> QED BY <1>6, <2>1, <3>1, <3>2
  <2>2. CASE y # x
    <3>1. bpnext'[y] = bpnext[y]
      BY <1>6, <2>0, <2>2
    <3>2. /\ \A i, j \in 1 .. Len(bpnext[y]) : bpnext[y][i] = bpnext[y][j] => i = j
          /\ \A i \in 1 .. Len(bpnext[y]) :
                owner[bpnext[y][i]] = y /\ \A q \in Procs : bpnext[y][i] \notin has[q]
      BY <1>0, <2>0 DEF BufferInv
    <3>3. \A i \in 1 .. Len(bpnext[y]) : bpnext[y][i] # h
      BY <1>10, <2>2, <3>2
    <3> QED BY <1>7, <3>1, <3>2, <3>3
  <2> QED BY <2>1, <2>2
<1>13. \A b \in Bufs : owner'[b] # NoPool => b <= brk'
  BY <1>0 DEF BufferInv
<1>14. \A q \in Procs : \A b \in has'[q] : word'[b] = owner'[b] /\ owner'[b] \in 0 .. nbpools' - 1
  <2>1. \A q \in Procs : has[q] \subseteq Bufs
    BY <1>0 DEF PoolType
  <2>2. \A q \in Procs : \A b \in has[q] : b # h /\ word'[b] = owner[b] /\ owner[b] \in 0 .. nbpools - 1
    BY <1>0, <1>8, <1>10, <2>1 DEF BufferInv
  <2> QED BY <1>7, <1>8, <1>10, <2>2
<1>15. \A q, r \in Procs : q # r => has'[q] \cap has'[r] = {}
  BY <1>0, <1>7, <1>10 DEF BufferInv
<1> QED BY <1>5, <1>12, <1>13, <1>14, <1>15 DEF BufferInv

\* A buffer goes back to the pool it was made for.
LEMMA FreebufBuffers ==
    ASSUME PoolInv, NEW p \in Procs, NEW b \in Bufs, freebuf(p, b)
    PROVE  /\ bpnext' \in [PoolIds -> Seq(Bufs)] /\ has' \in [Procs -> SUBSET Bufs] /\ BufferInv'
<1> DEFINE x == home(b)
           B == bpnext[x]
           C == <<b>> \o bpnext[x]
<1>0. PoolType /\ BufferInv
  BY DEF PoolInv
<1>1. x \in PoolIds /\ x \in 0 .. nbpools - 1 /\ owner[b] = x /\ b \in has[p]
  BY HomePool DEF freebuf
<1>2. B \in Seq(Bufs) /\ Len(B) \in Nat
  BY <1>0, <1>1 DEF PoolType
<1>3. C \in Seq(Bufs) /\ Len(C) = Len(B) + 1 /\ \A i \in 1 .. Len(C) : C[i] = IF i = 1 THEN b ELSE B[i - 1]
  <2>1. /\ <<b>> \o B \in Seq(Bufs) /\ Len(<<b>> \o B) = Len(B) + 1
        /\ \A i \in 1 .. Len(B) + 1 : (<<b>> \o B)[i] = IF i = 1 THEN b ELSE B[i - 1]
    BY <1>2, PushFacts
  <2> QED BY <2>1
<1>4. /\ bpnext' = [bpnext EXCEPT ![x] = C] /\ has' = [has EXCEPT ![p] = has[p] \ {b}]
      /\ nbpools' = nbpools /\ word' = word /\ brk' = brk /\ owner' = owner
  BY DEF freebuf
<1> HIDE DEF B, C, x
<1>5. bpnext' \in [PoolIds -> Seq(Bufs)] /\ has' \in [Procs -> SUBSET Bufs]
  BY <1>0, <1>1, <1>3, <1>4 DEF PoolType
<1>6. bpnext'[x] = C /\ \A y \in PoolIds \ {x} : bpnext'[y] = bpnext[y]
  BY <1>0, <1>1, <1>4 DEF PoolType
<1>7. has'[p] = has[p] \ {b} /\ \A q \in Procs \ {p} : has'[q] = has[q]
  BY <1>0, <1>4 DEF PoolType
<1>8. /\ \A i, j \in 1 .. Len(B) : B[i] = B[j] => i = j
      /\ \A i \in 1 .. Len(B) : owner[B[i]] = x /\ \A q \in Procs : B[i] \notin has[q]
  BY <1>0, <1>1 DEF BufferInv, B
<1>9. \A i \in 1 .. Len(B) : B[i] # b
  BY <1>1, <1>8
<1>10. \A q \in Procs : b \notin has'[q]
  BY <1>0, <1>1, <1>7 DEF BufferInv
<1>11. \A i \in 1 .. Len(C) : (i = 1 /\ C[i] = b) \/ (i # 1 /\ i - 1 \in 1 .. Len(B) /\ C[i] = B[i - 1])
  BY <1>2, <1>3
<1>12. \A q \in Procs : has'[q] \subseteq has[q]
  BY <1>7
<1>13. ASSUME NEW y \in 0 .. nbpools' - 1
       PROVE  /\ \A i, j \in 1 .. Len(bpnext'[y]) : bpnext'[y][i] = bpnext'[y][j] => i = j
              /\ \A i \in 1 .. Len(bpnext'[y]) :
                    owner'[bpnext'[y][i]] = y /\ \A q \in Procs : bpnext'[y][i] \notin has'[q]
  <2>0. y \in 0 .. nbpools - 1 /\ y \in PoolIds
    BY <1>0, <1>4, <1>13, PoolIdsFacts
  <2>1. CASE y = x
    <3>1. \A i, j \in 1 .. Len(C) : C[i] = C[j] => i = j
      <4> SUFFICES ASSUME NEW i \in 1 .. Len(C), NEW j \in 1 .. Len(C), C[i] = C[j] PROVE i = j
        OBVIOUS
      <4>1. (i = 1 <=> j = 1) /\ (i # 1 => i - 1 = j - 1)
        BY SMTT(30), <1>8, <1>9, <1>11
      <4> QED BY <4>1
    <3>2. \A i \in 1 .. Len(C) : owner[C[i]] = x /\ \A q \in Procs : C[i] \notin has'[q]
      <4> SUFFICES ASSUME NEW i \in 1 .. Len(C)
                   PROVE  owner[C[i]] = x /\ \A q \in Procs : C[i] \notin has'[q]
        OBVIOUS
      <4>1. CASE C[i] = b
        BY <1>1, <1>10, <4>1
      <4>2. CASE C[i] # b
        <5>1. i - 1 \in 1 .. Len(B) /\ C[i] = B[i - 1]
          BY <1>11, <4>2
        <5>2. owner[C[i]] = x /\ \A q \in Procs : C[i] \notin has[q]
          BY <1>8, <5>1
        <5> QED BY <1>12, <5>2
      <4> QED BY <4>1, <4>2
    <3> QED BY <1>4, <1>6, <2>1, <3>1, <3>2
  <2>2. CASE y # x
    <3>1. bpnext'[y] = bpnext[y]
      BY <1>6, <2>0, <2>2
    <3>2. /\ \A i, j \in 1 .. Len(bpnext[y]) : bpnext[y][i] = bpnext[y][j] => i = j
          /\ \A i \in 1 .. Len(bpnext[y]) :
                owner[bpnext[y][i]] = y /\ \A q \in Procs : bpnext[y][i] \notin has[q]
      BY <1>0, <2>0 DEF BufferInv
    <3> QED BY SMTT(30), <1>4, <1>12, <3>1, <3>2
  <2> QED BY <2>1, <2>2
<1>14. \A c \in Bufs : owner'[c] # NoPool => c <= brk'
  BY <1>0, <1>4 DEF BufferInv
<1>15. \A q \in Procs : \A c \in has'[q] : word'[c] = owner'[c] /\ owner'[c] \in 0 .. nbpools' - 1
  BY <1>0, <1>4, <1>12 DEF BufferInv
<1>16. \A q, r \in Procs : q # r => has'[q] \cap has'[r] = {}
  BY <1>0, <1>12 DEF BufferInv
<1> QED BY <1>5, <1>13, <1>14, <1>15, <1>16 DEF BufferInv

\* What a killed process had is in no pool and nobody has it.
LEMMA KilledBuffers ==
    ASSUME PoolInv, NEW p \in Procs, killed(p) PROVE has' \in [Procs -> SUBSET Bufs] /\ BufferInv'
<1>0. PoolType /\ BufferInv
  BY DEF PoolInv
<1>1. /\ has' = [has EXCEPT ![p] = {}] /\ nbpools' = nbpools /\ bpnext' = bpnext
      /\ word' = word /\ brk' = brk /\ owner' = owner
  BY DEF killed
<1>2. has' \in [Procs -> SUBSET Bufs] /\ \A q \in Procs : has'[q] \subseteq has[q]
  BY <1>0, <1>1 DEF PoolType
<1>3. \A x \in 0 .. nbpools - 1 : \A i \in 1 .. Len(bpnext[x]) : \A q \in Procs : bpnext[x][i] \notin has'[q]
  BY <1>0, <1>2 DEF BufferInv
<1>4. \A q \in Procs : \A b \in has'[q] : word'[b] = owner'[b] /\ owner'[b] \in 0 .. nbpools' - 1
  BY <1>0, <1>1, <1>2 DEF BufferInv
<1>5. \A q, r \in Procs : q # r => has'[q] \cap has'[r] = {}
  BY <1>0, <1>2 DEF BufferInv
<1> QED BY <1>0, <1>1, <1>2, <1>3, <1>4, <1>5 DEF BufferInv

\* The buffers of a new pool were never given to a pool.
LEMMA MkbufpoolBuffers ==
    ASSUME PoolInv, NEW p \in Procs, NEW n \in Sizes, mkbufpool(p, n)
    PROVE  PoolType' /\ BufferInv'
<1> DEFINE x == nbpools
           C == [i \in 1 .. n |-> brk + i]
<1>0. PoolType /\ BufferInv
  BY DEF PoolInv
<1>1. /\ n \in Nat /\ n >= 1 /\ nbpools < NBPOOLS /\ brk + n <= NBUFS /\ brk' = brk + n
      /\ word' = word /\ has' = has /\ asks' = asks
  BY DEF mkbufpool
<1>2. /\ nbpools \in Nat /\ brk \in Nat /\ NBPOOLS \in Nat /\ NBUFS \in Nat
      /\ x \in PoolIds /\ x # NoPool
  BY <1>0, <1>1 DEF PoolType, PoolIds, NoPool
<1>3. \A b \in Bufs : owner[b] # NoPool => b <= brk
  BY <1>0 DEF BufferInv
<1>4. \A q \in Procs : \A b \in has[q] : b \in Bufs /\ b <= brk
  <2>1. \A q \in Procs : \A b \in has[q] : b \in Bufs /\ owner[b] \in 0 .. nbpools - 1
    BY <1>0 DEF PoolType, BufferInv
  <2> QED BY <1>2, <1>3, <2>1 DEF NoPool
<1>5. CASE UNCHANGED <<nbpools, bpsem, bpnext, owner>>
  <2>1. brk' \in Nat /\ brk <= brk'
    BY <1>1, <1>2
  <2>2. \A b \in Bufs : owner'[b] # NoPool => b <= brk'
    BY <1>2, <1>3, <1>5, <2>1 DEF Bufs
  <2>3. BufferInv'
    BY <1>0, <1>1, <1>5, <2>2 DEF BufferInv
  <2> QED BY <1>0, <1>1, <1>5, <2>1, <2>3 DEF PoolType
<1>6. CASE /\ nbpools' = nbpools + 1 /\ bpsem' = [bpsem EXCEPT ![x] = Sem(n)]
           /\ bpnext' = [bpnext EXCEPT ![x] = C]
           /\ owner' = [b \in Bufs |-> IF b \in brk + 1 .. brk + n THEN x ELSE owner[b]]
  <2>1. C \in Seq(Bufs) /\ Len(C) = n /\ \A i \in 1 .. n : C[i] = brk + i /\ C[i] \in Bufs
    <3>1. \A i \in 1 .. n : brk + i \in Bufs
      BY <1>1, <1>2 DEF Bufs
    <3>2. C \in [1 .. n -> Bufs]
      BY <3>1
    <3> QED BY <1>1, <3>1, <3>2
  <2> HIDE DEF C
  <2>2. bpnext'[x] = C /\ \A y \in PoolIds \ {x} : bpnext'[y] = bpnext[y]
    BY <1>0, <1>2, <1>6 DEF PoolType
  <2>3. /\ \A b \in Bufs : b <= brk => owner'[b] = owner[b]
        /\ \A i \in 1 .. n : owner'[C[i]] = x
        /\ \A b \in Bufs : owner'[b] # NoPool => b <= brk'
    <3>1. \A b \in Bufs : b \in Int
      BY DEF Bufs
    <3>2. \A b \in Bufs : b <= brk => owner'[b] = owner[b]
      BY <1>2, <1>6, <3>1
    <3>3. \A i \in 1 .. n : owner'[C[i]] = x
      BY <1>1, <1>2, <1>6, <2>1
    <3>4. \A b \in Bufs : owner'[b] # NoPool => b <= brk'
      BY <1>1, <1>2, <1>3, <1>6, <3>1
    <3> QED BY <3>2, <3>3, <3>4
  <2>4. ASSUME NEW y \in 0 .. nbpools' - 1
        PROVE  /\ \A i, j \in 1 .. Len(bpnext'[y]) : bpnext'[y][i] = bpnext'[y][j] => i = j
               /\ \A i \in 1 .. Len(bpnext'[y]) :
                     owner'[bpnext'[y][i]] = y /\ \A q \in Procs : bpnext'[y][i] \notin has'[q]
    <3>1. CASE y = x
      <4>1. \A i, j \in 1 .. n : C[i] = C[j] => i = j
        BY <1>2, <2>1
      <4>2. \A i \in 1 .. n : \A q \in Procs : C[i] \notin has[q]
        BY <1>2, <1>4, <2>1
      <4> QED BY <1>1, <2>1, <2>2, <2>3, <3>1, <4>1, <4>2
    <3>2. CASE y # x
      <4>0. y \in 0 .. nbpools - 1
        BY <1>2, <1>6, <3>2
      <4>1. y \in PoolIds /\ y # NoPool
        BY <1>0, <4>0, PoolIdsFacts
      <4>2. bpnext'[y] = bpnext[y] /\ bpnext[y] \in Seq(Bufs)
        BY <1>0, <2>2, <3>2, <4>1 DEF PoolType
      <4>3. /\ \A i, j \in 1 .. Len(bpnext[y]) : bpnext[y][i] = bpnext[y][j] => i = j
            /\ \A i \in 1 .. Len(bpnext[y]) :
                  owner[bpnext[y][i]] = y /\ \A q \in Procs : bpnext[y][i] \notin has[q]
        BY <1>0, <4>0 DEF BufferInv
      <4>4. \A i \in 1 .. Len(bpnext[y]) : bpnext[y][i] \in Bufs /\ owner'[bpnext[y][i]] = y
        BY <1>3, <2>3, <4>1, <4>2, <4>3
      <4> QED BY <1>1, <4>2, <4>3, <4>4
    <3> QED BY <3>1, <3>2
  <2>5. \A q \in Procs : \A b \in has'[q] : word'[b] = owner'[b] /\ owner'[b] \in 0 .. nbpools' - 1
    <3>1. \A q \in Procs : \A b \in has[q] : word[b] = owner[b] /\ owner[b] \in 0 .. nbpools - 1 /\ owner'[b] = owner[b]
      BY <1>0, <1>4, <2>3 DEF BufferInv
    <3> QED BY <1>1, <1>2, <1>6, <3>1
  <2>6. \A q, r \in Procs : q # r => has'[q] \cap has'[r] = {}
    BY <1>0, <1>1 DEF BufferInv
  <2>7. BufferInv'
    BY <2>3, <2>4, <2>5, <2>6 DEF BufferInv
  <2>8. /\ nbpools' \in 0 .. NBPOOLS /\ brk' \in Nat /\ DOMAIN bpsem' = PoolIds /\ DOMAIN owner' = Bufs
        /\ bpnext' \in [PoolIds -> Seq(Bufs)]
    BY <1>0, <1>1, <1>2, <1>6, <2>1 DEF PoolType
  <2> QED BY <1>0, <1>1, <2>7, <2>8 DEF PoolType
<1> QED BY <1>5, <1>6 DEF mkbufpool

-----------------------------------------------------------------------------
(* Buffer pools: the theorem.                                              *)

\* Before the first pool is made.
LEMMA InitPool == ASSUME bufinit PROVE PoolInv
<1>1. NBPOOLS \in Nat /\ <<>> \in Seq(Bufs) /\ 0 \in 0 .. NBPOOLS
  OBVIOUS
<1>2. PoolType
  BY <1>1 DEF bufinit, PoolType
<1>3. \A x \in PoolIds : x \in Nat /\ bpsem[x] = NoSem
  BY DEF bufinit, PoolIds
<1>4. \A x \in PoolIds : SemSound(bpsem[x], Procs) /\ ~bpsem[x].used /\ \A q : ~waitsOn(q, bpsem[x])
  BY <1>3, SemNone
<1>5. nbpools = 0 /\ 0 .. nbpools - 1 = {} /\ \A p \in Procs : asks[p] = NoPool /\ has[p] = {}
  BY DEF bufinit
<1>6. PermitInv
  BY <1>3, <1>4, <1>5 DEF PermitInv
<1>7. BufferInv
  BY <1>5 DEF bufinit, BufferInv
<1> QED BY <1>2, <1>6, <1>7 DEF PoolInv

\* Every step, whoever takes it.
LEMMA NextPool == ASSUME PoolInv, [Next]_bpVars PROVE PoolInv'
<1>0. PoolType /\ PermitInv /\ BufferInv
  BY DEF PoolInv
<1>1. CASE UNCHANGED bpVars
  <2>1. /\ nbpools' = nbpools /\ bpsem' = bpsem /\ bpnext' = bpnext /\ word' = word
        /\ brk' = brk /\ owner' = owner /\ has' = has /\ asks' = asks
    BY <1>1 DEF bpVars
  <2> QED BY <1>0, <2>1 DEF PoolInv, PoolType, PermitInv, BufferInv, LetGo
<1>2. ASSUME NEW p \in Procs, NEW n \in Sizes, mkbufpool(p, n) PROVE PoolInv'
  BY <1>2, MkbufpoolPermit, MkbufpoolBuffers DEF PoolInv
<1>3. ASSUME NEW p \in Procs, NEW x \in PoolIds, getbuf(p, x) PROVE PoolInv'
  <2>1. /\ nbpools' = nbpools /\ brk' = brk /\ owner' = owner /\ asks' = asks
        /\ DOMAIN bpsem' = DOMAIN bpsem /\ unlink(p, x) /\ x \in 0 .. nbpools - 1
    BY <1>0, <1>3, PoolIdsFacts DEF getbuf
  <2>2. PermitInv' /\ bpnext[x] # <<>>
    BY <1>3, GetbufPermit
  <2>3. /\ bpnext' \in [PoolIds -> Seq(Bufs)] /\ DOMAIN word' = Bufs
        /\ has' \in [Procs -> SUBSET Bufs] /\ BufferInv'
    BY <2>1, <2>2, UnlinkBuffers
  <2>4. PoolType'
    BY <1>0, <2>1, <2>3 DEF PoolType
  <2> QED BY <2>2, <2>3, <2>4 DEF PoolInv
<1>4. ASSUME NEW p \in Procs, NEW x \in PoolIds, getbufWait(p, x) PROVE PoolInv'
  <2>1. /\ nbpools' = nbpools /\ bpnext' = bpnext /\ word' = word /\ brk' = brk
        /\ owner' = owner /\ has' = has
        /\ DOMAIN bpsem' = DOMAIN bpsem /\ asks' = [asks EXCEPT ![p] = x]
    BY <1>4 DEF getbufWait
  <2>2. PoolType' /\ BufferInv'
    BY <1>0, <2>1 DEF PoolType, BufferInv
  <2> QED BY <1>4, <2>2, GetbufWaitPermit DEF PoolInv
<1>5. ASSUME NEW p \in Procs, getbufEnd(p) PROVE PoolInv'
  <2>1. /\ nbpools' = nbpools /\ brk' = brk /\ owner' = owner /\ bpsem' = bpsem
        /\ asks' = [asks EXCEPT ![p] = NoPool] /\ unlink(p, asks[p])
    BY <1>5 DEF getbufEnd
  <2>2. PermitInv' /\ asks[p] \in 0 .. nbpools - 1 /\ bpnext[asks[p]] # <<>>
    BY <1>5, GetbufEndPermit
  <2>3. /\ bpnext' \in [PoolIds -> Seq(Bufs)] /\ DOMAIN word' = Bufs
        /\ has' \in [Procs -> SUBSET Bufs] /\ BufferInv'
    BY <2>1, <2>2, UnlinkBuffers
  <2>4. PoolType'
    BY <1>0, <2>1, <2>3 DEF PoolType
  <2> QED BY <2>2, <2>3, <2>4 DEF PoolInv
<1>6. ASSUME NEW p \in Procs, NEW b \in Bufs, freebuf(p, b) PROVE PoolInv'
  <2>1. /\ nbpools' = nbpools /\ word' = word /\ brk' = brk /\ owner' = owner /\ asks' = asks
        /\ DOMAIN bpsem' = DOMAIN bpsem
    BY <1>6 DEF freebuf
  <2>2. bpnext' \in [PoolIds -> Seq(Bufs)] /\ has' \in [Procs -> SUBSET Bufs] /\ BufferInv'
    BY <1>6, FreebufBuffers
  <2>3. PoolType'
    BY <1>0, <2>1, <2>2 DEF PoolType
  <2> QED BY <1>6, <2>2, <2>3, FreebufPermit DEF PoolInv
<1>7. ASSUME NEW p \in Killable, killed(p) PROVE PoolInv'
  <2>0. p \in Procs
    OBVIOUS
  <2>1. /\ nbpools' = nbpools /\ bpnext' = bpnext /\ word' = word /\ brk' = brk /\ owner' = owner
        /\ DOMAIN bpsem' = PoolIds /\ asks' = [asks EXCEPT ![p] = NoPool]
    BY <1>7 DEF killed
  <2>2. has' \in [Procs -> SUBSET Bufs] /\ BufferInv' /\ PermitInv'
    BY <1>7, <2>0, KilledBuffers, KilledPermit
  <2>3. PoolType'
    BY <1>0, <2>1, <2>2 DEF PoolType
  <2> QED BY <2>2, <2>3 DEF PoolInv
<1> QED BY <1>1, <1>2, <1>3, <1>4, <1>5, <1>6, <1>7 DEF Next

\* getbuf() never unlinks a buffer from an empty pool, however its wait() ended
\* and whoever ran before it went on, and no buffer has two owners.
THEOREM PoolsAlwaysSound == Spec => []PoolsSound
<1>1. bufinit => PoolInv
  BY InitPool
<1>2. PoolInv /\ [Next]_bpVars => PoolInv'
  BY NextPool
<1>3. PoolInv => PoolsSound
  BY PoolImplies
<1> QED BY <1>1, <1>2, <1>3, PTL DEF Spec
=============================================================================
