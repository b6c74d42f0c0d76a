---------------------------- MODULE PortsTheorems -----------------------------
(***************************************************************************)
(* Ports, for every number of ports, nodes and processes: ptsend() and     *)
(* ptrecv() find a node, a place and a message when their wait() lets them *)
(* go, and no message of an earlier use of a port is left in it.           *)
(***************************************************************************)
EXTENDS Ports, SharedLemmas

-----------------------------------------------------------------------------
(* The inductive invariant.                                                *)

Ops == {"idle", "send", "recv", "reset", "delete"}

PortType ==
    /\ ptstate \in [PortIds -> {"FREE", "ALLOC", "LIMBO"}]
    /\ ptmaxcnt \in [PortIds -> 0 .. U16 - 1] /\ ptseq \in [PortIds -> Nat]
    /\ DOMAIN ptssem = PortIds /\ DOMAIN ptrsem = PortIds
    /\ ptlist \in [PortIds -> Seq(Nodes)] /\ ptfree \in Seq(Nodes) /\ DOMAIN ptgen = Nodes
    /\ ptnextid \in PortIds
    /\ call \in [Procs -> [op : Ops, port : PortIds, seq : Nat]]

\* With the calls c, the process clears port x and has done n of the three steps
\* of _ptclear().
Clears(c, p, x)     == c[p].op \in {"reset", "delete"} /\ c[p].port = x
ClearsAt(c, p, x, n) == Clears(c, p, x) /\ c[p].seq = n

\* A port in limbo is cleared by one process, or by none that is alive.  Once
\* the senders were let go the list of a port that is reset is empty and nobody
\* waits for space; once the receivers were let go nobody waits for messages.
Cleared(x, st, mx, ss, rs, ls, c) ==
    /\ \A p \in Procs : Clears(c, p, x) => st = "LIMBO" /\ c[p].seq \in 0 .. 2
    /\ \A p, q \in Procs : Clears(c, p, x) /\ Clears(c, q, x) => p = q
    /\ \A p \in Procs : ClearsAt(c, p, x, 1) \/ ClearsAt(c, p, x, 2) =>
          /\ \A q \in Procs : ~waitsOn(q, ss)
          /\ c[p].op = "reset" => ls = <<>> /\ available(ss) <= mx
    /\ \A p \in Procs : ClearsAt(c, p, x, 2) =>
          (\A q \in Procs : ~waitsOn(q, rs)) /\ available(rs) = 0

\* Nobody waits on a semaphore of a port but in a call for that port, and a call
\* that began since the port was created or last reset finds it allocated.
Awaited(x, st, sq, ss, rs, c) ==
    /\ SemSound(ss, Procs) /\ SemSound(rs, Procs)
    /\ \A p \in Procs : waitsOn(p, ss) => c[p].op = "send" /\ c[p].port = x
    /\ \A p \in Procs : waitsOn(p, rs) => c[p].op = "recv" /\ c[p].port = x
    /\ \A p \in Procs : c[p].op \in {"send", "recv"} /\ c[p].port = x =>
          c[p].seq <= sq /\ (c[p].seq = sq => st = "ALLOC")

\* The processes that send to port x, or receive from it, and began since it was
\* created or last reset.
Current(c, sq, op, x) == {p \in Procs : c[p] = Call(op, x, sq)}

\* There is a message for every permit to receive, and a place for every permit
\* to send.
Permitted(mx, ss, rs, ls, senders, receivers) ==
    /\ SemOf(ss, Procs, senders) /\ SemOf(rs, Procs, receivers)
    /\ permits(rs, receivers) <= Len(ls)
    /\ IF ss.used THEN Len(ls) + permits(ss, senders) <= mx ELSE ls = <<>> /\ senders = {}

Counted(x, st, mx, sq, ss, rs, ls, c) ==
    /\ st = "ALLOC" => Permitted(mx, ss, rs, ls, Current(c, sq, "send", x), Current(c, sq, "recv", x))
    /\ st # "FREE" => Len(ls) <= mx

PortAt(x, st, mx, sq, ss, rs, ls, c) ==
    /\ Cleared(x, st, mx, ss, rs, ls, c)
    /\ Awaited(x, st, sq, ss, rs, c)
    /\ Counted(x, st, mx, sq, ss, rs, ls, c)

TableInv ==
    \A x \in PortIds :
       PortAt(x, ptstate[x], ptmaxcnt[x], ptseq[x], ptssem[x], ptrsem[x], ptlist[x], call)

\* The ports whose nodes nobody else has, and the ports whose nodes may be in no
\* other list.
Owners == {x \in PortIds : ptstate[x] = "ALLOC" \/ \E p \in Procs : ClearsAt(call, p, x, 0)}
Keepers ==
    {x \in PortIds : /\ ptstate[x] # "FREE"
                     /\ \A p \in Procs : ~ClearsAt(call, p, x, 1) /\ ~ClearsAt(call, p, x, 2)}

\* The lists of the owners and the free list have no node in common, and every
\* node is in the free list or in the list of a keeper.
Shared(E, K, list, free) ==
    /\ NoRepeat(free)
    /\ \A x \in E : NoRepeat(list[x]) /\ \A m \in Nodes : ~(Contains(list[x], m) /\ Contains(free, m))
    /\ \A x, y \in E : x # y => \A m \in Nodes : ~(Contains(list[x], m) /\ Contains(list[y], m))
    /\ \A m \in Nodes : Contains(free, m) \/ \E x \in K : Contains(list[x], m)

NodeInv == Shared(Owners, Keepers, ptlist, ptfree)

\* PortsSound is not inductive: what a port holds while it is cleared, and who
\* may still wait on its semaphores, decides what is true when it is used again.
PortInv ==
    /\ PortType /\ TableInv /\ NodeInv
    /\ NoStaleMessage /\ PanicOnlyOvercommitted

-----------------------------------------------------------------------------
(* What happens to the nodes.                                              *)

\* A function at one place and the others.
LEMMA SetAt ==
    ASSUME NEW D, NEW R, NEW f \in [D -> R], NEW x \in D, NEW v \in R
    PROVE  /\ [f EXCEPT ![x] = v] \in [D -> R] /\ [f EXCEPT ![x] = v][x] = v
           /\ \A y \in D : y # x => [f EXCEPT ![x] = v][y] = f[y]
OBVIOUS

\* A node goes from the free list to the end of the list of port x.
PutStep(list, free, x, new, left) ==
    /\ free # <<>> /\ left = Tail(free)
    /\ new \in [PortIds -> Seq(Nodes)] /\ new[x] = Append(list[x], Head(free))
    /\ \A y \in PortIds : y # x => new[y] = list[y]

\* The nodes stay shared out when ptsend() takes one for its message.
LEMMA PutShared ==
    ASSUME NEW E, NEW K, NEW list \in [PortIds -> Seq(Nodes)], NEW free \in Seq(Nodes),
           Shared(E, K, list, free), E \subseteq PortIds, K \subseteq PortIds,
           NEW x, x \in E, x \in K, NEW new, NEW left, PutStep(list, free, x, new, left)
    PROVE  /\ Shared(E, K, new, left) /\ Head(free) \in Nodes
           /\ \A y \in E : ~Contains(list[y], Head(free))
<1> USE DEF PutStep
<1> DEFINE h == Head(free)
           t == Tail(free)
           q == Append(list[x], h)
<1>0. x \in PortIds /\ list[x] \in Seq(Nodes)
  OBVIOUS
<1>1. NoRepeat(free)
  BY DEF Shared
<1>2. /\ t \in Seq(Nodes) /\ h \in Nodes /\ NoRepeat(t) /\ Contains(free, h)
      /\ \A m : Contains(t, m) <=> Contains(free, m) /\ m # h
  BY <1>1, TailList
<1> HIDE DEF h, t
<1>3. \A y \in E : ~Contains(list[y], h)
  BY <1>2 DEF Shared
<1>4. /\ q \in Seq(Nodes)
      /\ NoRepeat(list[x]) => NoRepeat(q)
      /\ \A m : Contains(q, m) <=> Contains(list[x], m) \/ m = h
  BY <1>0, <1>2, <1>3, AppendList
<1> HIDE DEF q
<1>5. new[x] = q /\ \A y \in PortIds : y # x => new[y] = list[y]
  BY DEF q, h
<1>6. ASSUME NEW y \in E
      PROVE  NoRepeat(new[y]) /\ \A m \in Nodes : ~(Contains(new[y], m) /\ Contains(t, m))
  <2>1. CASE y = x
    BY <1>2, <1>4, <1>5, <2>1 DEF Shared
  <2>2. CASE y # x
    BY <1>2, <1>5, <2>2 DEF Shared
  <2> QED BY <2>1, <2>2
<1>7. ASSUME NEW y \in E, NEW z \in E, y # z, NEW m \in Nodes
      PROVE  ~(Contains(new[y], m) /\ Contains(new[z], m))
  <2>1. ~(Contains(list[y], m) /\ Contains(list[z], m))
    BY <1>7 DEF Shared
  <2>2. CASE y = x
    BY <1>3, <1>4, <1>5, <1>7, <2>1, <2>2
  <2>3. CASE z = x
    BY <1>3, <1>4, <1>5, <1>7, <2>1, <2>3
  <2>4. CASE y # x /\ z # x
    BY <1>5, <2>1, <2>4
  <2> QED BY <2>2, <2>3, <2>4
<1>8. ASSUME NEW m \in Nodes PROVE Contains(t, m) \/ \E y \in K : Contains(new[y], m)
  <2>1. CASE m = h
    BY <1>4, <1>5, <2>1
  <2>2. CASE Contains(free, m) /\ m # h
    BY <1>2, <2>2
  <2>3. CASE \E y \in K : Contains(list[y], m)
    BY <1>4, <1>5, <2>3
  <2> QED BY <2>1, <2>2, <2>3 DEF Shared
<1>9. Shared(E, K, new, t)
  BY <1>2, <1>6, <1>7, <1>8 DEF Shared
<1> QED BY <1>2, <1>3, <1>9 DEF h, t

\* The first node of the list of port x goes to the front of the free list.
TakeStep(list, free, x, new, left) ==
    /\ list[x] # <<>> /\ left = <<Head(list[x])>> \o free
    /\ new \in [PortIds -> Seq(Nodes)] /\ new[x] = Tail(list[x])
    /\ \A y \in PortIds : y # x => new[y] = list[y]

\* And when ptrecv() gives one back.
LEMMA TakeShared ==
    ASSUME NEW E, NEW K, NEW list \in [PortIds -> Seq(Nodes)], NEW free \in Seq(Nodes),
           Shared(E, K, list, free), E \subseteq PortIds, K \subseteq PortIds,
           NEW x, x \in E, NEW new, NEW left, TakeStep(list, free, x, new, left)
    PROVE  Shared(E, K, new, left)
<1> USE DEF TakeStep
<1> DEFINE L == list[x]
           h == Head(list[x])
           t == Tail(list[x])
           f == <<h>> \o free
<1>0. x \in PortIds /\ L \in Seq(Nodes) /\ L # <<>> /\ NoRepeat(L)
  BY DEF Shared
<1>1. /\ t \in Seq(Nodes) /\ h \in Nodes /\ NoRepeat(t) /\ Contains(L, h)
      /\ \A m : Contains(t, m) <=> Contains(L, m) /\ m # h
  BY <1>0, TailList
<1> HIDE DEF h, t
<1>2. /\ <<h>> \in Seq(Nodes) /\ NoRepeat(<<h>>) /\ \A m : Contains(<<h>>, m) <=> m = h
  BY <1>1, UnitList
<1>3. ~Contains(free, h) /\ \A y \in E : y # x => ~Contains(list[y], h)
  BY <1>1 DEF Shared
<1>4. /\ f \in Seq(Nodes) /\ NoRepeat(f)
      /\ \A m : Contains(f, m) <=> m = h \/ Contains(free, m)
  <2>1. /\ <<h>> \o free \in Seq(Nodes)
        /\ \A m : Contains(<<h>> \o free, m) <=> Contains(<<h>>, m) \/ Contains(free, m)
        /\ (NoRepeat(<<h>>) /\ NoRepeat(free) /\ \A m : ~(Contains(<<h>>, m) /\ Contains(free, m)))
              => NoRepeat(<<h>> \o free)
    BY <1>2, ConcatList
  <2> QED BY <1>2, <1>3, <2>1 DEF Shared
<1> HIDE DEF f, L
<1>5. /\ new[x] = t /\ list[x] = L
      /\ \A y \in PortIds : y # x => new[y] = list[y]
  BY DEF L, t
<1>6. ASSUME NEW y \in E
      PROVE  NoRepeat(new[y]) /\ \A m \in Nodes : ~(Contains(new[y], m) /\ Contains(f, m))
  <2>1. NoRepeat(list[y]) /\ \A m \in Nodes : ~(Contains(list[y], m) /\ Contains(free, m))
    BY DEF Shared
  <2>2. CASE y = x
    BY <1>1, <1>4, <1>5, <2>1, <2>2
  <2>3. CASE y # x
    BY <1>3, <1>4, <1>5, <2>1, <2>3
  <2> QED BY <2>2, <2>3
<1>7. ASSUME NEW y \in E, NEW z \in E, y # z, NEW m \in Nodes
      PROVE  ~(Contains(new[y], m) /\ Contains(new[z], m))
  <2>1. ~(Contains(list[y], m) /\ Contains(list[z], m))
    BY <1>7 DEF Shared
  <2>2. CASE y = x
    BY <1>1, <1>5, <1>7, <2>1, <2>2
  <2>3. CASE z = x
    BY <1>1, <1>5, <1>7, <2>1, <2>3
  <2>4. CASE y # x /\ z # x
    BY <1>5, <2>1, <2>4
  <2> QED BY <2>2, <2>3, <2>4
<1>8. ASSUME NEW m \in Nodes PROVE Contains(f, m) \/ \E y \in K : Contains(new[y], m)
  <2>1. CASE Contains(free, m)
    BY <1>4, <2>1
  <2>2. CASE \E y \in K : Contains(list[y], m)
    <3>1. PICK y \in K : Contains(list[y], m)
      BY <2>2
    <3>2. CASE y # x
      BY <1>5, <3>1, <3>2
    <3>3. CASE y = x
      BY <1>1, <1>4, <1>5, <3>1, <3>3
    <3> QED BY <3>2, <3>3
  <2> QED BY <2>1, <2>2 DEF Shared
<1>9. Shared(E, K, new, f)
  BY <1>4, <1>6, <1>7, <1>8 DEF Shared
<1> QED BY <1>9 DEF f, h

\* The list of port x goes to the free list.
LEMMA RelinkShared ==
    ASSUME NEW E, NEW K, NEW list \in [PortIds -> Seq(Nodes)], NEW free \in Seq(Nodes),
           Shared(E, K, list, free), E \subseteq PortIds, K \subseteq PortIds,
           NEW x \in E, NEW new \in [PortIds -> Seq(Nodes)], \A y \in PortIds : y # x => new[y] = list[y]
    PROVE  /\ Shared(E \ {x}, K \ {x}, new, list[x] \o free)
           /\ list[x] \o free \in Seq(Nodes)
<1> DEFINE L == list[x]
           f == L \o free
<1>0. /\ x \in PortIds /\ L \in Seq(Nodes) /\ NoRepeat(L) /\ NoRepeat(free)
      /\ \A m \in Nodes : ~(Contains(L, m) /\ Contains(free, m))
  BY DEF Shared
<1> HIDE DEF L
<1>1. \A m : Contains(L, m) => m \in Nodes
  BY <1>0, ListFacts
<1>2. /\ f \in Seq(Nodes) /\ NoRepeat(f)
      /\ \A m : Contains(f, m) <=> Contains(L, m) \/ Contains(free, m)
  BY <1>0, <1>1, ConcatList
<1> HIDE DEF f
<1>3. ASSUME NEW y \in E \ {x}
      PROVE  NoRepeat(new[y]) /\ \A m \in Nodes : ~(Contains(new[y], m) /\ Contains(f, m))
  <2>1. new[y] = list[y] /\ NoRepeat(list[y])
    BY DEF Shared
  <2>2. \A m \in Nodes : ~(Contains(list[y], m) /\ Contains(free, m)) /\ ~(Contains(list[y], m) /\ Contains(L, m))
    BY DEF Shared, L
  <2> QED BY <1>2, <2>1, <2>2
<1>4. \A y, z \in E \ {x} : y # z => \A m \in Nodes : ~(Contains(new[y], m) /\ Contains(new[z], m))
  BY DEF Shared
<1>5. ASSUME NEW m \in Nodes PROVE Contains(f, m) \/ \E y \in K \ {x} : Contains(new[y], m)
  <2>1. CASE Contains(free, m)
    BY <1>2, <2>1
  <2>2. CASE \E y \in K : Contains(list[y], m)
    <3>1. PICK y \in K : Contains(list[y], m)
      BY <2>2
    <3>2. CASE y # x
      <4>1. new[y] = list[y]
        BY <3>2
      <4> QED BY <3>1, <3>2, <4>1
    <3>3. CASE y = x
      BY <1>2, <3>1, <3>3 DEF L
    <3> QED BY <3>2, <3>3
  <2> QED BY <2>1, <2>2 DEF Shared
<1>6. Shared(E \ {x}, K \ {x}, new, f)
  BY <1>2, <1>3, <1>4, <1>5 DEF Shared
<1> QED BY <1>2, <1>6 DEF f, L

\* A port with an empty list has no node.
LEMMA EmptyShared ==
    ASSUME NEW E, NEW K, NEW list \in [PortIds -> Seq(Nodes)], NEW free \in Seq(Nodes),
           Shared(E, K, list, free), E \subseteq PortIds, K \subseteq PortIds,
           NEW F, F \subseteq PortIds, NEW J, K \subseteq J, J \subseteq PortIds,
           NEW new \in [PortIds -> Seq(Nodes)],
           \A y \in E : y \in F => new[y] = list[y],
           \A y \in F \ E : new[y] = <<>>,
           \A y \in K : new[y] = list[y]
    PROVE  Shared(F, J, new, free)
<1>1. \A y \in F \ E : NoRepeat(new[y]) /\ \A m : ~Contains(new[y], m)
  BY EmptyList
<1>2. ASSUME NEW y \in F
      PROVE  NoRepeat(new[y]) /\ \A m \in Nodes : ~(Contains(new[y], m) /\ Contains(free, m))
  BY <1>1 DEF Shared
<1>3. ASSUME NEW y \in F, NEW z \in F, y # z, NEW m \in Nodes
      PROVE  ~(Contains(new[y], m) /\ Contains(new[z], m))
  BY <1>1, <1>3 DEF Shared
<1>4. \A m \in Nodes : Contains(free, m) \/ \E y \in J : Contains(new[y], m)
  BY DEF Shared
<1>5. NoRepeat(free)
  BY DEF Shared
<1> QED BY <1>2, <1>3, <1>4, <1>5 DEF Shared

-----------------------------------------------------------------------------
(* One port at a time.                                                     *)

\* The process is in no call for port x.
Apart(c, p, x) == c[p].op = "idle" \/ c[p].port # x

\* Such a process neither clears port x nor waits at it.
LEMMA ApartFacts ==
    ASSUME NEW c, NEW p, NEW x, Apart(c, p, x)
    PROVE  /\ ~Clears(c, p, x) /\ \A n : ~ClearsAt(c, p, x, n)
           /\ ~(c[p].op \in {"send", "recv"} /\ c[p].port = x)
           /\ \A sq : c[p] # Call("send", x, sq) /\ c[p] # Call("recv", x, sq)
<1>1. \A sq : Call("send", x, sq).op = "send" /\ Call("send", x, sq).port = x
  BY DEF Call
<1>2. \A sq : Call("recv", x, sq).op = "recv" /\ Call("recv", x, sq).port = x
  BY DEF Call
<1> HIDE DEF Call
<1> QED BY <1>1, <1>2 DEF Apart, Clears, ClearsAt

\* A port does not see the calls for other ports.
LEMMA SameCalls ==
    ASSUME NEW c, NEW d, NEW p, \A q \in Procs : q # p => d[q] = c[q],
           NEW x, Apart(c, p, x), Apart(d, p, x),
           NEW st, NEW mx, NEW sq, NEW ss, NEW rs, NEW ls,
           PortAt(x, st, mx, sq, ss, rs, ls, c),
           p \in Procs => ~waitsOn(p, ss) /\ ~waitsOn(p, rs)
    PROVE  PortAt(x, st, mx, sq, ss, rs, ls, d)
<1>1. \A q \in Procs :
         /\ Clears(d, q, x) => Clears(c, q, x) /\ d[q] = c[q]
         /\ ClearsAt(d, q, x, 1) => ClearsAt(c, q, x, 1) /\ d[q] = c[q]
         /\ ClearsAt(d, q, x, 2) => ClearsAt(c, q, x, 2) /\ d[q] = c[q]
  BY ApartFacts DEF Clears, ClearsAt
<1>2. Cleared(x, st, mx, ss, rs, ls, d)
  BY <1>1 DEF PortAt, Cleared
<1>3. Awaited(x, st, sq, ss, rs, d)
  BY ApartFacts DEF PortAt, Awaited
<1>4. \A n : Current(d, n, "send", x) = Current(c, n, "send", x) /\ Current(d, n, "recv", x) = Current(c, n, "recv", x)
  BY ApartFacts DEF Current
<1>5. Counted(x, st, mx, sq, ss, rs, ls, d)
  BY <1>4 DEF PortAt, Counted
<1> QED BY <1>2, <1>3, <1>5 DEF PortAt

\* One step of process p on port x.
LEMMA OnePort ==
    ASSUME TableInv, NEW x \in PortIds, NEW p \in Procs,
           \A y \in PortIds : y # x =>
              /\ ptstate'[y] = ptstate[y] /\ ptmaxcnt'[y] = ptmaxcnt[y] /\ ptseq'[y] = ptseq[y]
              /\ ptssem'[y] = ptssem[y] /\ ptrsem'[y] = ptrsem[y] /\ ptlist'[y] = ptlist[y],
           \A q \in Procs : q # p => call'[q] = call[q],
           ~Waiting(p),
           \A y \in PortIds : y # x => Apart(call, p, y) /\ Apart(call', p, y),
           PortAt(x, ptstate'[x], ptmaxcnt'[x], ptseq'[x], ptssem'[x], ptrsem'[x], ptlist'[x], call')
    PROVE  TableInv'
<1> SUFFICES ASSUME NEW y \in PortIds
             PROVE  PortAt(y, ptstate'[y], ptmaxcnt'[y], ptseq'[y], ptssem'[y], ptrsem'[y], ptlist'[y], call')
  BY DEF TableInv
<1>1. CASE y # x
  <2>1. PortAt(y, ptstate[y], ptmaxcnt[y], ptseq[y], ptssem[y], ptrsem[y], ptlist[y], call)
    BY DEF TableInv
  <2>2. ~waitsOn(p, ptssem[y]) /\ ~waitsOn(p, ptrsem[y])
    BY DEF Waiting
  <2>3. Apart(call, p, y) /\ Apart(call', p, y)
    BY <1>1
  <2>4. PortAt(y, ptstate[y], ptmaxcnt[y], ptseq[y], ptssem[y], ptrsem[y], ptlist[y], call')
    BY <2>1, <2>2, <2>3, SameCalls
  <2> QED BY <1>1, <2>4
<1> QED BY <1>1

\* Permits are numbers, and the list is no longer than the port allows.
LEMMA PermittedFacts ==
    ASSUME NEW mx \in Nat, NEW ss, NEW rs, NEW ls \in Seq(Nodes), NEW S, NEW R,
           Permitted(mx, ss, rs, ls, S, R)
    PROVE  /\ IsFiniteSet(Procs) /\ SemOf(ss, Procs, S) /\ SemOf(rs, Procs, R)
           /\ permits(ss, S) \in Nat /\ permits(rs, R) \in Nat
           /\ available(ss) \in Nat /\ Cardinality(letGo(ss, S)) \in Nat
           /\ available(rs) \in Nat /\ Cardinality(letGo(rs, R)) \in Nat
           /\ Len(ls) \in Nat /\ Len(ls) <= mx
<1>1. IsFiniteSet(Procs) /\ SemOf(ss, Procs, S) /\ SemOf(rs, Procs, R)
  BY PortsAssumption DEF Permitted
<1>2. /\ permits(ss, S) \in Nat /\ permits(rs, R) \in Nat
      /\ available(ss) \in Nat /\ Cardinality(letGo(ss, S)) \in Nat
      /\ available(rs) \in Nat /\ Cardinality(letGo(rs, R)) \in Nat
  BY <1>1, PermitsNat
<1>3. Len(ls) \in Nat /\ Len(ls) <= mx
  <2>1. CASE ss.used
    BY <1>2, <2>1 DEF Permitted
  <2>2. CASE ~ss.used
    BY <2>2, EmptyList DEF Permitted
  <2> QED BY <2>1, <2>2
<1> QED BY <1>1, <1>2, <1>3

\* Calls on a port that is allocated.
LEMMA AllocAt ==
    ASSUME NEW x, NEW p \in Procs, NEW c, NEW d, \A q \in Procs : q # p => d[q] = c[q],
           NEW mx \in Nat, NEW sq \in Nat, NEW ss, NEW rs, NEW ls, NEW s2, NEW r2, NEW l2 \in Seq(Nodes),
           PortAt(x, "ALLOC", mx, sq, ss, rs, ls, c),
           d[p].op \notin {"reset", "delete"},
           d[p].op \in {"send", "recv"} /\ d[p].port = x => d[p].seq = sq,
           Permitted(mx, s2, r2, l2, Current(d, sq, "send", x), Current(d, sq, "recv", x))
    PROVE  PortAt(x, "ALLOC", mx, sq, s2, r2, l2, d)
<1>1. \A q \in Procs : ~Clears(d, q, x)
  <2>1. \A q \in Procs : ~Clears(c, q, x)
    BY DEF PortAt, Cleared
  <2>2. ~Clears(d, p, x)
    BY DEF Clears
  <2>3. \A q \in Procs : q # p => ~Clears(d, q, x)
    BY <2>1 DEF Clears
  <2> QED BY <2>2, <2>3
<1>2. Cleared(x, "ALLOC", mx, s2, r2, l2, d)
  BY <1>1 DEF Cleared, ClearsAt
<1>3. SemOf(s2, Procs, Current(d, sq, "send", x)) /\ SemOf(r2, Procs, Current(d, sq, "recv", x)) /\ Len(l2) <= mx
  BY PermittedFacts
<1>4. \A q \in Procs : /\ waitsOn(q, s2) => d[q] = Call("send", x, sq)
                       /\ waitsOn(q, r2) => d[q] = Call("recv", x, sq)
  BY <1>3 DEF SemOf, Current
<1>5. SemSound(s2, Procs) /\ SemSound(r2, Procs)
  BY <1>3 DEF SemOf
<1>6. \A q \in Procs : d[q].op \in {"send", "recv"} /\ d[q].port = x => d[q].seq <= sq
  BY DEF PortAt, Awaited
<1>7. Awaited(x, "ALLOC", sq, s2, r2, d)
  BY <1>4, <1>5, <1>6 DEF Awaited, Call
<1>8. Counted(x, "ALLOC", mx, sq, s2, r2, l2, d)
  BY <1>3 DEF Counted
<1> QED BY <1>2, <1>7, <1>8 DEF PortAt

-----------------------------------------------------------------------------
(* The table, one action at a time.                                        *)

\* One turn around the table.
LEMMA CyclicIndex ==
    ASSUME NEW n \in Nat \ {0}, NEW a \in 0 .. n - 1, NEW y \in 0 .. n - 1
    PROVE  \E i \in 0 .. n - 1 : (a + i) % n = y
<1>1. CASE y >= a
  <2>1. y - a \in 0 .. n - 1 /\ a + (y - a) = y
    BY <1>1
  <2>2. y % n = y
    BY Z3
  <2> QED BY <2>1, <2>2
<1>2. CASE y < a
  <2>1. y - a + n \in 0 .. n - 1 /\ a + (y - a + n) = y + n
    BY <1>2
  <2>2. (y + n) % n = y
    <3> DEFINE q == (y + n) \div n
               r == (y + n) % n
    <3>1. q \in Int /\ r \in 0 .. n - 1 /\ y + n = n * q + r
      OBVIOUS
    <3> HIDE DEF q, r
    <3>2. q = 1
      <4>1. CASE q >= 2
        <5>1. n * q >= n * 2
          BY <3>1, <4>1
        <5> QED BY <3>1, <5>1
      <4>2. CASE q <= 0
        <5>1. n * q <= 0
          BY <3>1, <4>2
        <5> QED BY <3>1, <5>1
      <4> QED BY <3>1, <4>1, <4>2
    <3> QED BY <3>1, <3>2 DEF r
  <2> QED BY <2>1, <2>2
<1> QED BY <1>1, <1>2

\* ptcreate() finds a free entry when there is one.
LEMMA FreePort ==
    ASSUME ptnextid \in PortIds, NEW y \in PortIds, ptstate[y] = "FREE"
    PROVE  freeport \in PortIds /\ ptstate[freeport] = "FREE" /\ (freeport + 1) % NPORTS \in PortIds
<1> DEFINE f(i) == (ptnextid + i) % NPORTS
           S == {i \in 0 .. NPORTS - 1 : ptstate[f(i)] = "FREE"}
           d == CHOOSE i \in 0 .. NPORTS - 1 :
                   /\ ptstate[f(i)] = "FREE"
                   /\ \A j \in 0 .. i - 1 : ptstate[f(j)] # "FREE"
<1>0. /\ NPORTS \in Nat \ {0} /\ ptnextid \in 0 .. NPORTS - 1 /\ y \in 0 .. NPORTS - 1
      /\ PortIds = 0 .. NPORTS - 1
  BY PortsAssumption DEF PortIds
<1>1. PICK i \in 0 .. NPORTS - 1 : f(i) = y
  BY <1>0, CyclicIndex
<1>2. \A k \in Int : k % NPORTS \in PortIds
  BY <1>0
<1>3. ASSUME NEW k \in 0 .. NPORTS - 1 PROVE f(k) \in PortIds
  <2>1. ptnextid + k \in Int
    BY <1>0
  <2> QED BY <1>2, <2>1
<1> HIDE DEF f
<1>4. i \in S /\ S \in SUBSET Nat
  BY <1>1
<1>5. PICK m \in S : \A n \in S : m <= n
  BY <1>4, LeastNat
<1>6. m \in 0 .. NPORTS - 1 /\ ptstate[f(m)] = "FREE" /\ \A j \in 0 .. m - 1 : ptstate[f(j)] # "FREE"
  BY <1>0, <1>5
<1>7. d \in 0 .. NPORTS - 1 /\ ptstate[f(d)] = "FREE"
  BY <1>6
<1>8. freeport = f(d)
  BY DEF freeport, f
<1>9. freeport \in PortIds
  BY <1>3, <1>7, <1>8
<1>10. (freeport + 1) % NPORTS \in PortIds
  <2>1. freeport + 1 \in Int
    BY <1>0, <1>9
  <2> HIDE DEF freeport
  <2> QED BY <1>0, <1>2, <2>1
<1> QED BY <1>7, <1>8, <1>9, <1>10

\* The fields of an entry.
LEMMA EntryFacts ==
    ASSUME PortType, NEW x \in PortIds
    PROVE  /\ ptstate[x] \in {"FREE", "ALLOC", "LIMBO"}
           /\ ptmaxcnt[x] \in Nat /\ ptseq[x] \in Nat
           /\ ptlist[x] \in Seq(Nodes) /\ Len(ptlist[x]) \in Nat
BY PortsAssumption DEF PortType

\* A message is put into a place that was kept for it.
LEMMA PutAt ==
    ASSUME PortType, NEW x \in PortIds, NEW n, put(x, n), NEW s2, NEW S, NEW R,
           Permitted(ptmaxcnt[x], s2, ptrsem[x], ptlist[x], S, R), s2.used,
           Len(ptlist[x]) + permits(s2, S) < ptmaxcnt[x]
    PROVE  /\ ptlist' \in [PortIds -> Seq(Nodes)] /\ ptfree' \in Seq(Nodes)
           /\ DOMAIN ptgen' = Nodes /\ DOMAIN ptrsem' = PortIds
           /\ \A y \in PortIds : y # x => ptlist'[y] = ptlist[y] /\ ptrsem'[y] = ptrsem[y]
           /\ Permitted(ptmaxcnt[x], s2, ptrsem'[x], ptlist'[x], S, R)
<1>0. /\ ptlist \in [PortIds -> Seq(Nodes)] /\ ptfree \in Seq(Nodes)
      /\ DOMAIN ptgen = Nodes /\ DOMAIN ptrsem = PortIds
      /\ ptmaxcnt[x] \in Nat /\ ptlist[x] \in Seq(Nodes) /\ Len(ptlist[x]) \in Nat
  BY EntryFacts DEF PortType
<1>1. CASE ptfree = <<>>
  BY <1>0, <1>1 DEF put
<1>2. CASE ptfree # <<>>
  <2> DEFINE q == Append(ptlist[x], Head(ptfree))
  <2>1. /\ ptfree' = Tail(ptfree) /\ ptgen' = [ptgen EXCEPT ![Head(ptfree)] = n]
        /\ ptlist' = [ptlist EXCEPT ![x] = q]
        /\ ptrsem' = [ptrsem EXCEPT ![x] = signaled(ptrsem[x])]
    BY <1>2 DEF put
  <2>2. Head(ptfree) \in Nodes /\ Tail(ptfree) \in Seq(Nodes)
    BY <1>0, <1>2
  <2>3. q \in Seq(Nodes) /\ Len(q) = Len(ptlist[x]) + 1
    BY <1>0, <2>2, AppendList
  <2> HIDE DEF q
  <2>4. /\ ptlist' \in [PortIds -> Seq(Nodes)] /\ ptlist'[x] = q
        /\ \A y \in PortIds : y # x => ptlist'[y] = ptlist[y]
    BY <1>0, <2>1, <2>3, SetAt
  <2>5. /\ DOMAIN ptrsem' = PortIds /\ ptrsem'[x] = signaled(ptrsem[x])
        /\ \A y \in PortIds : y # x => ptrsem'[y] = ptrsem[y]
    BY <1>0, <2>1
  <2>6. /\ IsFiniteSet(Procs) /\ SemOf(s2, Procs, S) /\ SemOf(ptrsem[x], Procs, R)
        /\ permits(s2, S) \in Nat /\ permits(ptrsem[x], R) \in Nat
        /\ permits(ptrsem[x], R) <= Len(ptlist[x])
    BY <1>0, PermittedFacts DEF Permitted
  <2>7. /\ SemOf(signaled(ptrsem[x]), Procs, R)
        /\ permits(signaled(ptrsem[x]), R) <= Len(ptlist[x]) + 1
    <3>1. CASE ptrsem[x].used
      BY <1>0, <2>6, <3>1, PermitsSignaled
    <3>2. CASE ~ptrsem[x].used
      <4>1. signaled(ptrsem[x]) = ptrsem[x]
        BY <3>2 DEF signaled
      <4> QED BY <1>0, <2>6, <4>1
    <3> QED BY <3>1, <3>2
  <2>8. Len(q) + permits(s2, S) <= ptmaxcnt[x]
    BY <1>0, <2>3, <2>6
  <2>9. Permitted(ptmaxcnt[x], s2, ptrsem'[x], ptlist'[x], S, R)
    BY <2>3, <2>4, <2>5, <2>6, <2>7, <2>8 DEF Permitted
  <2>10. DOMAIN ptgen' = Nodes
    BY <1>0, <2>1
  <2> QED BY <2>1, <2>2, <2>4, <2>5, <2>9, <2>10
<1> QED BY <1>1, <1>2

\* A message is taken that was kept for the receiver.
LEMMA TakeAt ==
    ASSUME PortType, NEW x \in PortIds, take(x), NEW r2, NEW S, NEW R,
           Permitted(ptmaxcnt[x], ptssem[x], r2, ptlist[x], S, R),
           permits(r2, R) < Len(ptlist[x])
    PROVE  /\ ptlist[x] # <<>>
           /\ ptlist' \in [PortIds -> Seq(Nodes)] /\ ptfree' \in Seq(Nodes)
           /\ DOMAIN ptssem' = PortIds
           /\ \A y \in PortIds : y # x => ptlist'[y] = ptlist[y] /\ ptssem'[y] = ptssem[y]
           /\ Permitted(ptmaxcnt[x], ptssem'[x], r2, ptlist'[x], S, R)
<1>0. /\ ptlist \in [PortIds -> Seq(Nodes)] /\ ptfree \in Seq(Nodes) /\ DOMAIN ptssem = PortIds
      /\ ptmaxcnt[x] \in Nat /\ ptlist[x] \in Seq(Nodes) /\ Len(ptlist[x]) \in Nat
  BY EntryFacts DEF PortType
<1>1. /\ IsFiniteSet(Procs) /\ SemOf(ptssem[x], Procs, S) /\ SemOf(r2, Procs, R)
      /\ permits(ptssem[x], S) \in Nat /\ permits(r2, R) \in Nat
  BY <1>0, PermittedFacts
<1>2. ptlist[x] # <<>>
  BY <1>0, <1>1, EmptyList
<1>3. ptssem[x].used /\ Len(ptlist[x]) + permits(ptssem[x], S) <= ptmaxcnt[x]
  BY <1>2 DEF Permitted
<1> DEFINE q == Tail(ptlist[x])
<1>4. q \in Seq(Nodes) /\ Len(q) = Len(ptlist[x]) - 1 /\ Head(ptlist[x]) \in Nodes
  BY <1>0, <1>2
<1>5. /\ ptlist' = [ptlist EXCEPT ![x] = q] /\ ptfree' = <<Head(ptlist[x])>> \o ptfree
      /\ ptssem' = [ptssem EXCEPT ![x] = signaled(ptssem[x])]
  BY DEF take
<1> HIDE DEF q
<1>6. /\ ptlist' \in [PortIds -> Seq(Nodes)] /\ ptlist'[x] = q
      /\ \A y \in PortIds : y # x => ptlist'[y] = ptlist[y]
  BY <1>0, <1>4, <1>5, SetAt
<1>7. /\ DOMAIN ptssem' = PortIds /\ ptssem'[x] = signaled(ptssem[x])
      /\ \A y \in PortIds : y # x => ptssem'[y] = ptssem[y]
  BY <1>0, <1>5
<1>8. /\ SemOf(signaled(ptssem[x]), Procs, S) /\ signaled(ptssem[x]).used
      /\ permits(signaled(ptssem[x]), S) = permits(ptssem[x], S) + 1
  BY <1>1, <1>3, PermitsSignaled
<1>9. permits(r2, R) <= Len(q) /\ Len(q) + permits(signaled(ptssem[x]), S) <= ptmaxcnt[x]
  BY <1>0, <1>1, <1>3, <1>4, <1>8
<1>10. Permitted(ptmaxcnt[x], ptssem'[x], r2, ptlist'[x], S, R)
  BY <1>1, <1>6, <1>7, <1>8, <1>9 DEF Permitted
<1>11. ptfree' \in Seq(Nodes)
  BY <1>0, <1>4, <1>5, UnitList, ConcatList
<1> QED BY <1>2, <1>6, <1>7, <1>10, <1>11

\* What a call in progress looks like.
LEMMA CallFacts ==
    /\ \A op, x, n : Call(op, x, n).op = op /\ Call(op, x, n).port = x /\ Call(op, x, n).seq = n
    /\ Idle.op = "idle"
    /\ \A op \in Ops, x \in PortIds, n \in Nat : Call(op, x, n) \in [op : Ops, port : PortIds, seq : Nat]
    /\ Idle \in [op : Ops, port : PortIds, seq : Nat]
<1>1. 0 \in PortIds
  BY PortsAssumption DEF PortIds
<1> QED BY <1>1 DEF Call, Idle, Ops

\* A process that is in no call is in none for any port.
LEMMA IdleFacts ==
    ASSUME NEW c, NEW p, c[p] = Idle
    PROVE  /\ \A x : Apart(c, p, x)
           /\ c[p].op = "idle" /\ \A op \in {"send", "recv"} : \A x, n : c[p] # Call(op, x, n)
<1>1. c[p].op = "idle"
  BY CallFacts
<1> QED BY <1>1, CallFacts DEF Apart

\* The invariant of a port that is allocated, and of the permits of its
\* semaphores.
LEMMA AllocFacts ==
    ASSUME PortType, TableInv, NEW x \in PortIds, ptstate[x] = "ALLOC"
    PROVE  /\ PortAt(x, "ALLOC", ptmaxcnt[x], ptseq[x], ptssem[x], ptrsem[x], ptlist[x], call)
           /\ Permitted(ptmaxcnt[x], ptssem[x], ptrsem[x], ptlist[x],
                        Current(call, ptseq[x], "send", x), Current(call, ptseq[x], "recv", x))
           /\ ptmaxcnt[x] \in Nat /\ ptseq[x] \in Nat /\ ptlist[x] \in Seq(Nodes)
           /\ Len(ptlist[x]) \in Nat
           /\ permits(ptssem[x], Current(call, ptseq[x], "send", x)) \in Nat
           /\ permits(ptrsem[x], Current(call, ptseq[x], "recv", x)) \in Nat
<1>1. PortAt(x, "ALLOC", ptmaxcnt[x], ptseq[x], ptssem[x], ptrsem[x], ptlist[x], call)
  BY DEF TableInv
<1>2. Permitted(ptmaxcnt[x], ptssem[x], ptrsem[x], ptlist[x],
                Current(call, ptseq[x], "send", x), Current(call, ptseq[x], "recv", x))
  BY <1>1 DEF PortAt, Counted
<1>3. ptmaxcnt[x] \in Nat /\ ptseq[x] \in Nat /\ ptlist[x] \in Seq(Nodes) /\ Len(ptlist[x]) \in Nat
  BY EntryFacts
<1> QED BY <1>1, <1>2, <1>3, PermittedFacts

\* ptsend() that does not block.
LEMMA SendTable ==
    ASSUME PortType, TableInv, NEW p \in Procs, NEW x \in PortIds, ptsend(p, x)
    PROVE  PortType' /\ TableInv' /\ Len(ptlist[x]) < ptmaxcnt[x]
<1> DEFINE S == Current(call, ptseq[x], "send", x)
           R == Current(call, ptseq[x], "recv", x)
           s2 == passed(ptssem[x])
<1>1. /\ Starts(p) /\ ptstate[x] = "ALLOC" /\ passes(ptssem[x])
      /\ ptssem' = [ptssem EXCEPT ![x] = s2] /\ put(x, ptseq[x])
      /\ UNCHANGED <<ptstate, ptmaxcnt, ptseq, ptnextid, call, hold>>
  BY DEF ptsend
<1>2. call[p] = Idle /\ ~Waiting(p) /\ call' = call
  BY <1>1 DEF Starts, Runs
<1>3. /\ PortAt(x, "ALLOC", ptmaxcnt[x], ptseq[x], ptssem[x], ptrsem[x], ptlist[x], call)
      /\ Permitted(ptmaxcnt[x], ptssem[x], ptrsem[x], ptlist[x], S, R)
      /\ ptmaxcnt[x] \in Nat /\ ptseq[x] \in Nat /\ ptlist[x] \in Seq(Nodes) /\ Len(ptlist[x]) \in Nat
  BY <1>1, AllocFacts
<1>4. IsFiniteSet(Procs) /\ SemOf(ptssem[x], Procs, S) /\ permits(ptssem[x], S) \in Nat
  BY <1>3, PermittedFacts
<1> HIDE DEF S, R
<1>5. SemOf(s2, Procs, S) /\ s2.used /\ permits(ptssem[x], S) = permits(s2, S) + 1
  BY <1>1, <1>4, PermitsPassed
<1>6. permits(s2, S) \in Nat
  BY <1>4, <1>5, PermitsNat
<1>7. Len(ptlist[x]) + permits(s2, S) < ptmaxcnt[x] /\ Permitted(ptmaxcnt[x], s2, ptrsem[x], ptlist[x], S, R)
  <2>1. ptssem[x].used
    BY <1>1 DEF passes
  <2>2. Len(ptlist[x]) + permits(ptssem[x], S) <= ptmaxcnt[x]
    BY <1>3, <2>1 DEF Permitted
  <2>3. Len(ptlist[x]) + permits(s2, S) < ptmaxcnt[x]
    BY <1>3, <1>4, <1>5, <1>6, <2>2
  <2>4. Len(ptlist[x]) + permits(s2, S) <= ptmaxcnt[x]
    BY <1>3, <1>6, <2>3
  <2> QED BY <1>3, <1>5, <2>3, <2>4 DEF Permitted
<1>8. /\ ptlist' \in [PortIds -> Seq(Nodes)] /\ ptfree' \in Seq(Nodes)
      /\ DOMAIN ptgen' = Nodes /\ DOMAIN ptrsem' = PortIds
      /\ \A y \in PortIds : y # x => ptlist'[y] = ptlist[y] /\ ptrsem'[y] = ptrsem[y]
      /\ Permitted(ptmaxcnt[x], s2, ptrsem'[x], ptlist'[x], S, R)
  BY <1>1, <1>5, <1>7, PutAt
<1>9. /\ DOMAIN ptssem' = PortIds /\ ptssem'[x] = s2
      /\ \A y \in PortIds : y # x => ptssem'[y] = ptssem[y]
  BY <1>1 DEF PortType
<1>10. PortType'
  BY <1>1, <1>8, <1>9 DEF PortType
<1>11. PortAt(x, "ALLOC", ptmaxcnt[x], ptseq[x], s2, ptrsem'[x], ptlist'[x], call)
  <2>1. call[p].op \notin {"reset", "delete"} /\ ~(call[p].op \in {"send", "recv"})
    BY <1>2, IdleFacts
  <2>2. ptlist'[x] \in Seq(Nodes)
    BY <1>8
  <2> HIDE DEF s2
  <2> QED BY <1>3, <1>8, <2>1, <2>2, AllocAt DEF S, R
<1>12. \A y \in PortIds : Apart(call, p, y)
  BY <1>2, IdleFacts
<1> HIDE DEF s2
<1>13. TableInv'
  BY <1>1, <1>2, <1>8, <1>9, <1>11, <1>12, OnePort
<1>14. Len(ptlist[x]) < ptmaxcnt[x]
  BY <1>3, <1>6, <1>7
<1> QED BY <1>10, <1>13, <1>14

\* A call that begins, and one that ends.
LEMMA CurrentBegins ==
    ASSUME NEW c, NEW d, NEW p \in Procs, \A q \in Procs : q # p => d[q] = c[q],
           NEW op \in {"send", "recv"}, NEW x, NEW n, c[p] = Idle, d[p] = Call(op, x, n)
    PROVE  /\ p \notin Current(c, n, op, x) /\ Current(d, n, op, x) = Current(c, n, op, x) \cup {p}
           /\ \A o \in {"send", "recv"} : o # op => Current(d, n, o, x) = Current(c, n, o, x)
<1>1. \A o \in {"send", "recv"} : \A m : c[p] # Call(o, x, m)
  BY IdleFacts
<1>2. \A o \in {"send", "recv"} : \A m : o # op => d[p] # Call(o, x, m)
  BY CallFacts
<1> QED BY <1>1, <1>2 DEF Current

\* When the call ends, the process leaves the callers of its port and no others.
LEMMA CurrentEnds ==
    ASSUME NEW c, NEW d, NEW p \in Procs, \A q \in Procs : q # p => d[q] = c[q],
           NEW op \in {"send", "recv"}, NEW x, NEW n, c[p] = Call(op, x, n), d[p] = Idle
    PROVE  /\ p \in Current(c, n, op, x) /\ Current(d, n, op, x) = Current(c, n, op, x) \ {p}
           /\ \A o \in {"send", "recv"} : o # op => Current(d, n, o, x) = Current(c, n, o, x)
<1>1. \A o \in {"send", "recv"} : \A m : d[p] # Call(o, x, m)
  BY IdleFacts
<1>2. \A o \in {"send", "recv"} : \A m : o # op => c[p] # Call(o, x, m)
  BY CallFacts
<1> QED BY <1>1, <1>2 DEF Current

\* ptsend() that blocks.
LEMMA SendWaitTable ==
    ASSUME PortType, TableInv, NEW p \in Procs, NEW x \in PortIds, ptsendWait(p, x)
    PROVE  PortType' /\ TableInv'
<1> DEFINE n == ptseq[x]
           S == Current(call, n, "send", x)
           R == Current(call, n, "recv", x)
           s2 == blocked(ptssem[x], p)
<1>1. /\ Starts(p) /\ ptstate[x] = "ALLOC" /\ blocks(ptssem[x])
      /\ ptssem' = [ptssem EXCEPT ![x] = s2] /\ call' = [call EXCEPT ![p] = Call("send", x, n)]
      /\ UNCHANGED <<ptstate, ptmaxcnt, ptseq, ptrsem, ptlist, ptfree, ptgen, ptnextid>>
  BY DEF ptsendWait
<1>2. call[p] = Idle /\ ~Waiting(p) /\ call \in [Procs -> [op : Ops, port : PortIds, seq : Nat]]
  BY <1>1 DEF Starts, Runs, PortType
<1>3. /\ PortAt(x, "ALLOC", ptmaxcnt[x], n, ptssem[x], ptrsem[x], ptlist[x], call)
      /\ Permitted(ptmaxcnt[x], ptssem[x], ptrsem[x], ptlist[x], S, R)
      /\ ptmaxcnt[x] \in Nat /\ n \in Nat /\ ptlist[x] \in Seq(Nodes) /\ Len(ptlist[x]) \in Nat
  BY <1>1, AllocFacts
<1>4. IsFiniteSet(Procs) /\ SemOf(ptssem[x], Procs, S) /\ permits(ptssem[x], S) \in Nat
  BY <1>3, PermittedFacts
<1>5. Call("send", x, n) \in [op : Ops, port : PortIds, seq : Nat]
  BY <1>3, CallFacts DEF Ops
<1>6. /\ call' \in [Procs -> [op : Ops, port : PortIds, seq : Nat]]
      /\ call'[p] = Call("send", x, n) /\ \A q \in Procs : q # p => call'[q] = call[q]
  BY <1>1, <1>2, <1>5, SetAt
<1> HIDE DEF n
<1>7. /\ p \notin S /\ Current(call', n, "send", x) = S \cup {p}
      /\ Current(call', n, "recv", x) = R
  BY <1>2, <1>6, CurrentBegins
<1> HIDE DEF S, R
<1>8. SemOf(s2, Procs, S \cup {p}) /\ s2.used /\ permits(s2, S \cup {p}) = permits(ptssem[x], S)
  BY <1>1, <1>4, <1>7, PermitsBlocked
<1> HIDE DEF s2
<1>9. Permitted(ptmaxcnt[x], s2, ptrsem[x], ptlist[x], S \cup {p}, R)
  <2>1. ptssem[x].used
    BY <1>1 DEF blocks
  <2> QED BY <1>3, <1>8, <2>1 DEF Permitted
<1>10. /\ DOMAIN ptssem' = PortIds /\ ptssem'[x] = s2
       /\ \A y \in PortIds : y # x => ptssem'[y] = ptssem[y]
  BY <1>1 DEF PortType
<1>11. PortType'
  BY <1>1, <1>6, <1>10 DEF PortType
<1>12. PortAt(x, "ALLOC", ptmaxcnt[x], n, s2, ptrsem[x], ptlist[x], call')
  <2>1. call'[p].op = "send" /\ call'[p].port = x /\ call'[p].seq = n
    BY <1>6, CallFacts
  <2>2. Permitted(ptmaxcnt[x], s2, ptrsem[x], ptlist[x],
                  Current(call', n, "send", x), Current(call', n, "recv", x))
    BY <1>7, <1>9
  <2>3. call'[p].op \notin {"reset", "delete"}
    BY <2>1
  <2> QED BY <1>3, <1>6, <2>1, <2>2, <2>3, AllocAt
<1>13. \A y \in PortIds : y # x => Apart(call, p, y) /\ Apart(call', p, y)
  BY <1>2, <1>6, IdleFacts, CallFacts DEF Apart
<1>14. TableInv'
  <2>1. PortAt(x, ptstate'[x], ptmaxcnt'[x], ptseq'[x], ptssem'[x], ptrsem'[x], ptlist'[x], call')
    BY <1>1, <1>10, <1>12 DEF n
  <2> QED BY <1>1, <1>2, <1>6, <1>10, <1>13, <2>1, OnePort
<1> QED BY <1>11, <1>14

\* A call that ends without effect, because the port has been reset or deleted.
LEMMA CallLeaves ==
    ASSUME NEW c, NEW d, NEW p \in Procs, \A q \in Procs : q # p => d[q] = c[q],
           d[p] = Idle, NEW x, NEW st, NEW mx, NEW sq, NEW ss, NEW rs, NEW ls,
           PortAt(x, st, mx, sq, ss, rs, ls, c),
           ~waitsOn(p, ss) /\ ~waitsOn(p, rs),
           c[p].op \in {"send", "recv"}, ~(st = "ALLOC" /\ c[p].seq = sq)
    PROVE  PortAt(x, st, mx, sq, ss, rs, ls, d)
<1>0. Apart(d, p, x)
  BY IdleFacts
<1>1. \A q \in Procs :
         /\ Clears(d, q, x) => Clears(c, q, x) /\ d[q] = c[q]
         /\ ClearsAt(d, q, x, 1) => ClearsAt(c, q, x, 1) /\ d[q] = c[q]
         /\ ClearsAt(d, q, x, 2) => ClearsAt(c, q, x, 2) /\ d[q] = c[q]
  BY <1>0, ApartFacts DEF Clears, ClearsAt
<1>2. Cleared(x, st, mx, ss, rs, ls, d)
  BY <1>1 DEF PortAt, Cleared
<1>3. Awaited(x, st, sq, ss, rs, d)
  BY <1>0, ApartFacts DEF PortAt, Awaited
<1>4. st = "ALLOC" => \A op : c[p] # Call(op, x, sq)
  BY CallFacts
<1>5. st = "ALLOC" => /\ Current(d, sq, "send", x) = Current(c, sq, "send", x)
                      /\ Current(d, sq, "recv", x) = Current(c, sq, "recv", x)
  BY <1>0, <1>4, ApartFacts DEF Current
<1>6. Counted(x, st, mx, sq, ss, rs, ls, d)
  BY <1>5 DEF PortAt, Counted
<1> QED BY <1>2, <1>3, <1>6 DEF PortAt

\* The rest of ptsend().
LEMMA SendEndTable ==
    ASSUME PortType, TableInv, NEW p \in Procs, ptsendEnd(p)
    PROVE  /\ PortType' /\ TableInv'
           /\ samePort(call[p]) => Len(ptlist[call[p].port]) < ptmaxcnt[call[p].port]
<1> DEFINE x == call[p].port
           n == call[p].seq
           S == Current(call, n, "send", x)
           R == Current(call, n, "recv", x)
<1>1. /\ call[p].op = "send" /\ ~Waiting(p)
      /\ IF samePort(call[p]) THEN put(x, n)
         ELSE UNCHANGED <<ptrsem, ptlist, ptfree, ptgen, panicked>>
      /\ call' = [call EXCEPT ![p] = Idle]
      /\ UNCHANGED <<ptstate, ptmaxcnt, ptseq, ptssem, ptnextid>>
  BY DEF ptsendEnd, Runs
<1>2. call \in [Procs -> [op : Ops, port : PortIds, seq : Nat]]
  BY DEF PortType
<1>3. x \in PortIds /\ n \in Nat /\ call[p] = Call("send", x, n)
  BY <1>1, <1>2 DEF Call
<1>4. samePort(call[p]) <=> (ptstate[x] = "ALLOC" /\ ptseq[x] = n)
  BY DEF samePort
<1> HIDE DEF x, n
<1>5. Idle \in [op : Ops, port : PortIds, seq : Nat]
  BY CallFacts
<1>6. /\ call' \in [Procs -> [op : Ops, port : PortIds, seq : Nat]]
      /\ call'[p] = Idle /\ \A q \in Procs : q # p => call'[q] = call[q]
  BY <1>1, <1>2, <1>5, SetAt
<1>7. \A y \in PortIds : y # x => Apart(call, p, y) /\ Apart(call', p, y)
  BY <1>3, <1>6, IdleFacts, CallFacts DEF Apart
<1>8. ~waitsOn(p, ptssem[x]) /\ ~waitsOn(p, ptrsem[x])
  BY <1>1, <1>3 DEF Waiting
<1>9. CASE ~samePort(call[p])
  <2>1. UNCHANGED <<ptstate, ptmaxcnt, ptseq, ptssem, ptrsem, ptlist, ptfree, ptgen, ptnextid>>
    BY <1>1, <1>9
  <2>2. PortAt(x, ptstate[x], ptmaxcnt[x], ptseq[x], ptssem[x], ptrsem[x], ptlist[x], call)
    BY <1>3 DEF TableInv
  <2>3. call[p].op \in {"send", "recv"} /\ ~(ptstate[x] = "ALLOC" /\ call[p].seq = ptseq[x])
    BY <1>1, <1>4, <1>9 DEF n
  <2>4. PortAt(x, ptstate[x], ptmaxcnt[x], ptseq[x], ptssem[x], ptrsem[x], ptlist[x], call')
    BY <1>6, <1>8, <2>2, <2>3, CallLeaves
  <2>5. TableInv'
    BY <1>1, <1>3, <1>6, <1>7, <2>1, <2>4, OnePort
  <2> QED BY <1>6, <1>9, <2>1, <2>5 DEF PortType
<1>10. CASE samePort(call[p])
  <2>1. put(x, n) /\ ptstate[x] = "ALLOC" /\ ptseq[x] = n
    BY <1>1, <1>4, <1>10
  <2>2. /\ PortAt(x, "ALLOC", ptmaxcnt[x], n, ptssem[x], ptrsem[x], ptlist[x], call)
        /\ Permitted(ptmaxcnt[x], ptssem[x], ptrsem[x], ptlist[x], S, R)
        /\ ptmaxcnt[x] \in Nat /\ ptlist[x] \in Seq(Nodes) /\ Len(ptlist[x]) \in Nat
    BY <1>3, <2>1, AllocFacts
  <2>3. IsFiniteSet(Procs) /\ SemOf(ptssem[x], Procs, S) /\ permits(ptssem[x], S) \in Nat
    BY <2>2, PermittedFacts
  <2>4. /\ p \in S /\ Current(call', n, "send", x) = S \ {p}
        /\ Current(call', n, "recv", x) = R
    <3> HIDE DEF S, R
    <3>1. /\ p \in Current(call, n, "send", x)
          /\ Current(call', n, "send", x) = Current(call, n, "send", x) \ {p}
          /\ Current(call', n, "recv", x) = Current(call, n, "recv", x)
      <4>1. call[p] = Call("send", x, n) /\ "send" \in {"send", "recv"} /\ call'[p] = Idle
        BY <1>3, <1>6
      <4>2. \A q \in Procs : q # p => call'[q] = call[q]
        BY <1>6
      <4> QED BY <4>1, <4>2, CurrentEnds
    <3> QED BY <3>1 DEF S, R
  <2> HIDE DEF S, R
  <2>5. SemOf(ptssem[x], Procs, S \ {p}) /\ permits(ptssem[x], S) = permits(ptssem[x], S \ {p}) + 1
    BY <1>8, <2>3, <2>4, PermitsTaken
  <2>6. permits(ptssem[x], S \ {p}) \in Nat
    BY <2>3, <2>5, PermitsNat
  <2>7. /\ ptssem[x].used /\ Len(ptlist[x]) + permits(ptssem[x], S \ {p}) < ptmaxcnt[x]
        /\ Permitted(ptmaxcnt[x], ptssem[x], ptrsem[x], ptlist[x], S \ {p}, R)
    <3>1. ptssem[x].used
      BY <2>2, <2>4 DEF Permitted
    <3>2. Len(ptlist[x]) + permits(ptssem[x], S) <= ptmaxcnt[x]
      BY <2>2, <3>1 DEF Permitted
    <3>3. Len(ptlist[x]) + permits(ptssem[x], S \ {p}) < ptmaxcnt[x]
      BY <2>2, <2>3, <2>5, <2>6, <3>2
    <3>4. Len(ptlist[x]) + permits(ptssem[x], S \ {p}) <= ptmaxcnt[x]
      BY <2>2, <2>6, <3>3
    <3> QED BY <2>2, <2>5, <3>1, <3>3, <3>4 DEF Permitted
  <2>8. /\ ptlist' \in [PortIds -> Seq(Nodes)] /\ ptfree' \in Seq(Nodes)
        /\ DOMAIN ptgen' = Nodes /\ DOMAIN ptrsem' = PortIds
        /\ \A y \in PortIds : y # x => ptlist'[y] = ptlist[y] /\ ptrsem'[y] = ptrsem[y]
        /\ Permitted(ptmaxcnt[x], ptssem[x], ptrsem'[x], ptlist'[x], S \ {p}, R)
    BY <1>3, <2>1, <2>7, PutAt
  <2>9. PortType'
    BY <1>1, <1>6, <2>8 DEF PortType
  <2>10. PortAt(x, "ALLOC", ptmaxcnt[x], n, ptssem[x], ptrsem'[x], ptlist'[x], call')
    <3>1. call'[p].op \notin {"reset", "delete"} /\ ~(call'[p].op \in {"send", "recv"})
      BY <1>6, IdleFacts
    <3>2. ptlist'[x] \in Seq(Nodes)
      BY <1>3, <2>8
    <3>3. Permitted(ptmaxcnt[x], ptssem[x], ptrsem'[x], ptlist'[x],
                    Current(call', n, "send", x), Current(call', n, "recv", x))
      BY <2>4, <2>8
    <3> QED BY <1>3, <1>6, <2>2, <3>1, <3>2, <3>3, AllocAt
  <2>11. TableInv'
    <3>1. PortAt(x, ptstate'[x], ptmaxcnt'[x], ptseq'[x], ptssem'[x], ptrsem'[x], ptlist'[x], call')
      BY <1>1, <2>1, <2>10
    <3> QED BY <1>1, <1>3, <1>6, <1>7, <2>8, <3>1, OnePort
  <2>12. Len(ptlist[x]) < ptmaxcnt[x]
    BY <2>2, <2>6, <2>7
  <2> QED BY <2>9, <2>11, <2>12 DEF x
<1> QED BY <1>9, <1>10

\* ptrecv() that does not block.
LEMMA RecvTable ==
    ASSUME PortType, TableInv, NEW p \in Procs, NEW x \in PortIds, ptrecv(p, x)
    PROVE  PortType' /\ TableInv' /\ ptlist[x] # <<>>
<1> DEFINE S == Current(call, ptseq[x], "send", x)
           R == Current(call, ptseq[x], "recv", x)
           r2 == passed(ptrsem[x])
<1>1. /\ Starts(p) /\ ptstate[x] = "ALLOC" /\ passes(ptrsem[x])
      /\ ptrsem' = [ptrsem EXCEPT ![x] = r2] /\ take(x)
      /\ UNCHANGED <<ptstate, ptmaxcnt, ptseq, ptgen, ptnextid, call>>
  BY DEF ptrecv
<1>2. call[p] = Idle /\ ~Waiting(p) /\ call' = call
  BY <1>1 DEF Starts, Runs
<1>3. /\ PortAt(x, "ALLOC", ptmaxcnt[x], ptseq[x], ptssem[x], ptrsem[x], ptlist[x], call)
      /\ Permitted(ptmaxcnt[x], ptssem[x], ptrsem[x], ptlist[x], S, R)
      /\ ptmaxcnt[x] \in Nat /\ ptseq[x] \in Nat /\ ptlist[x] \in Seq(Nodes) /\ Len(ptlist[x]) \in Nat
  BY <1>1, AllocFacts
<1>4. IsFiniteSet(Procs) /\ SemOf(ptrsem[x], Procs, R) /\ permits(ptrsem[x], R) \in Nat
  BY <1>3, PermittedFacts
<1> HIDE DEF S, R
<1>5. SemOf(r2, Procs, R) /\ permits(ptrsem[x], R) = permits(r2, R) + 1
  BY <1>1, <1>4, PermitsPassed
<1>6. permits(r2, R) \in Nat
  BY <1>4, <1>5, PermitsNat
<1>7. permits(r2, R) < Len(ptlist[x]) /\ Permitted(ptmaxcnt[x], ptssem[x], r2, ptlist[x], S, R)
  <2>1. permits(ptrsem[x], R) <= Len(ptlist[x])
    BY <1>3 DEF Permitted
  <2>2. permits(r2, R) < Len(ptlist[x]) /\ permits(r2, R) <= Len(ptlist[x])
    BY <1>3, <1>4, <1>5, <1>6, <2>1
  <2> QED BY <1>3, <1>5, <2>2 DEF Permitted
<1> HIDE DEF r2
<1>8. /\ ptlist[x] # <<>>
      /\ ptlist' \in [PortIds -> Seq(Nodes)] /\ ptfree' \in Seq(Nodes) /\ DOMAIN ptssem' = PortIds
      /\ \A y \in PortIds : y # x => ptlist'[y] = ptlist[y] /\ ptssem'[y] = ptssem[y]
      /\ Permitted(ptmaxcnt[x], ptssem'[x], r2, ptlist'[x], S, R)
  BY <1>1, <1>7, TakeAt
<1>9. /\ DOMAIN ptrsem' = PortIds /\ ptrsem'[x] = r2
      /\ \A y \in PortIds : y # x => ptrsem'[y] = ptrsem[y]
  BY <1>1 DEF PortType
<1>10. PortType'
  BY <1>1, <1>8, <1>9 DEF PortType
<1>11. PortAt(x, "ALLOC", ptmaxcnt[x], ptseq[x], ptssem'[x], r2, ptlist'[x], call)
  <2>1. call[p].op \notin {"reset", "delete"} /\ ~(call[p].op \in {"send", "recv"})
    BY <1>2, IdleFacts
  <2>2. ptlist'[x] \in Seq(Nodes)
    BY <1>8
  <2> QED BY <1>3, <1>8, <2>1, <2>2, AllocAt DEF S, R
<1>12. \A y \in PortIds : Apart(call, p, y)
  BY <1>2, IdleFacts
<1>13. TableInv'
  BY <1>1, <1>2, <1>8, <1>9, <1>11, <1>12, OnePort
<1> QED BY <1>8, <1>10, <1>13

\* ptrecv() that blocks.
LEMMA RecvWaitTable ==
    ASSUME PortType, TableInv, NEW p \in Procs, NEW x \in PortIds, ptrecvWait(p, x)
    PROVE  PortType' /\ TableInv'
<1> DEFINE n == ptseq[x]
           S == Current(call, n, "send", x)
           R == Current(call, n, "recv", x)
           r2 == blocked(ptrsem[x], p)
<1>1. /\ Starts(p) /\ ptstate[x] = "ALLOC" /\ blocks(ptrsem[x])
      /\ ptrsem' = [ptrsem EXCEPT ![x] = r2] /\ call' = [call EXCEPT ![p] = Call("recv", x, n)]
      /\ UNCHANGED <<ptstate, ptmaxcnt, ptseq, ptssem, ptlist, ptfree, ptgen, ptnextid>>
  BY DEF ptrecvWait
<1>2. call[p] = Idle /\ ~Waiting(p) /\ call \in [Procs -> [op : Ops, port : PortIds, seq : Nat]]
  BY <1>1 DEF Starts, Runs, PortType
<1>3. /\ PortAt(x, "ALLOC", ptmaxcnt[x], n, ptssem[x], ptrsem[x], ptlist[x], call)
      /\ Permitted(ptmaxcnt[x], ptssem[x], ptrsem[x], ptlist[x], S, R)
      /\ ptmaxcnt[x] \in Nat /\ n \in Nat /\ ptlist[x] \in Seq(Nodes) /\ Len(ptlist[x]) \in Nat
  BY <1>1, AllocFacts
<1>4. IsFiniteSet(Procs) /\ SemOf(ptrsem[x], Procs, R) /\ permits(ptrsem[x], R) \in Nat
  BY <1>3, PermittedFacts
<1>5. Call("recv", x, n) \in [op : Ops, port : PortIds, seq : Nat]
  BY <1>3, CallFacts DEF Ops
<1>6. /\ call' \in [Procs -> [op : Ops, port : PortIds, seq : Nat]]
      /\ call'[p] = Call("recv", x, n) /\ \A q \in Procs : q # p => call'[q] = call[q]
  BY <1>1, <1>2, <1>5, SetAt
<1> HIDE DEF n
<1>7. /\ p \notin R /\ Current(call', n, "recv", x) = R \cup {p}
      /\ Current(call', n, "send", x) = S
  BY <1>2, <1>6, CurrentBegins
<1> HIDE DEF S, R
<1>8. SemOf(r2, Procs, R \cup {p}) /\ permits(r2, R \cup {p}) = permits(ptrsem[x], R)
  BY <1>1, <1>4, <1>7, PermitsBlocked
<1> HIDE DEF r2
<1>9. Permitted(ptmaxcnt[x], ptssem[x], r2, ptlist[x], S, R \cup {p})
  BY <1>3, <1>8 DEF Permitted
<1>10. /\ DOMAIN ptrsem' = PortIds /\ ptrsem'[x] = r2
       /\ \A y \in PortIds : y # x => ptrsem'[y] = ptrsem[y]
  BY <1>1 DEF PortType
<1>11. PortType'
  BY <1>1, <1>6, <1>10 DEF PortType
<1>12. PortAt(x, "ALLOC", ptmaxcnt[x], n, ptssem[x], r2, ptlist[x], call')
  <2>1. call'[p].op = "recv" /\ call'[p].port = x /\ call'[p].seq = n
    BY <1>6, CallFacts
  <2>2. Permitted(ptmaxcnt[x], ptssem[x], r2, ptlist[x],
                  Current(call', n, "send", x), Current(call', n, "recv", x))
    BY <1>7, <1>9
  <2>3. call'[p].op \notin {"reset", "delete"}
    BY <2>1
  <2> QED BY <1>3, <1>6, <2>1, <2>2, <2>3, AllocAt
<1>13. \A y \in PortIds : y # x => Apart(call, p, y) /\ Apart(call', p, y)
  BY <1>2, <1>6, IdleFacts, CallFacts DEF Apart
<1>14. TableInv'
  <2>1. PortAt(x, ptstate'[x], ptmaxcnt'[x], ptseq'[x], ptssem'[x], ptrsem'[x], ptlist'[x], call')
    BY <1>1, <1>10, <1>12 DEF n
  <2> QED BY <1>1, <1>2, <1>6, <1>10, <1>13, <2>1, OnePort
<1> QED BY <1>11, <1>14

\* The rest of ptrecv().
LEMMA RecvEndTable ==
    ASSUME PortType, TableInv, NEW p \in Procs, ptrecvEnd(p)
    PROVE  PortType' /\ TableInv' /\ (samePort(call[p]) => ptlist[call[p].port] # <<>>)
<1> DEFINE x == call[p].port
           n == call[p].seq
           S == Current(call, n, "send", x)
           R == Current(call, n, "recv", x)
<1>1. /\ call[p].op = "recv" /\ ~Waiting(p)
      /\ IF samePort(call[p]) THEN take(x) ELSE UNCHANGED <<ptlist, ptfree, ptssem>>
      /\ call' = [call EXCEPT ![p] = Idle]
      /\ UNCHANGED <<ptstate, ptmaxcnt, ptseq, ptrsem, ptgen, ptnextid>>
  BY DEF ptrecvEnd, Runs
<1>2. call \in [Procs -> [op : Ops, port : PortIds, seq : Nat]]
  BY DEF PortType
<1>3. x \in PortIds /\ n \in Nat /\ call[p] = Call("recv", x, n)
  BY <1>1, <1>2 DEF Call
<1>4. samePort(call[p]) <=> (ptstate[x] = "ALLOC" /\ ptseq[x] = n)
  BY DEF samePort
<1> HIDE DEF x, n
<1>5. Idle \in [op : Ops, port : PortIds, seq : Nat]
  BY CallFacts
<1>6. /\ call' \in [Procs -> [op : Ops, port : PortIds, seq : Nat]]
      /\ call'[p] = Idle /\ \A q \in Procs : q # p => call'[q] = call[q]
  BY <1>1, <1>2, <1>5, SetAt
<1>7. \A y \in PortIds : y # x => Apart(call, p, y) /\ Apart(call', p, y)
  BY <1>3, <1>6, IdleFacts, CallFacts DEF Apart
<1>8. ~waitsOn(p, ptssem[x]) /\ ~waitsOn(p, ptrsem[x])
  BY <1>1, <1>3 DEF Waiting
<1>9. CASE ~samePort(call[p])
  <2>1. UNCHANGED <<ptstate, ptmaxcnt, ptseq, ptssem, ptrsem, ptlist, ptfree, ptgen, ptnextid>>
    BY <1>1, <1>9
  <2>2. PortAt(x, ptstate[x], ptmaxcnt[x], ptseq[x], ptssem[x], ptrsem[x], ptlist[x], call)
    BY <1>3 DEF TableInv
  <2>3. call[p].op \in {"send", "recv"} /\ ~(ptstate[x] = "ALLOC" /\ call[p].seq = ptseq[x])
    BY <1>1, <1>4, <1>9 DEF n
  <2>4. PortAt(x, ptstate[x], ptmaxcnt[x], ptseq[x], ptssem[x], ptrsem[x], ptlist[x], call')
    BY <1>6, <1>8, <2>2, <2>3, CallLeaves
  <2>5. TableInv'
    BY <1>1, <1>3, <1>6, <1>7, <2>1, <2>4, OnePort
  <2> QED BY <1>6, <1>9, <2>1, <2>5 DEF PortType
<1>10. CASE samePort(call[p])
  <2>1. take(x) /\ ptstate[x] = "ALLOC" /\ ptseq[x] = n
    BY <1>1, <1>4, <1>10
  <2>2. /\ PortAt(x, "ALLOC", ptmaxcnt[x], n, ptssem[x], ptrsem[x], ptlist[x], call)
        /\ Permitted(ptmaxcnt[x], ptssem[x], ptrsem[x], ptlist[x], S, R)
        /\ ptmaxcnt[x] \in Nat /\ ptlist[x] \in Seq(Nodes) /\ Len(ptlist[x]) \in Nat
    BY <1>3, <2>1, AllocFacts
  <2>3. IsFiniteSet(Procs) /\ SemOf(ptrsem[x], Procs, R) /\ permits(ptrsem[x], R) \in Nat
    BY <2>2, PermittedFacts
  <2>4. /\ p \in R /\ Current(call', n, "recv", x) = R \ {p}
        /\ Current(call', n, "send", x) = S
    <3> HIDE DEF S, R
    <3>1. /\ p \in Current(call, n, "recv", x)
          /\ Current(call', n, "recv", x) = Current(call, n, "recv", x) \ {p}
          /\ Current(call', n, "send", x) = Current(call, n, "send", x)
      <4>1. call[p] = Call("recv", x, n) /\ "recv" \in {"send", "recv"} /\ call'[p] = Idle
        BY <1>3, <1>6
      <4>2. \A q \in Procs : q # p => call'[q] = call[q]
        BY <1>6
      <4> QED BY <4>1, <4>2, CurrentEnds
    <3> QED BY <3>1 DEF S, R
  <2> HIDE DEF S, R
  <2>5. SemOf(ptrsem[x], Procs, R \ {p}) /\ permits(ptrsem[x], R) = permits(ptrsem[x], R \ {p}) + 1
    BY <1>8, <2>3, <2>4, PermitsTaken
  <2>6. permits(ptrsem[x], R \ {p}) \in Nat
    BY <2>3, <2>5, PermitsNat
  <2>7. /\ permits(ptrsem[x], R \ {p}) < Len(ptlist[x])
        /\ Permitted(ptmaxcnt[x], ptssem[x], ptrsem[x], ptlist[x], S, R \ {p})
    <3>1. permits(ptrsem[x], R) <= Len(ptlist[x])
      BY <2>2 DEF Permitted
    <3>2. permits(ptrsem[x], R \ {p}) < Len(ptlist[x]) /\ permits(ptrsem[x], R \ {p}) <= Len(ptlist[x])
      BY <2>2, <2>3, <2>5, <2>6, <3>1
    <3> QED BY <2>2, <2>5, <3>2 DEF Permitted
  <2>8. /\ ptlist[x] # <<>>
        /\ ptlist' \in [PortIds -> Seq(Nodes)] /\ ptfree' \in Seq(Nodes) /\ DOMAIN ptssem' = PortIds
        /\ \A y \in PortIds : y # x => ptlist'[y] = ptlist[y] /\ ptssem'[y] = ptssem[y]
        /\ Permitted(ptmaxcnt[x], ptssem'[x], ptrsem[x], ptlist'[x], S, R \ {p})
    BY <1>3, <2>1, <2>7, TakeAt
  <2>9. PortType'
    BY <1>1, <1>6, <2>8 DEF PortType
  <2>10. PortAt(x, "ALLOC", ptmaxcnt[x], n, ptssem'[x], ptrsem[x], ptlist'[x], call')
    <3>1. call'[p].op \notin {"reset", "delete"} /\ ~(call'[p].op \in {"send", "recv"})
      BY <1>6, IdleFacts
    <3>2. ptlist'[x] \in Seq(Nodes)
      BY <1>3, <2>8
    <3>3. Permitted(ptmaxcnt[x], ptssem'[x], ptrsem[x], ptlist'[x],
                    Current(call', n, "send", x), Current(call', n, "recv", x))
      BY <2>4, <2>8
    <3> QED BY <1>3, <1>6, <2>2, <3>1, <3>2, <3>3, AllocAt
  <2>11. TableInv'
    <3>1. PortAt(x, ptstate'[x], ptmaxcnt'[x], ptseq'[x], ptssem'[x], ptrsem'[x], ptlist'[x], call')
      BY <1>1, <2>1, <2>10
    <3>2. \A y \in PortIds : y # x =>
             /\ ptstate'[y] = ptstate[y] /\ ptmaxcnt'[y] = ptmaxcnt[y] /\ ptseq'[y] = ptseq[y]
             /\ ptssem'[y] = ptssem[y] /\ ptrsem'[y] = ptrsem[y] /\ ptlist'[y] = ptlist[y]
      BY <1>1, <2>8
    <3>3. ~Waiting(p) /\ \A q \in Procs : q # p => call'[q] = call[q]
      BY <1>1, <1>6
    <3> QED BY <1>3, <1>7, <3>1, <3>2, <3>3, OnePort
  <2> QED BY <2>8, <2>9, <2>11 DEF x
<1> QED BY <1>9, <1>10

\* The semaphores after semreset() and semdelete().
LEMMA ResetFacts ==
    ASSUME NEW s, NEW n \in Nat, SemSound(s, Procs)
    PROVE  /\ SemSound(reset(s, n), Procs) /\ SemSound(deleted(s), Procs)
           /\ \A q : ~waitsOn(q, reset(s, n)) /\ ~waitsOn(q, deleted(s))
           /\ available(reset(s, n)) <= n /\ available(deleted(s)) = 0
           /\ s.used => available(reset(s, n)) = n
           /\ ~s.used => available(reset(s, n)) = 0
           /\ reset(s, n).used = s.used
<1>1. CASE s.used
  <2>1. reset(s, n) = Sem(n) /\ deleted(s) = NoSem /\ s.used = TRUE
    BY <1>1 DEF reset, deleted, SemSound
  <2>2. Sem(n).used = TRUE
    BY DEF Sem
  <2>3. SemSound(Sem(n), Procs) /\ available(Sem(n)) = n /\ \A q : ~waitsOn(q, Sem(n))
    BY SemNew
  <2>4. SemSound(NoSem, Procs) /\ available(NoSem) = 0 /\ \A q : ~waitsOn(q, NoSem)
    BY SemNone
  <2>5. SemSound(reset(s, n), Procs) /\ SemSound(deleted(s), Procs)
    BY <2>1, <2>3, <2>4
  <2>6. \A q : ~waitsOn(q, reset(s, n)) /\ ~waitsOn(q, deleted(s))
    BY <2>1, <2>3, <2>4
  <2>7. available(reset(s, n)) = n /\ available(deleted(s)) = 0
    BY <2>1, <2>3, <2>4
  <2>8. reset(s, n).used = s.used
    BY <2>1, <2>2
  <2> HIDE DEF Sem
  <2>9. available(reset(s, n)) <= n
    BY <2>7
  <2> QED BY <1>1, <2>5, <2>6, <2>7, <2>8, <2>9
<1>2. CASE ~s.used
  <2>1. reset(s, n) = s /\ deleted(s) = NoSem /\ s.count = 0
    BY <1>2 DEF reset, deleted, SemSound
  <2>2. available(s) = 0
    BY <2>1 DEF available
  <2>3. \A q : ~waitsOn(q, s)
    BY <1>2, WaitsOnProc
  <2> QED BY <1>2, <2>1, <2>2, <2>3, SemNone
<1> QED BY <1>1, <1>2

\* A process begins to clear a port.
LEMMA ClearBegins ==
    ASSUME NEW c, NEW d, NEW p \in Procs, \A q \in Procs : q # p => d[q] = c[q],
           NEW op \in {"reset", "delete"}, NEW x, c[p] = Idle, d[p] = Call(op, x, 0),
           NEW mx, NEW sq \in Nat, NEW ss, NEW rs, NEW ls,
           PortAt(x, "ALLOC", mx, sq, ss, rs, ls, c), ~waitsOn(p, ss), ~waitsOn(p, rs),
           \A q \in Procs : c[q].seq \in Nat
    PROVE  PortAt(x, "LIMBO", mx, sq + 1, ss, rs, ls, d)
<1>0. d[p].op = op /\ d[p].port = x /\ d[p].seq = 0
  BY CallFacts
<1>1. \A q \in Procs : Clears(d, q, x) => q = p
  <2>1. \A q \in Procs : ~Clears(c, q, x)
    BY DEF PortAt, Cleared
  <2> QED BY <2>1 DEF Clears
<1>2. \A q \in Procs : ~ClearsAt(d, q, x, 1) /\ ~ClearsAt(d, q, x, 2)
  BY <1>0, <1>1 DEF ClearsAt
<1>3. Cleared(x, "LIMBO", mx, ss, rs, ls, d)
  BY <1>0, <1>1, <1>2 DEF Cleared
<1>4. ASSUME NEW q \in Procs, d[q].op \in {"send", "recv"}, d[q].port = x
      PROVE  d[q].seq <= sq + 1 /\ d[q].seq # sq + 1
  <2>1. q # p /\ d[q] = c[q]
    BY <1>0, <1>4
  <2>2. c[q].seq <= sq /\ c[q].seq \in Nat
    BY <1>4, <2>1 DEF PortAt, Awaited
  <2> QED BY <2>1, <2>2
<1>5. Awaited(x, "LIMBO", sq + 1, ss, rs, d)
  BY <1>4 DEF PortAt, Awaited
<1>6. Counted(x, "LIMBO", mx, sq + 1, ss, rs, ls, d)
  BY DEF PortAt, Counted
<1> QED BY <1>3, <1>5, <1>6 DEF PortAt

\* It lets the senders go, or the receivers.
LEMMA ClearGoesOn ==
    ASSUME NEW c, NEW d, NEW p \in Procs, \A q \in Procs : q # p => d[q] = c[q],
           NEW x, NEW n \in {0, 1}, ClearsAt(c, p, x, n),
           d[p].op = c[p].op, d[p].port = c[p].port, d[p].seq = n + 1,
           NEW st, NEW mx \in Nat, NEW sq, NEW ss, NEW rs, NEW ls, NEW s2, NEW r2, NEW l2,
           PortAt(x, st, mx, sq, ss, rs, ls, c),
           IF n = 0
           THEN /\ s2 = IF c[p].op = "reset" THEN reset(ss, mx) ELSE deleted(ss)
                /\ l2 = IF c[p].op = "reset" THEN <<>> ELSE ls
                /\ r2 = rs
           ELSE /\ r2 = IF c[p].op = "reset" THEN reset(rs, 0) ELSE deleted(rs)
                /\ s2 = ss /\ l2 = ls
    PROVE  PortAt(x, st, mx, sq, s2, r2, l2, d)
<1>0. /\ st = "LIMBO" /\ \A q \in Procs : Clears(c, q, x) => q = p
      /\ c[p].op \in {"reset", "delete"} /\ c[p].port = x /\ c[p].seq = n
      /\ SemSound(ss, Procs) /\ SemSound(rs, Procs) /\ Len(ls) <= mx
  BY DEF PortAt, Cleared, Awaited, Counted, ClearsAt, Clears
<1>1. \A q \in Procs : Clears(d, q, x) => q = p
  BY <1>0 DEF Clears
<1>2. \A q \in Procs : \A m : ClearsAt(d, q, x, m) => q = p /\ m = n + 1
  BY <1>1 DEF ClearsAt
<1>3. /\ SemSound(reset(ss, mx), Procs) /\ SemSound(deleted(ss), Procs)
      /\ \A q : ~waitsOn(q, reset(ss, mx)) /\ ~waitsOn(q, deleted(ss))
      /\ available(reset(ss, mx)) <= mx
  BY <1>0, ResetFacts
<1>4. /\ SemSound(reset(rs, 0), Procs) /\ SemSound(deleted(rs), Procs)
      /\ \A q : ~waitsOn(q, reset(rs, 0)) /\ ~waitsOn(q, deleted(rs))
      /\ available(reset(rs, 0)) = 0 /\ available(deleted(rs)) = 0
  BY <1>0, ResetFacts
<1>5. Len(l2) <= mx
  BY <1>0, EmptyList
<1>6. SemSound(s2, Procs) /\ \A q \in Procs : ~waitsOn(q, s2)
  <2>1. CASE n = 0
    BY <1>3, <2>1
  <2>2. CASE n = 1
    BY <1>0, <2>2 DEF PortAt, Cleared
  <2> QED BY <2>1, <2>2
<1>7. c[p].op = "reset" => l2 = <<>> /\ available(s2) <= mx
  <2>1. CASE n = 0
    BY <1>3, <2>1
  <2>2. CASE n = 1
    BY <1>0, <2>2 DEF PortAt, Cleared
  <2> QED BY <2>1, <2>2
<1>8. SemSound(r2, Procs) /\ (n = 1 => (\A q \in Procs : ~waitsOn(q, r2)) /\ available(r2) = 0)
  BY <1>0, <1>4
<1>9. Cleared(x, st, mx, s2, r2, l2, d)
  <2>1. \A q \in Procs : Clears(d, q, x) => st = "LIMBO" /\ d[q].seq \in 0 .. 2
    BY <1>0, <1>1
  <2>2. \A q \in Procs : ClearsAt(d, q, x, 1) \/ ClearsAt(d, q, x, 2) =>
           /\ \A q2 \in Procs : ~waitsOn(q2, s2)
           /\ d[q].op = "reset" => l2 = <<>> /\ available(s2) <= mx
    BY <1>2, <1>6, <1>7
  <2>3. \A q \in Procs : ClearsAt(d, q, x, 2) =>
           (\A q2 \in Procs : ~waitsOn(q2, r2)) /\ available(r2) = 0
    BY <1>2, <1>8
  <2> QED BY <1>1, <2>1, <2>2, <2>3 DEF Cleared
<1>10. Awaited(x, st, sq, s2, r2, d)
  <2>1. \A q \in Procs : waitsOn(q, r2) => waitsOn(q, rs)
    BY <1>8
  <2>2. \A q \in Procs : waitsOn(q, rs) => q # p /\ c[q].op = "recv" /\ c[q].port = x
    BY <1>0 DEF PortAt, Awaited
  <2>3. \A q \in Procs : d[q].op \in {"send", "recv"} => q # p
    BY <1>0
  <2> QED BY <1>6, <1>8, <2>1, <2>2, <2>3 DEF PortAt, Awaited
<1>11. Counted(x, st, mx, sq, s2, r2, l2, d)
  BY <1>0, <1>5 DEF Counted
<1> QED BY <1>9, <1>10, <1>11 DEF PortAt

\* The port leaves limbo.
LEMMA ClearEnds ==
    ASSUME NEW c, NEW d, NEW p \in Procs, \A q \in Procs : q # p => d[q] = c[q],
           NEW x, ClearsAt(c, p, x, 2), d[p] = Idle,
           NEW st, NEW mx \in Nat, NEW sq, NEW ss, NEW rs, NEW ls, NEW t,
           PortAt(x, st, mx, sq, ss, rs, ls, c),
           t = IF c[p].op = "reset" THEN "ALLOC" ELSE "FREE"
    PROVE  PortAt(x, t, mx, sq, ss, rs, ls, d)
<1>0. /\ st = "LIMBO" /\ \A q \in Procs : Clears(c, q, x) => q = p
      /\ SemSound(ss, Procs) /\ SemSound(rs, Procs) /\ Len(ls) <= mx
      /\ \A q \in Procs : ~waitsOn(q, ss) /\ ~waitsOn(q, rs)
      /\ available(rs) = 0
      /\ c[p].op = "reset" => ls = <<>> /\ available(ss) <= mx
  BY DEF PortAt, Cleared, Awaited, Counted, ClearsAt
<1>1. \A q \in Procs : ~Clears(d, q, x)
  <2>1. ~Clears(d, p, x)
    BY IdleFacts, ApartFacts
  <2> QED BY <1>0, <2>1 DEF Clears
<1>2. Cleared(x, t, mx, ss, rs, ls, d)
  BY <1>1 DEF Cleared, ClearsAt
<1>3. \A q \in Procs : d[q].op \in {"send", "recv"} /\ d[q].port = x => d[q].seq <= sq /\ d[q].seq # sq
  <2>1. ~(d[p].op \in {"send", "recv"})
    BY CallFacts
  <2> QED BY <1>0, <2>1 DEF PortAt, Awaited
<1>4. Awaited(x, t, sq, ss, rs, d)
  BY <1>0, <1>3 DEF Awaited
<1>5. Current(d, sq, "send", x) = {} /\ Current(d, sq, "recv", x) = {}
  BY <1>3, CallFacts DEF Current
<1>6. c[p].op = "reset" => Permitted(mx, ss, rs, ls, {}, {})
  <2>1. SemOf(ss, Procs, {}) /\ permits(ss, {}) = available(ss)
    BY <1>0, PermitsNew
  <2>2. SemOf(rs, Procs, {}) /\ permits(rs, {}) = available(rs)
    BY <1>0, PermitsNew
  <2>3. available(ss) \in Nat
    BY <1>0 DEF SemSound, available
  <2>4. c[p].op = "reset" => Len(ls) = 0
    BY <1>0, EmptyList
  <2> QED BY <1>0, <2>1, <2>2, <2>3, <2>4 DEF Permitted
<1>7. Counted(x, t, mx, sq, ss, rs, ls, d)
  BY <1>0, <1>5, <1>6 DEF Counted
<1> QED BY <1>2, <1>4, <1>7 DEF PortAt

\* _ptclear() puts the port in limbo.
LEMMA ClearTable ==
    ASSUME PortType, TableInv, NEW p \in Procs, NEW x \in PortIds, NEW op \in {"reset", "delete"},
           _ptclear(p, x, op)
    PROVE  PortType' /\ TableInv'
<1>1. /\ Starts(p) /\ ptstate[x] = "ALLOC"
      /\ ptstate' = [ptstate EXCEPT ![x] = "LIMBO"] /\ ptseq' = [ptseq EXCEPT ![x] = ptseq[x] + 1]
      /\ call' = [call EXCEPT ![p] = Call(op, x, 0)]
      /\ UNCHANGED <<ptmaxcnt, ptssem, ptrsem, ptlist, ptfree, ptgen, ptnextid>>
  BY DEF _ptclear
<1>2. call[p] = Idle /\ ~Waiting(p)
  BY <1>1 DEF Starts, Runs
<1>3. /\ call \in [Procs -> [op : Ops, port : PortIds, seq : Nat]]
      /\ ptstate \in [PortIds -> {"FREE", "ALLOC", "LIMBO"}] /\ ptseq \in [PortIds -> Nat]
      /\ ptseq[x] + 1 \in Nat /\ ptseq[x] \in Nat
  BY SMTT(30) DEF PortType
<1>4. Call(op, x, 0) \in [op : Ops, port : PortIds, seq : Nat]
  BY CallFacts DEF Ops
<1>5. /\ call' \in [Procs -> [op : Ops, port : PortIds, seq : Nat]]
      /\ call'[p] = Call(op, x, 0) /\ \A q \in Procs : q # p => call'[q] = call[q]
  BY <1>1, <1>3, <1>4, SetAt
<1>6. /\ ptstate' \in [PortIds -> {"FREE", "ALLOC", "LIMBO"}]
      /\ ptstate'[x] = "LIMBO" /\ \A y \in PortIds : y # x => ptstate'[y] = ptstate[y]
  BY <1>1, <1>3
<1>7. /\ ptseq' \in [PortIds -> Nat] /\ ptseq'[x] = ptseq[x] + 1
      /\ \A y \in PortIds : y # x => ptseq'[y] = ptseq[y]
  BY <1>1, <1>3
<1>8. \A y \in PortIds : y # x => Apart(call, p, y) /\ Apart(call', p, y)
  BY <1>2, <1>5, IdleFacts, CallFacts DEF Apart
<1>9. PortAt(x, "ALLOC", ptmaxcnt[x], ptseq[x], ptssem[x], ptrsem[x], ptlist[x], call)
  BY <1>1, AllocFacts
<1>10. /\ ~waitsOn(p, ptssem[x]) /\ ~waitsOn(p, ptrsem[x])
       /\ \A q \in Procs : call[q].seq \in Nat
  BY <1>2, <1>3 DEF Waiting
<1>11. PortAt(x, "LIMBO", ptmaxcnt[x], ptseq[x] + 1, ptssem[x], ptrsem[x], ptlist[x], call')
  BY <1>2, <1>3, <1>5, <1>9, <1>10, ClearBegins
<1>12. PortAt(x, ptstate'[x], ptmaxcnt'[x], ptseq'[x], ptssem'[x], ptrsem'[x], ptlist'[x], call')
  BY <1>1, <1>6, <1>7, <1>11
<1>13. TableInv'
  BY <1>1, <1>2, <1>5, <1>6, <1>7, <1>8, <1>12, OnePort
<1>14. PortType'
  BY <1>1, <1>5, <1>6, <1>7 DEF PortType
<1> QED BY <1>13, <1>14

\* A call that goes on to another stage.
LEMMA NextStage ==
    ASSUME NEW O, NEW X, NEW r \in [op : O, port : X, seq : Nat], NEW m \in Nat
    PROVE  /\ [r EXCEPT !.seq = m] \in [op : O, port : X, seq : Nat]
           /\ [r EXCEPT !.seq = m].op = r.op /\ [r EXCEPT !.seq = m].port = r.port
           /\ [r EXCEPT !.seq = m].seq = m
OBVIOUS

\* _ptclear() lets the senders go, or the receivers.
LEMMA GoesOnTable ==
    ASSUME PortType, TableInv, NEW p \in Procs, clearSenders(p) \/ clearReceivers(p)
    PROVE  PortType' /\ TableInv'
<1> DEFINE x == call[p].port
           n == call[p].seq
           mx == ptmaxcnt[x]
<1>1. /\ call[p].op \in {"reset", "delete"} /\ n \in {0, 1} /\ ~Waiting(p)
      /\ call' = [call EXCEPT ![p].seq = n + 1]
      /\ UNCHANGED <<ptstate, ptmaxcnt, ptseq, ptgen, ptnextid>>
  <2>1. CASE clearSenders(p)
    BY <2>1 DEF clearSenders, Runs
  <2>2. CASE clearReceivers(p)
    BY <2>2 DEF clearReceivers, Runs
  <2> QED BY <2>1, <2>2
<1>2. /\ call \in [Procs -> [op : Ops, port : PortIds, seq : Nat]]
      /\ ptlist \in [PortIds -> Seq(Nodes)] /\ ptfree \in Seq(Nodes)
      /\ DOMAIN ptssem = PortIds /\ DOMAIN ptrsem = PortIds
  BY DEF PortType
<1>3. x \in PortIds /\ n \in Nat /\ mx \in Nat /\ ptlist[x] \in Seq(Nodes)
  BY <1>2, EntryFacts
<1>4. /\ call' \in [Procs -> [op : Ops, port : PortIds, seq : Nat]]
      /\ call'[p].op = call[p].op /\ call'[p].port = x /\ call'[p].seq = n + 1
      /\ \A q \in Procs : q # p => call'[q] = call[q]
  <2>1. n + 1 \in Nat /\ call' = [call EXCEPT ![p].seq = n + 1]
    BY <1>1, <1>3
  <2> DEFINE m == n + 1
             r == [call[p] EXCEPT !.seq = m]
  <2>2. m \in Nat /\ call' = [call EXCEPT ![p] = r]
    BY <2>1
  <2> HIDE DEF n, m, x
  <2>3. /\ r \in [op : Ops, port : PortIds, seq : Nat]
        /\ r.op = call[p].op /\ r.port = call[p].port /\ r.seq = m
    <3> DEFINE s == call[p]
    <3>1. s \in [op : Ops, port : PortIds, seq : Nat]
      BY <1>2
    <3> HIDE DEF s
    <3>2. /\ [s EXCEPT !.seq = m] \in [op : Ops, port : PortIds, seq : Nat]
          /\ [s EXCEPT !.seq = m].op = s.op /\ [s EXCEPT !.seq = m].port = s.port
          /\ [s EXCEPT !.seq = m].seq = m
      BY <2>2, <3>1, NextStage
    <3> QED BY <3>2 DEF s
  <2> HIDE DEF r
  <2>4. /\ call' \in [Procs -> [op : Ops, port : PortIds, seq : Nat]] /\ call'[p] = r
        /\ \A q \in Procs : q # p => call'[q] = call[q]
    BY <1>2, <2>2, <2>3, SetAt
  <2> QED BY <2>3, <2>4 DEF m, x
<1>5. ClearsAt(call, p, x, n)
  BY <1>1 DEF ClearsAt, Clears
<1>6. /\ \A y \in PortIds : y # x => ptssem'[y] = ptssem[y] /\ ptrsem'[y] = ptrsem[y] /\ ptlist'[y] = ptlist[y]
      /\ DOMAIN ptssem' = PortIds /\ DOMAIN ptrsem' = PortIds
      /\ ptlist' \in [PortIds -> Seq(Nodes)] /\ ptfree' \in Seq(Nodes)
      /\ IF n = 0
         THEN /\ ptssem'[x] = IF call[p].op = "reset" THEN reset(ptssem[x], mx) ELSE deleted(ptssem[x])
              /\ ptlist'[x] = IF call[p].op = "reset" THEN <<>> ELSE ptlist[x]
              /\ ptrsem'[x] = ptrsem[x]
         ELSE /\ ptrsem'[x] = IF call[p].op = "reset" THEN reset(ptrsem[x], 0) ELSE deleted(ptrsem[x])
              /\ ptssem'[x] = ptssem[x] /\ ptlist'[x] = ptlist[x]
  <2>1. CASE clearSenders(p)
    <3>1. /\ n = 0 /\ relink(x, call[p].op = "reset") /\ ptrsem' = ptrsem
          /\ ptssem' = [ptssem EXCEPT ![x] = IF call[p].op = "reset" THEN reset(ptssem[x], mx)
                                                                     ELSE deleted(ptssem[x])]
      BY <2>1 DEF clearSenders
    <3> HIDE DEF x, n, mx
    <3>2. ptfree' = ptlist[x] \o ptfree /\ ptfree' \in Seq(Nodes)
      BY <1>2, <1>3, <3>1, ConcatList DEF relink
    <3>3. /\ ptlist' \in [PortIds -> Seq(Nodes)]
          /\ ptlist'[x] = IF call[p].op = "reset" THEN <<>> ELSE ptlist[x]
          /\ \A y \in PortIds : y # x => ptlist'[y] = ptlist[y]
      <4>1. <<>> \in Seq(Nodes)
        OBVIOUS
      <4>2. CASE call[p].op = "reset"
        <5>1. ptlist' = [ptlist EXCEPT ![x] = <<>>]
          BY <3>1, <4>2 DEF relink
        <5> QED BY <1>2, <1>3, <4>1, <4>2, <5>1, SetAt
      <4>3. CASE call[p].op # "reset"
        <5>1. ptlist' = ptlist
          BY <3>1, <4>3 DEF relink
        <5> QED BY <1>2, <4>3, <5>1
      <4> QED BY <4>2, <4>3
    <3> QED BY <1>2, <1>3, <3>1, <3>2, <3>3
  <2>2. CASE clearReceivers(p)
    <3>1. /\ n = 1 /\ UNCHANGED <<ptssem, ptlist, ptfree>>
          /\ ptrsem' = [ptrsem EXCEPT ![x] = IF call[p].op = "reset" THEN reset(ptrsem[x], 0)
                                                                     ELSE deleted(ptrsem[x])]
      BY <2>2 DEF clearReceivers
    <3> HIDE DEF x, n, mx
    <3> QED BY <1>2, <1>3, <3>1
  <2> QED BY <2>1, <2>2
<1> HIDE DEF mx, n
<1>7. PortAt(x, ptstate[x], mx, ptseq[x], ptssem[x], ptrsem[x], ptlist[x], call)
  BY <1>3 DEF TableInv, mx
<1> HIDE DEF x
<1>8. PortAt(x, ptstate[x], mx, ptseq[x], ptssem'[x], ptrsem'[x], ptlist'[x], call')
  <2>1. call'[p].port = call[p].port
    BY <1>4 DEF x
  <2>2. n \in {0, 1} /\ mx \in Nat
    BY <1>1, <1>3
  <2>3. /\ call'[p].op = call[p].op /\ call'[p].seq = n + 1
        /\ \A q \in Procs : q # p => call'[q] = call[q]
    BY <1>4
  <2>4. IF n = 0
        THEN /\ ptssem'[x] = IF call[p].op = "reset" THEN reset(ptssem[x], mx) ELSE deleted(ptssem[x])
             /\ ptlist'[x] = IF call[p].op = "reset" THEN <<>> ELSE ptlist[x]
             /\ ptrsem'[x] = ptrsem[x]
        ELSE /\ ptrsem'[x] = IF call[p].op = "reset" THEN reset(ptrsem[x], 0) ELSE deleted(ptrsem[x])
             /\ ptssem'[x] = ptssem[x] /\ ptlist'[x] = ptlist[x]
    BY <1>6
  <2> QED BY <1>5, <1>7, <2>1, <2>2, <2>3, <2>4, ClearGoesOn
<1>9. PortAt(x, ptstate'[x], ptmaxcnt'[x], ptseq'[x], ptssem'[x], ptrsem'[x], ptlist'[x], call')
  BY <1>1, <1>8 DEF mx
<1>10. \A y \in PortIds : y # x => Apart(call, p, y) /\ Apart(call', p, y)
  BY <1>4 DEF Apart, x
<1>11. TableInv'
  <2>1. \A y \in PortIds : y # x =>
              /\ ptstate'[y] = ptstate[y] /\ ptmaxcnt'[y] = ptmaxcnt[y] /\ ptseq'[y] = ptseq[y]
              /\ ptssem'[y] = ptssem[y] /\ ptrsem'[y] = ptrsem[y] /\ ptlist'[y] = ptlist[y]
    BY <1>1, <1>6
  <2>2. ~Waiting(p) /\ \A q \in Procs : q # p => call'[q] = call[q]
    BY <1>1, <1>4
  <2> QED BY <1>3, <1>9, <1>10, <2>1, <2>2, OnePort
<1>12. PortType'
  BY <1>1, <1>4, <1>6 DEF PortType
<1> QED BY <1>11, <1>12

\* _ptclear() is done.
LEMMA ClearEndTable ==
    ASSUME PortType, TableInv, NEW p \in Procs, clearEnd(p)
    PROVE  PortType' /\ TableInv'
<1> DEFINE x == call[p].port
           t == IF call[p].op = "reset" THEN "ALLOC" ELSE "FREE"
<1>1. /\ call[p].op \in {"reset", "delete"} /\ call[p].seq = 2 /\ ~Waiting(p)
      /\ ptstate' = [ptstate EXCEPT ![x] = t] /\ ptnextid' \in {ptnextid, x}
      /\ call' = [call EXCEPT ![p] = Idle]
      /\ UNCHANGED <<ptmaxcnt, ptseq, ptssem, ptrsem, ptlist, ptfree, ptgen>>
  BY DEF clearEnd, Runs
<1>2. /\ call \in [Procs -> [op : Ops, port : PortIds, seq : Nat]]
      /\ ptstate \in [PortIds -> {"FREE", "ALLOC", "LIMBO"}] /\ ptnextid \in PortIds
  BY DEF PortType
<1>3. x \in PortIds /\ ptmaxcnt[x] \in Nat /\ t \in {"FREE", "ALLOC", "LIMBO"}
  BY <1>2, EntryFacts
<1>4. ClearsAt(call, p, x, 2)
  BY <1>1 DEF ClearsAt, Clears
<1> HIDE DEF x, t
<1>5. Idle \in [op : Ops, port : PortIds, seq : Nat]
  BY CallFacts
<1>6. /\ call' \in [Procs -> [op : Ops, port : PortIds, seq : Nat]]
      /\ call'[p] = Idle /\ \A q \in Procs : q # p => call'[q] = call[q]
  BY <1>1, <1>2, <1>5, SetAt
<1>7. /\ ptstate' \in [PortIds -> {"FREE", "ALLOC", "LIMBO"}]
      /\ ptstate'[x] = t /\ \A y \in PortIds : y # x => ptstate'[y] = ptstate[y]
  BY <1>1, <1>2, <1>3, SetAt
<1>8. PortAt(x, ptstate[x], ptmaxcnt[x], ptseq[x], ptssem[x], ptrsem[x], ptlist[x], call)
  BY <1>3 DEF TableInv
<1>9. PortAt(x, t, ptmaxcnt[x], ptseq[x], ptssem[x], ptrsem[x], ptlist[x], call')
  <2>1. t = IF call[p].op = "reset" THEN "ALLOC" ELSE "FREE"
    BY DEF t
  <2> QED BY <1>3, <1>4, <1>6, <1>8, <2>1, ClearEnds
<1>10. PortAt(x, ptstate'[x], ptmaxcnt'[x], ptseq'[x], ptssem'[x], ptrsem'[x], ptlist'[x], call')
  BY <1>1, <1>7, <1>9
<1>11. \A y \in PortIds : y # x => Apart(call, p, y) /\ Apart(call', p, y)
  BY <1>6, IdleFacts DEF Apart, x
<1>12. TableInv'
  BY <1>1, <1>3, <1>6, <1>7, <1>10, <1>11, OnePort
<1>13. PortType'
  BY <1>1, <1>2, <1>3, <1>6, <1>7 DEF PortType
<1> QED BY <1>12, <1>13

\* ptcreate(), for sizes that fit into ptmaxcnt.
LEMMA CreateTable ==
    ASSUME PortType, TableInv, NEW p \in Procs, NEW count \in Counts, count < U16, ptcreate(p, count)
    PROVE  PortType' /\ TableInv'
<1> DEFINE x == freeport
<1>1. /\ Starts(p) /\ count >= 0 /\ \E y \in PortIds : ptstate[y] = "FREE"
      /\ ptstate' = [ptstate EXCEPT ![x] = "ALLOC"] /\ ptlist' = [ptlist EXCEPT ![x] = <<>>]
      /\ ptseq' = [ptseq EXCEPT ![x] = ptseq[x] + 1]
      /\ ptmaxcnt' = [ptmaxcnt EXCEPT ![x] = count % U16]
      /\ ptnextid' = (x + 1) % NPORTS
      /\ UNCHANGED <<ptfree, ptgen, call>>
  BY DEF ptcreate
<1>2. PICK s \in {Sem(count), NoSem}, r \in {Sem(0), NoSem} :
         ptssem' = [ptssem EXCEPT ![x] = s] /\ ptrsem' = [ptrsem EXCEPT ![x] = r]
  BY DEF ptcreate
<1>3. x \in PortIds /\ ptstate[x] = "FREE" /\ (x + 1) % NPORTS \in PortIds
  BY <1>1, FreePort DEF PortType
<1> HIDE DEF x
<1>4. call[p] = Idle /\ ~Waiting(p)
  BY <1>1 DEF Starts, Runs
<1>5. count \in Nat /\ count % U16 = count /\ count \in 0 .. U16 - 1
  BY SMTT(30), <1>1, PortsAssumption
<1>6. /\ ptstate' \in [PortIds -> {"FREE", "ALLOC", "LIMBO"}]
      /\ ptstate'[x] = "ALLOC" /\ \A y \in PortIds : y # x => ptstate'[y] = ptstate[y]
  BY <1>1, <1>3 DEF PortType
<1>7. /\ ptlist' \in [PortIds -> Seq(Nodes)]
      /\ ptlist'[x] = <<>> /\ \A y \in PortIds : y # x => ptlist'[y] = ptlist[y]
  <2>1. ptlist \in [PortIds -> Seq(Nodes)] /\ <<>> \in Seq(Nodes)
    BY DEF PortType
  <2> QED BY <1>1, <1>3, <2>1, SetAt
<1>8. /\ ptseq' \in [PortIds -> Nat] /\ ptseq[x] \in Nat
      /\ ptseq'[x] = ptseq[x] + 1 /\ \A y \in PortIds : y # x => ptseq'[y] = ptseq[y]
  <2>1. ptseq \in [PortIds -> Nat] /\ ptseq[x] \in Nat /\ ptseq[x] + 1 \in Nat
    BY <1>3 DEF PortType
  <2> QED BY <1>1, <1>3, <2>1, SetAt
<1>9. /\ ptmaxcnt' \in [PortIds -> 0 .. U16 - 1]
      /\ ptmaxcnt'[x] = count /\ \A y \in PortIds : y # x => ptmaxcnt'[y] = ptmaxcnt[y]
  <2>1. ptmaxcnt \in [PortIds -> 0 .. U16 - 1] /\ ptmaxcnt' = [ptmaxcnt EXCEPT ![x] = count]
    BY <1>1, <1>5 DEF PortType
  <2> QED BY <1>3, <1>5, <2>1, SetAt
<1>10. /\ DOMAIN ptssem' = PortIds /\ DOMAIN ptrsem' = PortIds /\ ptssem'[x] = s /\ ptrsem'[x] = r
       /\ \A y \in PortIds : y # x => ptssem'[y] = ptssem[y] /\ ptrsem'[y] = ptrsem[y]
  BY <1>2, <1>3 DEF PortType
<1>11. /\ SemSound(s, Procs) /\ (\A q : ~waitsOn(q, s)) /\ available(s) \in Nat /\ available(s) <= count
       /\ SemSound(r, Procs) /\ (\A q : ~waitsOn(q, r)) /\ available(r) = 0
  <2>1. SemSound(Sem(count), Procs) /\ available(Sem(count)) = count /\ \A q : ~waitsOn(q, Sem(count))
    BY <1>5, SemNew
  <2>2. SemSound(Sem(0), Procs) /\ available(Sem(0)) = 0 /\ \A q : ~waitsOn(q, Sem(0))
    BY SemNew
  <2>3. SemSound(NoSem, Procs) /\ available(NoSem) = 0 /\ \A q : ~waitsOn(q, NoSem)
    BY SemNone
  <2>4. s = Sem(count) \/ s = NoSem
    BY <1>2
  <2>5. r = Sem(0) \/ r = NoSem
    BY <1>2
  <2> HIDE DEF Sem, NoSem
  <2>6. SemSound(s, Procs) /\ (\A q : ~waitsOn(q, s))
    BY <2>1, <2>3, <2>4
  <2>7. SemSound(r, Procs) /\ (\A q : ~waitsOn(q, r)) /\ available(r) = 0
    BY <2>2, <2>3, <2>5
  <2>8. available(s) = count \/ available(s) = 0
    BY <2>1, <2>3, <2>4
  <2> QED BY <1>5, <2>6, <2>7, <2>8
<1>12. PortAt(x, "FREE", ptmaxcnt[x], ptseq[x], ptssem[x], ptrsem[x], ptlist[x], call)
  BY <1>3 DEF TableInv
<1>13. Cleared(x, "ALLOC", count, s, r, <<>>, call)
  <2>1. \A q \in Procs : ~Clears(call, q, x)
    BY <1>12 DEF PortAt, Cleared
  <2> QED BY <2>1 DEF Cleared, ClearsAt
<1>14. ASSUME NEW q \in Procs, call[q].op \in {"send", "recv"}, call[q].port = x
       PROVE  call[q].seq <= ptseq[x] + 1 /\ call[q].seq # ptseq[x] + 1
  <2>1. call[q].seq \in Nat
    BY DEF PortType
  <2>2. call[q].seq <= ptseq[x]
    BY <1>12, <1>14 DEF PortAt, Awaited
  <2> QED BY <1>8, <2>1, <2>2
<1>15. Awaited(x, "ALLOC", ptseq[x] + 1, s, r, call)
  BY <1>11, <1>14 DEF Awaited
<1>16. Current(call, ptseq[x] + 1, "send", x) = {} /\ Current(call, ptseq[x] + 1, "recv", x) = {}
  BY <1>14, CallFacts DEF Current
<1>17. Permitted(count, s, r, <<>>, {}, {})
  <2>1. SemOf(s, Procs, {}) /\ permits(s, {}) = available(s)
    BY <1>11, PermitsNew
  <2>2. SemOf(r, Procs, {}) /\ permits(r, {}) = 0
    BY <1>11, PermitsNew
  <2>3. Len(<<>>) = 0
    OBVIOUS
  <2> QED BY <1>5, <1>11, <2>1, <2>2, <2>3 DEF Permitted
<1>18. Counted(x, "ALLOC", count, ptseq[x] + 1, s, r, <<>>, call)
  <2>1. Len(<<>>) <= count
    BY <1>5
  <2> QED BY <1>16, <1>17, <2>1 DEF Counted
<1>19. PortAt(x, "ALLOC", count, ptseq[x] + 1, s, r, <<>>, call)
  BY <1>13, <1>15, <1>18 DEF PortAt
<1>20. PortAt(x, ptstate'[x], ptmaxcnt'[x], ptseq'[x], ptssem'[x], ptrsem'[x], ptlist'[x], call')
  BY <1>1, <1>6, <1>7, <1>8, <1>9, <1>10, <1>19
<1>21. TableInv'
  <2>1. \A y \in PortIds : y # x =>
              /\ ptstate'[y] = ptstate[y] /\ ptmaxcnt'[y] = ptmaxcnt[y] /\ ptseq'[y] = ptseq[y]
              /\ ptssem'[y] = ptssem[y] /\ ptrsem'[y] = ptrsem[y] /\ ptlist'[y] = ptlist[y]
    BY <1>6, <1>7, <1>8, <1>9, <1>10
  <2>2. call' = call /\ \A y \in PortIds : Apart(call, p, y) /\ Apart(call', p, y)
    BY <1>1, <1>4, IdleFacts
  <2>3. \A q \in Procs : q # p => call'[q] = call[q]
    BY <2>2
  <2>4. \A y \in PortIds : y # x => Apart(call, p, y) /\ Apart(call', p, y)
    BY <2>2
  <2> QED BY <1>3, <1>4, <1>20, <2>1, <2>3, <2>4, OnePort
<1>22. PortType'
  <2>1. ptfree' \in Seq(Nodes) /\ DOMAIN ptgen' = Nodes /\ call' \in [Procs -> [op : Ops, port : PortIds, seq : Nat]]
    BY <1>1 DEF PortType
  <2>2. ptnextid' \in PortIds
    BY <1>1, <1>3
  <2> QED BY <1>6, <1>7, <1>8, <1>9, <1>10, <2>1, <2>2 DEF PortType
<1> QED BY <1>21, <1>22

\* A process that waits on a semaphore is killed.
LEMMA KilledSem ==
    ASSUME NEW s, SemSound(s, Procs), NEW p \in Procs, NEW t,
           t = IF waitsOn(p, s) THEN abandoned(s, p) ELSE s
    PROVE  /\ SemSound(t, Procs) /\ ~waitsOn(p, t) /\ \A q \in Procs : waitsOn(q, t) => waitsOn(q, s)
           /\ available(t) = available(s)
<1>1. CASE waitsOn(p, s)
  <2>1. /\ SemSound(abandoned(s, p), Procs) /\ available(abandoned(s, p)) = 0 /\ available(s) = 0
        /\ ~waitsOn(p, abandoned(s, p)) /\ SameWaiters(s, abandoned(s, p), p, Procs)
    BY <1>1, SemAbandoned
  <2>2. t = abandoned(s, p)
    BY <1>1
  <2> HIDE DEF abandoned
  <2> QED BY <1>1, <2>1, <2>2 DEF SameWaiters
<1>2. CASE ~waitsOn(p, s)
  BY <1>2
<1> QED BY <1>1, <1>2

\* What a port sees of it.
LEMMA KilledAt ==
    ASSUME NEW c, NEW d, NEW p \in Procs, \A q \in Procs : q # p => d[q] = c[q], d[p] = Idle,
           NEW x, NEW st, NEW mx \in Nat, NEW sq, NEW ss, NEW rs, NEW ls \in Seq(Nodes), NEW s2, NEW r2,
           PortAt(x, st, mx, sq, ss, rs, ls, c),
           s2 = IF waitsOn(p, ss) THEN abandoned(ss, p) ELSE ss,
           r2 = IF waitsOn(p, rs) THEN abandoned(rs, p) ELSE rs
    PROVE  PortAt(x, st, mx, sq, s2, r2, ls, d)
<1>0. SemSound(ss, Procs) /\ SemSound(rs, Procs)
  BY DEF PortAt, Awaited
<1>1. /\ SemSound(s2, Procs) /\ ~waitsOn(p, s2) /\ (\A q \in Procs : waitsOn(q, s2) => waitsOn(q, ss))
      /\ available(s2) = available(ss)
  BY <1>0, KilledSem
<1>2. /\ SemSound(r2, Procs) /\ ~waitsOn(p, r2) /\ (\A q \in Procs : waitsOn(q, r2) => waitsOn(q, rs))
      /\ available(r2) = available(rs)
  BY <1>0, KilledSem
<1>3. Apart(d, p, x)
  BY IdleFacts
<1>4. \A q \in Procs :
         /\ Clears(d, q, x) => Clears(c, q, x) /\ d[q] = c[q]
         /\ ClearsAt(d, q, x, 1) => ClearsAt(c, q, x, 1) /\ d[q] = c[q]
         /\ ClearsAt(d, q, x, 2) => ClearsAt(c, q, x, 2) /\ d[q] = c[q]
  BY <1>3, ApartFacts DEF Clears, ClearsAt
<1>5. Cleared(x, st, mx, s2, r2, ls, d)
  BY <1>1, <1>2, <1>4 DEF PortAt, Cleared
<1>6. Awaited(x, st, sq, s2, r2, d)
  BY <1>1, <1>2, <1>3, ApartFacts DEF PortAt, Awaited
<1> DEFINE S == Current(c, sq, "send", x)
           R == Current(c, sq, "recv", x)
<1>7. Current(d, sq, "send", x) = S \ {p} /\ Current(d, sq, "recv", x) = R \ {p}
  BY <1>3, ApartFacts DEF Current
<1>8. ASSUME st = "ALLOC" PROVE Permitted(mx, s2, r2, ls, S \ {p}, R \ {p})
  <2>1. Permitted(mx, ss, rs, ls, S, R)
    BY <1>8 DEF PortAt, Counted
  <2> HIDE DEF S, R
  <2>2. /\ IsFiniteSet(Procs) /\ SemOf(ss, Procs, S) /\ SemOf(rs, Procs, R)
        /\ permits(ss, S) \in Nat /\ permits(rs, R) \in Nat /\ Len(ls) \in Nat
    BY <2>1, PermittedFacts
  <2>3. SemOf(s2, Procs, S \ {p}) /\ s2.used = ss.used /\ permits(s2, S \ {p}) <= permits(ss, S)
    <3>1. s2 = IF waitsOn(p, ss) THEN abandoned(ss, p) ELSE ss
      OBVIOUS
    <3>2. SemOf(ss, Procs, S) /\ IsFiniteSet(Procs)
      BY <2>2
    <3> HIDE DEF permits
    <3> QED BY <3>1, <3>2, PermitsAbandoned
  <2>4. SemOf(r2, Procs, R \ {p}) /\ permits(r2, R \ {p}) <= permits(rs, R)
    BY <2>2, PermitsAbandoned
  <2>5. permits(s2, S \ {p}) \in Nat /\ permits(r2, R \ {p}) \in Nat
    BY <2>2, <2>3, <2>4, PermitsNat
  <2>6. permits(rs, R) <= Len(ls)
    BY <2>1 DEF Permitted
  <2>7. permits(r2, R \ {p}) <= Len(ls)
    BY <2>2, <2>4, <2>5, <2>6
  <2>8. CASE ss.used
    <3>1. Len(ls) + permits(ss, S) <= mx
      BY <2>1, <2>8 DEF Permitted
    <3>2. Len(ls) + permits(s2, S \ {p}) <= mx
      BY <2>2, <2>3, <2>5, <3>1
    <3> QED BY <2>3, <2>4, <2>7, <2>8, <3>2 DEF Permitted
  <2>9. CASE ~ss.used
    <3>1. ls = <<>> /\ S \ {p} = {}
      BY <2>1, <2>9 DEF Permitted
    <3> QED BY <2>3, <2>4, <2>7, <2>9, <3>1 DEF Permitted
  <2> QED BY <2>8, <2>9
<1>9. Counted(x, st, mx, sq, s2, r2, ls, d)
  BY <1>7, <1>8 DEF PortAt, Counted
<1> QED BY <1>5, <1>6, <1>9 DEF PortAt

\* kill().
LEMMA KilledTable ==
    ASSUME PortType, TableInv, NEW p \in Procs, killed(p)
    PROVE  PortType' /\ TableInv'
<1>1. /\ ptssem' = [x \in PortIds |-> IF waitsOn(p, ptssem[x]) THEN abandoned(ptssem[x], p)
                                                               ELSE ptssem[x]]
      /\ ptrsem' = [x \in PortIds |-> IF waitsOn(p, ptrsem[x]) THEN abandoned(ptrsem[x], p)
                                                               ELSE ptrsem[x]]
      /\ call' = [call EXCEPT ![p] = Idle]
      /\ UNCHANGED <<ptstate, ptmaxcnt, ptseq, ptlist, ptfree, ptgen, ptnextid>>
  BY DEF killed
<1>2. /\ call \in [Procs -> [op : Ops, port : PortIds, seq : Nat]]
      /\ Idle \in [op : Ops, port : PortIds, seq : Nat]
  BY CallFacts DEF PortType
<1>3. /\ call' \in [Procs -> [op : Ops, port : PortIds, seq : Nat]]
      /\ call'[p] = Idle /\ \A q \in Procs : q # p => call'[q] = call[q]
  BY <1>1, <1>2, SetAt
<1>4. PortType'
  <2>1. DOMAIN ptssem' = PortIds /\ DOMAIN ptrsem' = PortIds
    BY <1>1
  <2> QED BY <1>1, <1>3, <2>1 DEF PortType
<1>5. ASSUME NEW x \in PortIds
      PROVE  PortAt(x, ptstate'[x], ptmaxcnt'[x], ptseq'[x], ptssem'[x], ptrsem'[x], ptlist'[x], call')
  <2>1. PortAt(x, ptstate[x], ptmaxcnt[x], ptseq[x], ptssem[x], ptrsem[x], ptlist[x], call)
    BY DEF TableInv
  <2>2. /\ ptssem'[x] = IF waitsOn(p, ptssem[x]) THEN abandoned(ptssem[x], p) ELSE ptssem[x]
        /\ ptrsem'[x] = IF waitsOn(p, ptrsem[x]) THEN abandoned(ptrsem[x], p) ELSE ptrsem[x]
    BY <1>1
  <2>3. ptmaxcnt[x] \in Nat /\ ptlist[x] \in Seq(Nodes)
    BY EntryFacts
  <2>4. PortAt(x, ptstate[x], ptmaxcnt[x], ptseq[x], ptssem'[x], ptrsem'[x], ptlist[x], call')
    BY <1>3, <2>1, <2>2, <2>3, KilledAt
  <2> QED BY <1>1, <2>4
<1> QED BY <1>4, <1>5 DEF TableInv

-----------------------------------------------------------------------------
(* The nodes, one action at a time.                                        *)

\* Whose nodes count.
LEMMA OwnersFacts ==
    ASSUME TableInv
    PROVE  /\ Owners \subseteq PortIds /\ Keepers \subseteq PortIds
           /\ \A x \in PortIds : ptstate[x] = "ALLOC" => x \in Owners /\ x \in Keepers
           /\ \A x \in Keepers : ptstate[x] # "FREE" /\ Len(ptlist[x]) <= ptmaxcnt[x]
<1>1. ASSUME NEW x \in PortIds
      PROVE  /\ ptstate[x] = "ALLOC" => \A p \in Procs : ~Clears(call, p, x)
             /\ ptstate[x] # "FREE" => Len(ptlist[x]) <= ptmaxcnt[x]
  BY DEF TableInv, PortAt, Cleared, Counted
<1> QED BY <1>1 DEF Owners, Keepers, ClearsAt

\* They stay the same when no port changes its state and no process begins or
\* goes on to clear one.
LEMMA SameOwners ==
    ASSUME ptstate' = ptstate, NEW p \in Procs, \A q \in Procs : q # p => call'[q] = call[q],
           call[p].op \notin {"reset", "delete"}, call'[p].op \notin {"reset", "delete"}
    PROVE  Owners' = Owners /\ Keepers' = Keepers
<1>1. \A q \in Procs : \A x, n : ClearsAt(call', q, x, n) <=> ClearsAt(call, q, x, n)
  BY DEF ClearsAt, Clears
<1> QED BY <1>1 DEF Owners, Keepers

\* panic() when the last message of a port takes no node.
LEMMA NoNodeLeft ==
    ASSUME PortType, TableInv, NodeInv, ptfree = <<>>,
           NEW x \in PortIds, ptstate[x] = "ALLOC", Len(ptlist[x]) < ptmaxcnt[x]
    PROVE  NMSGS < Cardinality(Places)
<1> DEFINE spare == <<x, Len(ptlist[x]) + 1>>
           Taken == Places \ {spare}
           f == [m \in Nodes |-> CHOOSE s \in Taken : s[2] \in 1 .. Len(ptlist[s[1]]) /\ ptlist[s[1]][s[2]] = m]
<1>0. NMSGS \in Nat /\ NPORTS \in Nat /\ U16 \in Nat /\ Nodes = 1 .. NMSGS /\ PortIds = 0 .. NPORTS - 1
  BY PortsAssumption DEF Nodes, PortIds
<1>1. IsFiniteSet(Places) /\ Cardinality(Places) \in Nat
  <2>1. IsFiniteSet(PortIds) /\ IsFiniteSet(1 .. U16)
    BY <1>0, FS_Interval
  <2>2. IsFiniteSet(PortIds \X (1 .. U16))
    BY <2>1, FS_Product
  <2>3. Places \subseteq PortIds \X (1 .. U16)
    BY DEF Places
  <2> QED BY <2>2, <2>3, FS_Subset, FS_CardinalityType
<1>2. IsFiniteSet(Nodes) /\ Cardinality(Nodes) = NMSGS
  BY <1>0, FS_Interval, PortsAssumption
<1>3. ASSUME NEW y \in PortIds, ptstate[y] # "FREE", NEW i \in Nat \ {0}, i <= ptmaxcnt[y]
      PROVE  <<y, i>> \in Places
  <2>1. ptmaxcnt[y] \in 0 .. U16 - 1
    BY DEF PortType
  <2>2. i \in 1 .. U16
    BY <1>0, <1>3, <2>1
  <2> QED BY <1>3, <2>2 DEF Places
<1>4. spare \in Places
  <2>1. Len(ptlist[x]) \in Nat /\ ptmaxcnt[x] \in Nat
    BY EntryFacts
  <2> QED BY <1>3, <2>1
<1>5. IsFiniteSet(Taken) /\ Cardinality(Taken) = Cardinality(Places) - 1
  BY <1>1, <1>4, FS_RemoveElement
<1> HIDE DEF Taken
<1>6. ASSUME NEW m \in Nodes
      PROVE  \E s \in Taken : s[2] \in 1 .. Len(ptlist[s[1]]) /\ ptlist[s[1]][s[2]] = m
  <2>1. ~Contains(ptfree, m)
    BY EmptyList
  <2>2. PICK y \in Keepers : Contains(ptlist[y], m)
    BY <2>1 DEF NodeInv, Shared
  <2>3. y \in PortIds /\ ptstate[y] # "FREE" /\ Len(ptlist[y]) <= ptmaxcnt[y]
    BY OwnersFacts
  <2>4. PICK i \in 1 .. Len(ptlist[y]) : ptlist[y][i] = m
    BY <2>2 DEF Contains
  <2>5. Len(ptlist[y]) \in Nat /\ ptmaxcnt[y] \in Nat /\ Len(ptlist[x]) \in Nat
    BY <2>3, EntryFacts
  <2>6. <<y, i>> \in Places
    BY <1>3, <2>3, <2>5
  <2>7. <<y, i>> # spare
    BY <2>5
  <2>8. <<y, i>> \in Taken
    BY <2>6, <2>7 DEF Taken
  <2> QED BY <2>4, <2>8
<1>7. \A m \in Nodes : /\ f[m] \in Taken
                       /\ ptlist[f[m][1]][f[m][2]] = m
  BY <1>6
<1>8. f \in [Nodes -> Taken]
  <2>1. \A m \in Nodes : f[m] \in Taken
    BY <1>7
  <2> QED BY <2>1
<1> HIDE DEF f
<1>9. \A m, n \in Nodes : f[m] = f[n] => m = n
  BY <1>7
<1>10. ~(Cardinality(Taken) < Cardinality(Nodes))
  BY <1>2, <1>5, <1>8, <1>9, FS_PigeonHole
<1> QED BY <1>0, <1>1, <1>2, <1>5, <1>10

\* ptsend() puts its message into a node.
LEMMA PutNodes ==
    ASSUME PortInv, ~panicked, NEW x \in PortIds, ptstate[x] = "ALLOC", put(x, ptseq[x]),
           Len(ptlist[x]) < ptmaxcnt[x],
           UNCHANGED <<ptstate, ptmaxcnt, ptseq>>, Owners' = Owners, Keepers' = Keepers
    PROVE  NodeInv' /\ NoStaleMessage' /\ PanicOnlyOvercommitted'
<1>0. PortType /\ TableInv /\ NodeInv /\ NoStaleMessage
  BY DEF PortInv
<1>1. CASE ptfree = <<>>
  <2>1. panicked' = TRUE /\ UNCHANGED <<ptfree, ptgen, ptlist>>
    BY <1>1 DEF put
  <2>2. NMSGS < Cardinality(Places)
    BY <1>0, <1>1, NoNodeLeft
  <2>3. Places' = Places
    BY DEF Places
  <2>4. NodeInv' /\ NoStaleMessage'
    BY <1>0, <2>1 DEF NodeInv, NoStaleMessage, Allocated
  <2> QED BY <2>2, <2>3, <2>4 DEF PanicOnlyOvercommitted
<1>2. CASE ptfree # <<>>
  <2> DEFINE h == Head(ptfree)
             q == Append(ptlist[x], h)
  <2>1. /\ ptfree' = Tail(ptfree) /\ ptgen' = [ptgen EXCEPT ![h] = ptseq[x]]
        /\ ptlist' = [ptlist EXCEPT ![x] = q] /\ panicked' = panicked
    BY <1>2 DEF put
  <2>2. /\ ptlist \in [PortIds -> Seq(Nodes)] /\ ptfree \in Seq(Nodes) /\ DOMAIN ptgen = Nodes
        /\ Shared(Owners, Keepers, ptlist, ptfree)
    BY <1>0 DEF PortType, NodeInv
  <2>3. Owners \subseteq PortIds /\ Keepers \subseteq PortIds /\ x \in Owners /\ x \in Keepers
        /\ \A y \in Allocated : y \in PortIds /\ y \in Owners
    BY <1>0, OwnersFacts DEF Allocated
  <2>4. /\ Shared(Owners, Keepers, ptlist', ptfree') /\ ptlist' \in [PortIds -> Seq(Nodes)]
        /\ h \in Nodes /\ \A y \in Owners : ~Contains(ptlist[y], h)
    <3>1. ptlist[x] \in Seq(Nodes) /\ h \in Nodes
      BY <1>2, <2>2
    <3>2. q \in Seq(Nodes)
      BY <3>1
    <3> HIDE DEF q
    <3>3. /\ ptlist' \in [PortIds -> Seq(Nodes)] /\ ptlist'[x] = q
          /\ \A y \in PortIds : y # x => ptlist'[y] = ptlist[y]
      BY <2>1, <2>2, <3>2, SetAt
    <3>4. PutStep(ptlist, ptfree, x, ptlist', ptfree')
      BY <1>2, <2>1, <3>3 DEF q, h, PutStep
    <3>5. /\ Shared(Owners, Keepers, ptlist', ptfree') /\ Head(ptfree) \in Nodes
          /\ \A y \in Owners : ~Contains(ptlist[y], Head(ptfree))
      BY <2>2, <2>3, <3>4, PutShared
    <3> QED BY <3>3, <3>5 DEF h
  <2>5. NodeInv'
    BY <2>4 DEF NodeInv
  <2>6. PanicOnlyOvercommitted'
    BY <2>1 DEF PanicOnlyOvercommitted
  <2>7. /\ ptlist[x] \in Seq(Nodes) /\ Len(ptlist[x]) \in Nat /\ ptlist'[x] = q
        /\ \A y \in PortIds : y # x => ptlist'[y] = ptlist[y]
        /\ ptgen'[h] = ptseq[x] /\ \A m \in Nodes : m # h => ptgen'[m] = ptgen[m]
    BY <2>1, <2>2, <2>4
  <2>8. Len(q) = Len(ptlist[x]) + 1 /\ q[Len(ptlist[x]) + 1] = h
        /\ \A i \in 1 .. Len(ptlist[x]) : q[i] = ptlist[x][i]
    BY <2>4, <2>7
  <2> HIDE DEF q, h
  <2>9. \A y \in Allocated : \A i \in 1 .. Len(ptlist[y]) :
           ptlist[y][i] \in Nodes /\ ptgen'[ptlist[y][i]] = ptseq[y]
    <3> SUFFICES ASSUME NEW y \in Allocated, NEW i \in 1 .. Len(ptlist[y])
                 PROVE  ptlist[y][i] \in Nodes /\ ptgen'[ptlist[y][i]] = ptseq[y]
      OBVIOUS
    <3>1. ptlist[y] \in Seq(Nodes) /\ ~Contains(ptlist[y], h)
      BY <2>2, <2>3, <2>4
    <3>2. ptlist[y][i] \in Nodes /\ ptlist[y][i] # h
      BY <3>1 DEF Contains
    <3>3. ptgen[ptlist[y][i]] = ptseq[y]
      BY <1>0 DEF NoStaleMessage
    <3> QED BY <2>7, <3>2, <3>3
  <2>10. ASSUME NEW y \in Allocated, NEW i \in 1 .. Len(ptlist'[y])
         PROVE  ptgen'[ptlist'[y][i]] = ptseq[y]
    <3>1. CASE y # x
      BY <2>3, <2>7, <2>9, <3>1
    <3>2. CASE y = x
      <4>1. i \in 1 .. Len(ptlist[x]) \/ i = Len(ptlist[x]) + 1
        BY <2>7, <2>8, <3>2
      <4> QED BY <2>7, <2>8, <2>9, <3>2, <4>1
    <3> QED BY <3>1, <3>2
  <2>11. NoStaleMessage'
    <3>1. Allocated' = Allocated
      BY DEF Allocated
    <3> QED BY <2>10, <3>1 DEF NoStaleMessage
  <2> QED BY <2>5, <2>6, <2>11
<1> QED BY <1>1, <1>2

\* ptrecv() takes the first message.
LEMMA TakeNodes ==
    ASSUME PortInv, ~panicked, NEW x \in PortIds, ptstate[x] = "ALLOC", take(x), ptlist[x] # <<>>,
           UNCHANGED <<ptstate, ptseq, ptgen, panicked>>, Owners' = Owners, Keepers' = Keepers
    PROVE  NodeInv' /\ NoStaleMessage' /\ PanicOnlyOvercommitted'
<1> DEFINE q == Tail(ptlist[x])
<1>1. /\ ptlist \in [PortIds -> Seq(Nodes)] /\ ptfree \in Seq(Nodes)
      /\ Shared(Owners, Keepers, ptlist, ptfree) /\ ptlist[x] \in Seq(Nodes)
      /\ Owners \subseteq PortIds /\ Keepers \subseteq PortIds /\ x \in Owners
  BY OwnersFacts DEF PortInv, PortType, NodeInv
<1>2. ptlist' = [ptlist EXCEPT ![x] = q] /\ ptfree' = <<Head(ptlist[x])>> \o ptfree
  BY DEF take
<1>3. q \in Seq(Nodes) /\ Len(q) = Len(ptlist[x]) - 1 /\ Len(ptlist[x]) \in Nat
      /\ \A i \in 1 .. Len(q) : q[i] = ptlist[x][i + 1]
  BY <1>1
<1> HIDE DEF q
<1>4. /\ ptlist' \in [PortIds -> Seq(Nodes)] /\ ptlist'[x] = q
      /\ \A y \in PortIds : y # x => ptlist'[y] = ptlist[y]
  BY <1>1, <1>2, <1>3, SetAt
<1>5. TakeStep(ptlist, ptfree, x, ptlist', ptfree')
  BY <1>2, <1>4 DEF TakeStep, q
<1>6. Shared(Owners, Keepers, ptlist', ptfree')
  BY <1>1, <1>5, TakeShared
<1>7. NodeInv' /\ PanicOnlyOvercommitted'
  BY <1>6 DEF NodeInv, PanicOnlyOvercommitted
<1>8. Allocated' = Allocated /\ \A y \in Allocated : y \in PortIds
  BY DEF Allocated
<1>9. \A y \in Allocated : \A i \in 1 .. Len(ptlist[y]) : ptgen[ptlist[y][i]] = ptseq[y]
  BY DEF PortInv, NoStaleMessage
<1>10. ASSUME NEW y \in Allocated, NEW i \in 1 .. Len(ptlist'[y])
       PROVE  ptgen[ptlist'[y][i]] = ptseq[y]
  <2>1. CASE y # x
    BY <1>4, <1>8, <1>9, <2>1
  <2>2. CASE y = x
    <3>1. i + 1 \in 1 .. Len(ptlist[x]) /\ ptlist'[x][i] = ptlist[x][i + 1]
      BY <1>3, <1>4, <2>2
    <3> QED BY <1>9, <2>2, <3>1
  <2> QED BY <2>1, <2>2
<1>11. NoStaleMessage'
  BY <1>8, <1>10 DEF NoStaleMessage
<1> QED BY <1>7, <1>11

\* A step that moves no message.
LEMMA StillNodes ==
    ASSUME PortInv, PortType', ~panicked, panicked' = panicked, ptfree' = ptfree, ptgen' = ptgen,
           \A x \in Owners' \ Owners : ptlist'[x] = <<>>,
           \A x \in Owners : x \in Owners' => ptlist'[x] = ptlist[x],
           \A x \in Keepers : x \in Keepers' /\ ptlist'[x] = ptlist[x],
           \A x \in PortIds : ptstate'[x] = "ALLOC" =>
              \/ ptlist'[x] = <<>>
              \/ ptstate[x] = "ALLOC" /\ ptlist'[x] = ptlist[x] /\ ptseq'[x] = ptseq[x]
    PROVE  NodeInv' /\ NoStaleMessage' /\ PanicOnlyOvercommitted'
<1>1. /\ ptlist \in [PortIds -> Seq(Nodes)] /\ ptfree \in Seq(Nodes) /\ ptlist' \in [PortIds -> Seq(Nodes)]
      /\ Shared(Owners, Keepers, ptlist, ptfree)
  BY DEF PortInv, PortType, NodeInv
<1>2. /\ Owners \subseteq PortIds /\ Keepers \subseteq PortIds
      /\ Owners' \subseteq PortIds /\ Keepers' \subseteq PortIds /\ Keepers \subseteq Keepers'
  BY DEF Owners, Keepers
<1>3. \A y \in Keepers : ptlist'[y] = ptlist[y]
  OBVIOUS
<1>4. Shared(Owners', Keepers', ptlist', ptfree)
  BY <1>1, <1>2, <1>3, EmptyShared
<1>5. NodeInv' /\ PanicOnlyOvercommitted'
  BY <1>4 DEF NodeInv, PanicOnlyOvercommitted
<1>6. ASSUME NEW x \in Allocated', NEW i \in 1 .. Len(ptlist'[x])
      PROVE  ptgen[ptlist'[x][i]] = ptseq'[x]
  <2>1. x \in PortIds /\ ptstate'[x] = "ALLOC"
    BY DEF Allocated
  <2>2. CASE ptlist'[x] = <<>>
    BY <2>2, EmptyList
  <2>3. CASE ptstate[x] = "ALLOC" /\ ptlist'[x] = ptlist[x] /\ ptseq'[x] = ptseq[x]
    BY <2>1, <2>3 DEF PortInv, NoStaleMessage, Allocated
  <2> QED BY <2>1, <2>2, <2>3
<1>7. NoStaleMessage'
  BY <1>6 DEF NoStaleMessage
<1> QED BY <1>5, <1>7

\* ptcreate().
LEMMA CreateNodes ==
    ASSUME PortInv, PortType', NEW p \in Procs, NEW count, ptcreate(p, count)
    PROVE  NodeInv' /\ NoStaleMessage' /\ PanicOnlyOvercommitted'
<1> DEFINE x == freeport
<1>1. /\ ~panicked /\ panicked' = panicked /\ ptfree' = ptfree /\ ptgen' = ptgen /\ call' = call
      /\ \E y \in PortIds : ptstate[y] = "FREE"
      /\ ptstate' = [ptstate EXCEPT ![x] = "ALLOC"] /\ ptlist' = [ptlist EXCEPT ![x] = <<>>]
      /\ ptseq' = [ptseq EXCEPT ![x] = ptseq[x] + 1]
  BY DEF ptcreate, Starts, Runs
<1>2. x \in PortIds /\ ptstate[x] = "FREE"
  BY <1>1, FreePort DEF PortInv, PortType
<1> HIDE DEF x
<1>3. /\ ptstate'[x] = "ALLOC" /\ ptlist'[x] = <<>>
      /\ \A y \in PortIds : y # x => ptstate'[y] = ptstate[y] /\ ptlist'[y] = ptlist[y] /\ ptseq'[y] = ptseq[y]
  BY <1>1, <1>2 DEF PortInv, PortType
<1>4. \A q \in Procs : ~Clears(call, q, x)
  BY <1>2 DEF PortInv, TableInv, PortAt, Cleared
<1>5. \A q \in Procs : \A n : ~ClearsAt(call, q, x, n)
  BY <1>4 DEF ClearsAt
<1>6. \A y \in Owners' : y = x \/ y \in Owners
  BY <1>1, <1>3 DEF Owners
<1>7. x \notin Owners /\ x \notin Keepers /\ Keepers \subseteq Keepers'
  BY <1>1, <1>2, <1>3, <1>5 DEF Owners, Keepers
<1>8. Owners \subseteq PortIds /\ Keepers \subseteq PortIds
  BY DEF Owners, Keepers
<1>9. /\ \A y \in Owners' \ Owners : ptlist'[y] = <<>>
      /\ \A y \in Owners : y \in Owners' => ptlist'[y] = ptlist[y]
      /\ \A y \in Keepers : y \in Keepers' /\ ptlist'[y] = ptlist[y]
  BY <1>3, <1>6, <1>7, <1>8
<1>10. \A y \in PortIds : ptstate'[y] = "ALLOC" =>
          \/ ptlist'[y] = <<>>
          \/ ptstate[y] = "ALLOC" /\ ptlist'[y] = ptlist[y] /\ ptseq'[y] = ptseq[y]
  BY <1>3
<1> QED BY <1>1, <1>9, <1>10, StillNodes

\* _ptclear() puts the port in limbo.
LEMMA ClearNodes ==
    ASSUME PortInv, PortType', NEW p \in Procs, NEW x \in PortIds, NEW op \in {"reset", "delete"},
           _ptclear(p, x, op)
    PROVE  NodeInv' /\ NoStaleMessage' /\ PanicOnlyOvercommitted'
<1>1. /\ ~panicked /\ panicked' = panicked /\ ptfree' = ptfree /\ ptgen' = ptgen /\ ptlist' = ptlist
      /\ ptstate[x] = "ALLOC" /\ call[p] = Idle
      /\ ptstate' = [ptstate EXCEPT ![x] = "LIMBO"] /\ ptseq' = [ptseq EXCEPT ![x] = ptseq[x] + 1]
      /\ call' = [call EXCEPT ![p] = Call(op, x, 0)]
  BY DEF _ptclear, Starts, Runs
<1>2. /\ ptstate'[x] = "LIMBO" /\ \A y \in PortIds : y # x => ptstate'[y] = ptstate[y] /\ ptseq'[y] = ptseq[y]
      /\ call'[p] = Call(op, x, 0) /\ \A q \in Procs : q # p => call'[q] = call[q]
  BY <1>1 DEF PortInv, PortType
<1>3. ClearsAt(call', p, x, 0) /\ \A y, n : ClearsAt(call', p, y, n) => y = x /\ n = 0
  BY <1>2, CallFacts DEF ClearsAt, Clears
<1>4. \A y, n : ~ClearsAt(call, p, y, n)
  BY <1>1, IdleFacts, ApartFacts
<1>5. \A q \in Procs : \A y, n : q # p => (ClearsAt(call', q, y, n) <=> ClearsAt(call, q, y, n))
  BY <1>2 DEF ClearsAt, Clears
<1>6. ASSUME NEW y \in Owners' PROVE y \in Owners
  <2>1. y \in PortIds /\ (ptstate'[y] = "ALLOC" \/ \E q \in Procs : ClearsAt(call', q, y, 0))
    BY DEF Owners
  <2>2. CASE ptstate'[y] = "ALLOC"
    BY <1>2, <2>1, <2>2 DEF Owners
  <2>3. CASE \E q \in Procs : ClearsAt(call', q, y, 0)
    <3>1. PICK q \in Procs : ClearsAt(call', q, y, 0)
      BY <2>3
    <3>2. CASE q = p
      BY <1>1, <1>3, <2>1, <3>1, <3>2 DEF Owners
    <3>3. CASE q # p
      BY <1>5, <2>1, <3>1, <3>3 DEF Owners
    <3> QED BY <3>2, <3>3
  <2> QED BY <2>1, <2>2, <2>3
<1>7. ASSUME NEW y \in Keepers PROVE y \in Keepers'
  <2>1. y \in PortIds /\ ptstate[y] # "FREE" /\ \A q \in Procs : ~ClearsAt(call, q, y, 1) /\ ~ClearsAt(call, q, y, 2)
    BY DEF Keepers
  <2>2. \A q \in Procs : ~ClearsAt(call', q, y, 1) /\ ~ClearsAt(call', q, y, 2)
    BY <1>3, <1>5, <2>1
  <2>3. ptstate'[y] # "FREE"
    BY <1>2, <2>1
  <2> QED BY <2>1, <2>2, <2>3 DEF Keepers
<1>8. \A y \in PortIds : ptstate'[y] = "ALLOC" =>
         ptstate[y] = "ALLOC" /\ ptlist'[y] = ptlist[y] /\ ptseq'[y] = ptseq[y]
  BY <1>1, <1>2
<1> QED BY <1>1, <1>6, <1>7, <1>8, StillNodes

\* It lets the receivers go.
LEMMA ReceiversNodes ==
    ASSUME PortInv, PortType', NEW p \in Procs, clearReceivers(p)
    PROVE  NodeInv' /\ NoStaleMessage' /\ PanicOnlyOvercommitted'
<1>1. /\ ~panicked /\ call[p].seq = 1 /\ call' = [call EXCEPT ![p].seq = 2]
      /\ UNCHANGED <<panicked, ptfree, ptgen, ptlist, ptstate, ptseq>>
  BY DEF clearReceivers, Runs
<1>2. /\ call'[p].seq = 2 /\ call'[p].port = call[p].port /\ call'[p].op = call[p].op
      /\ \A q \in Procs : q # p => call'[q] = call[q]
  BY <1>1 DEF PortInv, PortType
<1>3. \A q \in Procs : \A y :
         /\ ClearsAt(call', q, y, 0) <=> ClearsAt(call, q, y, 0)
         /\ ClearsAt(call', q, y, 1) \/ ClearsAt(call', q, y, 2) <=>
              ClearsAt(call, q, y, 1) \/ ClearsAt(call, q, y, 2)
  BY <1>1, <1>2 DEF ClearsAt, Clears
<1>4. Owners' = Owners /\ Keepers' = Keepers
  BY <1>1, <1>3 DEF Owners, Keepers
<1> QED BY <1>1, <1>4, StillNodes

\* The port leaves limbo.
LEMMA ClearEndNodes ==
    ASSUME PortInv, PortType', NEW p \in Procs, clearEnd(p)
    PROVE  NodeInv' /\ NoStaleMessage' /\ PanicOnlyOvercommitted'
<1> DEFINE x == call[p].port
           t == IF call[p].op = "reset" THEN "ALLOC" ELSE "FREE"
<1>1. /\ ~panicked /\ call[p].op \in {"reset", "delete"} /\ call[p].seq = 2
      /\ ptstate' = [ptstate EXCEPT ![x] = t] /\ call' = [call EXCEPT ![p] = Idle]
      /\ UNCHANGED <<panicked, ptfree, ptgen, ptlist, ptseq>>
  BY DEF clearEnd, Runs
<1>2. x \in PortIds
  BY DEF PortInv, PortType
<1>3. ClearsAt(call, p, x, 2) /\ \A y, n : ClearsAt(call, p, y, n) => y = x /\ n = 2
  BY <1>1 DEF ClearsAt, Clears
<1> HIDE DEF x
<1>4. /\ ptstate'[x] = t /\ \A y \in PortIds : y # x => ptstate'[y] = ptstate[y]
      /\ call'[p] = Idle /\ \A q \in Procs : q # p => call'[q] = call[q]
  BY <1>1, <1>2 DEF PortInv, PortType
<1>5. /\ ptstate[x] = "LIMBO" /\ \A q \in Procs : Clears(call, q, x) => q = p
      /\ t = "ALLOC" => ptlist[x] = <<>>
  <2>1. PortAt(x, ptstate[x], ptmaxcnt[x], ptseq[x], ptssem[x], ptrsem[x], ptlist[x], call)
    BY <1>2 DEF PortInv, TableInv
  <2>2. Clears(call, p, x)
    BY <1>3 DEF ClearsAt
  <2> QED BY <1>3, <2>1, <2>2 DEF PortAt, Cleared
<1>6. \A y, n : ~ClearsAt(call', p, y, n)
  BY <1>4, IdleFacts, ApartFacts
<1>7. \A q \in Procs : \A y, n : q # p => (ClearsAt(call', q, y, n) <=> ClearsAt(call, q, y, n))
  BY <1>4 DEF ClearsAt, Clears
<1>8. \A y \in Owners' : y \in Owners \/ (y = x /\ t = "ALLOC")
  BY <1>4, <1>6, <1>7 DEF Owners
<1>9. ASSUME NEW y \in Keepers PROVE y \in Keepers'
  <2>1. y \in PortIds /\ ptstate[y] # "FREE" /\ \A q \in Procs : ~ClearsAt(call, q, y, 1) /\ ~ClearsAt(call, q, y, 2)
    BY DEF Keepers
  <2>2. y # x
    BY <1>3, <2>1
  <2>3. \A q \in Procs : ~ClearsAt(call', q, y, 1) /\ ~ClearsAt(call', q, y, 2)
    BY <1>6, <1>7, <2>1
  <2> QED BY <1>4, <2>1, <2>2, <2>3 DEF Keepers
<1>10. \A y \in PortIds : ptstate'[y] = "ALLOC" =>
          \/ ptlist'[y] = <<>>
          \/ ptstate[y] = "ALLOC" /\ ptlist'[y] = ptlist[y] /\ ptseq'[y] = ptseq[y]
  BY <1>1, <1>4, <1>5
<1>11. \A y \in Owners' \ Owners : ptlist'[y] = <<>>
  BY <1>1, <1>5, <1>8
<1> QED BY <1>1, <1>9, <1>10, <1>11, StillNodes

\* kill().
LEMMA KilledNodes ==
    ASSUME PortInv, PortType', NEW p \in Procs, killed(p)
    PROVE  NodeInv' /\ NoStaleMessage' /\ PanicOnlyOvercommitted'
<1>1. /\ ~panicked /\ call' = [call EXCEPT ![p] = Idle]
      /\ UNCHANGED <<panicked, ptfree, ptgen, ptlist, ptstate, ptseq>>
  BY DEF killed
<1>2. call'[p] = Idle /\ \A q \in Procs : q # p => call'[q] = call[q]
  BY <1>1 DEF PortInv, PortType
<1>3. \A q \in Procs : \A y, n : ClearsAt(call', q, y, n) => ClearsAt(call, q, y, n)
  BY <1>2, IdleFacts, ApartFacts DEF ClearsAt, Clears
<1>4. \A y \in Owners' : y \in Owners
  BY <1>1, <1>3 DEF Owners
<1>5. \A y \in Keepers : y \in Keepers'
  BY <1>1, <1>3 DEF Keepers
<1> QED BY <1>1, <1>4, <1>5, StillNodes

\* _ptclear() gives the nodes back and lets the senders go.
LEMMA SendersNodes ==
    ASSUME PortInv, PortType', NEW p \in Procs, clearSenders(p)
    PROVE  NodeInv' /\ NoStaleMessage' /\ PanicOnlyOvercommitted'
<1> DEFINE x == call[p].port
<1>1. /\ ~panicked /\ call[p].op \in {"reset", "delete"} /\ call[p].seq = 0
      /\ relink(x, call[p].op = "reset") /\ call' = [call EXCEPT ![p].seq = 1]
      /\ UNCHANGED <<panicked, ptgen, ptstate, ptseq>>
  BY DEF clearSenders, Runs
<1>2. x \in PortIds
  BY DEF PortInv, PortType
<1>3. ClearsAt(call, p, x, 0) /\ \A y, n : ClearsAt(call, p, y, n) => y = x /\ n = 0
  BY <1>1 DEF ClearsAt, Clears
<1>4. /\ call'[p].seq = 1 /\ call'[p].port = x /\ call'[p].op = call[p].op
      /\ \A q \in Procs : q # p => call'[q] = call[q]
  BY <1>1 DEF PortInv, PortType
<1>5. ClearsAt(call', p, x, 1) /\ \A y, n : ClearsAt(call', p, y, n) => y = x /\ n = 1
  BY <1>1, <1>4 DEF ClearsAt, Clears
<1> HIDE DEF x
<1>6. ptstate[x] = "LIMBO" /\ \A q \in Procs : Clears(call, q, x) => q = p
  <2>1. PortAt(x, ptstate[x], ptmaxcnt[x], ptseq[x], ptssem[x], ptrsem[x], ptlist[x], call)
    BY <1>2 DEF PortInv, TableInv
  <2>2. Clears(call, p, x)
    BY <1>3 DEF ClearsAt
  <2> QED BY <2>1, <2>2 DEF PortAt, Cleared
<1>7. \A q \in Procs : \A y, n : q # p => (ClearsAt(call', q, y, n) <=> ClearsAt(call, q, y, n))
  BY <1>4 DEF ClearsAt, Clears
<1>8. \A q \in Procs : \A n : q # p => ~ClearsAt(call', q, x, n)
  BY <1>6, <1>7 DEF ClearsAt
<1>9. Owners' = Owners \ {x}
  <2>1. x \notin Owners'
    <3>1. \A q \in Procs : ~ClearsAt(call', q, x, 0)
      BY <1>5, <1>8
    <3>2. ptstate'[x] # "ALLOC"
      BY <1>1, <1>6
    <3> QED BY <3>1, <3>2 DEF Owners
  <2>2. ASSUME NEW y \in PortIds, y # x PROVE y \in Owners' <=> y \in Owners
    <3>1. \A q \in Procs : ClearsAt(call', q, y, 0) <=> ClearsAt(call, q, y, 0)
      BY <1>3, <1>5, <1>7, <2>2
    <3> QED BY <1>1, <3>1 DEF Owners
  <2>3. Owners \subseteq PortIds /\ Owners' \subseteq PortIds
    BY DEF Owners
  <2> QED BY <2>1, <2>2, <2>3
<1>10. Keepers' = Keepers \ {x}
  <2>1. x \notin Keepers'
    BY <1>5 DEF Keepers
  <2>2. ASSUME NEW y \in PortIds, y # x PROVE y \in Keepers' <=> y \in Keepers
    <3>1. \A q \in Procs : /\ ClearsAt(call', q, y, 1) <=> ClearsAt(call, q, y, 1)
                           /\ ClearsAt(call', q, y, 2) <=> ClearsAt(call, q, y, 2)
      BY <1>3, <1>5, <1>7, <2>2
    <3> QED BY <1>1, <3>1 DEF Keepers
  <2>3. Keepers \subseteq PortIds /\ Keepers' \subseteq PortIds
    BY DEF Keepers
  <2> QED BY <2>1, <2>2, <2>3
<1>11. /\ ptlist \in [PortIds -> Seq(Nodes)] /\ ptfree \in Seq(Nodes) /\ ptlist' \in [PortIds -> Seq(Nodes)]
       /\ Shared(Owners, Keepers, ptlist, ptfree)
       /\ Owners \subseteq PortIds /\ Keepers \subseteq PortIds /\ x \in Owners
  BY <1>2, <1>3 DEF PortInv, PortType, NodeInv, Owners, Keepers
<1>12. ptfree' = ptlist[x] \o ptfree /\ \A y \in PortIds : y # x => ptlist'[y] = ptlist[y]
  BY <1>1, <1>2, <1>11 DEF relink
<1>13. Shared(Owners \ {x}, Keepers \ {x}, ptlist', ptlist[x] \o ptfree)
  BY <1>11, <1>12, RelinkShared
<1>14. NodeInv' /\ PanicOnlyOvercommitted'
  BY <1>1, <1>9, <1>10, <1>12, <1>13 DEF NodeInv, PanicOnlyOvercommitted
<1>15. NoStaleMessage'
  <2>1. Allocated' = Allocated /\ \A y \in Allocated : ptlist'[y] = ptlist[y]
    BY <1>1, <1>6, <1>12 DEF Allocated
  <2> QED BY <1>1, <2>1 DEF PortInv, NoStaleMessage
<1> QED BY <1>14, <1>15

-----------------------------------------------------------------------------
(* Every step.                                                             *)

\* ptinit() establishes the invariant.
LEMMA InitPorts == ASSUME ptinit PROVE PortInv
<1>0. 0 \in PortIds /\ NMSGS \in Nat /\ U16 \in Nat \ {0} /\ Nodes = 1 .. NMSGS
  BY PortsAssumption DEF PortIds, Nodes
<1>1. ptfree \in Seq(Nodes) /\ NoRepeat(ptfree) /\ \A m \in Nodes : Contains(ptfree, m)
  <2>1. ptfree = [i \in 1 .. NMSGS |-> i] /\ \A i \in 1 .. NMSGS : i \in Nodes
    BY <1>0 DEF ptinit
  <2>2. ptfree \in Seq(Nodes) /\ Len(ptfree) = NMSGS
    BY <1>0, <2>1
  <2> QED BY <1>0, <2>1, <2>2 DEF NoRepeat, Contains
<1>2. PortType
  <2>1. Idle \in [op : Ops, port : PortIds, seq : Nat]
    BY CallFacts
  <2>2. <<>> \in Seq(Nodes)
    OBVIOUS
  <2> QED BY <1>0, <1>1, <2>1, <2>2 DEF ptinit, PortType
<1>3. \A p \in Procs : call[p] = Idle
  BY DEF ptinit
<1>4. \A p \in Procs : \A x, n : ~Clears(call, p, x) /\ ~ClearsAt(call, p, x, n)
  BY <1>3, IdleFacts, ApartFacts
<1>5. TableInv
  <2> SUFFICES ASSUME NEW x \in PortIds
               PROVE  PortAt(x, ptstate[x], ptmaxcnt[x], ptseq[x], ptssem[x], ptrsem[x], ptlist[x], call)
    BY DEF TableInv
  <2>1. /\ ptstate[x] = "FREE" /\ ptssem[x] = NoSem /\ ptrsem[x] = NoSem
    BY DEF ptinit
  <2>2. SemSound(NoSem, Procs) /\ \A q : ~waitsOn(q, NoSem)
    BY SemNone
  <2>3. \A p \in Procs : ~(call[p].op \in {"send", "recv"})
    BY <1>3, IdleFacts
  <2>4. Cleared(x, ptstate[x], ptmaxcnt[x], ptssem[x], ptrsem[x], ptlist[x], call)
    BY <1>4 DEF Cleared
  <2>5. Awaited(x, ptstate[x], ptseq[x], ptssem[x], ptrsem[x], call)
    BY <2>1, <2>2, <2>3 DEF Awaited
  <2>6. Counted(x, ptstate[x], ptmaxcnt[x], ptseq[x], ptssem[x], ptrsem[x], ptlist[x], call)
    BY <2>1 DEF Counted
  <2> QED BY <2>4, <2>5, <2>6 DEF PortAt
<1>6. Owners = {} /\ Keepers = {}
  BY <1>4 DEF ptinit, Owners, Keepers
<1>7. NodeInv
  BY <1>1, <1>6 DEF NodeInv, Shared
<1>8. NoStaleMessage /\ PanicOnlyOvercommitted
  BY DEF ptinit, NoStaleMessage, Allocated, PanicOnlyOvercommitted
<1> QED BY <1>2, <1>5, <1>7, <1>8 DEF PortInv

\* A call that sends or receives, or is in the middle of that.
LEMMA SendNodes ==
    ASSUME PortInv, PortType', NEW p \in Procs,
           \/ \E x \in PortIds : ptsend(p, x) /\ Len(ptlist[x]) < ptmaxcnt[x]
           \/ ptsendEnd(p) /\ (samePort(call[p]) => Len(ptlist[call[p].port]) < ptmaxcnt[call[p].port])
           \/ \E x \in PortIds : ptsendWait(p, x) \/ ptrecvWait(p, x)
           \/ \E x \in PortIds : ptrecv(p, x) /\ ptlist[x] # <<>>
           \/ ptrecvEnd(p) /\ (samePort(call[p]) => ptlist[call[p].port] # <<>>)
    PROVE  NodeInv' /\ NoStaleMessage' /\ PanicOnlyOvercommitted'
<1>0. call \in [Procs -> [op : Ops, port : PortIds, seq : Nat]] /\ call[p].port \in PortIds
  BY DEF PortInv, PortType
<1>1. /\ ~panicked /\ ptstate' = ptstate /\ ptmaxcnt' = ptmaxcnt /\ ptseq' = ptseq
      /\ call[p].op \notin {"reset", "delete"} /\ call'[p].op \notin {"reset", "delete"}
      /\ \A q \in Procs : q # p => call'[q] = call[q]
  <2>1. CASE \E x \in PortIds : ptsend(p, x) \/ ptrecv(p, x)
    BY <2>1, CallFacts DEF ptsend, ptrecv, Starts, Runs
  <2>2. CASE \E x \in PortIds : ptsendWait(p, x) \/ ptrecvWait(p, x)
    BY <1>0, <2>2, CallFacts DEF ptsendWait, ptrecvWait, Starts, Runs
  <2>3. CASE ptsendEnd(p) \/ ptrecvEnd(p)
    BY <1>0, <2>3, CallFacts DEF ptsendEnd, ptrecvEnd, Runs
  <2> QED BY <2>1, <2>2, <2>3
<1>2. Owners' = Owners /\ Keepers' = Keepers
  BY <1>1, SameOwners
<1>3. ASSUME UNCHANGED <<panicked, ptfree, ptgen, ptlist>>
      PROVE  NodeInv' /\ NoStaleMessage' /\ PanicOnlyOvercommitted'
  BY <1>1, <1>2, <1>3, StillNodes
<1>4. CASE \E x \in PortIds : ptsend(p, x) /\ Len(ptlist[x]) < ptmaxcnt[x]
  <2>1. PICK x \in PortIds : ptsend(p, x) /\ Len(ptlist[x]) < ptmaxcnt[x]
    BY <1>4
  <2>2. ptstate[x] = "ALLOC" /\ put(x, ptseq[x])
    BY <2>1 DEF ptsend
  <2> QED BY <1>1, <1>2, <2>1, <2>2, PutNodes
<1>5. CASE ptsendEnd(p) /\ (samePort(call[p]) => Len(ptlist[call[p].port]) < ptmaxcnt[call[p].port])
  <2>1. CASE samePort(call[p])
    <3> DEFINE x == call[p].port
    <3>1. /\ ptstate[x] = "ALLOC" /\ put(x, ptseq[x]) /\ Len(ptlist[x]) < ptmaxcnt[x]
      BY <1>5, <2>1 DEF ptsendEnd, samePort
    <3>2. x \in PortIds
      BY <1>0
    <3> HIDE DEF x
    <3> QED BY <1>1, <1>2, <3>1, <3>2, PutNodes
  <2>2. CASE ~samePort(call[p])
    BY <1>3, <1>5, <2>2 DEF ptsendEnd
  <2> QED BY <2>1, <2>2
<1>6. CASE \E x \in PortIds : ptsendWait(p, x) \/ ptrecvWait(p, x)
  BY <1>3, <1>6 DEF ptsendWait, ptrecvWait
<1>7. CASE \E x \in PortIds : ptrecv(p, x) /\ ptlist[x] # <<>>
  <2>1. PICK x \in PortIds : ptrecv(p, x) /\ ptlist[x] # <<>>
    BY <1>7
  <2>2. ptstate[x] = "ALLOC" /\ take(x) /\ ptgen' = ptgen /\ panicked' = panicked
    BY <2>1 DEF ptrecv
  <2> QED BY <1>1, <1>2, <2>1, <2>2, TakeNodes
<1>8. CASE ptrecvEnd(p) /\ (samePort(call[p]) => ptlist[call[p].port] # <<>>)
  <2>1. CASE samePort(call[p])
    <3> DEFINE x == call[p].port
    <3>1. /\ ptstate[x] = "ALLOC" /\ take(x) /\ ptlist[x] # <<>> /\ ptgen' = ptgen /\ panicked' = panicked
      BY <1>8, <2>1 DEF ptrecvEnd, samePort
    <3>2. x \in PortIds
      BY <1>0
    <3> HIDE DEF x
    <3> QED BY <1>1, <1>2, <3>1, <3>2, TakeNodes
  <2>2. CASE ~samePort(call[p])
    BY <1>3, <1>8, <2>2 DEF ptrecvEnd
  <2> QED BY <2>1, <2>2
<1> QED BY <1>4, <1>5, <1>6, <1>7, <1>8

\* Every step preserves the invariant, for sizes that fit into ptmaxcnt.
LEMMA NextPorts ==
    ASSUME \A count \in Counts : count < U16, PortInv, [Next]_ptVars
    PROVE  PortInv'
<1>0. PortType /\ TableInv
  BY DEF PortInv
<1>1. ASSUME NEW p \in Procs, NEW count \in Counts, ptcreate(p, count) PROVE PortInv'
  BY <1>0, <1>1, CreateTable, CreateNodes DEF PortInv
<1>2. ASSUME NEW p \in Procs, NEW x \in PortIds, ptsend(p, x) PROVE PortInv'
  <2>1. PortType' /\ TableInv' /\ Len(ptlist[x]) < ptmaxcnt[x]
    BY <1>0, <1>2, SendTable
  <2> QED BY <1>2, <2>1, SendNodes DEF PortInv
<1>3. ASSUME NEW p \in Procs, NEW x \in PortIds, ptsendWait(p, x) PROVE PortInv'
  <2>1. PortType' /\ TableInv'
    BY <1>0, <1>3, SendWaitTable
  <2> QED BY <1>3, <2>1, SendNodes DEF PortInv
<1>4. ASSUME NEW p \in Procs, NEW x \in PortIds, ptrecv(p, x) PROVE PortInv'
  <2>1. PortType' /\ TableInv' /\ ptlist[x] # <<>>
    BY <1>0, <1>4, RecvTable
  <2> QED BY <1>4, <2>1, SendNodes DEF PortInv
<1>5. ASSUME NEW p \in Procs, NEW x \in PortIds, ptrecvWait(p, x) PROVE PortInv'
  <2>1. PortType' /\ TableInv'
    BY <1>0, <1>5, RecvWaitTable
  <2> QED BY <1>5, <2>1, SendNodes DEF PortInv
<1>6. ASSUME NEW p \in Procs, NEW x \in PortIds, ptreset(p, x) \/ ptdelete(p, x) PROVE PortInv'
  <2>1. PICK op \in {"reset", "delete"} : _ptclear(p, x, op)
    BY <1>6 DEF ptreset, ptdelete
  <2>2. PortType' /\ TableInv'
    BY <1>0, <2>1, ClearTable
  <2> QED BY <2>1, <2>2, ClearNodes DEF PortInv
<1>7. ASSUME NEW p \in Procs, ptsendEnd(p) PROVE PortInv'
  <2>1. /\ PortType' /\ TableInv'
        /\ samePort(call[p]) => Len(ptlist[call[p].port]) < ptmaxcnt[call[p].port]
    BY <1>0, <1>7, SendEndTable
  <2> QED BY <1>7, <2>1, SendNodes DEF PortInv
<1>8. ASSUME NEW p \in Procs, ptrecvEnd(p) PROVE PortInv'
  <2>1. PortType' /\ TableInv' /\ (samePort(call[p]) => ptlist[call[p].port] # <<>>)
    BY <1>0, <1>8, RecvEndTable
  <2> QED BY <1>8, <2>1, SendNodes DEF PortInv
<1>9. ASSUME NEW p \in Procs, clearSenders(p) PROVE PortInv'
  BY <1>0, <1>9, GoesOnTable, SendersNodes DEF PortInv
<1>10. ASSUME NEW p \in Procs, clearReceivers(p) PROVE PortInv'
  BY <1>0, <1>10, GoesOnTable, ReceiversNodes DEF PortInv
<1>11. ASSUME NEW p \in Procs, clearEnd(p) PROVE PortInv'
  BY <1>0, <1>11, ClearEndTable, ClearEndNodes DEF PortInv
<1>12. ASSUME NEW p \in Procs, killed(p) PROVE PortInv'
  BY <1>0, <1>12, KilledTable, KilledNodes DEF PortInv
<1>13. CASE UNCHANGED ptVars
  <2>1. /\ Owners' = Owners /\ Keepers' = Keepers /\ Allocated' = Allocated /\ Places' = Places
        /\ UNCHANGED <<ptstate, ptmaxcnt, ptseq, ptssem, ptrsem, ptlist, ptfree, ptgen, ptnextid,
                       call, panicked>>
    BY <1>13 DEF ptVars, Owners, Keepers, Allocated, Places
  <2>2. PortType' /\ TableInv'
    BY <1>0, <2>1 DEF PortType, TableInv
  <2>3. NodeInv' /\ NoStaleMessage' /\ PanicOnlyOvercommitted'
    BY <2>1 DEF PortInv, NodeInv, NoStaleMessage, PanicOnlyOvercommitted
  <2> QED BY <2>2, <2>3 DEF PortInv
<1>14. CASE \E p \in Procs : Begin(p)
  BY <1>1, <1>2, <1>3, <1>4, <1>5, <1>6, <1>14 DEF Begin
<1>15. CASE \E p \in Procs : Goes(p)
  BY <1>7, <1>8, <1>9, <1>10, <1>11, <1>15 DEF Goes
<1>16. CASE \E p \in Killable : killed(p)
  BY <1>12, <1>16, PortsAssumption
<1>17. CASE stopped
  BY <1>13, <1>17 DEF stopped
<1> QED BY <1>13, <1>14, <1>15, <1>16, <1>17 DEF Next

-----------------------------------------------------------------------------
(* What the invariant is for.                                              *)

\* The processes that were let go, with the invariant.
LEMMA PromisedIs ==
    ASSUME PortInv, NEW x \in PortIds, ptstate[x] = "ALLOC"
    PROVE  /\ Promised("send", x) = letGo(ptssem[x], Current(call, ptseq[x], "send", x))
           /\ Promised("recv", x) = letGo(ptrsem[x], Current(call, ptseq[x], "recv", x))
<1>1. \A y \in PortIds, p \in Procs :
         /\ waitsOn(p, ptssem[y]) => call[p].op = "send" /\ call[p].port = y
         /\ waitsOn(p, ptrsem[y]) => call[p].op = "recv" /\ call[p].port = y
  BY DEF PortInv, TableInv, PortAt, Awaited
<1>2. \A p \in Procs : call[p] = Call("send", x, ptseq[x]) => (Waiting(p) <=> waitsOn(p, ptssem[x]))
  BY <1>1, CallFacts DEF Waiting
<1>3. \A p \in Procs : call[p] = Call("recv", x, ptseq[x]) => (Waiting(p) <=> waitsOn(p, ptrsem[x]))
  BY <1>1, CallFacts DEF Waiting
<1> QED BY <1>2, <1>3 DEF Promised, letGo, Current

\* The invariant implies the properties.
LEMMA PortsImply == ASSUME PortInv PROVE PortsSound
<1>0. PortType /\ TableInv /\ Shared(Owners, Keepers, ptlist, ptfree)
  BY DEF PortInv, NodeInv
<1>1. ASSUME NEW x \in Allocated
      PROVE  /\ available(ptrsem[x]) + Cardinality(Promised("recv", x)) <= Len(ptlist[x])
             /\ ptssem[x].used =>
                  Len(ptlist[x]) + available(ptssem[x]) + Cardinality(Promised("send", x)) <= ptmaxcnt[x]
  <2> DEFINE S == Current(call, ptseq[x], "send", x)
             R == Current(call, ptseq[x], "recv", x)
  <2>1. x \in PortIds /\ ptstate[x] = "ALLOC"
    BY DEF Allocated
  <2>2. /\ Permitted(ptmaxcnt[x], ptssem[x], ptrsem[x], ptlist[x], S, R)
        /\ ptmaxcnt[x] \in Nat /\ ptlist[x] \in Seq(Nodes) /\ Len(ptlist[x]) \in Nat
    BY <1>0, <2>1, AllocFacts
  <2>3. /\ available(ptssem[x]) \in Nat /\ Cardinality(letGo(ptssem[x], S)) \in Nat
        /\ available(ptrsem[x]) \in Nat /\ Cardinality(letGo(ptrsem[x], R)) \in Nat
    BY <2>2, PermittedFacts
  <2>4. Promised("send", x) = letGo(ptssem[x], S) /\ Promised("recv", x) = letGo(ptrsem[x], R)
    BY <2>1, PromisedIs
  <2> HIDE DEF S, R
  <2>5. available(ptrsem[x]) + Cardinality(letGo(ptrsem[x], R)) <= Len(ptlist[x])
    BY <2>2 DEF Permitted, permits
  <2>6. ptssem[x].used =>
           Len(ptlist[x]) + (available(ptssem[x]) + Cardinality(letGo(ptssem[x], S))) <= ptmaxcnt[x]
    BY <2>2 DEF Permitted, permits
  <2> QED BY <2>2, <2>3, <2>4, <2>5, <2>6
<1>2. /\ \A x \in PortIds : ptlist[x] \in Seq(Nodes)
      /\ ptfree \in Seq(Nodes)
      /\ \A x \in Allocated : x \in PortIds /\ x \in Owners
      /\ \A x \in Keepers : x \in PortIds /\ ptstate[x] # "FREE"
  BY <1>0, OwnersFacts DEF PortType, Allocated, Keepers
<1>3. /\ IsInjective(ptfree) <=> NoRepeat(ptfree)
      /\ \A m : m \in ToSet(ptfree) <=> Contains(ptfree, m)
      /\ \A m : Contains(ptfree, m) => m \in Nodes
  BY <1>2, ListFacts
<1>4. ASSUME NEW x \in PortIds
      PROVE  /\ IsInjective(ptlist[x]) <=> NoRepeat(ptlist[x])
             /\ \A m : m \in ToSet(ptlist[x]) <=> Contains(ptlist[x], m)
             /\ \A m : Contains(ptlist[x], m) => m \in Nodes
  BY <1>2, ListFacts
<1>5. NodesConserved
  <2>1. IsInjective(ptfree)
    BY <1>0, <1>3 DEF Shared
  <2>2. ASSUME NEW x \in Allocated
        PROVE  /\ IsInjective(ptlist[x]) /\ ToSet(ptlist[x]) \cap ToSet(ptfree) = {}
               /\ \A y \in Allocated \ {x} : ToSet(ptlist[x]) \cap ToSet(ptlist[y]) = {}
    <3>1. IsInjective(ptlist[x])
      BY <1>0, <1>2, <1>4 DEF Shared
    <3>2. ToSet(ptlist[x]) \cap ToSet(ptfree) = {}
      BY <1>0, <1>2, <1>3, <1>4 DEF Shared
    <3>3. ASSUME NEW y \in Allocated \ {x} PROVE ToSet(ptlist[x]) \cap ToSet(ptlist[y]) = {}
      BY <1>0, <1>2, <1>4 DEF Shared
    <3> QED BY <3>1, <3>2, <3>3
  <2>3. ASSUME NEW m \in Nodes
        PROVE  m \in ToSet(ptfree) \/ \E x \in PortIds : ptstate[x] # "FREE" /\ m \in ToSet(ptlist[x])
    BY <1>0, <1>2, <1>3, <1>4 DEF Shared
  <2> QED BY <2>1, <2>2, <2>3 DEF NodesConserved
<1>6. PermitsBacked
  BY <1>1 DEF PermitsBacked
<1>7. SpaceBound
  BY <1>1 DEF SpaceBound
<1> QED BY <1>5, <1>6, <1>7 DEF PortInv, PortsSound

\* "verify port has not been reset": however sends, receives, resets, deletions,
\* new ports and kills interleave, ptsend() and ptrecv() find a place, a node and
\* a message when their wait() lets them go.  ptmaxcnt is 16 bits wide: a port
\* that is created for more messages than it can say holds more than it says.
THEOREM PortsAlwaysSound ==
    ASSUME \A count \in Counts : count < U16
    PROVE  Spec => []PortsSound
<1>1. ptinit => PortInv
  BY InitPorts
<1>2. PortInv /\ [Next]_ptVars => PortInv'
  BY NextPorts
<1>3. PortInv => PortsSound
  BY PortsImply
<1> QED BY <1>1, <1>2, <1>3, PTL DEF Spec

\* No message of an earlier use of a port is left in it, and no sender that
\* blocked before the port was reset puts one into it.
THEOREM NoMessageStale ==
    ASSUME \A count \in Counts : count < U16
    PROVE  Spec => []NoStaleMessage
<1>1. ptinit => PortInv
  BY InitPorts
<1>2. PortInv /\ [Next]_ptVars => PortInv'
  BY NextPorts
<1>3. PortInv => NoStaleMessage
  BY DEF PortInv
<1> QED BY <1>1, <1>2, <1>3, PTL DEF Spec
=============================================================================
