------------------------------- MODULE Memory --------------------------------
(***************************************************************************)
(* The low-level memory manager: meminit.c, getmem.c, getstk.c, freemem.c  *)
(* and the freestk macro of memory.h.  Free memory is a list of blocks in  *)
(* order of address; getmem() takes the first block that is large enough   *)
(* and cuts the request from its low end, getstk() takes the last one and  *)
(* cuts from its high end, and freemem() finds the place of a block by its *)
(* address and merges it with its neighbours.  Each call runs with         *)
(* interrupts disabled and is one step.                                    *)
(*                                                                         *)
(* memlist.mlength is left out: meminit() never sets it and nothing reads  *)
(* it.                                                                     *)
(***************************************************************************)
EXTENDS Integers, Sequences, SequencesExt

CONSTANTS
    MB,         \* sizeof(struct memblk): all sizes are rounded up to it
    WSIZE,      \* sizeof(uint32)
    minheap,    \* lowest address of the heap
    maxheap,    \* first address above the heap
    U32,        \* unsigned integers are taken modulo U32
    Requests    \* sizes the callers ask for

\* The linker script puts end at a page boundary, so the heap is a whole number
\* of blocks.
ASSUME HeapAssumption ==
    /\ MB \in Nat /\ WSIZE \in Nat /\ 0 < WSIZE /\ WSIZE <= MB
    /\ minheap \in Nat /\ maxheap \in Nat /\ 0 < minheap /\ minheap < maxheap
    /\ (maxheap - minheap) % MB = 0
    /\ U32 \in Nat /\ maxheap + MB < U32
    /\ Requests \subseteq 0 .. U32 - 1

VARIABLES
    memlist,    \* the free list: a sequence of blocks
    held        \* the blocks the callers hold: what was returned for which request

memVars == <<memlist, held>>

\* The bytes from addr up to addr + len - 1.
Block(addr, len) == [addr |-> addr, len |-> len]
top(b) == b.addr + b.len

\* roundmb(x): the addition wraps around like any uint32.
roundmb(x) == (((x + MB - 1) % U32) \div MB) * MB

meminit ==
    /\ memlist = << Block(minheap, maxheap - minheap) >>
    /\ held = {}

-----------------------------------------------------------------------------
(* Allocation.  A call that returns SYSERR (no bytes asked for, no block   *)
(* large enough) changes nothing and is not an action.                     *)

\* Take the block at place i off the list, or keep what is left of it.
cut(i, rest) ==
    IF rest.len = 0 THEN RemoveAt(memlist, i) ELSE [memlist EXCEPT ![i] = rest]

fits(i, r) == memlist[i].len >= r

\* First fit; the caller gets the low end of the block.
getmem(n) ==
    LET r == roundmb(n) IN
    /\ n # 0
    /\ \E i \in 1 .. Len(memlist) :
          /\ fits(i, r)
          /\ \A j \in 1 .. i - 1 : ~fits(j, r)
          /\ memlist' = cut(i, Block(memlist[i].addr + r, memlist[i].len - r))
          /\ held' = held \cup {[kind |-> "mem", ptr |-> memlist[i].addr, n |-> n]}

\* Last fit; the caller gets the address of the highest word of the high end.
getstk(n) ==
    LET r == roundmb(n) IN
    /\ n # 0
    /\ \E i \in 1 .. Len(memlist) :
          /\ fits(i, r)
          /\ \A j \in i + 1 .. Len(memlist) : ~fits(j, r)
          /\ memlist' = cut(i, Block(memlist[i].addr, memlist[i].len - r))
          /\ held' = held \cup {[kind |-> "stk", ptr |-> top(memlist[i]) - WSIZE, n |-> n]}

-----------------------------------------------------------------------------
(* Release.                                                                *)

\* How many blocks of the list freemem() walks past to find the place of addr.
walk(addr) ==
    CHOOSE k \in 0 .. Len(memlist) :
        /\ k = Len(memlist) \/ memlist[k + 1].addr >= addr
        /\ \A j \in 1 .. k : memlist[j].addr < addr

\* Block b would overlap the previous or the next free block.
overlaps(b, k) ==
    \/ k > 0 /\ b.addr < top(memlist[k])
    \/ k < Len(memlist) /\ top(b) > memlist[k + 1].addr

\* Mutant: the block is linked in as it is when there is one before it.
coalesceNext(b, k) ==
    LET withNext == k < Len(memlist) /\ top(b) = memlist[k + 1].addr
        last     == IF withNext THEN top(memlist[k + 1]) ELSE top(b)
    IN  SubSeq(memlist, 1, k)
          \o << Block(b.addr, last - b.addr) >>
          \o SubSeq(memlist, IF withNext THEN k + 2 ELSE k + 1, Len(memlist))

\* The list with block b at its place, merged with the blocks it touches.
coalesce(b, k) ==
    LET withPrev == k > 0 /\ top(memlist[k]) = b.addr
        withNext == k < Len(memlist) /\ top(b) = memlist[k + 1].addr
        first    == IF withPrev THEN memlist[k].addr ELSE b.addr
        last     == IF withNext THEN top(memlist[k + 1]) ELSE top(b)
    IN  SubSeq(memlist, 1, IF withPrev THEN k - 1 ELSE k)
          \o << Block(first, last - first) >>
          \o SubSeq(memlist, IF withNext THEN k + 2 ELSE k + 1, Len(memlist))

\* freemem(addr, n); SYSERR leaves the list alone.
freemem(addr, n) ==
    LET b == Block(addr, roundmb(n)) IN
    IF n = 0 \/ addr < minheap \/ addr > maxheap \/ overlaps(b, walk(addr))
    THEN UNCHANGED memlist
    ELSE memlist' = coalesce(b, walk(addr))

\* The lowest address of the stack whose highest word is at p.
stkbase(p, n) == p - roundmb(n) + WSIZE

freestk(p, n) == freemem(stkbase(p, n), roundmb(n))

-----------------------------------------------------------------------------
(* The callers.                                                            *)

Allocate == \E n \in Requests : getmem(n) \/ getstk(n)

\* A caller returns what it was given, naming the size it asked for.
Release ==
    \E h \in held :
       /\ \/ h.kind = "mem" /\ freemem(h.ptr, h.n)
          \/ h.kind = "stk" /\ freestk(h.ptr, h.n)
       /\ held' = held \ {h}

\* A block that is free already is freed again.
ReleaseAgain ==
    \E b \in ToSet(memlist), n \in Requests :
       \E addr \in b.addr .. top(b) - 1 :
          /\ addr + n <= top(b)
          /\ freemem(addr, n)
          /\ UNCHANGED held

HeapNext == Allocate \/ Release \/ ReleaseAgain

HeapSpec == meminit /\ [][HeapNext]_memVars

-----------------------------------------------------------------------------
(* Properties.                                                             *)

\* The bytes of the heap a caller may use, and the bytes set aside for it.
Granted(h) ==
    IF h.kind = "mem" THEN h.ptr .. h.ptr + h.n - 1
    ELSE h.ptr + WSIZE - h.n .. h.ptr + WSIZE - 1

SetAside(h) ==
    IF h.kind = "mem" THEN h.ptr .. h.ptr + roundmb(h.n) - 1
    ELSE stkbase(h.ptr, h.n) .. h.ptr + WSIZE - 1

Bytes(b) == b.addr .. top(b) - 1
Free     == UNION {Bytes(b) : b \in ToSet(memlist)}
Heap     == minheap .. maxheap - 1

\* The free list is in order of address, inside the heap, and no two blocks
\* overlap or touch: freemem() merges all it can, in whatever order blocks
\* come back, and refuses a block that is free already.
FreeListSound ==
    /\ \A i \in 1 .. Len(memlist) :
          memlist[i].len > 0 /\ Bytes(memlist[i]) \subseteq Heap
    /\ \A i \in 1 .. Len(memlist) - 1 : top(memlist[i]) < memlist[i + 1].addr

\* "Allocate heap storage": what a caller is given lies in the heap, is not
\* free and is nobody else's, however heap and stack requests are mixed.
NoSharing ==
    \A h \in held :
       /\ Granted(h) \subseteq Heap
       /\ Granted(h) \cap Free = {}
       /\ \A g \in held \ {h} : Granted(h) \cap Granted(g) = {}

\* No byte is lost: what is not set aside for a caller is on the free list,
\* so when everything has been returned the heap is one block again.
NoLeak == Heap = Free \cup UNION {SetAside(h) : h \in held}

\* getmem(), getstk(), freemem() and freestk() share the heap between the free
\* list and the callers exactly: nothing is in two places and nothing is lost.
HeapSound == FreeListSound /\ NoSharing /\ NoLeak
=============================================================================
