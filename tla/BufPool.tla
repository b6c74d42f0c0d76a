------------------------------- MODULE BufPool -------------------------------
(***************************************************************************)
(* Buffer pools: bufinit.c, mkbufpool.c, getbuf.c and freebuf.c.  A pool   *)
(* is a list of equal buffers and a semaphore that counts them.  The first *)
(* word of a buffer links it to the next while it is in the pool and names *)
(* its pool while somebody has it; freebuf() goes by that word.            *)
(***************************************************************************)
EXTENDS UserSem, FiniteSets

CONSTANTS
    Procs,      \* the processes that use the pools
    NBPOOLS,    \* size of the pool table
    NBUFS,      \* buffers the heap has room for
    Sizes,      \* numbers of buffers given to mkbufpool()
    Killable    \* processes that may be killed

ASSUME PoolsAssumption ==
    /\ NBPOOLS \in Nat \ {0} /\ NBUFS \in Nat
    /\ Sizes \subseteq Int /\ IsFiniteSet(Procs) /\ Killable \subseteq Procs

PoolIds == 0 .. NBPOOLS - 1
Bufs    == 1 .. NBUFS
NoPool  == -1

VARIABLES
    nbpools,    \* number of pools made
    bpsem,      \* buftab: the semaphore of each pool
    bpnext,     \* buftab: the list of buffers in the pool
    word,       \* the first word of a buffer when it names a pool
    brk,        \* buffers of the heap that were given to pools: 1 .. brk
    owner,      \* history: the pool each buffer was made for
    has,        \* the buffers each process has
    asks        \* the pool a process waits on in getbuf(), or NoPool

bpVars == <<nbpools, bpsem, bpnext, word, brk, owner, has, asks>>

Waiting(p) == \E x \in PoolIds : waitsOn(p, bpsem[x])
Starts(p)  == ~Waiting(p) /\ asks[p] = NoPool

bufinit ==
    /\ nbpools = 0
    /\ bpsem = [x \in PoolIds |-> NoSem]
    /\ bpnext = [x \in PoolIds |-> <<>>]
    /\ word = [b \in Bufs |-> NoPool]
    /\ brk = 0
    /\ owner = [b \in Bufs |-> NoPool]
    /\ has = [p \in Procs |-> {}]
    /\ asks = [p \in Procs |-> NoPool]

\* A pool of n buffers.  When semcreate() fails the pool is given up, but not
\* the memory.
mkbufpool(p, n) ==
    /\ Starts(p)
    /\ n >= 1
    /\ nbpools < NBPOOLS
    /\ brk + n <= NBUFS
    /\ brk' = brk + n
    /\ \/ /\ nbpools' = nbpools + 1
          /\ bpsem' = [bpsem EXCEPT ![nbpools] = Sem(n)]
          /\ bpnext' = [bpnext EXCEPT ![nbpools] = [i \in 1 .. n |-> brk + i]]
          /\ owner' = [b \in Bufs |-> IF b \in brk + 1 .. brk + n THEN nbpools ELSE owner[b]]
       \/ UNCHANGED <<nbpools, bpsem, bpnext, owner>>
    /\ UNCHANGED <<word, has, asks>>

\* The first buffer of the pool is unlinked and marked.
unlink(p, x) ==
    /\ bpnext' = [bpnext EXCEPT ![x] = Tail(@)]
    /\ word' = [word EXCEPT ![Head(bpnext[x])] = x]
    /\ has' = [has EXCEPT ![p] = @ \cup {Head(bpnext[x])}]

getbuf(p, x) ==
    /\ Starts(p)
    /\ x < nbpools
    /\ passes(bpsem[x])
    /\ bpsem' = [bpsem EXCEPT ![x] = passed(@)]
    /\ unlink(p, x)
    /\ UNCHANGED <<nbpools, brk, owner, asks>>

getbufWait(p, x) ==
    /\ Starts(p)
    /\ x < nbpools
    /\ blocks(bpsem[x])
    /\ bpsem' = [bpsem EXCEPT ![x] = blocked(@, p)]
    /\ asks' = [asks EXCEPT ![p] = x]
    /\ UNCHANGED <<nbpools, bpnext, word, brk, owner, has>>

\* The rest of getbuf(), after the wait; its result is not looked at.
getbufEnd(p) ==
    /\ asks[p] # NoPool
    /\ ~Waiting(p)
    /\ unlink(p, asks[p])
    /\ asks' = [asks EXCEPT ![p] = NoPool]
    /\ UNCHANGED <<nbpools, bpsem, brk, owner>>

\* The pool freebuf() returns a buffer to.
home(b) == word[b]

\* Mutant: the buffer is not linked into the list.
freebufUnlinked(p, b) ==
    /\ Starts(p)
    /\ b \in has[p]
    /\ home(b) \in 0 .. nbpools - 1
    /\ bpsem' = [bpsem EXCEPT ![home(b)] = signaled(@)]
    /\ has' = [has EXCEPT ![p] = @ \ {b}]
    /\ UNCHANGED <<nbpools, bpnext, word, brk, owner, asks>>

\* The buffer is put back at the front of the list and a process let go.
freebuf(p, b) ==
    /\ Starts(p)
    /\ b \in has[p]
    /\ home(b) \in 0 .. nbpools - 1
    /\ bpnext' = [bpnext EXCEPT ![home(b)] = <<b>> \o @]
    /\ bpsem' = [bpsem EXCEPT ![home(b)] = signaled(@)]
    /\ has' = [has EXCEPT ![p] = @ \ {b}]
    /\ UNCHANGED <<nbpools, word, brk, owner, asks>>

\* kill(): what the process had is never returned; its ID is used again.
killed(p) ==
    /\ asks[p] # NoPool \/ has[p] # {}
    /\ bpsem' = [x \in PoolIds |-> IF waitsOn(p, bpsem[x]) THEN abandoned(bpsem[x], p)
                                                           ELSE bpsem[x]]
    /\ asks' = [asks EXCEPT ![p] = NoPool]
    /\ has' = [has EXCEPT ![p] = {}]
    /\ UNCHANGED <<nbpools, bpnext, word, brk, owner>>

Next ==
    \/ \E p \in Procs :
          \/ \E n \in Sizes : mkbufpool(p, n)
          \/ \E x \in PoolIds : getbuf(p, x) \/ getbufWait(p, x)
          \/ getbufEnd(p)
          \/ \E b \in Bufs : freebuf(p, b)
    \/ \E p \in Killable : killed(p)

Spec == bufinit /\ [][Next]_bpVars

\* A process that can go on does, and each buffer somebody can return is
\* returned in the end, as the network input process and its callees do with a
\* packet.
LiveSpec ==
    /\ Spec
    /\ \A p \in Procs :
          WF_bpVars(getbufEnd(p)) /\ \A b \in Bufs : WF_bpVars(freebuf(p, b))

-----------------------------------------------------------------------------
(* Properties.                                                             *)

\* The processes let go by freebuf() for pool x that have not run since.
Promised(x) == {p \in Procs : asks[p] = x /\ ~Waiting(p)}

\* A process that gets past its wait() finds a buffer in the pool: getbuf()
\* never unlinks from an empty list, whoever comes between the signal() and it.
BufferForPermit ==
    \A x \in 0 .. nbpools - 1 :
       available(bpsem[x]) + Cardinality(Promised(x)) <= Len(bpnext[x])

\* Nobody has a buffer that is in a pool or that somebody else has, and every
\* buffer in a pool was made for that pool.
BuffersExclusive ==
    /\ \A p, q \in Procs : p # q => has[p] \cap has[q] = {}
    /\ \A x \in 0 .. nbpools - 1 :
          /\ IsInjective(bpnext[x])
          /\ \A i \in 1 .. Len(bpnext[x]) :
                owner[bpnext[x][i]] = x /\ \A p \in Procs : bpnext[x][i] \notin has[p]

\* getbuf() hands out a buffer of the pool that was asked, which nobody else
\* has, although it does not look at the result of wait().
PoolsSound == BufferForPermit /\ BuffersExclusive

Greedy == \E p \in Procs : has[p] # {} /\ asks[p] # NoPool

\* A killed process took a buffer with it, or the permit for one.
Leaked ==
    \/ \E b \in Bufs : owner[b] # NoPool /\ \A p \in Procs : b \notin has[p]
                                        /\ ~Contains(bpnext[owner[b]], b)
    \/ \E x \in 0 .. nbpools - 1 :
          available(bpsem[x]) + Cardinality(Promised(x)) < Len(bpnext[x])

\* A process that waits for a buffer gets one or is killed, however many
\* others ask and are killed while they wait, unless somebody waits for a
\* second buffer while it keeps a first or dies with what it was given.
Served ==
    [](~Greedy /\ ~Leaked)
       => \A p \in Procs : asks[p] # NoPool ~> asks[p] = NoPool
=============================================================================
