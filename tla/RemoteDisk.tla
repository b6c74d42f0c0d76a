------------------------------ MODULE RemoteDisk ------------------------------
(***************************************************************************)
(* The remote disk, device/rds: processes read, write and synchronize      *)
(* blocks; a communication process of high priority takes requests from a  *)
(* queue and exchanges messages with the server.  A buffer is in the free  *)
(* list, in the request queue or in the cache of blocks.                   *)
(*                                                                         *)
(* The device is open.  A request that reaches the server is handled in    *)
(* the exchange it belongs to; a reply may be lost, come twice or come in  *)
(* a later exchange.  read(), write() and control() disable interrupts, so *)
(* calls give up the CPU where they wait or signal, and nowhere else; the  *)
(* steps of the communication process are not cut by the clock.            *)
(***************************************************************************)
EXTENDS UserSem, FiniteSets

CONSTANTS
    NPROC,          \* processes 1 .. NPROC use the disk
    NBLOCKS,        \* its blocks are 0 .. NBLOCKS - 1
    Data,           \* what a block may hold
    NONE,
    RD_BUFFS, RD_RETRIES,
    MaxLate,        \* replies that may come in a later exchange, at most
    Shared          \* whether processes use each other's blocks

ASSUME RemoteDiskAssumption ==
    /\ {NPROC, NBLOCKS, RD_BUFFS, RD_RETRIES, MaxLate} \subseteq Nat \ {0}
    /\ Data # {} /\ NONE \notin Data
    /\ Shared \in BOOLEAN

Procs  == 1 .. NPROC
Blocks == 0 .. NBLOCKS - 1
Bufs   == 1 .. RD_BUFFS

VARIABLES
    buf,        \* the buffers: [op, blk, status, refcnt, pid, data]
    free,       \* the buffers in the free list
    reqq,       \* the request queue, first to last
    cache,      \* the cache, newest to oldest
    availsem, reqsem,
    com,        \* what the communication process does
    asked,      \* the block number in its message, NONE: never assigned
    replies,    \* replies on their way: [fresh, op, data]
    doing,      \* what each process is in the middle of
    prmsg,      \* its message
    server,     \* the blocks of the server
    written,    \* what the last write of each block wrote
    doubted,    \* blocks whose last write an old reply has confirmed
    fault       \* why the system has stopped, or "none"

rdsVars ==
    <<buf, free, reqq, cache, availsem, reqsem, com, asked, replies, doing, prmsg, server,
      written, doubted, fault>>

USER  == [at |-> "user"]
WAITS == [at |-> "wait"]
OK    == 0             \* a message that is no buffer

rdsinit ==
    /\ buf = [i \in Bufs |-> [op |-> "NONE", blk |-> 0, status |-> "INVALID", refcnt |-> 0,
                              pid |-> NONE, data |-> NONE]]
    /\ free = Bufs /\ reqq = <<>> /\ cache = <<>>
    /\ availsem = Sem(RD_BUFFS) /\ reqsem = 0
    /\ com = WAITS /\ asked = NONE /\ replies = {}
    /\ doing = [p \in Procs |-> USER]
    /\ prmsg = [p \in Procs |-> NONE]
    /\ server = [b \in Blocks |-> CHOOSE d \in Data : TRUE]
    /\ written = server /\ doubted = {}
    /\ fault = "none"

-----------------------------------------------------------------------------
(* Calls.                                                                  *)

\* Nobody but the processes in S is between a wait() that did not block and the
\* insertion of its request, or from there on before recvclr(): interrupts are
\* disabled.
Uninterrupted(S) == \A q \in Procs \ S : doing[q].at \notin {"taking", "inserted"}

\* The communication process runs as soon as it can.
Turn(p) ==
    /\ fault = "none"
    /\ com = WAITS => reqsem = 0
    /\ Uninterrupted({p})

Stands(p, at) == Turn(p) /\ doing[p].at = at
does(p, what) == doing' = [doing EXCEPT ![p] = what]

\* A process works on its own blocks.
Uses(p, b) == Shared \/ b % NPROC = p - 1

\* Positions of block b in a list of buffers.
Places(list, b) == {i \in DOMAIN list : buf[list[i]].blk = b}
Lowest(S)  == CHOOSE i \in S : \A j \in S : i <= j
Highest(S) == CHOOSE i \in S : \A j \in S : i >= j

\* Mutant: what a read left in the cache is taken for valid.
cachedAny(b) == IF Places(cache, b) = {} THEN NONE ELSE buf[cache[Lowest(Places(cache, b))]].data

\* rdsread() finds b in the cache: the search ends at the first copy.
cached(b) ==
    IF Places(cache, b) = {} THEN NONE
    ELSE LET e == buf[cache[Lowest(Places(cache, b))]] IN
         IF e.status = "INVALID" THEN NONE ELSE e.data

\* rdsread() finds that the last request for b is a write.
queuedWrite(b) ==
    IF Places(reqq, b) = {} THEN NONE
    ELSE LET e == buf[reqq[Highest(Places(reqq, b))]] IN
         IF e.op = "WRITE" THEN e.data ELSE NONE

\* What rdsread() returns without asking the server, which changes nothing.
localRead(b) == IF cached(b) # NONE THEN cached(b) ELSE queuedWrite(b)

\* rdsbufalloc() up to the buffer, and where that leaves the process.
waitbuf(p) == IF passes(availsem) THEN passed(availsem) ELSE blocked(availsem, p)
atBuffer == IF passes(availsem) THEN "taking" ELSE "alloc"

Alloc == {"taking", "alloc"}

\* rdsread() of a block the server is asked for, and RDS_CTL_SYNC.
rdsread(p, b) ==
    /\ Stands(p, "user") /\ Uses(p, b)
    /\ localRead(b) = NONE
    /\ availsem' = waitbuf(p)
    /\ does(p, [at |-> atBuffer, op |-> "READ", blk |-> b, data |-> NONE])
    /\ UNCHANGED <<buf, free, reqq, cache, reqsem, com, asked, replies, prmsg, server, written,
                   doubted, fault>>

rdscontrolSync(p) ==
    /\ Stands(p, "user")
    /\ availsem' = waitbuf(p)
    /\ does(p, [at |-> atBuffer, op |-> "SYNC", blk |-> 0, data |-> NONE])
    /\ UNCHANGED <<buf, free, reqq, cache, reqsem, com, asked, replies, prmsg, server, written,
                   doubted, fault>>

\* Buffers in the cache that nobody reads.
Unreferenced == {i \in DOMAIN cache : buf[cache[i]].refcnt <= 0}

\* A request in buffer i is put at the end of the queue.
insert(p, i, r) ==
    /\ buf' = [buf EXCEPT ![i] =
                  [op |-> r.op, blk |-> r.blk, data |-> r.data, pid |-> p,
                   status |-> IF r.op = "WRITE" THEN "VALID" ELSE "INVALID",
                   refcnt |-> IF r.op = "WRITE" THEN 0 ELSE 1]]
    /\ reqq' = Append(reqq, i)
    /\ written' = IF r.op = "WRITE" THEN [written EXCEPT ![r.blk] = r.data] ELSE written
    /\ reqsem' = IF r.op = "WRITE" THEN reqsem + 1 ELSE reqsem
    /\ does(p, IF r.op = "WRITE" THEN USER ELSE [r EXCEPT !.at = "inserted"])

\* rdsbufalloc() has its permit: it takes a free buffer, or the oldest one of
\* the cache that nobody reads.
rdsbufalloc(p) ==
    /\ Turn(p) /\ doing[p].at \in Alloc /\ ~waitsOn(p, availsem)
    /\ \/ /\ free # {}
          /\ LET i == Lowest(free) IN free' = free \ {i} /\ insert(p, i, doing[p])
          /\ UNCHANGED <<cache, fault>>
       \/ /\ free = {} /\ Unreferenced # {}
          /\ insert(p, cache[Highest(Unreferenced)], doing[p])
          /\ cache' = RemoveAt(cache, Highest(Unreferenced))
          /\ UNCHANGED <<free, fault>>
       \/ /\ free = {} /\ Unreferenced = {}
          /\ fault' = "bufalloc"
          /\ UNCHANGED <<buf, free, reqq, cache, reqsem, doing, written>>
    /\ UNCHANGED <<availsem, com, asked, replies, prmsg, server, doubted>>

\* recvclr(), and signal() of the request; a sync does not signal: it tries to
\* resume the communication process, which is not suspended.
Await(p) ==
    /\ Stands(p, "inserted")
    /\ prmsg' = [prmsg EXCEPT ![p] = NONE]
    /\ reqsem' = IF doing[p].op = "READ" THEN reqsem + 1 ELSE reqsem
    /\ does(p, [doing[p] EXCEPT !.at = "receive"])
    /\ UNCHANGED <<buf, free, reqq, cache, availsem, com, asked, replies, server, written, doubted,
                   fault>>

\* The message names the buffer.  A newer copy in the cache makes it free.
rdsreadEnd(p) ==
    LET i == prmsg[p]
        c == CHOOSE k \in DOMAIN cache : cache[k] = i
    IN
    /\ Stands(p, "receive") /\ doing[p].op = "READ" /\ i # NONE
    /\ buf' = [buf EXCEPT ![i].refcnt = @ - 1]
    /\ \/ /\ buf[i].refcnt <= 1 /\ \E k \in Places(cache, doing[p].blk) : k < c
          /\ cache' = RemoveAt(cache, c)
          /\ free' = free \cup {i}
       \/ /\ ~(buf[i].refcnt <= 1 /\ \E k \in Places(cache, doing[p].blk) : k < c)
          /\ UNCHANGED <<cache, free>>
    /\ prmsg' = [prmsg EXCEPT ![p] = NONE]
    /\ does(p, USER)
    /\ UNCHANGED <<reqq, availsem, reqsem, com, asked, replies, server, written, doubted, fault>>

syncEnd(p) ==
    /\ Stands(p, "receive") /\ doing[p].op = "SYNC" /\ prmsg[p] # NONE
    /\ prmsg' = [prmsg EXCEPT ![p] = NONE]
    /\ does(p, USER)
    /\ UNCHANGED <<buf, free, reqq, cache, availsem, reqsem, com, asked, replies, server, written,
                   doubted, fault>>

\* Write requests for b in the queue.
Writes(b) == {i \in Places(reqq, b) : buf[reqq[i]].op = "WRITE"}

\* Mutant: the first request for the block is taken to be the write.
replacedFirst(b) == reqq[Lowest(Places(reqq, b))]

\* rdswrite() replaces the data of the first write request for b.
replaced(b) == reqq[Lowest(Writes(b))]

\* The first copy in the cache, if nobody reads it.
Reusable(b) == Places(cache, b) # {} /\ Lowest(Places(cache, b)) \in Unreferenced

\* "semreset(rdptr->rd_availsem, semcount(rdptr->rd_availsem) - 1)", which is
\* refused when the count is not positive.
oneLess(s) == IF s.count - 1 < 0 THEN s ELSE reset(s, s.count - 1)

rdswrite(p, b, d) ==
    LET r == [at |-> atBuffer, op |-> "WRITE", blk |-> b, data |-> d]
        c == Lowest(Places(cache, b))
    IN
    /\ Stands(p, "user") /\ Uses(p, b)
    /\ \/ /\ Writes(b) # {}
          /\ buf' = [buf EXCEPT ![replaced(b)].data = d]
          /\ written' = [written EXCEPT ![b] = d]
          /\ UNCHANGED <<reqq, cache, availsem, reqsem, doing>>
       \/ /\ Writes(b) = {} /\ Reusable(b)
          /\ cache' = RemoveAt(cache, c)
          /\ availsem' = oneLess(availsem)
          /\ insert(p, cache[c], r)
       \/ /\ Writes(b) = {} /\ ~Reusable(b)
          /\ availsem' = waitbuf(p)
          /\ does(p, r)
          /\ UNCHANGED <<buf, reqq, cache, reqsem, written>>
    /\ UNCHANGED <<free, com, asked, replies, prmsg, server, doubted, fault>>

-----------------------------------------------------------------------------
(* The communication process, rdsprocess().                                *)

\* rdscomm() starts an exchange: what is on its way is old from now on.
exchange(e) ==
    /\ com' = [at |-> "try", op |-> e.op, blk |-> e.blk, data |-> e.data, tries |-> 0,
               xmit |-> TRUE]
    /\ \E old \in SUBSET replies : /\ Cardinality(old) <= MaxLate
                                  /\ replies' = {[r EXCEPT !.fresh = FALSE] : r \in old}

\* Mutant: a buffer comes back and nobody is told.
returnedQuietly(s) == s

\* A buffer has left the queue and can be had again.
returned(s) == signaled(s)

\* wait() passes, and the first request is looked at.
comStart ==
    LET i == Head(reqq)
        e == buf[i]
    IN
    /\ fault = "none" /\ com = WAITS /\ reqsem > 0
    /\ reqsem' = reqsem - 1
    /\ \/ /\ e.op = "READ"
          /\ exchange(e)
          /\ UNCHANGED <<buf, free, reqq, cache, availsem, asked, prmsg>>
       \/ /\ e.op = "WRITE"
          /\ reqq' = Tail(reqq)
          /\ cache' = <<i>> \o cache
          /\ buf' = [buf EXCEPT ![i].refcnt = 0]
          /\ availsem' = returned(availsem)
          /\ asked' = e.blk
          /\ exchange(e)
          /\ UNCHANGED <<free, prmsg>>
       \/ /\ e.op = "SYNC"
          /\ prmsg' = [prmsg EXCEPT ![e.pid] = IF @ = NONE THEN OK ELSE @]
          /\ reqq' = Tail(reqq)
          /\ free' = free \cup {i}
          /\ availsem' = returned(availsem)
          /\ UNCHANGED <<buf, cache, com, asked, replies>>
    /\ UNCHANGED <<doing, server, written, doubted, fault>>

\* What the server answers: a read is of the block that is left in the
\* message from the last write.
answers ==
    IF com.op = "WRITE" THEN {[fresh |-> TRUE, op |-> "WRITE", data |-> NONE]}
    ELSE {[fresh |-> TRUE, op |-> "READ", data |-> server[b]] :
             b \in IF asked = NONE THEN Blocks ELSE {asked}}

\* Mutant: tries are not counted.
triedAgain(n) == n

tried(n) == n + 1

\* rdscomm() sends the request, unless an old reply has just come; it may get
\* lost, and so may the reply.
comSend ==
    /\ fault = "none" /\ com.at = "try" /\ com.tries < RD_RETRIES
    /\ \/ UNCHANGED <<server, replies>>
       \/ /\ com.xmit
          /\ server' = IF com.op = "WRITE" THEN [server EXCEPT ![com.blk] = com.data] ELSE server
          /\ \E r \in answers : replies' = replies \cup {r}
    /\ com' = [com EXCEPT !.at = "recv", !.xmit = TRUE, !.tries = tried(@)]
    /\ UNCHANGED <<buf, free, reqq, cache, availsem, reqsem, asked, doing, prmsg, written, doubted,
                   fault>>

\* udp_recv() has timed out.
comTimeout ==
    /\ fault = "none" /\ com.at = "recv"
    /\ com' = [com EXCEPT !.at = "try"]
    /\ UNCHANGED <<buf, free, reqq, cache, availsem, reqsem, asked, replies, doing, prmsg, server,
                   written, doubted, fault>>

\* The retries are used up, or the server reports an error: panic().
comFail ==
    /\ fault = "none"
    /\ com.at = "recv" \/ (com.at = "try" /\ com.tries = RD_RETRIES)
    /\ fault' = "server"
    /\ UNCHANGED <<buf, free, reqq, cache, availsem, reqsem, com, asked, replies, doing, prmsg,
                   server, written, doubted>>

\* The data has come: the buffer goes to the cache and the reader is told.
\* Another request for the block is taken out with the links of this one,
\* which leaves no usable queue.
readDone(d) ==
    LET i == Head(reqq) IN
    /\ buf' = [buf EXCEPT ![i].data = d, ![i].refcnt = 1]
    /\ reqq' = Tail(reqq)
    /\ cache' = <<i>> \o cache
    /\ availsem' = returned(availsem)
    /\ prmsg' = [prmsg EXCEPT ![buf[i].pid] = IF @ = NONE THEN i ELSE @]
    /\ fault' = IF Cardinality(Places(reqq, buf[i].blk)) > 1 THEN "links" ELSE fault
    /\ UNCHANGED doubted

writeDone(fresh) ==
    /\ doubted' = IF fresh THEN doubted \ {com.blk} ELSE doubted \cup {com.blk}
    /\ UNCHANGED <<buf, reqq, cache, availsem, prmsg, fault>>

\* An old reply is told from a fresh one, and accepted all the same if its
\* type is right.
fits(r) == r.op = com.op

\* udp_recv() returns reply r, of which another copy may be on its way.
comRecv(r) ==
    /\ fault = "none" /\ com.at = "recv"
    /\ replies' \in {replies, replies \ {r}}
    /\ \/ /\ fits(r)
          /\ com' = WAITS
          /\ (com.op = "READ" /\ readDone(r.data)) \/ (com.op = "WRITE" /\ writeDone(r.fresh))
       \/ /\ ~fits(r)
          /\ com' = [com EXCEPT !.at = "try", !.xmit = r.fresh]
          /\ UNCHANGED <<buf, reqq, cache, availsem, prmsg, doubted, fault>>
    /\ UNCHANGED <<free, reqsem, asked, doing, server, written>>

-----------------------------------------------------------------------------
Going(p) == rdsbufalloc(p) \/ Await(p) \/ rdsreadEnd(p) \/ syncEnd(p)

Calling(p) ==
    \/ \E b \in Blocks : rdsread(p, b) \/ \E d \in Data : rdswrite(p, b, d)
    \/ rdscontrolSync(p)

Communicating ==
    /\ Uninterrupted({})
    /\ comStart \/ comSend \/ comTimeout \/ comFail \/ \E r \in replies : comRecv(r)

Next == Communicating \/ \E p \in Procs : Calling(p) \/ Going(p)

\* The communication process goes on.  While it waits for replies the others,
\* of equal priority, take turns, so that each process in a call that can go on
\* gets the CPU between two of its requests.  Nobody has to make a call.
LiveSpec ==
    /\ rdsinit /\ [][Next]_rdsVars
    /\ WF_rdsVars(Communicating)
    /\ \A p \in Procs : SF_rdsVars(Going(p))

\* For TLC: which buffer is where, who asked for a block of the cache and what
\* a read has brought is not looked at, and neither is anything after a fault.
\* Of data only matters whether it is what was written last (two values).
current(r) == [r EXCEPT !.data = IF @ = NONE THEN NONE ELSE @ = written[r.blk]]
cacheView(e) ==
    [blk |-> e.blk, refcnt |-> e.refcnt, status |-> e.status,
     data |-> IF e.status = "VALID" THEN e.data = written[e.blk] ELSE NONE]
msgView(m) == IF m \notin Bufs THEN m ELSE SelectInSeq(cache, LAMBDA i : i = m)
StateView ==
    IF fault # "none" THEN <<fault>>
    ELSE <<[k \in DOMAIN reqq |-> current(buf[reqq[k]])],
           [k \in DOMAIN cache |-> cacheView(buf[cache[k]])],
           [p \in Procs |-> IF doing[p] = USER THEN USER ELSE current(doing[p])],
           [p \in Procs |-> msgView(prmsg[p])],
           availsem, reqsem, IF com = WAITS THEN WAITS ELSE current(com),
           {<<r.fresh, r.op>> : r \in replies}, {b \in Blocks : server[b] = written[b]}, doubted>>

-----------------------------------------------------------------------------
(* Properties.                                                             *)

LetGo == {p \in Procs : doing[p].at \in Alloc /\ ~waitsOn(p, availsem)}

\* No buffer is lost until a fault stops the system: for each one that is free
\* or in the cache there is a permit, or a process that has been let go for it,
\* whatever paths the buffers took between the lists.  There may be more permits
\* than buffers (rdswrite.c:57).
NoBufferLost ==
    fault = "none" => available(availsem) + Cardinality(LetGo) >= Cardinality(free) + Len(cache)

\* Until a fault stops the system every buffer is in exactly one of the free list,
\* the queue and the cache, and what a process has been told to read is still in
\* the cache.  The faults are the panics and the links of rdsprocess.c:117.
BuffersInOneList ==
    fault = "none" =>
       /\ Cardinality(free) + Len(reqq) + Len(cache) = RD_BUFFS
       /\ free \cup ToSet(reqq) \cup ToSet(cache) = Bufs
       /\ \A p \in Procs : doing[p].at = "receive" /\ doing[p].op = "READ" /\ prmsg[p] # NONE
                          => prmsg[p] \in ToSet(cache)

\* While processes and the communication process move the buffers of the disk
\* between the lists none is lost or in two lists, but for those two faults.
BuffersAccounted == NoBufferLost /\ BuffersInOneList

\* What rdsread() takes from the cache or from a queued write is what was
\* written last, although a block may be in several buffers.  Not so for block
\* 0, which a sync claims: it hides a queued write from rdsread().
LocalReadCurrent ==
    fault = "none" => \A b \in Blocks \ {0} : localRead(b) \in {NONE, written[b]}

\* When no write of a block is under way the server has what was written
\* last, however often requests and replies were lost or repeated.  Excepted are
\* blocks for which an old reply was ever taken for the answer to a write
\* (doubted, rdscomm.c:88): their write may be lost.
WritesReachServer ==
    fault = "none" =>
       \A b \in Blocks \ doubted :
          Writes(b) = {} /\ ~(com # WAITS /\ com.op = "WRITE" /\ com.blk = b)
             => server[b] = written[b]

\* More requests than signals: a sync has been queued.
Behind ==
    Len(reqq) > reqsem + (IF com # WAITS /\ com.op = "READ" THEN 1 ELSE 0)
                + Cardinality({p \in Procs : doing[p].at = "inserted"})

\* A reader comes back, a fault stops the system, or a sync, which is not
\* signaled (rdscontrol.c:65), has put the queue behind: the reader may then wait
\* until somebody else makes a request.
ReadReturns ==
    \A p \in Procs :
       doing[p].at = "receive" /\ doing[p].op = "READ"
          ~> doing[p].at = "user" \/ fault # "none" \/ Behind
=============================================================================
