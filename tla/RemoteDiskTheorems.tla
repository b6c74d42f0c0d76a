------------------------- MODULE RemoteDiskTheorems --------------------------
(***************************************************************************)
(* Proofs about the remote disk: buffers and permits stay accounted for,   *)
(* and, where no two processes use a block, local reads are current and    *)
(* writes reach the server.                                                *)
(***************************************************************************)
EXTENDS RemoteDisk, SharedLemmas

-----------------------------------------------------------------------------
(* The invariants.                                                         *)

Buffer ==
    [op : {"NONE", "READ", "WRITE", "SYNC"}, blk : Blocks, status : {"VALID", "INVALID"},
     refcnt : Int, pid : Procs \cup {NONE}, data : Data \cup {NONE}]

Call ==
    [at : Alloc, op : {"WRITE"}, blk : Blocks, data : Data]
    \cup [at : Alloc \cup {"inserted", "receive"}, op : {"READ", "SYNC"}, blk : Blocks, data : {NONE}]

Exchange ==
    [at : {"try", "recv"}, op : {"READ", "WRITE"}, blk : Blocks, data : Data \cup {NONE},
     tries : Int, xmit : BOOLEAN]

TablesTyped ==
    /\ buf \in [Bufs -> Buffer]
    /\ \A i \in Bufs : /\ buf[i].status = "VALID" <=> buf[i].op = "WRITE"
                       /\ buf[i].op = "WRITE" => buf[i].data \in Data
    /\ free \subseteq Bufs
    /\ reqq \in Seq(Bufs) /\ NoRepeat(reqq)
    /\ cache \in Seq(Bufs) /\ NoRepeat(cache)

CallsTyped ==
    /\ doing \in [Procs -> {USER} \cup Call]
    /\ prmsg \in [Procs -> Bufs \cup {NONE, OK}]

ComTyped ==
    /\ com \in {WAITS} \cup Exchange
    /\ com # WAITS /\ com.op = "WRITE" => com.data \in Data
    /\ reqsem \in Nat
    /\ asked \in Blocks \cup {NONE}
    /\ replies \subseteq [fresh : BOOLEAN, op : {"READ", "WRITE"}, data : Data \cup {NONE}]
    /\ server \in [Blocks -> Data] /\ written \in [Blocks -> Data]

\* A buffer is in one list.
OneList ==
    /\ \A i \in Bufs : /\ i \in free \/ Contains(reqq, i) \/ Contains(cache, i)
                       /\ ~(Contains(reqq, i) /\ Contains(cache, i))
                       /\ i \in free => ~Contains(reqq, i) /\ ~Contains(cache, i)
    /\ Cardinality(free) + Len(reqq) + Len(cache) = RD_BUFFS

\* Processes that have called rdsbufalloc().
Allocating == {p \in Procs : doing[p].at \in Alloc}

PermitsThere ==
    /\ SemOf(availsem, Procs, Allocating) /\ availsem.used
    /\ permits(availsem, Allocating) >= Cardinality(free) + Len(cache)

\* A request that somebody waits for.
Asks(i) == Contains(reqq, i) /\ buf[i].op # "WRITE"

\* Process q waits for the answer to the request in buffer i: it is in the call
\* the request was made for and has no message yet.
AskerWaits(i, q) ==
    /\ q \in Procs /\ doing[q].at \in {"inserted", "receive"}
    /\ doing[q].op = buf[i].op /\ doing[q].blk = buf[i].blk
    /\ doing[q].at = "receive" => prmsg[q] = NONE

\* Who asked waits, and has no other request.
RequestsAwaited ==
    \A i \in Bufs : Asks(i) =>
       /\ AskerWaits(i, buf[i].pid)
       /\ \A j \in Bufs : Asks(j) /\ buf[j].pid = buf[i].pid => j = i

\* A reader has been told where its block is.
Told(p) == doing[p].at = "receive" /\ doing[p].op = "READ" /\ prmsg[p] # NONE

\* The block stays in the cache for it.
KeptFor(p, i) == i \in Bufs /\ Contains(cache, i) /\ buf[i].refcnt >= 1 /\ buf[i].pid = p

ToldSafe == \A p \in Procs : Told(p) => KeptFor(p, prmsg[p])

\* The communication process is busy with the first request.
Reads == com # WAITS /\ com.op = "READ"
HeadRead == Reads => reqq # <<>> /\ buf[Head(reqq)].op = "READ" /\ buf[Head(reqq)].blk = com.blk

\* Readers that have not signaled their request.
Unsignaled == {p \in Procs : doing[p].at = "inserted" /\ doing[p].op = "READ"}

\* There are no more signals than requests.
SignalsCovered == reqsem + (IF Reads THEN 1 ELSE 0) + Cardinality(Unsignaled) <= Len(reqq)

DiskSound ==
    /\ TablesTyped /\ CallsTyped /\ ComTyped
    /\ OneList /\ PermitsThere
    /\ RequestsAwaited /\ ToldSafe /\ HeadRead /\ SignalsCovered

DiskInv == fault = "none" => DiskSound

\* A process is in a call for block b.
Busy(p, b) == doing[p].at # "user" /\ doing[p].op # "SYNC" /\ doing[p].blk = b

\* A process works on its own blocks in a call; a sync claims block 0.
OwnBlocks ==
    \A p \in Procs : doing[p].at # "user" =>
       IF doing[p].op = "SYNC" THEN doing[p].blk = 0 ELSE Uses(p, doing[p].blk)

\* Buffer i holds a write of block b, in the queue or the cache.
Holds(i, b) == buf[i].op = "WRITE" /\ buf[i].blk = b
Listed(i) == Contains(reqq, i) \/ Contains(cache, i)
Copy(i, b) == Listed(i) /\ Holds(i, b)

\* i comes before j in a list.
InFront(list, i, j) == \E m, n \in 1 .. Len(list) : m < n /\ list[m] = i /\ list[n] = j

\* Block b has one written copy, with what was written last; in the cache it is
\* the newest buffer of the block, and nobody reads it.  There is none while
\* somebody is in a call for the block.
CopyCurrent(b) ==
    /\ \A i, j \in Bufs : Copy(i, b) /\ Copy(j, b) => i = j
    /\ \A i \in Bufs : Copy(i, b) => buf[i].data = written[b]
    /\ \A i \in Bufs : Contains(cache, i) /\ Holds(i, b) =>
          buf[i].refcnt <= 0 /\ \A j \in Bufs : InFront(cache, j, i) => buf[j].blk # b
    /\ \A p \in Procs : Busy(p, b) => \A i \in Bufs : ~Copy(i, b)

CurrentSound == OwnBlocks /\ \A b \in Blocks \ {0} : CopyCurrent(b)

CurrentInv == fault = "none" => DiskSound /\ CurrentSound

\* Buffer i is a queued write of block b; b is being sent.
Queued(i, b) == Contains(reqq, i) /\ Holds(i, b)
NoWrite(b) == \A i \in Bufs : ~Queued(i, b)
Sends(b) == com # WAITS /\ com.op = "WRITE" /\ com.blk = b

\* Process p is about to queue a write of block b.
WillWrite(p, b) == doing[p].at \in Alloc /\ doing[p].op = "WRITE" /\ doing[p].blk = b

\* One write of block b is queued, with what was written last; what is being
\* sent is current unless another one is queued; a fresh answer means that the
\* server has it.
WriteCurrent(b) ==
    /\ \A i, j \in Bufs : Queued(i, b) /\ Queued(j, b) => i = j
    /\ \A i \in Bufs : Queued(i, b) => buf[i].data = written[b]
    /\ \A p \in Procs : WillWrite(p, b) => NoWrite(b)
    /\ Sends(b) /\ NoWrite(b) => com.data = written[b]
    /\ Sends(b) /\ (\E r \in replies : r.fresh) => server[b] = com.data
    /\ b \notin doubted /\ NoWrite(b) /\ ~Sends(b) => server[b] = written[b]

ServerSound == OwnBlocks /\ \A b \in Blocks : WriteCurrent(b)

ServerInv == fault = "none" => DiskSound /\ ServerSound

-----------------------------------------------------------------------------
(* Facts about the state.                                                  *)

\* A call with or without its permit is treated alike.
USE DEF Alloc

\* Processes, blocks and buffers are finitely many numbers.
LEMMA DiskSets ==
    /\ IsFiniteSet(Procs) /\ IsFiniteSet(Bufs) /\ Cardinality(Bufs) = RD_BUFFS
    /\ 0 \in Blocks /\ RD_BUFFS \in Nat /\ NONE \notin Data
<1>1. NPROC \in Nat \ {0} /\ RD_BUFFS \in Nat \ {0} /\ NBLOCKS \in Nat \ {0} /\ NONE \notin Data
  BY RemoteDiskAssumption
<1>2. IsFiniteSet(1 .. NPROC) /\ IsFiniteSet(1 .. RD_BUFFS) /\ Cardinality(1 .. RD_BUFFS) = RD_BUFFS
  BY <1>1, FS_Interval
<1> QED BY <1>1, <1>2 DEF Procs, Bufs, Blocks

\* What a process may be in the middle of.
LEMMA CallFacts ==
    ASSUME CallsTyped, NEW p \in Procs
    PROVE  /\ doing[p].at = "user" \/ doing[p] \in Call
           /\ doing[p].at = "user" <=> doing[p] = USER
           /\ doing[p].at \in Alloc \cup {"user", "inserted", "receive"}
<1>1. doing[p] = USER \/ doing[p] \in Call
  BY DEF CallsTyped
<1>2. USER.at = "user"
  BY DEF USER
<1>3. ASSUME doing[p] \in Call PROVE doing[p].at \in Alloc \cup {"inserted", "receive"}
  BY <1>3 DEF Call
<1> QED BY <1>1, <1>2, <1>3

\* A call.
LEMMA CallFields ==
    ASSUME NEW r \in Call
    PROVE  /\ r.at \in Alloc \cup {"inserted", "receive"} /\ r.op \in {"READ", "WRITE", "SYNC"}
           /\ r.blk \in Blocks /\ r.data \in Data \cup {NONE}
           /\ r.op = "WRITE" => r.at \in Alloc /\ r.data \in Data
           /\ r.op # "WRITE" => r.data = NONE
           /\ r.op # "WRITE" => \A place \in Alloc \cup {"inserted", "receive"} :
                 [r EXCEPT !.at = place] \in Call
BY DEF Call

\* Buffers.
LEMMA BufFields ==
    ASSUME TablesTyped, NEW i \in Bufs
    PROVE  /\ buf[i] \in Buffer /\ buf[i].op \in {"NONE", "READ", "WRITE", "SYNC"}
           /\ buf[i].blk \in Blocks /\ buf[i].refcnt \in Int /\ buf[i].pid \in Procs \cup {NONE}
           /\ buf[i].data \in Data \cup {NONE}
           /\ buf[i].op = "WRITE" => buf[i].data \in Data
BY DEF TablesTyped, Buffer

\* A step that makes no request and leaves the askers of the others alone.
LEMMA RequestsKept ==
    ASSUME RequestsAwaited,
           \A i \in Bufs : Asks(i)' =>
              /\ Asks(i) /\ buf'[i].pid = buf[i].pid /\ buf'[i].op = buf[i].op
              /\ buf'[i].blk = buf[i].blk /\ doing'[buf[i].pid] = doing[buf[i].pid]
              /\ doing[buf[i].pid].at = "receive" => prmsg'[buf[i].pid] = prmsg[buf[i].pid]
    PROVE  RequestsAwaited'
<1> SUFFICES ASSUME NEW i \in Bufs, Asks(i)'
             PROVE  /\ AskerWaits(i, buf[i].pid)'
                    /\ \A j \in Bufs : Asks(j)' /\ buf'[j].pid = buf'[i].pid => j = i
  BY DEF RequestsAwaited
<1>1. /\ Asks(i) /\ buf'[i].pid = buf[i].pid /\ buf'[i].op = buf[i].op
      /\ buf'[i].blk = buf[i].blk /\ doing'[buf[i].pid] = doing[buf[i].pid]
      /\ doing[buf[i].pid].at = "receive" => prmsg'[buf[i].pid] = prmsg[buf[i].pid]
  OBVIOUS
<1>2. /\ AskerWaits(i, buf[i].pid)
      /\ \A j \in Bufs : Asks(j) /\ buf[j].pid = buf[i].pid => j = i
  BY <1>1 DEF RequestsAwaited
<1>3. AskerWaits(i, buf[i].pid)'
  BY <1>1, <1>2 DEF AskerWaits
<1>4. ASSUME NEW j \in Bufs, Asks(j)', buf'[j].pid = buf'[i].pid PROVE j = i
  BY <1>1, <1>2, <1>4
<1> QED BY <1>3, <1>4

\* A step that tells nobody and leaves alone what others have been told.
LEMMA ToldKept ==
    ASSUME ToldSafe,
           \A p \in Procs : Told(p)' =>
              /\ Told(p) /\ prmsg'[p] = prmsg[p]
              /\ KeptFor(p, prmsg[p]) => KeptFor(p, prmsg[p])'
    PROVE  ToldSafe'
<1> SUFFICES ASSUME NEW p \in Procs, Told(p)' PROVE KeptFor(p, prmsg[p])'
  BY DEF ToldSafe
<1>1. Told(p) /\ prmsg'[p] = prmsg[p] /\ (KeptFor(p, prmsg[p]) => KeptFor(p, prmsg[p])')
  OBVIOUS
<1> QED BY <1>1 DEF ToldSafe

-----------------------------------------------------------------------------
(* The calls of processes.                                                 *)

\* What most steps leave of the types.
SameBuffers == buf' = buf /\ free' = free /\ reqq' = reqq /\ cache' = cache
SameCom ==
    /\ reqsem' = reqsem /\ com' = com /\ asked' = asked /\ replies' = replies
    /\ server' = server

\* The numbers that are compared are numbers.
LEMMA Numbers ==
    ASSUME DiskSound
    PROVE  /\ Cardinality(free) \in Nat /\ IsFiniteSet(free) /\ Len(reqq) \in Nat /\ Len(cache) \in Nat
           /\ IsFiniteSet(Unsignaled) /\ Cardinality(Unsignaled) \in Nat
           /\ permits(availsem, Allocating) \in Nat /\ reqsem \in Nat
<1>1. free \subseteq Bufs /\ Len(reqq) \in Nat /\ Len(cache) \in Nat /\ reqsem \in Nat
  BY DEF DiskSound, TablesTyped, ComTyped
<1>2. IsFiniteSet(free) /\ Cardinality(free) \in Nat
  BY <1>1, DiskSets, FS_Subset, FS_CardinalityType
<1>3. Unsignaled \subseteq Procs
  BY DEF Unsignaled
<1>4. IsFiniteSet(Unsignaled) /\ Cardinality(Unsignaled) \in Nat
  BY <1>3, DiskSets, FS_Subset, FS_CardinalityType
<1>5. permits(availsem, Allocating) \in Nat
  BY DiskSets, PermitsNat DEF DiskSound, PermitsThere
<1> QED BY <1>1, <1>2, <1>4, <1>5

\* A call begins with rdsbufalloc().
LEMMA CallStarts ==
    ASSUME DiskSound, NEW p \in Procs, doing[p].at = "user",
           NEW r \in Call, r.at \in Alloc, does(p, r), availsem' = waitbuf(p),
           SameBuffers, SameCom, written' = written, prmsg' = prmsg
    PROVE  DiskSound'
<1>1. /\ doing \in [Procs -> {USER} \cup Call] /\ doing' \in [Procs -> {USER} \cup Call]
      /\ doing'[p] = r /\ \A q \in Procs \ {p} : doing'[q] = doing[q]
  BY DEF DiskSound, CallsTyped, does
<1>2. TablesTyped' /\ CallsTyped' /\ ComTyped'
  BY <1>1 DEF DiskSound, TablesTyped, CallsTyped, ComTyped, SameBuffers, SameCom
<1>3. OneList'
  BY DEF DiskSound, OneList, SameBuffers
<1>4. Allocating' = Allocating \cup {p} /\ p \in Procs \ Allocating
  BY <1>1 DEF Allocating
<1>5. PermitsThere'
  <2>1. SemOf(availsem, Procs, Allocating) /\ availsem.used
    BY DEF DiskSound, PermitsThere
  <2>2. availsem' = IF passes(availsem) THEN passed(availsem) ELSE blocked(availsem, p)
    BY DEF waitbuf
  <2>3. /\ SemOf(availsem', Procs, Allocating \cup {p}) /\ availsem'.used
        /\ permits(availsem', Allocating \cup {p}) = permits(availsem, Allocating)
    <3>1. IsFiniteSet(Procs) /\ p \in Procs \ Allocating
      BY <1>4, DiskSets
    <3> QED BY <2>1, <2>2, <3>1, PermitsWait
  <2> QED BY <1>4, <2>3 DEF DiskSound, PermitsThere, SameBuffers
<1>6. RequestsAwaited'
  <2>1. ASSUME NEW i \in Bufs, Asks(i)'
        PROVE  Asks(i) /\ buf'[i] = buf[i] /\ doing'[buf[i].pid] = doing[buf[i].pid]
    <3>1. Asks(i) /\ buf'[i] = buf[i]
      BY <2>1 DEF Asks, SameBuffers
    <3>2. AskerWaits(i, buf[i].pid)
      BY <3>1 DEF DiskSound, RequestsAwaited
    <3> QED BY <1>1, <3>1, <3>2 DEF AskerWaits
  <2> QED BY <2>1, RequestsKept DEF DiskSound
<1>7. ToldSafe'
  <2>1. ASSUME NEW q \in Procs, Told(q)' PROVE Told(q) /\ doing'[q] = doing[q]
    BY <1>1, <2>1 DEF Told
  <2>2. \A q \in Procs : KeptFor(q, prmsg[q])' <=> KeptFor(q, prmsg[q])
    BY DEF KeptFor, SameBuffers
  <2> QED BY <2>1, <2>2, ToldKept DEF DiskSound
<1>8. HeadRead' /\ SignalsCovered'
  <2>1. Reads' = Reads /\ HeadRead'
    BY DEF DiskSound, HeadRead, Reads, SameBuffers, SameCom
  <2>2. Unsignaled' = Unsignaled
    BY <1>1 DEF Unsignaled
  <2> QED BY <2>1, <2>2 DEF DiskSound, SignalsCovered, SameBuffers, SameCom
<1> QED BY <1>2, <1>3, <1>5, <1>6, <1>7, <1>8 DEF DiskSound

\* rdsread() of a block it does not have here.
LEMMA RdsreadSound ==
    ASSUME DiskSound, NEW p \in Procs, NEW b \in Blocks, rdsread(p, b)
    PROVE  DiskSound'
<1> DEFINE r == [at |-> atBuffer, op |-> "READ", blk |-> b, data |-> NONE]
<1>1. r \in Call /\ r.at \in Alloc
  BY DEF Call, atBuffer
<1>2. /\ doing[p].at = "user" /\ does(p, r) /\ availsem' = waitbuf(p)
      /\ SameBuffers /\ SameCom /\ written' = written /\ prmsg' = prmsg
  BY DEF rdsread, Stands, SameBuffers, SameCom
<1> HIDE DEF r
<1> QED BY <1>1, <1>2, CallStarts

\* RDS_CTL_SYNC.
LEMMA SyncSound ==
    ASSUME DiskSound, NEW p \in Procs, rdscontrolSync(p)
    PROVE  DiskSound'
<1> DEFINE r == [at |-> atBuffer, op |-> "SYNC", blk |-> 0, data |-> NONE]
<1>1. r \in Call /\ r.at \in Alloc
  BY DiskSets DEF Call, atBuffer
<1>2. /\ doing[p].at = "user" /\ does(p, r) /\ availsem' = waitbuf(p)
      /\ SameBuffers /\ SameCom /\ written' = written /\ prmsg' = prmsg
  BY DEF rdscontrolSync, Stands, SameBuffers, SameCom
<1> HIDE DEF r
<1> QED BY <1>1, <1>2, CallStarts

\* Buffer i is taken out of the free list or the cache.
TakenOut(i) ==
    /\ i \in free \/ (Contains(cache, i) /\ buf[i].refcnt <= 0)
    /\ free' \subseteq Bufs /\ cache' \in Seq(Bufs) /\ NoRepeat(cache')
    /\ \A j \in Bufs : /\ j \in free' <=> j \in free /\ j # i
                       /\ Contains(cache', j) <=> Contains(cache, j) /\ j # i
    /\ \A j, k : InFront(cache', j, k) => InFront(cache, j, k)
    /\ Cardinality(free') + Len(cache') + 1 = Cardinality(free) + Len(cache)

\* A buffer becomes the last request.
LEMMA InsertSound ==
    ASSUME DiskSound, NEW p \in Procs, doing[p].at \in Alloc \cup {"user"},
           NEW r \in Call, r.at \in Alloc, NEW i \in Bufs, insert(p, i, r), TakenOut(i),
           com' = com, asked' = asked, replies' = replies, server' = server, prmsg' = prmsg,
           PermitsThere'
    PROVE  DiskSound'
<1> DEFINE e == [op |-> r.op, blk |-> r.blk, data |-> r.data, pid |-> p,
                 status |-> IF r.op = "WRITE" THEN "VALID" ELSE "INVALID",
                 refcnt |-> IF r.op = "WRITE" THEN 0 ELSE 1]
           u == IF r.op = "WRITE" THEN USER ELSE [r EXCEPT !.at = "inserted"]
<1>r. /\ r.op \in {"READ", "WRITE", "SYNC"} /\ r.blk \in Blocks /\ r.data \in Data \cup {NONE}
      /\ r.op = "WRITE" => r.data \in Data
      /\ r.op # "WRITE" => [r EXCEPT !.at = "inserted"] \in Call
  BY CallFields
<1>t. TablesTyped /\ CallsTyped /\ ComTyped /\ OneList
  BY DEF DiskSound
<1>i. ~Contains(reqq, i)
  BY <1>t DEF OneList, TakenOut
<1>e. /\ e \in Buffer /\ e.op = r.op /\ e.blk = r.blk /\ e.pid = p
      /\ e.status = "VALID" <=> e.op = "WRITE"
      /\ e.op = "WRITE" => e.data \in Data
  BY <1>r DEF Buffer
<1>u. /\ u \in {USER} \cup Call
      /\ r.op = "WRITE" => u.at = "user"
      /\ r.op # "WRITE" => u.at = "inserted" /\ u.op = r.op /\ u.blk = r.blk
  BY <1>r, CallFields DEF USER, Call
<1>1. buf' = [buf EXCEPT ![i] = e] /\ does(p, u) /\ reqq' = Append(reqq, i)
  BY DEF insert
<1>2. /\ written' = IF r.op = "WRITE" THEN [written EXCEPT ![r.blk] = r.data] ELSE written
      /\ reqsem' = IF r.op = "WRITE" THEN reqsem + 1 ELSE reqsem
  BY DEF insert
<1> HIDE DEF e, u
<1>3. buf' \in [Bufs -> Buffer] /\ buf'[i] = e /\ \A j \in Bufs \ {i} : buf'[j] = buf[j]
  BY <1>1, <1>e, <1>t DEF TablesTyped
<1>4. doing' \in [Procs -> {USER} \cup Call] /\ doing'[p] = u /\ \A q \in Procs \ {p} : doing'[q] = doing[q]
  BY <1>1, <1>u, <1>t DEF does, CallsTyped
<1>5. /\ reqq' \in Seq(Bufs) /\ Len(reqq') = Len(reqq) + 1 /\ NoRepeat(reqq')
      /\ \A j : Contains(reqq', j) <=> Contains(reqq, j) \/ j = i
  BY <1>1, <1>i, <1>t, AppendList DEF TablesTyped
<1>6. TablesTyped'
  <2>1. ASSUME NEW j \in Bufs
        PROVE  /\ buf'[j].status = "VALID" <=> buf'[j].op = "WRITE"
               /\ buf'[j].op = "WRITE" => buf'[j].data \in Data
    <3>1. CASE j = i
      BY <1>3, <1>e, <3>1
    <3>2. CASE j # i
      BY <1>3, <1>t, <3>2 DEF TablesTyped
    <3> QED BY <3>1, <3>2
  <2> QED BY <1>3, <1>5, <2>1 DEF TablesTyped, TakenOut
<1>7. CallsTyped'
  BY <1>4, <1>t DEF CallsTyped
<1>8. ComTyped'
  <2>1. written' \in [Blocks -> Data] /\ reqsem' \in Nat
    BY <1>2, <1>r, <1>t DEF ComTyped
  <2> QED BY <2>1, <1>t DEF ComTyped
<1>9. OneList'
  <2>1. Cardinality(free') + Len(reqq') + Len(cache') = RD_BUFFS
    <3>1. Cardinality(free') \in Nat /\ Len(cache') \in Nat
      BY DiskSets, FS_Subset, FS_CardinalityType DEF TakenOut
    <3>2. Cardinality(free) + Len(reqq) + Len(cache) = RD_BUFFS
      BY <1>t DEF OneList
    <3>3. Cardinality(free') + Len(cache') + 1 = Cardinality(free) + Len(cache)
      BY DEF TakenOut
    <3>4. Len(reqq') = Len(reqq) + 1
      BY <1>5
    <3>5. Cardinality(free) \in Nat /\ Len(reqq) \in Nat /\ Len(cache) \in Nat
      BY Numbers
    <3>6. RD_BUFFS \in Nat
      BY DiskSets
    <3> DEFINE f == Cardinality(free')
               c == Len(cache')
               q == Len(reqq')
    <3> HIDE DEF f, c, q
    <3>7. f \in Nat /\ c \in Nat /\ f + c + 1 = Cardinality(free) + Len(cache) /\ q = Len(reqq) + 1
      BY <3>1, <3>3, <3>4 DEF f, c, q
    <3>8. f + q + c = RD_BUFFS
      BY <3>2, <3>5, <3>6, <3>7
    <3> QED BY <3>8 DEF f, c, q
  <2>2. ASSUME NEW j \in Bufs
        PROVE  /\ j \in free' \/ Contains(reqq', j) \/ Contains(cache', j)
               /\ ~(Contains(reqq', j) /\ Contains(cache', j))
               /\ j \in free' => ~Contains(reqq', j) /\ ~Contains(cache', j)
    BY <1>5, <1>t DEF OneList, TakenOut
  <2> QED BY <2>1, <2>2 DEF OneList
<1>10. RequestsAwaited'
  <2>1. ASSUME NEW j \in Bufs, Asks(j)', j # i
        PROVE  /\ Asks(j) /\ buf'[j] = buf[j] /\ doing'[buf[j].pid] = doing[buf[j].pid]
               /\ buf[j].pid # p /\ AskerWaits(j, buf[j].pid)
    <3>1. Asks(j) /\ buf'[j] = buf[j]
      BY <1>3, <1>5, <2>1 DEF Asks
    <3>2. AskerWaits(j, buf[j].pid)
      BY <3>1 DEF DiskSound, RequestsAwaited
    <3> QED BY <1>4, <3>1, <3>2 DEF AskerWaits
  <2>2. ASSUME Asks(i)' PROVE buf'[i].pid = p /\ AskerWaits(i, p)'
    <3>1. r.op # "WRITE"
      BY <1>3, <1>e, <2>2 DEF Asks
    <3> QED BY <1>3, <1>4, <1>e, <1>u, <3>1 DEF AskerWaits
  <2> SUFFICES ASSUME NEW j \in Bufs, Asks(j)'
               PROVE  /\ AskerWaits(j, buf[j].pid)'
                      /\ \A k \in Bufs : Asks(k)' /\ buf'[k].pid = buf'[j].pid => k = j
    BY DEF RequestsAwaited
  <2>3. CASE j = i
    BY <2>1, <2>2, <2>3
  <2>4. CASE j # i
    <3>1. /\ Asks(j) /\ buf'[j] = buf[j] /\ doing'[buf[j].pid] = doing[buf[j].pid]
          /\ buf[j].pid # p /\ AskerWaits(j, buf[j].pid)
      BY <2>1, <2>4
    <3>2. AskerWaits(j, buf[j].pid)'
      BY <3>1 DEF AskerWaits
    <3>3. ASSUME NEW k \in Bufs, Asks(k)', buf'[k].pid = buf'[j].pid PROVE k = j
      <4>1. k # i
        BY <2>2, <3>1, <3>3
      <4> QED BY <2>1, <3>1, <3>3, <4>1 DEF DiskSound, RequestsAwaited
    <3> QED BY <3>2, <3>3
  <2> QED BY <2>3, <2>4
<1>11. ToldSafe'
  <2>1. ASSUME NEW q \in Procs, Told(q)' PROVE Told(q)
    BY <1>4, <1>u, <2>1 DEF Told
  <2>2. ASSUME NEW q \in Procs, KeptFor(q, prmsg[q]) PROVE KeptFor(q, prmsg[q])'
    <3>1. prmsg[q] \in Bufs /\ prmsg[q] # i
      BY <1>t, <2>2, BufFields DEF KeptFor, TakenOut, OneList
    <3> QED BY <1>3, <2>2, <3>1 DEF KeptFor, TakenOut
  <2> QED BY <2>1, <2>2, ToldKept DEF DiskSound
<1>12. HeadRead'
  <2>1. Reads' = Reads
    BY DEF Reads
  <2>2. ASSUME Reads PROVE reqq' # <<>> /\ buf'[Head(reqq')] = buf[Head(reqq)]
    <3>1. reqq # <<>> /\ reqq \in Seq(Bufs) /\ NoRepeat(reqq)
      BY <2>2, <1>t DEF DiskSound, HeadRead, TablesTyped
    <3>2. Contains(reqq, Head(reqq)) /\ Head(reqq) \in Bufs
      BY <3>1, TailList
    <3>3. Head(reqq') = Head(reqq) /\ reqq' # <<>>
      BY <1>1, <3>1
    <3> QED BY <1>3, <1>i, <3>2, <3>3
  <2> QED BY <2>1, <2>2 DEF DiskSound, HeadRead
<1>13. SignalsCovered'
  <2>1. Reads' = Reads
    BY DEF Reads
  <2>2. p \notin Unsignaled
    BY DEF Unsignaled
  <2>3. CASE r.op = "READ"
    <3>1. Unsignaled' = Unsignaled \cup {p}
      BY <1>4, <1>u, <2>3 DEF Unsignaled
    <3>2. Cardinality(Unsignaled') = Cardinality(Unsignaled) + 1
      BY <2>2, <3>1, Numbers, CardPlus
    <3> QED BY <1>2, <1>5, <2>1, <2>3, <3>2, Numbers DEF DiskSound, SignalsCovered
  <2>4. CASE r.op # "READ"
    <3>1. Unsignaled' = Unsignaled
      BY <1>4, <1>u, <2>2, <2>4 DEF Unsignaled
    <3> QED BY <1>2, <1>5, <2>1, <2>4, <3>1, Numbers DEF DiskSound, SignalsCovered
  <2> QED BY <2>3, <2>4
<1> QED BY <1>6, <1>7, <1>8, <1>9, <1>10, <1>11, <1>12, <1>13 DEF DiskSound

\* What CHOOSE finds.
LEMMA LowestFacts ==
    ASSUME NEW S \in SUBSET Nat, S # {}
    PROVE  Lowest(S) \in S /\ \A j \in S : Lowest(S) <= j
<1>1. \E m \in S : \A j \in S : m <= j
  BY LeastNat
<1> QED BY <1>1 DEF Lowest

\* The greatest of some numbers.
LEMMA HighestFacts ==
    ASSUME NEW n \in Nat, NEW S \in SUBSET (1 .. n), S # {}
    PROVE  Highest(S) \in S /\ \A j \in S : j <= Highest(S)
<1> DEFINE T == {n - j : j \in S}
<1>1. T \in SUBSET Nat /\ T # {}
  <2>1. \A j \in S : j \in 1 .. n /\ n - j \in Nat
    OBVIOUS
  <2>2. PICK j \in S : TRUE
    OBVIOUS
  <2> QED BY <2>1, <2>2
<1>2. PICK m \in T : \A k \in T : m <= k
  BY <1>1, LeastNat
<1>3. PICK h \in S : m = n - h
  BY <1>2
<1>4. \A j \in S : h >= j
  <2> SUFFICES ASSUME NEW j \in S PROVE h >= j
    OBVIOUS
  <2>1. n - j \in T
    OBVIOUS
  <2>2. m <= n - j
    BY <1>2, <2>1
  <2> QED BY <1>3, <2>2
<1>5. \E i \in S : \A j \in S : i >= j
  BY <1>4
<1>6. Highest(S) \in S /\ \A j \in S : Highest(S) >= j
  BY <1>5 DEF Highest
<1> QED BY <1>6

\* The order of a list from which an element is taken out.
LEMMA OrderRemoved ==
    ASSUME NEW S, NEW q \in Seq(S), NEW n \in 1 .. Len(q), NEW j, NEW k,
           InFront(RemoveAt(q, n), j, k)
    PROVE  InFront(q, j, k)
<1> DEFINE t == RemoveAt(q, n)
           f(m) == IF m < n THEN m ELSE m + 1
<1>1. /\ t \in Seq(S) /\ Len(t) = Len(q) - 1
      /\ \A m \in 1 .. Len(q) - 1 : t[m] = IF m < n THEN q[m] ELSE q[m + 1]
  BY RemoveAtFacts
<1>2. PICK m1, m2 \in 1 .. Len(t) : m1 < m2 /\ t[m1] = j /\ t[m2] = k
  BY DEF InFront
<1>3. Len(q) \in Nat /\ n \in Nat
  OBVIOUS
<1> HIDE DEF t
<1>4. \A m \in 1 .. Len(t) : f(m) \in 1 .. Len(q) /\ t[m] = q[f(m)]
  BY <1>1, <1>3
<1>5. f(m1) < f(m2)
  BY <1>1, <1>2, <1>3
<1> HIDE DEF f
<1> QED BY <1>2, <1>4, <1>5 DEF InFront

\* The order of a list to which an element is put in front.
LEMMA OrderInFront ==
    ASSUME NEW S, NEW q \in Seq(S), NEW e \in S, NEW j, NEW k, InFront(<<e>> \o q, j, k)
    PROVE  InFront(q, j, k) \/ (j = e /\ Contains(q, k))
<1> DEFINE t == <<e>> \o q
<1>1. <<e>> \in Seq(S) /\ Len(<<e>>) = 1 /\ <<e>>[1] = e /\ Len(q) \in Nat
  OBVIOUS
<1>2. /\ t \in Seq(S) /\ Len(t) = Len(<<e>>) + Len(q)
      /\ \A m \in 1 .. Len(<<e>>) + Len(q) : t[m] = IF m <= Len(<<e>>) THEN <<e>>[m] ELSE q[m - Len(<<e>>)]
  BY <1>1, ConcatProperties
<1>3. PICK m1, m2 \in 1 .. Len(t) : m1 < m2 /\ t[m1] = j /\ t[m2] = k
  BY DEF InFront
<1> HIDE DEF t
<1>4. m2 - 1 \in 1 .. Len(q) /\ q[m2 - 1] = k
  BY <1>1, <1>2, <1>3
<1>5. CASE m1 = 1
  <2>1. j = e
    BY <1>1, <1>2, <1>3, <1>5
  <2> QED BY <1>4, <2>1 DEF Contains
<1>6. CASE m1 # 1
  <2>1. m1 - 1 \in 1 .. Len(q) /\ q[m1 - 1] = j /\ m1 - 1 < m2 - 1
    BY <1>1, <1>2, <1>3, <1>6
  <2> QED BY <1>4, <2>1 DEF InFront
<1> QED BY <1>5, <1>6

\* rdsbufalloc() takes a free buffer.
LEMMA FreeTaken ==
    ASSUME DiskSound, NEW i \in free, free' = free \ {i}, cache' = cache
    PROVE  i \in Bufs /\ TakenOut(i)
<1>1. i \in Bufs /\ free \subseteq Bufs /\ IsFiniteSet(free)
  BY Numbers DEF DiskSound, TablesTyped
<1>2. /\ cache' \in Seq(Bufs) /\ NoRepeat(cache') /\ ~Contains(cache, i)
      /\ \A j \in Bufs : j \in free' <=> j \in free /\ j # i
  BY <1>1 DEF DiskSound, TablesTyped, OneList
<1>3. Cardinality(free') = Cardinality(free) - 1
  BY <1>1, FS_RemoveElement
<1>4. Cardinality(free') + Len(cache') + 1 = Cardinality(free) + Len(cache)
  BY <1>3, Numbers
<1> QED BY <1>1, <1>2, <1>4 DEF TakenOut

\* A buffer that nobody reads is taken out of the cache.
LEMMA CacheTaken ==
    ASSUME DiskSound, NEW n \in Unreferenced, cache' = RemoveAt(cache, n), free' = free
    PROVE  cache[n] \in Bufs /\ TakenOut(cache[n])
<1>1. n \in 1 .. Len(cache) /\ buf[cache[n]].refcnt <= 0 /\ cache \in Seq(Bufs) /\ NoRepeat(cache)
  BY DEF Unreferenced, DiskSound, TablesTyped
<1>2. /\ cache' \in Seq(Bufs) /\ Len(cache') = Len(cache) - 1
      /\ cache[n] \in Bufs /\ Contains(cache, cache[n]) /\ NoRepeat(cache')
      /\ \A m : Contains(cache', m) <=> Contains(cache, m) /\ m # cache[n]
  BY <1>1, RemoveAtList
<1>5. \A j, k : InFront(cache', j, k) => InFront(cache, j, k)
  BY <1>1, OrderRemoved
<1>3. free \subseteq Bufs /\ cache[n] \notin free
  BY <1>2 DEF DiskSound, TablesTyped, OneList
<1>4. Cardinality(free') + Len(cache') + 1 = Cardinality(free) + Len(cache)
  BY <1>2, Numbers
<1> QED BY <1>1, <1>2, <1>3, <1>4, <1>5 DEF TakenOut

\* The process that insert() leaves is not in rdsbufalloc().
LEMMA InsertLeaves ==
    ASSUME CallsTyped, NEW p \in Procs, NEW r \in Call, NEW i, insert(p, i, r)
    PROVE  Allocating' = Allocating \ {p}
<1> DEFINE u == IF r.op = "WRITE" THEN USER ELSE [r EXCEPT !.at = "inserted"]
<1>1. u.at \notin Alloc
  BY CallFields DEF USER, Call
<1>2. doing' = [doing EXCEPT ![p] = u]
  BY DEF insert, does
<1> HIDE DEF u
<1> QED BY <1>1, <1>2 DEF Allocating, CallsTyped

\* rdsbufalloc() finds a buffer in the free list or the cache.
LEMMA BufallocTakes ==
    ASSUME DiskSound, NEW p \in Procs, rdsbufalloc(p), fault' = "none"
    PROVE  \E i \in Bufs : insert(p, i, doing[p]) /\ TakenOut(i)
<1>1. CASE free # {} /\ free' = free \ {Lowest(free)} /\ insert(p, Lowest(free), doing[p]) /\ cache' = cache
  <2>1. free \in SUBSET Nat
    BY DEF DiskSound, TablesTyped, Bufs
  <2>2. Lowest(free) \in free
    BY <1>1, <2>1, LowestFacts
  <2> QED BY <1>1, <2>2, FreeTaken
<1>2. CASE /\ Unreferenced # {} /\ insert(p, cache[Highest(Unreferenced)], doing[p])
           /\ cache' = RemoveAt(cache, Highest(Unreferenced)) /\ free' = free
  <2>1. Len(cache) \in Nat /\ Unreferenced \in SUBSET (1 .. Len(cache))
    BY DEF DiskSound, TablesTyped, Unreferenced
  <2>2. Highest(Unreferenced) \in Unreferenced
    BY <1>2, <2>1, HighestFacts
  <2> QED BY <1>2, <2>2, CacheTaken
<1>3. \/ free # {} /\ free' = free \ {Lowest(free)} /\ insert(p, Lowest(free), doing[p]) /\ cache' = cache
      \/ /\ Unreferenced # {} /\ insert(p, cache[Highest(Unreferenced)], doing[p])
         /\ cache' = RemoveAt(cache, Highest(Unreferenced)) /\ free' = free
  BY DEF rdsbufalloc
<1> QED BY <1>1, <1>2, <1>3

\* rdsbufalloc() and the insertion of the request.
LEMMA BufallocSound ==
    ASSUME DiskSound, NEW p \in Procs, rdsbufalloc(p), fault' = "none"
    PROVE  DiskSound'
<1>1. /\ doing[p].at \in Alloc /\ doing[p] \in Call /\ ~waitsOn(p, availsem) /\ CallsTyped
      /\ availsem' = availsem
  BY CallFacts DEF rdsbufalloc, Stands, DiskSound
<1>2. /\ com' = com /\ asked' = asked /\ replies' = replies /\ prmsg' = prmsg /\ server' = server
  BY DEF rdsbufalloc
<1>3. PICK i : insert(p, i, doing[p]) /\ i \in Bufs /\ TakenOut(i)
  BY BufallocTakes
<1>4. Allocating' = Allocating \ {p}
  BY <1>1, <1>3, InsertLeaves
<1>5. PermitsThere'
  <2>1. SemOf(availsem, Procs, Allocating) /\ availsem.used /\ p \in Allocating /\ IsFiniteSet(Procs)
    BY <1>1, DiskSets DEF DiskSound, PermitsThere, Allocating
  <2>2. /\ SemOf(availsem, Procs, Allocating \ {p})
        /\ permits(availsem, Allocating) = permits(availsem, Allocating \ {p}) + 1
    BY <1>1, <2>1, PermitsTaken
  <2>3. permits(availsem, Allocating \ {p}) \in Nat
    BY <2>1, <2>2, PermitsNat
  <2>4. Cardinality(free') + Len(cache') + 1 = Cardinality(free) + Len(cache)
    BY <1>3 DEF TakenOut
  <2>5. Cardinality(free') \in Nat /\ Len(cache') \in Nat
    BY <1>3, DiskSets, FS_Subset, FS_CardinalityType DEF TakenOut
  <2>6. permits(availsem, Allocating \ {p}) >= Cardinality(free') + Len(cache')
    BY <2>2, <2>3, <2>4, <2>5, Numbers DEF DiskSound, PermitsThere
  <2> QED BY <1>1, <1>4, <2>1, <2>2, <2>6 DEF PermitsThere
<1> QED BY <1>1, <1>2, <1>3, <1>5, InsertSound

\* Places of a block in a list, and writes of a block in the queue.
LEMMA PlacesFacts ==
    ASSUME NEW list \in Seq(Bufs), NEW b
    PROVE  /\ Len(list) \in Nat /\ Places(list, b) \in SUBSET (1 .. Len(list))
           /\ Places(list, b) \in SUBSET Nat
           /\ \A n \in Places(list, b) : list[n] \in Bufs /\ Contains(list, list[n]) /\ buf[list[n]].blk = b
BY DEF Places, Contains

\* The write that rdswrite() replaces.
LEMMA ReplacedFacts ==
    ASSUME TablesTyped, NEW b, Writes(b) # {}
    PROVE  replaced(b) \in Bufs /\ Contains(reqq, replaced(b)) /\ Holds(replaced(b), b)
<1>1. reqq \in Seq(Bufs)
  BY DEF TablesTyped
<1>2. Writes(b) \in SUBSET Nat /\ Writes(b) \subseteq Places(reqq, b)
  BY <1>1, PlacesFacts DEF Writes
<1>3. Lowest(Writes(b)) \in Writes(b)
  BY <1>2, LowestFacts
<1>4. /\ reqq[Lowest(Writes(b))] \in Bufs /\ Contains(reqq, reqq[Lowest(Writes(b))])
      /\ buf[reqq[Lowest(Writes(b))]].blk = b
  BY <1>1, <1>2, <1>3, PlacesFacts
<1> QED BY <1>3, <1>4 DEF replaced, Holds, Writes

\* rdswrite() puts new data into a write that is queued.
LEMMA DataReplaced ==
    ASSUME DiskSound, NEW i \in Bufs, buf[i].op = "WRITE", NEW d \in Data, NEW b \in Blocks,
           buf' = [buf EXCEPT ![i].data = d], written' = [written EXCEPT ![b] = d],
           free' = free, reqq' = reqq, cache' = cache, availsem' = availsem, doing' = doing,
           SameCom, prmsg' = prmsg
    PROVE  DiskSound'
<1>t. TablesTyped /\ CallsTyped /\ ComTyped /\ OneList
  BY DEF DiskSound
<1>1. \A j \in Bufs : /\ buf'[j].op = buf[j].op /\ buf'[j].blk = buf[j].blk
                      /\ buf'[j].status = buf[j].status /\ buf'[j].refcnt = buf[j].refcnt
                      /\ buf'[j].pid = buf[j].pid
                      /\ buf'[j].data = IF j = i THEN d ELSE buf[j].data
  BY <1>t DEF TablesTyped, Buffer
<1>2. buf' \in [Bufs -> Buffer]
  BY ZenonT(30), <1>t DEF TablesTyped, Buffer
<1>3. TablesTyped' /\ CallsTyped' /\ ComTyped' /\ OneList'
  <2>1. ASSUME NEW j \in Bufs
        PROVE  /\ buf'[j].status = "VALID" <=> buf'[j].op = "WRITE"
               /\ buf'[j].op = "WRITE" => buf'[j].data \in Data
    BY <1>1, <1>t DEF TablesTyped
  <2>2. TablesTyped'
    BY <1>2, <2>1, <1>t DEF TablesTyped
  <2>3. ComTyped'
    BY <1>t DEF ComTyped, SameCom
  <2> QED BY <2>2, <2>3, <1>t DEF CallsTyped, OneList
<1>4. PermitsThere' /\ SignalsCovered'
  BY DEF DiskSound, PermitsThere, Allocating, SignalsCovered, Unsignaled, Reads, SameCom
<1>5. RequestsAwaited'
  <2>1. \A j \in Bufs : Asks(j)' <=> Asks(j)
    BY <1>1 DEF Asks
  <2> QED BY <1>1, <2>1, RequestsKept DEF DiskSound
<1>6. ToldSafe'
  <2>1. \A q \in Procs : (Told(q)' <=> Told(q)) /\ (KeptFor(q, prmsg[q])' <=> KeptFor(q, prmsg[q]))
    BY <1>1 DEF Told, KeptFor
  <2> QED BY <2>1, ToldKept DEF DiskSound
<1>7. HeadRead'
  <2>1. ASSUME Reads PROVE Head(reqq) \in Bufs
    BY <2>1, <1>t DEF DiskSound, HeadRead, TablesTyped
  <2>2. Reads' = Reads
    BY DEF Reads, SameCom
  <2> QED BY <1>1, <2>1, <2>2 DEF DiskSound, HeadRead, SameCom
<1> QED BY <1>3, <1>4, <1>5, <1>6, <1>7 DEF DiskSound

\* The copy that rdswrite() may reuse.
LEMMA ReusableFacts ==
    ASSUME DiskSound, NEW b, Reusable(b)
    PROVE  /\ Lowest(Places(cache, b)) \in Unreferenced /\ Lowest(Places(cache, b)) \in Places(cache, b)
           /\ cache[Lowest(Places(cache, b))] \in Bufs /\ buf[cache[Lowest(Places(cache, b))]].blk = b
<1>1. cache \in Seq(Bufs) /\ Places(cache, b) # {} /\ Lowest(Places(cache, b)) \in Unreferenced
  BY DEF DiskSound, TablesTyped, Reusable
<1>2. Lowest(Places(cache, b)) \in Places(cache, b)
  BY <1>1, PlacesFacts, LowestFacts
<1> QED BY <1>1, <1>2, PlacesFacts

\* rdswrite().
LEMMA RdswriteSound ==
    ASSUME DiskSound, NEW p \in Procs, NEW b \in Blocks, NEW d \in Data, rdswrite(p, b, d)
    PROVE  DiskSound'
<1> DEFINE r == [at |-> atBuffer, op |-> "WRITE", blk |-> b, data |-> d]
           c == Lowest(Places(cache, b))
<1>1. r \in Call /\ r.at \in Alloc
  BY DEF Call, atBuffer
<1>2. /\ doing[p].at = "user" /\ TablesTyped /\ CallsTyped
      /\ free' = free /\ com' = com /\ asked' = asked /\ replies' = replies /\ prmsg' = prmsg
      /\ server' = server
  BY DEF rdswrite, Stands, DiskSound
<1>3. CASE /\ Writes(b) # {} /\ buf' = [buf EXCEPT ![replaced(b)].data = d]
           /\ written' = [written EXCEPT ![b] = d]
           /\ UNCHANGED <<reqq, cache, availsem, reqsem, doing>>
  <2>1. replaced(b) \in Bufs /\ buf[replaced(b)].op = "WRITE"
    BY <1>2, <1>3, ReplacedFacts DEF Holds
  <2> QED BY <1>2, <1>3, <2>1, DataReplaced DEF SameCom
<1>4. CASE /\ Reusable(b) /\ cache' = RemoveAt(cache, c) /\ availsem' = oneLess(availsem)
           /\ insert(p, cache[c], r)
  <2>1. c \in Unreferenced /\ cache[c] \in Bufs
    BY <1>4, ReusableFacts
  <2> HIDE DEF c, r
  <2>2. TakenOut(cache[c])
    BY <1>2, <1>4, <2>1, CacheTaken
  <2>3. Allocating' = Allocating
    <3>1. p \notin Allocating
      BY <1>2 DEF Allocating
    <3> QED BY <1>1, <1>2, <1>4, <3>1, InsertLeaves
  <2>4. SemOf(availsem, Procs, Allocating) /\ availsem.used /\ IsFiniteSet(Procs)
    BY DiskSets DEF DiskSound, PermitsThere
  <2>5. /\ SemOf(availsem', Procs, Allocating) /\ availsem'.used
        /\ permits(availsem, Allocating) <= permits(availsem', Allocating) + 1
    <3>1. CASE availsem.count - 1 < 0
      <4>1. availsem' = availsem
        BY <1>4, <3>1 DEF oneLess
      <4> QED BY <2>4, <4>1, PermitsNat
    <3>2. CASE ~(availsem.count - 1 < 0)
      <4>1. availsem' = reset(availsem, availsem.count - 1) /\ availsem.count - 1 >= 0
        BY <1>4, <2>4, <3>2 DEF oneLess, SemOf, SemSound
      <4>2. /\ SemOf(availsem', Procs, Allocating) /\ availsem'.used
            /\ permits(availsem, Allocating) = permits(availsem', Allocating) + 1
        BY <2>4, <4>1, PermitsLess
      <4>3. permits(availsem', Allocating) \in Nat
        BY <2>4, <4>2, PermitsNat
      <4> QED BY <4>2, <4>3
    <3> QED BY <3>1, <3>2
  <2>6. permits(availsem', Allocating) >= Cardinality(free') + Len(cache')
    <3>1. permits(availsem', Allocating) \in Nat
      BY <2>4, <2>5, PermitsNat
    <3>2. Cardinality(free') + Len(cache') + 1 = Cardinality(free) + Len(cache)
      BY <2>2 DEF TakenOut
    <3>3. permits(availsem, Allocating) >= Cardinality(free) + Len(cache)
      BY DEF DiskSound, PermitsThere
    <3>4. Cardinality(free') \in Nat /\ Len(cache') \in Nat
      BY <2>2, DiskSets, FS_Subset, FS_CardinalityType DEF TakenOut
    <3> QED BY <2>5, <3>1, <3>2, <3>3, <3>4, Numbers
  <2>7. PermitsThere'
    BY <2>3, <2>5, <2>6 DEF PermitsThere
  <2> QED BY <1>1, <1>2, <1>4, <2>1, <2>2, <2>7, InsertSound
<1>5. CASE /\ availsem' = waitbuf(p) /\ does(p, r)
           /\ UNCHANGED <<buf, reqq, cache, reqsem, written>>
  <2> HIDE DEF r
  <2> QED BY <1>1, <1>2, <1>5, CallStarts DEF SameBuffers, SameCom
<1> QED BY <1>3, <1>4, <1>5 DEF rdswrite

\* A process that has made its request waits for the message.
LEMMA AwaitSound ==
    ASSUME DiskSound, NEW p \in Procs, Await(p)
    PROVE  DiskSound'
<1> DEFINE u == [doing[p] EXCEPT !.at = "receive"]
<1>t. TablesTyped /\ CallsTyped /\ ComTyped /\ OneList
  BY DEF DiskSound
<1>1. doing[p].at = "inserted" /\ doing[p] \in Call /\ doing[p].op \in {"READ", "SYNC"}
  BY <1>t, CallFacts, CallFields DEF Await, Stands
<1>2. u \in Call /\ u.at = "receive" /\ u.op = doing[p].op /\ u.blk = doing[p].blk
  BY <1>1, CallFields DEF Call
<1>3. /\ doing' = [doing EXCEPT ![p] = u] /\ prmsg' = [prmsg EXCEPT ![p] = NONE]
      /\ reqsem' = IF doing[p].op = "READ" THEN reqsem + 1 ELSE reqsem
  BY DEF Await, does
<1>4. /\ SameBuffers /\ availsem' = availsem /\ com' = com /\ asked' = asked /\ replies' = replies
      /\ server' = server /\ written' = written
  BY DEF Await, SameBuffers
<1> HIDE DEF u
<1>5. /\ doing' \in [Procs -> {USER} \cup Call] /\ doing'[p] = u /\ prmsg'[p] = NONE
      /\ prmsg' \in [Procs -> Bufs \cup {NONE, OK}]
      /\ \A q \in Procs \ {p} : doing'[q] = doing[q] /\ prmsg'[q] = prmsg[q]
  BY <1>2, <1>3, <1>t DEF CallsTyped
<1>6. TablesTyped' /\ CallsTyped' /\ ComTyped' /\ OneList'
  <2>1. reqsem' \in Nat
    BY <1>3, <1>t DEF ComTyped
  <2> QED BY <1>4, <1>5, <1>t, <2>1 DEF TablesTyped, CallsTyped, ComTyped, OneList, SameBuffers
<1>7. PermitsThere'
  <2>1. Allocating' = Allocating
    BY <1>1, <1>2, <1>5 DEF Allocating
  <2> QED BY <1>4, <2>1 DEF DiskSound, PermitsThere, SameBuffers
<1>8. RequestsAwaited'
  <2>1. ASSUME NEW j \in Bufs, Asks(j)'
        PROVE  Asks(j) /\ buf'[j] = buf[j] /\ AskerWaits(j, buf[j].pid)'
    <3>1. Asks(j) /\ buf'[j] = buf[j]
      BY <1>4, <2>1 DEF Asks, SameBuffers
    <3>2. AskerWaits(j, buf[j].pid)
      BY <3>1 DEF DiskSound, RequestsAwaited
    <3>3. CASE buf[j].pid = p
      BY <1>1, <1>2, <1>5, <3>1, <3>2, <3>3 DEF AskerWaits
    <3>4. CASE buf[j].pid # p
      BY <1>5, <3>1, <3>2, <3>4 DEF AskerWaits
    <3> QED BY <3>1, <3>3, <3>4
  <2>2. \A i, j \in Bufs : Asks(i) /\ Asks(j) /\ buf[j].pid = buf[i].pid => j = i
    BY DEF DiskSound, RequestsAwaited
  <2> QED BY <2>1, <2>2 DEF RequestsAwaited
<1>9. ToldSafe'
  <2>1. ASSUME NEW q \in Procs, Told(q)' PROVE Told(q) /\ prmsg'[q] = prmsg[q]
    BY <1>5, <2>1 DEF Told
  <2>2. ASSUME NEW q \in Procs, prmsg'[q] = prmsg[q], KeptFor(q, prmsg[q]) PROVE KeptFor(q, prmsg[q])'
    BY <1>4, <2>2 DEF KeptFor, SameBuffers
  <2> QED BY <2>1, <2>2, ToldKept DEF DiskSound
<1>10. HeadRead'
  BY <1>4 DEF DiskSound, HeadRead, Reads, SameBuffers
<1>11. SignalsCovered'
  <2>1. Reads' = Reads /\ Len(reqq') = Len(reqq)
    BY <1>4 DEF Reads, SameBuffers
  <2>2. CASE doing[p].op = "READ"
    <3>1. p \in Unsignaled /\ Unsignaled' = Unsignaled \ {p}
      BY <1>1, <1>2, <1>5, <2>2 DEF Unsignaled
    <3>2. Cardinality(Unsignaled') = Cardinality(Unsignaled) - 1
      BY <3>1, Numbers, FS_RemoveElement
    <3> QED BY <1>3, <2>1, <2>2, <3>2, Numbers DEF DiskSound, SignalsCovered
  <2>3. CASE doing[p].op # "READ"
    <3>1. Unsignaled' = Unsignaled
      BY <1>1, <1>2, <1>5, <2>3 DEF Unsignaled
    <3> QED BY <1>3, <2>1, <2>3, <3>1 DEF DiskSound, SignalsCovered
  <2> QED BY <2>2, <2>3
<1> QED BY <1>6, <1>7, <1>8, <1>9, <1>10, <1>11 DEF DiskSound

\* What a process that has got its message leaves: nothing in the queue is its
\* own, and the others stand where they stood.
LEMMA CallEnds ==
    ASSUME DiskSound, NEW p \in Procs, doing[p].at = "receive", prmsg[p] # NONE,
           prmsg' = [prmsg EXCEPT ![p] = NONE], does(p, USER), SameCom, written' = written,
           reqq' = reqq, availsem' = availsem,
           TablesTyped', OneList', Cardinality(free') + Len(cache') = Cardinality(free) + Len(cache),
           \A j \in Bufs : /\ buf'[j].op = buf[j].op /\ buf'[j].blk = buf[j].blk
                           /\ buf'[j].pid = buf[j].pid,
           \A q \in Procs \ {p} : Told(q) => KeptFor(q, prmsg[q])'
    PROVE  DiskSound'
<1>t. TablesTyped /\ CallsTyped /\ ComTyped /\ OneList
  BY DEF DiskSound
<1>1. /\ doing' \in [Procs -> {USER} \cup Call] /\ doing'[p] = USER /\ prmsg'[p] = NONE
      /\ prmsg' \in [Procs -> Bufs \cup {NONE, OK}]
      /\ \A q \in Procs \ {p} : doing'[q] = doing[q] /\ prmsg'[q] = prmsg[q]
  BY <1>t DEF CallsTyped, does
<1>2. CallsTyped' /\ ComTyped'
  BY <1>1, <1>t DEF CallsTyped, ComTyped, SameCom
<1>3. USER.at = "user"
  BY DEF USER
<1>4. PermitsThere' /\ SignalsCovered'
  <2>1. Allocating' = Allocating /\ Unsignaled' = Unsignaled /\ Reads' = Reads
    BY <1>1, <1>3 DEF Allocating, Unsignaled, Reads, SameCom
  <2> QED BY <2>1 DEF DiskSound, PermitsThere, SignalsCovered, SameCom
<1>5. RequestsAwaited'
  <2>1. ASSUME NEW j \in Bufs, Asks(j)'
        PROVE  /\ Asks(j) /\ doing'[buf[j].pid] = doing[buf[j].pid]
               /\ prmsg'[buf[j].pid] = prmsg[buf[j].pid]
    <3>1. Asks(j)
      BY <2>1 DEF Asks
    <3>2. AskerWaits(j, buf[j].pid)
      BY <3>1 DEF DiskSound, RequestsAwaited
    <3>3. buf[j].pid # p
      BY <3>2 DEF AskerWaits
    <3> QED BY <1>1, <3>1, <3>2, <3>3 DEF AskerWaits
  <2> QED BY <2>1, RequestsKept DEF DiskSound
<1>6. ToldSafe'
  <2>1. ASSUME NEW q \in Procs, Told(q)' PROVE q # p /\ Told(q) /\ prmsg'[q] = prmsg[q]
    BY <1>1, <2>1 DEF Told
  <2> QED BY <2>1 DEF ToldSafe
<1>7. HeadRead'
  <2>1. ASSUME Reads PROVE Head(reqq) \in Bufs
    BY <2>1, <1>t DEF DiskSound, HeadRead, TablesTyped
  <2>2. Reads' = Reads
    BY DEF Reads, SameCom
  <2> QED BY <2>1, <2>2 DEF DiskSound, HeadRead, SameCom
<1> QED BY <1>2, <1>4, <1>5, <1>6, <1>7 DEF DiskSound

\* The end of a sync.
LEMMA SyncEndSound ==
    ASSUME DiskSound, NEW p \in Procs, syncEnd(p)
    PROVE  DiskSound'
<1>1. /\ doing[p].at = "receive" /\ prmsg[p] # NONE /\ prmsg' = [prmsg EXCEPT ![p] = NONE]
      /\ does(p, USER) /\ SameCom /\ SameBuffers /\ availsem' = availsem /\ written' = written
  BY DEF syncEnd, Stands, SameCom, SameBuffers
<1>2. TablesTyped' /\ OneList' /\ Cardinality(free') + Len(cache') = Cardinality(free) + Len(cache)
  BY <1>1 DEF DiskSound, TablesTyped, OneList, SameBuffers
<1>3. ASSUME NEW q \in Procs \ {p}, Told(q) PROVE KeptFor(q, prmsg[q])'
  <2>1. prmsg'[q] = prmsg[q] /\ KeptFor(q, prmsg[q])
    BY <1>1, <1>3 DEF DiskSound, CallsTyped, ToldSafe
  <2> QED BY <1>1, <2>1 DEF KeptFor, SameBuffers
<1> QED BY <1>1, <1>2, <1>3, CallEnds DEF SameBuffers

\* The end of a read.
LEMMA RdsreadEndSound ==
    ASSUME DiskSound, NEW p \in Procs, rdsreadEnd(p)
    PROVE  DiskSound'
<1> DEFINE i == prmsg[p]
           c == CHOOSE k \in DOMAIN cache : cache[k] = i
<1>t. TablesTyped /\ CallsTyped /\ ComTyped /\ OneList
  BY DEF DiskSound
<1>1. /\ doing[p].at = "receive" /\ doing[p].op = "READ" /\ i # NONE
      /\ prmsg' = [prmsg EXCEPT ![p] = NONE]
      /\ does(p, USER) /\ SameCom /\ reqq' = reqq /\ availsem' = availsem /\ written' = written
      /\ buf' = [buf EXCEPT ![i].refcnt = @ - 1]
  BY DEF rdsreadEnd, Stands, SameCom
<1>2. i \in Bufs /\ Contains(cache, i) /\ buf[i].refcnt >= 1 /\ buf[i].pid = p
  BY <1>1 DEF DiskSound, ToldSafe, Told, KeptFor
<1>3. c \in 1 .. Len(cache) /\ cache[c] = i
  <2>1. DOMAIN cache = 1 .. Len(cache) /\ \E k \in 1 .. Len(cache) : cache[k] = i
    BY <1>2, <1>t DEF TablesTyped, Contains
  <2> QED BY <2>1
<1>4. \/ cache' = RemoveAt(cache, c) /\ free' = free \cup {i}
      \/ cache' = cache /\ free' = free
  BY DEF rdsreadEnd
<1> HIDE DEF i, c
<1>5. \A j \in Bufs : /\ buf'[j].op = buf[j].op /\ buf'[j].blk = buf[j].blk
                      /\ buf'[j].status = buf[j].status /\ buf'[j].data = buf[j].data
                      /\ buf'[j].pid = buf[j].pid
                      /\ j # i => buf'[j].refcnt = buf[j].refcnt
  BY <1>1, <1>2, <1>t DEF TablesTyped, Buffer
<1>6. buf' \in [Bufs -> Buffer]
  <2> DEFINE e == [buf[i] EXCEPT !.refcnt = @ - 1]
  <2>1. e \in Buffer
    BY <1>2, <1>t, BufFields DEF Buffer
  <2>2. buf' = [buf EXCEPT ![i] = e]
    BY <1>1
  <2> HIDE DEF e
  <2> QED BY <2>1, <2>2, <1>t DEF TablesTyped
<1>7. /\ free' \subseteq Bufs /\ cache' \in Seq(Bufs) /\ NoRepeat(cache')
      /\ Cardinality(free') + Len(cache') = Cardinality(free) + Len(cache)
      /\ \A j \in Bufs \ {i} : (j \in free' <=> j \in free) /\ (Contains(cache', j) <=> Contains(cache, j))
      /\ i \in free' <=> ~Contains(cache', i)
  <2>1. CASE cache' = RemoveAt(cache, c) /\ free' = free \cup {i}
    <3>1. cache \in Seq(Bufs) /\ NoRepeat(cache) /\ free \subseteq Bufs /\ i \notin free
      BY <1>2, <1>t DEF TablesTyped, OneList
    <3>2. /\ cache' \in Seq(Bufs) /\ Len(cache') = Len(cache) - 1 /\ NoRepeat(cache')
          /\ \A m : Contains(cache', m) <=> Contains(cache, m) /\ m # i
      BY <1>3, <2>1, <3>1, RemoveAtList
    <3>3. Cardinality(free') = Cardinality(free) + 1
      BY <2>1, <3>1, Numbers, CardPlus
    <3>4. Cardinality(free') + Len(cache') = Cardinality(free) + Len(cache)
      BY <3>2, <3>3, Numbers
    <3>5. free' \subseteq Bufs
      BY <1>2, <2>1, <3>1
    <3> QED BY <2>1, <3>2, <3>4, <3>5
  <2>2. CASE cache' = cache /\ free' = free
    BY <1>2, <1>t, <2>2 DEF TablesTyped, OneList
  <2> QED BY <1>4, <2>1, <2>2
<1>8. TablesTyped'
  <2>1. ASSUME NEW j \in Bufs
        PROVE  /\ buf'[j].status = "VALID" <=> buf'[j].op = "WRITE"
               /\ buf'[j].op = "WRITE" => buf'[j].data \in Data
    BY <1>5, <1>t DEF TablesTyped
  <2> QED BY <1>1, <1>6, <1>7, <1>t, <2>1 DEF TablesTyped
<1>9. OneList'
  <2>1. Cardinality(free') + Len(reqq') + Len(cache') = RD_BUFFS
    <3> DEFINE f == Cardinality(free')
               k == Len(cache')
    <3>1. f \in Nat /\ k \in Nat
      BY <1>7, DiskSets, FS_Subset, FS_CardinalityType
    <3>2. f + k = Cardinality(free) + Len(cache)
      BY <1>7
    <3>3. Cardinality(free) + Len(reqq) + Len(cache) = RD_BUFFS
      BY <1>t DEF OneList
    <3> HIDE DEF f, k
    <3>4. f + Len(reqq) + k = RD_BUFFS
      BY SMTT(30), <3>1, <3>2, <3>3, Numbers
    <3> QED BY <1>1, <3>4 DEF f, k
  <2>2. ASSUME NEW j \in Bufs
        PROVE  /\ j \in free' \/ Contains(reqq', j) \/ Contains(cache', j)
               /\ ~(Contains(reqq', j) /\ Contains(cache', j))
               /\ j \in free' => ~Contains(reqq', j) /\ ~Contains(cache', j)
    <3>1. CASE j = i
      BY <1>1, <1>2, <1>7, <1>t, <3>1 DEF OneList
    <3>2. CASE j # i
      BY <1>1, <1>7, <1>t, <3>2 DEF OneList
    <3> QED BY <3>1, <3>2
  <2> QED BY <2>1, <2>2 DEF OneList
<1>10. ASSUME NEW q \in Procs \ {p}, Told(q) PROVE KeptFor(q, prmsg[q])'
  <2>1. prmsg'[q] = prmsg[q] /\ KeptFor(q, prmsg[q])
    BY <1>1, <1>10, <1>t DEF DiskSound, CallsTyped, ToldSafe
  <2>2. prmsg[q] # i
    BY <1>2, <2>1 DEF KeptFor
  <2> QED BY <1>5, <1>7, <2>1, <2>2 DEF KeptFor
<1>11. prmsg[p] # NONE
  BY <1>1 DEF i
<1>12. Cardinality(free') + Len(cache') = Cardinality(free) + Len(cache)
  BY <1>7
<1> QED BY <1>1, <1>5, <1>8, <1>9, <1>10, <1>11, <1>12, CallEnds

-----------------------------------------------------------------------------
(* The communication process.                                              *)

\* One buffer goes from the queue to the others, and one signal with it.
LEMMA OneMoved ==
    ASSUME NEW a \in Nat, NEW b \in Nat, NEW c \in Nat, NEW f \in Nat, NEW k \in Nat, NEW n, NEW all,
           f + k = a + c + 1, n = b - 1, a + b + c = all
    PROVE  f + n + k = all
OBVIOUS

\* One signal is used for one request.
LEMMA OneServed ==
    ASSUME NEW s \in Nat, NEW t \in Nat, NEW x \in Nat, NEW u \in Nat, NEW n \in Nat, NEW m,
           m = n - 1, t + 1 = s + x, s + x + u <= n
    PROVE  t + u <= m
OBVIOUS

\* The first request leaves the queue for the free list or the cache, and
\* whoever waits for it may be told.
LEMMA HeadServed ==
    ASSUME DiskSound, reqq # <<>>, NEW i, i = Head(reqq), reqq' = Tail(reqq),
           \/ free' = free \cup {i} /\ cache' = cache
           \/ free' = free /\ cache' = <<i>> \o cache,
           availsem' = returned(availsem), doing' = doing,
           buf' \in [Bufs -> Buffer],
           \A j \in Bufs : /\ buf'[j].op = buf[j].op /\ buf'[j].blk = buf[j].blk
                           /\ buf'[j].pid = buf[j].pid /\ buf'[j].status = buf[j].status
                           /\ buf[j].op = "WRITE" => buf'[j].data = buf[j].data
                           /\ j # i => buf'[j].refcnt = buf[j].refcnt,
           prmsg' \in [Procs -> Bufs \cup {NONE, OK}],
           \A q \in Procs : \/ prmsg'[q] = prmsg[q]
                            \/ /\ Asks(i) /\ q = buf[i].pid
                               /\ Told(q)' => KeptFor(q, prmsg[q])',
           ComTyped', ~Reads', reqsem' + 1 = reqsem + (IF Reads THEN 1 ELSE 0)
    PROVE  DiskSound'
<1>t. TablesTyped /\ CallsTyped /\ ComTyped /\ OneList
  BY DEF DiskSound
<1>1. /\ i \in Bufs /\ Contains(reqq, i) /\ reqq' \in Seq(Bufs) /\ NoRepeat(reqq')
      /\ Len(reqq') = Len(reqq) - 1
      /\ \A m : Contains(reqq', m) <=> Contains(reqq, m) /\ m # i
  BY <1>t, TailList DEF TablesTyped
<1>2. i \notin free /\ ~Contains(cache, i)
  BY <1>1, <1>t DEF OneList
<1>3. /\ free' \subseteq Bufs /\ cache' \in Seq(Bufs) /\ NoRepeat(cache')
      /\ Cardinality(free') + Len(cache') = Cardinality(free) + Len(cache) + 1
      /\ \A j \in Bufs \ {i} : (j \in free' <=> j \in free) /\ (Contains(cache', j) <=> Contains(cache, j))
      /\ i \in free' <=> ~Contains(cache', i)
  <2>t. cache \in Seq(Bufs) /\ NoRepeat(cache) /\ free \subseteq Bufs
    BY <1>t DEF TablesTyped
  <2>1. CASE free' = free \cup {i} /\ cache' = cache
    <3>1. Cardinality(free') = Cardinality(free) + 1
      BY <1>2, <2>1, Numbers, CardPlus
    <3>2. Cardinality(free') + Len(cache') = Cardinality(free) + Len(cache) + 1
      BY <2>1, <3>1, Numbers
    <3> QED BY <1>1, <1>2, <2>1, <2>t, <3>2
  <2>2. CASE free' = free /\ cache' = <<i>> \o cache
    <3>1. /\ <<i>> \in Seq(Bufs) /\ Len(<<i>>) = 1 /\ NoRepeat(<<i>>)
          /\ \A m : Contains(<<i>>, m) <=> m = i
      BY <1>1, UnitList
    <3>2. /\ cache' \in Seq(Bufs) /\ Len(cache') = 1 + Len(cache)
          /\ \A m : Contains(cache', m) <=> m = i \/ Contains(cache, m)
          /\ NoRepeat(cache')
      <4>1. \A m : ~(Contains(<<i>>, m) /\ Contains(cache, m))
        BY <1>2, <3>1
      <4>2. /\ <<i>> \o cache \in Seq(Bufs) /\ Len(<<i>> \o cache) = Len(<<i>>) + Len(cache)
            /\ \A m : Contains(<<i>> \o cache, m) <=> Contains(<<i>>, m) \/ Contains(cache, m)
            /\ NoRepeat(<<i>> \o cache)
        <5> DEFINE u == <<i>>
        <5>1. u \in Seq(Bufs) /\ NoRepeat(u) /\ \A m : ~(Contains(u, m) /\ Contains(cache, m))
          BY <3>1, <4>1
        <5> HIDE DEF u
        <5>2. /\ u \o cache \in Seq(Bufs) /\ Len(u \o cache) = Len(u) + Len(cache)
              /\ \A m : Contains(u \o cache, m) <=> Contains(u, m) \/ Contains(cache, m)
              /\ (NoRepeat(u) /\ NoRepeat(cache) /\ \A m : ~(Contains(u, m) /\ Contains(cache, m)))
                    => NoRepeat(u \o cache)
          BY <2>t, <5>1, ConcatList
        <5>3. NoRepeat(u \o cache)
          BY <2>t, <5>1, <5>2
        <5> QED BY <5>2, <5>3 DEF u
      <4> QED BY <2>2, <3>1, <4>2
    <3>3. Cardinality(free') + Len(cache') = Cardinality(free) + Len(cache) + 1
      BY <2>2, <3>2, Numbers
    <3> QED BY <1>1, <1>2, <2>2, <2>t, <3>2, <3>3
  <2> QED BY <2>1, <2>2
<1>4. TablesTyped'
  <2>1. ASSUME NEW j \in Bufs
        PROVE  /\ buf'[j].status = "VALID" <=> buf'[j].op = "WRITE"
               /\ buf'[j].op = "WRITE" => buf'[j].data \in Data
    BY <1>t DEF TablesTyped
  <2> QED BY <1>1, <1>3, <2>1 DEF TablesTyped
<1>5. CallsTyped'
  BY <1>t DEF CallsTyped
<1>6. OneList'
  <2>1. Cardinality(free') + Len(reqq') + Len(cache') = RD_BUFFS
    <3> DEFINE f == Cardinality(free')
               k == Len(cache')
               n == Len(reqq')
    <3>1. f \in Nat /\ k \in Nat /\ n = Len(reqq) - 1
      BY <1>1, <1>3, DiskSets, FS_Subset, FS_CardinalityType
    <3>2. f + k = Cardinality(free) + Len(cache) + 1
      BY <1>3
    <3>3. Cardinality(free) + Len(reqq) + Len(cache) = RD_BUFFS
      BY <1>t DEF OneList
    <3> HIDE DEF f, k, n
    <3>4. f + n + k = RD_BUFFS
      <4>1. Cardinality(free) \in Nat /\ Len(reqq) \in Nat /\ Len(cache) \in Nat
        BY Numbers
      <4> DEFINE a == Cardinality(free)
                 b == Len(reqq)
                 c == Len(cache)
                 all == RD_BUFFS
      <4>2. /\ a \in Nat /\ b \in Nat /\ c \in Nat /\ f \in Nat /\ k \in Nat
            /\ f + k = a + c + 1 /\ n = b - 1 /\ a + b + c = all
        BY <3>1, <3>2, <3>3, <4>1
      <4> HIDE DEF a, b, c, all
      <4>3. f + n + k = all
        BY SMTT(30), <4>2, OneMoved
      <4> QED BY <4>3 DEF all
    <3> QED BY <3>4 DEF f, k, n
  <2>2. ASSUME NEW j \in Bufs
        PROVE  /\ j \in free' \/ Contains(reqq', j) \/ Contains(cache', j)
               /\ ~(Contains(reqq', j) /\ Contains(cache', j))
               /\ j \in free' => ~Contains(reqq', j) /\ ~Contains(cache', j)
    <3>1. CASE j = i
      BY <1>1, <1>3, <3>1
    <3>2. CASE j # i
      BY <1>1, <1>3, <1>t, <3>2 DEF OneList
    <3> QED BY <3>1, <3>2
  <2> QED BY <2>1, <2>2 DEF OneList
<1>7. PermitsThere'
  <2>1. SemOf(availsem, Procs, Allocating) /\ availsem.used /\ IsFiniteSet(Procs)
    BY DiskSets DEF DiskSound, PermitsThere
  <2>2. /\ SemOf(availsem', Procs, Allocating) /\ availsem'.used
        /\ permits(availsem', Allocating) = permits(availsem, Allocating) + 1
    <3>1. availsem' = signaled(availsem)
      BY DEF returned
    <3>2. /\ SemOf(signaled(availsem), Procs, Allocating) /\ signaled(availsem).used
          /\ permits(signaled(availsem), Allocating) = permits(availsem, Allocating) + 1
      BY <2>1, PermitsSignaled
    <3> QED BY <3>1, <3>2
  <2>3. Allocating' = Allocating
    BY DEF Allocating
  <2>4. permits(availsem', Allocating) >= Cardinality(free') + Len(cache')
    <3> DEFINE f == Cardinality(free') + Len(cache')
               n == permits(availsem', Allocating)
    <3>1. f = Cardinality(free) + Len(cache) + 1 /\ n = permits(availsem, Allocating) + 1
      BY <1>3, <2>2
    <3>2. permits(availsem, Allocating) >= Cardinality(free) + Len(cache)
      BY DEF DiskSound, PermitsThere
    <3> HIDE DEF f, n
    <3>3. n >= f
      BY <3>1, <3>2, Numbers
    <3> QED BY <3>3 DEF f, n
  <2> QED BY <2>2, <2>3, <2>4 DEF PermitsThere
<1>8. RequestsAwaited'
  <2>1. ASSUME NEW j \in Bufs, Asks(j)'
        PROVE  /\ Asks(j) /\ prmsg'[buf[j].pid] = prmsg[buf[j].pid]
    <3>1. Asks(j) /\ j # i
      BY <1>1, <2>1 DEF Asks
    <3>2. AskerWaits(j, buf[j].pid)
      BY <3>1 DEF DiskSound, RequestsAwaited
    <3>3. ~(Asks(i) /\ buf[j].pid = buf[i].pid)
      BY <1>1, <3>1 DEF DiskSound, RequestsAwaited
    <3> QED BY <3>1, <3>2, <3>3 DEF AskerWaits
  <2> QED BY <2>1, RequestsKept DEF DiskSound
<1>9. ToldSafe'
  <2> SUFFICES ASSUME NEW q \in Procs, Told(q)' PROVE KeptFor(q, prmsg[q])'
    BY DEF ToldSafe
  <2>1. CASE prmsg'[q] = prmsg[q]
    <3>1. KeptFor(q, prmsg[q])
      BY <2>1 DEF DiskSound, ToldSafe, Told
    <3>2. prmsg[q] # i
      BY <1>2, <3>1 DEF KeptFor
    <3> QED BY <1>3, <2>1, <3>1, <3>2 DEF KeptFor
  <2> QED BY <2>1
<1>10. HeadRead'
  BY DEF HeadRead
<1>11. SignalsCovered'
  <2>1. Unsignaled' = Unsignaled
    BY DEF Unsignaled
  <2>2. reqsem' \in Nat /\ reqsem \in Nat
    BY <1>t DEF ComTyped
  <2>3. reqsem + (IF Reads THEN 1 ELSE 0) + Cardinality(Unsignaled) <= Len(reqq)
    BY DEF DiskSound, SignalsCovered
  <2>4. reqsem' + Cardinality(Unsignaled) <= Len(reqq')
    <3>1. Len(reqq') = Len(reqq) - 1 /\ reqsem' + 1 = reqsem + (IF Reads THEN 1 ELSE 0)
      BY <1>1
    <3>2. Cardinality(Unsignaled) \in Nat /\ Len(reqq) \in Nat
      BY Numbers
    <3> DEFINE u == Cardinality(Unsignaled)
               x == IF Reads THEN 1 ELSE 0
               n == Len(reqq)
               m == Len(reqq')
    <3>3. x \in Nat
      OBVIOUS
    <3> HIDE DEF u, x, n, m
    <3>4. m = n - 1 /\ reqsem' + 1 = reqsem + x /\ u \in Nat /\ n \in Nat /\ reqsem + x + u <= n
      BY <2>3, <3>1, <3>2 DEF u, x, n, m
    <3>5. reqsem' + u <= m
      BY <2>2, <3>3, <3>4, OneServed
    <3> QED BY <3>5 DEF u, m
  <2> QED BY <2>1, <2>2, <2>4, Numbers DEF SignalsCovered
<1> QED BY <1>4, <1>5, <1>6, <1>7, <1>8, <1>9, <1>10, <1>11 DEF DiskSound

\* A step that leaves buffers and processes alone.
LEMMA ComOnly ==
    ASSUME DiskSound, SameBuffers, availsem' = availsem, doing' = doing, prmsg' = prmsg,
           ComTyped', HeadRead',
           reqsem' + (IF Reads' THEN 1 ELSE 0) = reqsem + (IF Reads THEN 1 ELSE 0)
    PROVE  DiskSound'
<1>1. TablesTyped' /\ CallsTyped' /\ OneList' /\ PermitsThere'
  BY DEF DiskSound, TablesTyped, CallsTyped, OneList, PermitsThere, Allocating, SameBuffers
<1>2. RequestsAwaited' /\ ToldSafe'
  BY DEF DiskSound, RequestsAwaited, Asks, AskerWaits, ToldSafe, Told, KeptFor, SameBuffers
<1>3. SignalsCovered'
  <2>1. Unsignaled' = Unsignaled /\ Len(reqq') = Len(reqq)
    BY DEF Unsignaled, SameBuffers
  <2> QED BY <2>1 DEF DiskSound, SignalsCovered
<1> QED BY <1>1, <1>2, <1>3 DEF DiskSound

\* The start of an exchange.
LEMMA ExchangeFacts ==
    ASSUME ComTyped, NEW e \in Buffer, e.op \in {"READ", "WRITE"}, e.op = "WRITE" => e.data \in Data,
           exchange(e)
    PROVE  /\ com' \in Exchange /\ com' # WAITS /\ com'.op = e.op /\ com'.blk = e.blk
           /\ com'.data = e.data
           /\ replies' \subseteq [fresh : BOOLEAN, op : {"READ", "WRITE"}, data : Data \cup {NONE}]
           /\ \A r \in replies' : ~r.fresh
<1>1. /\ com' = [at |-> "try", op |-> e.op, blk |-> e.blk, data |-> e.data, tries |-> 0,
                 xmit |-> TRUE]
      /\ \E old \in SUBSET replies : replies' = {[r EXCEPT !.fresh = FALSE] : r \in old}
  BY DEF exchange
<1>2. com' \in Exchange /\ com'.op = e.op /\ com'.blk = e.blk /\ com'.data = e.data
  BY <1>1 DEF Exchange, Buffer
<1>3. com' # WAITS
  <2>1. com'.at = "try" /\ WAITS.at = "wait"
    BY <1>1 DEF WAITS
  <2> QED BY <2>1
<1>4. /\ replies' \subseteq [fresh : BOOLEAN, op : {"READ", "WRITE"}, data : Data \cup {NONE}]
      /\ \A r \in replies' : ~r.fresh
  <2>1. PICK old \in SUBSET replies : replies' = {[r EXCEPT !.fresh = FALSE] : r \in old}
    BY <1>1
  <2> SUFFICES ASSUME NEW r \in old
               PROVE  LET s == [r EXCEPT !.fresh = FALSE] IN
                         /\ s \in [fresh : BOOLEAN, op : {"READ", "WRITE"}, data : Data \cup {NONE}]
                         /\ ~s.fresh
    BY <2>1
  <2>2. r \in [fresh : BOOLEAN, op : {"READ", "WRITE"}, data : Data \cup {NONE}]
    BY DEF ComTyped
  <2> QED BY <2>2
<1> QED BY <1>2, <1>3, <1>4

\* The first request there is.
LEMMA HeadFacts ==
    ASSUME DiskSound, reqq # <<>>
    PROVE  /\ Head(reqq) \in Bufs /\ Contains(reqq, Head(reqq))
           /\ buf[Head(reqq)] \in Buffer /\ (buf[Head(reqq)].op = "WRITE" => buf[Head(reqq)].data \in Data)
           /\ buf[Head(reqq)].op # "WRITE" =>
                 Asks(Head(reqq)) /\ AskerWaits(Head(reqq), buf[Head(reqq)].pid)
<1>1. Head(reqq) \in Bufs /\ Contains(reqq, Head(reqq))
  BY TailList DEF DiskSound, TablesTyped
<1>2. buf[Head(reqq)] \in Buffer /\ (buf[Head(reqq)].op = "WRITE" => buf[Head(reqq)].data \in Data)
  BY <1>1, BufFields DEF DiskSound
<1>3. buf[Head(reqq)].op # "WRITE" =>
         Asks(Head(reqq)) /\ AskerWaits(Head(reqq), buf[Head(reqq)].pid)
  BY <1>1 DEF Asks, DiskSound, RequestsAwaited
<1> QED BY <1>1, <1>2, <1>3

\* A buffer that keeps its request.
SameRequest(j) ==
    /\ buf'[j].op = buf[j].op /\ buf'[j].blk = buf[j].blk
    /\ buf'[j].pid = buf[j].pid /\ buf'[j].status = buf[j].status

\* A field of a buffer is set.
LEMMA RefcntSet ==
    ASSUME TablesTyped, NEW i \in Bufs, NEW n \in Int, buf' = [buf EXCEPT ![i].refcnt = n]
    PROVE  /\ buf' \in [Bufs -> Buffer] /\ buf'[i].refcnt = n
           /\ \A j \in Bufs : SameRequest(j) /\ buf'[j].data = buf[j].data
           /\ \A j \in Bufs \ {i} : buf'[j] = buf[j]
<1> DEFINE e == [buf[i] EXCEPT !.refcnt = n]
<1>1. /\ e \in Buffer /\ e.op = buf[i].op /\ e.blk = buf[i].blk /\ e.pid = buf[i].pid
      /\ e.status = buf[i].status /\ e.data = buf[i].data /\ e.refcnt = n
  BY BufFields DEF Buffer
<1>2. buf' = [buf EXCEPT ![i] = e] /\ buf \in [Bufs -> Buffer]
  BY DEF TablesTyped
<1> HIDE DEF e
<1>3. buf' \in [Bufs -> Buffer] /\ buf'[i] = e /\ \A j \in Bufs \ {i} : buf'[j] = buf[j]
  BY <1>1, <1>2
<1> QED BY <1>1, <1>3 DEF SameRequest

\* The data comes.
LEMMA DataSet ==
    ASSUME TablesTyped, NEW i \in Bufs, NEW d \in Data \cup {NONE},
           buf' = [buf EXCEPT ![i].data = d, ![i].refcnt = 1]
    PROVE  /\ buf' \in [Bufs -> Buffer] /\ buf'[i].refcnt = 1 /\ SameRequest(i)
           /\ \A j \in Bufs \ {i} : buf'[j] = buf[j]
<1> DEFINE e == [buf[i] EXCEPT !.data = d, !.refcnt = 1]
<1>1. /\ e \in Buffer /\ e.op = buf[i].op /\ e.blk = buf[i].blk /\ e.pid = buf[i].pid
      /\ e.status = buf[i].status /\ e.refcnt = 1
  <2> DEFINE b == buf[i]
             D == Data \cup {NONE}
  <2>1. b \in Buffer /\ d \in D
    BY BufFields
  <2> HIDE DEF b, D
  <2>2. LET f == [b EXCEPT !.data = d, !.refcnt = 1] IN
           /\ f \in [op : {"NONE", "READ", "WRITE", "SYNC"}, blk : Blocks, status : {"VALID", "INVALID"},
                      refcnt : Int, pid : Procs \cup {NONE}, data : D]
           /\ f.op = b.op /\ f.blk = b.blk /\ f.pid = b.pid /\ f.status = b.status /\ f.refcnt = 1
    <3>1. b \in [op : {"NONE", "READ", "WRITE", "SYNC"}, blk : Blocks, status : {"VALID", "INVALID"},
                 refcnt : Int, pid : Procs \cup {NONE}, data : D]
      BY <2>1 DEF Buffer, D
    <3> DEFINE g == [b EXCEPT !.data = d]
    <3>2. /\ g \in [op : {"NONE", "READ", "WRITE", "SYNC"}, blk : Blocks, status : {"VALID", "INVALID"},
                    refcnt : Int, pid : Procs \cup {NONE}, data : D]
          /\ g.op = b.op /\ g.blk = b.blk /\ g.pid = b.pid /\ g.status = b.status
      BY <2>1, <3>1
    <3>3. [b EXCEPT !.data = d, !.refcnt = 1] = [g EXCEPT !.refcnt = 1]
      OBVIOUS
    <3> HIDE DEF g
    <3>4. LET f == [g EXCEPT !.refcnt = 1] IN
             /\ f \in [op : {"NONE", "READ", "WRITE", "SYNC"}, blk : Blocks, status : {"VALID", "INVALID"},
                        refcnt : Int, pid : Procs \cup {NONE}, data : D]
             /\ f.op = g.op /\ f.blk = g.blk /\ f.pid = g.pid /\ f.status = g.status /\ f.refcnt = 1
      BY <3>2
    <3> QED BY <3>2, <3>3, <3>4
  <2> QED BY <2>2 DEF Buffer, b, D
<1>2. buf' = [buf EXCEPT ![i] = e] /\ buf \in [Bufs -> Buffer]
  BY DEF TablesTyped
<1> HIDE DEF e
<1>3. buf' \in [Bufs -> Buffer] /\ buf'[i] = e /\ \A j \in Bufs \ {i} : buf'[j] = buf[j]
  BY <1>1, <1>2
<1> QED BY <1>1, <1>3 DEF SameRequest

\* A request is taken on.
LEMMA ComStartSound ==
    ASSUME DiskSound, comStart
    PROVE  DiskSound'
<1> DEFINE i == Head(reqq)
           e == buf[i]
<1>t. TablesTyped /\ CallsTyped /\ ComTyped
  BY DEF DiskSound
<1>1. /\ com = WAITS /\ reqsem > 0 /\ reqsem' = reqsem - 1 /\ doing' = doing
      /\ server' = server /\ written' = written
  BY DEF comStart
<1>2. ~Reads /\ reqsem \in Nat /\ reqsem' \in Nat
  BY <1>1, <1>t DEF Reads, ComTyped
<1>3. reqq # <<>>
  <2>1. Len(reqq) >= 1
    BY <1>1, <1>2, Numbers DEF DiskSound, SignalsCovered
  <2> QED BY <2>1
<1>4. /\ i \in Bufs /\ Contains(reqq, i) /\ e \in Buffer /\ (e.op = "WRITE" => e.data \in Data)
      /\ e.op # "WRITE" => Asks(i) /\ AskerWaits(i, e.pid)
  BY <1>3, HeadFacts
<1> HIDE DEF e
<1>5. CASE /\ e.op = "READ" /\ exchange(e)
           /\ UNCHANGED <<buf, free, reqq, cache, availsem, asked, prmsg>>
  <2>1. /\ com' \in Exchange /\ com' # WAITS /\ com'.op = "READ" /\ com'.blk = e.blk
        /\ replies' \subseteq [fresh : BOOLEAN, op : {"READ", "WRITE"}, data : Data \cup {NONE}]
    BY <1>4, <1>5, <1>t, ExchangeFacts
  <2>2. ComTyped'
    BY <1>1, <1>2, <1>5, <1>t, <2>1 DEF ComTyped
  <2>3. HeadRead' /\ Reads'
    BY <1>3, <1>5, <2>1 DEF HeadRead, Reads, e
  <2>4. reqsem' + (IF Reads' THEN 1 ELSE 0) = reqsem + (IF Reads THEN 1 ELSE 0)
    BY <1>1, <1>2, <2>3
  <2> QED BY <1>1, <1>5, <2>2, <2>3, <2>4, ComOnly DEF SameBuffers
<1>6. CASE /\ e.op = "WRITE" /\ reqq' = Tail(reqq) /\ cache' = <<i>> \o cache
           /\ buf' = [buf EXCEPT ![i].refcnt = 0] /\ availsem' = returned(availsem)
           /\ asked' = e.blk /\ exchange(e) /\ UNCHANGED <<free, prmsg>>
  <2>1. /\ com' \in Exchange /\ com' # WAITS /\ com'.op = "WRITE" /\ com'.data = e.data
        /\ replies' \subseteq [fresh : BOOLEAN, op : {"READ", "WRITE"}, data : Data \cup {NONE}]
    BY <1>4, <1>6, <1>t, ExchangeFacts
  <2>2. e.blk \in Blocks
    BY <1>4 DEF Buffer
  <2>3. ComTyped'
    BY <1>1, <1>2, <1>4, <1>6, <1>t, <2>1, <2>2 DEF ComTyped
  <2>4. ~Reads' /\ reqsem' + 1 = reqsem + (IF Reads THEN 1 ELSE 0)
    BY <1>1, <1>2, <2>1 DEF Reads
  <2>5. /\ buf' \in [Bufs -> Buffer]
        /\ \A j \in Bufs : SameRequest(j) /\ buf'[j].data = buf[j].data
        /\ \A j \in Bufs \ {i} : buf'[j].refcnt = buf[j].refcnt
    <3> HIDE DEF i
    <3>1. 0 \in Int /\ buf' = [buf EXCEPT ![i].refcnt = 0] /\ i \in Bufs
      BY <1>4, <1>6
    <3> QED BY <1>t, <3>1, RefcntSet
  <2>6. prmsg' \in [Procs -> Bufs \cup {NONE, OK}] /\ \A q \in Procs : prmsg'[q] = prmsg[q]
    BY <1>6, <1>t DEF CallsTyped
  <2> HIDE DEF i
  <2> QED BY <1>1, <1>3, <1>6, <2>3, <2>4, <2>5, <2>6, HeadServed DEF SameRequest, i
<1>7. CASE /\ e.op = "SYNC" /\ prmsg' = [prmsg EXCEPT ![e.pid] = IF @ = NONE THEN OK ELSE @]
           /\ reqq' = Tail(reqq) /\ free' = free \cup {i} /\ availsem' = returned(availsem)
           /\ UNCHANGED <<buf, cache, com, asked, replies>>
  <2>1. ~Reads' /\ reqsem' + 1 = reqsem + (IF Reads THEN 1 ELSE 0)
    BY <1>1, <1>2, <1>7 DEF Reads
  <2>2. ComTyped'
    BY <1>1, <1>2, <1>7, <1>t DEF ComTyped
  <2>3. e.pid \in Procs /\ doing[e.pid].op = "SYNC" /\ Asks(i)
    BY <1>4, <1>7 DEF AskerWaits, e
  <2>4. prmsg' \in [Procs -> Bufs \cup {NONE, OK}]
    BY <1>7, <1>t, <2>3 DEF CallsTyped
  <2>5. ASSUME NEW q \in Procs
        PROVE  \/ prmsg'[q] = prmsg[q]
               \/ Asks(i) /\ q = buf[i].pid /\ (Told(q)' => KeptFor(q, prmsg[q])')
    <3>1. CASE q = e.pid
      <4>1. ~Told(q)'
        BY <1>1, <2>3, <3>1 DEF Told
      <4> QED BY <2>3, <3>1, <4>1 DEF e
    <3>2. CASE q # e.pid
      BY <1>7, <1>t, <3>2 DEF CallsTyped
    <3> QED BY <3>1, <3>2
  <2>6. buf' \in [Bufs -> Buffer]
    BY <1>7, <1>t DEF TablesTyped
  <2> HIDE DEF i
  <2> QED BY <1>1, <1>3, <1>7, <2>1, <2>2, <2>4, <2>5, <2>6, HeadServed DEF i
<1> QED BY <1>5, <1>6, <1>7 DEF comStart, e

\* An exchange that is under way.
LEMMA ComFacts ==
    ASSUME ComTyped, com.at \in {"try", "recv"}
    PROVE  /\ com # WAITS /\ com \in Exchange /\ com.op \in {"READ", "WRITE"} /\ com.blk \in Blocks
           /\ com.op = "WRITE" => com.data \in Data
<1>1. com # WAITS
  BY DEF WAITS
<1> QED BY <1>1 DEF ComTyped, Exchange

\* The exchange goes on: only the fields that say how far it got change.
LEMMA ExchangeGoesOn ==
    ASSUME DiskSound, com.at \in {"try", "recv"}, com' \in Exchange, com' # WAITS,
           com'.op = com.op, com'.blk = com.blk, com'.data = com.data,
           replies' \subseteq [fresh : BOOLEAN, op : {"READ", "WRITE"}, data : Data \cup {NONE}],
           server' \in [Blocks -> Data], SameBuffers,
           UNCHANGED <<availsem, reqsem, asked, doing, prmsg, written>>
    PROVE  DiskSound'
<1>1. ComTyped
  BY DEF DiskSound
<1>2. com # WAITS /\ (com.op = "WRITE" => com.data \in Data)
  BY <1>1, ComFacts
<1>3. ComTyped'
  BY <1>1, <1>2 DEF ComTyped
<1>4. Reads' = Reads
  BY <1>2 DEF Reads
<1>5. HeadRead'
  BY <1>4 DEF DiskSound, HeadRead, SameBuffers
<1> QED BY <1>3, <1>4, <1>5, ComOnly

\* A request is sent.
LEMMA ComSendSound ==
    ASSUME DiskSound, comSend
    PROVE  DiskSound'
<1>t. ComTyped
  BY DEF DiskSound
<1>1. /\ com.at = "try" /\ com' = [com EXCEPT !.at = "recv", !.xmit = TRUE, !.tries = tried(@)]
      /\ SameBuffers /\ UNCHANGED <<availsem, reqsem, asked, doing, prmsg, written>>
  BY DEF comSend, SameBuffers
<1>2. com \in Exchange /\ com.op \in {"READ", "WRITE"} /\ com.blk \in Blocks /\ (com.op = "WRITE" => com.data \in Data)
  BY <1>1, <1>t, ComFacts
<1>3. /\ com' \in Exchange /\ com'.op = com.op /\ com'.blk = com.blk /\ com'.data = com.data
      /\ com' # WAITS
  <2>1. com' = [com EXCEPT !.at = "recv", !.xmit = TRUE, !.tries = com.tries + 1]
    BY <1>1 DEF tried
  <2> DEFINE c1 == [com EXCEPT !.at = "recv"]
             c2 == [c1 EXCEPT !.xmit = TRUE]
             c3 == [c2 EXCEPT !.tries = com.tries + 1]
  <2>2. c1 \in Exchange /\ c1.at = "recv" /\ c1.op = com.op /\ c1.blk = com.blk /\ c1.data = com.data
    BY <1>2 DEF Exchange
  <2>3. com.tries + 1 \in Int
    BY <1>2 DEF Exchange
  <2>4. com' = c3
    BY <1>2, <2>1 DEF Exchange
  <2> HIDE DEF c1
  <2>5. c2 \in Exchange /\ c2.at = "recv" /\ c2.op = com.op /\ c2.blk = com.blk /\ c2.data = com.data
    BY <2>2 DEF Exchange
  <2> HIDE DEF c2
  <2>6. c3 \in Exchange /\ c3.at = "recv" /\ c3.op = com.op /\ c3.blk = com.blk /\ c3.data = com.data
    BY <2>3, <2>5 DEF Exchange
  <2>7. WAITS.at = "wait"
    BY DEF WAITS
  <2> HIDE DEF c3
  <2> QED BY <2>4, <2>6, <2>7
<1>4. server' \in [Blocks -> Data]
  <2>1. \/ server' = server
        \/ server' = IF com.op = "WRITE" THEN [server EXCEPT ![com.blk] = com.data] ELSE server
    BY DEF comSend
  <2> QED BY <1>2, <1>t, <2>1 DEF ComTyped
<1>5. replies' \subseteq [fresh : BOOLEAN, op : {"READ", "WRITE"}, data : Data \cup {NONE}]
  <2>1. answers \subseteq [fresh : BOOLEAN, op : {"READ", "WRITE"}, data : Data \cup {NONE}]
    <3>1. CASE com.op = "WRITE"
      BY <3>1 DEF answers
    <3>2. CASE com.op # "WRITE"
      <4> DEFINE S == IF asked = NONE THEN Blocks ELSE {asked}
      <4>1. \A b \in S : server[b] \in Data
        BY <1>t DEF ComTyped
      <4>2. answers = {[fresh |-> TRUE, op |-> "READ", data |-> server[b]] : b \in S}
        BY <3>2 DEF answers
      <4> HIDE DEF S
      <4>3. ASSUME NEW b \in S
            PROVE  [fresh |-> TRUE, op |-> "READ", data |-> server[b]]
                      \in [fresh : BOOLEAN, op : {"READ", "WRITE"}, data : Data \cup {NONE}]
        BY <4>1
      <4> QED BY <4>2, <4>3
    <3> QED BY <3>1, <3>2
  <2>2. replies' = replies \/ \E r \in answers : replies' = replies \cup {r}
    BY DEF comSend
  <2> QED BY <1>t, <2>1, <2>2 DEF ComTyped
<1> QED BY <1>1, <1>3, <1>4, <1>5, ExchangeGoesOn

\* No reply comes in time.
LEMMA ComTimeoutSound ==
    ASSUME DiskSound, comTimeout
    PROVE  DiskSound'
<1>t. ComTyped
  BY DEF DiskSound
<1>1. /\ com.at = "recv" /\ com' = [com EXCEPT !.at = "try"]
      /\ SameBuffers /\ UNCHANGED <<availsem, reqsem, asked, doing, prmsg, written, replies, server>>
  BY DEF comTimeout, SameBuffers
<1>2. com \in Exchange
  BY <1>1, <1>t, ComFacts
<1>3. /\ com' \in Exchange /\ com'.op = com.op /\ com'.blk = com.blk /\ com'.data = com.data
      /\ com'.at = "try"
  BY <1>1, <1>2 DEF Exchange
<1>4. com' # WAITS
  BY <1>3 DEF WAITS
<1>5. replies' \subseteq [fresh : BOOLEAN, op : {"READ", "WRITE"}, data : Data \cup {NONE}] /\ server' \in [Blocks -> Data]
  BY <1>1, <1>t DEF ComTyped
<1> QED BY <1>1, <1>3, <1>4, <1>5, ExchangeGoesOn

\* A reply comes.
LEMMA ComRecvSound ==
    ASSUME DiskSound, NEW r \in replies, comRecv(r)
    PROVE  DiskSound'
<1>t. TablesTyped /\ CallsTyped /\ ComTyped
  BY DEF DiskSound
<1>1. /\ com.at = "recv" /\ replies' \subseteq replies
      /\ UNCHANGED <<free, reqsem, asked, doing, server, written>>
  BY DEF comRecv
<1>2. /\ com \in Exchange /\ com # WAITS /\ com.op \in {"READ", "WRITE"}
      /\ r \in [fresh : BOOLEAN, op : {"READ", "WRITE"}, data : Data \cup {NONE}]
      /\ replies' \subseteq [fresh : BOOLEAN, op : {"READ", "WRITE"}, data : Data \cup {NONE}]
      /\ server' \in [Blocks -> Data]
  BY <1>1, <1>t, ComFacts DEF ComTyped
<1>3. CASE com' = WAITS
  <2>1. ~Reads' /\ ComTyped'
    BY <1>1, <1>2, <1>3, <1>t DEF Reads, ComTyped
  <2>2. CASE com.op = "READ" /\ readDone(r.data)
    <3> DEFINE i == Head(reqq)
    <3>1. Reads
      BY <1>2, <2>2 DEF Reads
    <3>2. reqq # <<>> /\ buf[i].op = "READ"
      BY <3>1 DEF DiskSound, HeadRead
    <3>3. i \in Bufs /\ Asks(i) /\ AskerWaits(i, buf[i].pid)
      BY <3>2, HeadFacts
    <3>4. /\ buf' = [buf EXCEPT ![i].data = r.data, ![i].refcnt = 1] /\ reqq' = Tail(reqq)
          /\ cache' = <<i>> \o cache /\ availsem' = returned(availsem)
          /\ prmsg' = [prmsg EXCEPT ![buf[i].pid] = IF @ = NONE THEN i ELSE @]
      BY <2>2 DEF readDone
    <3> HIDE DEF i
    <3>5. r.data \in Data \cup {NONE}
      BY <1>2
    <3>6. /\ buf' \in [Bufs -> Buffer] /\ buf'[i].refcnt = 1 /\ SameRequest(i)
          /\ \A j \in Bufs \ {i} : buf'[j] = buf[j]
      BY <1>t, <3>3, <3>4, <3>5, DataSet
    <3>7. \A j \in Bufs : /\ SameRequest(j)
                          /\ buf[j].op = "WRITE" => buf'[j].data = buf[j].data
                          /\ j # i => buf'[j].refcnt = buf[j].refcnt
      BY <3>2, <3>6 DEF SameRequest
    <3>8. buf[i].pid \in Procs
      BY <3>3 DEF AskerWaits
    <3>9. prmsg' \in [Procs -> Bufs \cup {NONE, OK}]
      BY <1>t, <3>3, <3>4, <3>8 DEF CallsTyped
    <3>10. Contains(cache', i)
      <4>1. cache' = <<i>> \o cache /\ cache \in Seq(Bufs)
        BY <1>t, <3>4 DEF TablesTyped
      <4>2. Contains(<<i>>, i) /\ <<i>> \in Seq(Bufs)
        BY <3>3, UnitList
      <4> QED BY <4>1, <4>2, ConcatList
    <3>11. ASSUME NEW q \in Procs
           PROVE  \/ prmsg'[q] = prmsg[q]
                  \/ Asks(i) /\ q = buf[i].pid /\ (Told(q)' => KeptFor(q, prmsg[q])')
      <4>1. CASE q # buf[i].pid \/ prmsg[q] # NONE
        BY <1>t, <3>4, <3>8, <4>1 DEF CallsTyped
      <4>2. CASE q = buf[i].pid /\ prmsg[q] = NONE
        <5>1. prmsg'[q] = i
          BY <1>t, <3>4, <3>8, <4>2 DEF CallsTyped
        <5>2. i \in Bufs /\ Contains(cache', i) /\ buf'[i].refcnt >= 1 /\ buf'[i].pid = q
          BY <3>3, <3>6, <3>10, <4>2 DEF SameRequest
        <5>3. KeptFor(q, prmsg[q])'
          BY <5>1, <5>2 DEF KeptFor
        <5> QED BY <3>3, <4>2, <5>3
      <4> QED BY <4>1, <4>2
    <3>12. reqsem' + 1 = reqsem + (IF Reads THEN 1 ELSE 0)
      BY <1>1, <3>1
    <3> QED BY <1>1, <2>1, <3>2, <3>4, <3>6, <3>7, <3>9, <3>11, <3>12, HeadServed DEF i, SameRequest
  <2>3. CASE com.op = "WRITE" /\ writeDone(r.fresh)
    <3>1. SameBuffers /\ availsem' = availsem /\ prmsg' = prmsg /\ ~Reads
      BY <1>1, <2>3 DEF writeDone, SameBuffers, Reads
    <3>2. HeadRead'
      BY <2>1 DEF HeadRead
    <3> QED BY <1>1, <2>1, <3>1, <3>2, ComOnly
  <2>4. \/ com.op = "READ" /\ readDone(r.data)
        \/ com.op = "WRITE" /\ writeDone(r.fresh)
    <3>1. WAITS # [com EXCEPT !.at = "try", !.xmit = r.fresh]
      <4>1. WAITS.at = "wait" /\ [com EXCEPT !.at = "try", !.xmit = r.fresh].at = "try"
        BY <1>2 DEF WAITS, Exchange
      <4> QED BY <4>1
    <3> QED BY <1>3, <3>1 DEF comRecv
  <2> QED BY <2>2, <2>3, <2>4
<1>4. CASE /\ com' = [com EXCEPT !.at = "try", !.xmit = r.fresh]
           /\ UNCHANGED <<buf, reqq, cache, availsem, prmsg, doubted, fault>>
  <2>1. r.fresh \in BOOLEAN
    BY <1>2
  <2>2. /\ com' \in Exchange /\ com'.op = com.op /\ com'.blk = com.blk /\ com'.data = com.data
        /\ com'.at = "try"
    BY <1>2, <1>4, <2>1 DEF Exchange
  <2>3. com' # WAITS
    BY <2>2 DEF WAITS
  <2> QED BY <1>1, <1>2, <1>4, <2>2, <2>3, ExchangeGoesOn DEF SameBuffers
<1> QED BY <1>3, <1>4 DEF comRecv

\* Nothing happens after a fault.
LEMMA StepsWithoutFault ==
    ASSUME Next
    PROVE  fault = "none"
<1>1. ASSUME NEW p \in Procs, NEW place, Stands(p, place) PROVE fault = "none"
  BY <1>1 DEF Stands, Turn
<1>2. ASSUME NEW p \in Procs, Calling(p) PROVE fault = "none"
  BY <1>1, <1>2 DEF Calling, rdsread, rdswrite, rdscontrolSync
<1>3. ASSUME NEW p \in Procs, Going(p) PROVE fault = "none"
  BY <1>1, <1>3 DEF Going, rdsbufalloc, Turn, Await, rdsreadEnd, syncEnd
<1>4. ASSUME Communicating PROVE fault = "none"
  BY <1>4 DEF Communicating, comStart, comSend, comTimeout, comFail, comRecv
<1> QED BY <1>2, <1>3, <1>4 DEF Next

\* Every step keeps the buffers, the requests and the permits in order.
LEMMA NextSound ==
    ASSUME DiskSound, Next, fault' = "none"
    PROVE  DiskSound'
<1>1. CASE Communicating
  <2>1. ~comFail
    BY DEF comFail
  <2> QED BY <1>1, <2>1, ComStartSound, ComSendSound, ComTimeoutSound, ComRecvSound DEF Communicating
<1>2. ASSUME NEW p \in Procs, Calling(p) PROVE DiskSound'
  BY <1>2, RdsreadSound, RdswriteSound, SyncSound DEF Calling
<1>3. ASSUME NEW p \in Procs, Going(p) PROVE DiskSound'
  BY <1>3, BufallocSound, AwaitSound, RdsreadEndSound, SyncEndSound DEF Going
<1> QED BY <1>1, <1>2, <1>3 DEF Next

\* Nothing happens.
LEMMA StutterSound ==
    ASSUME DiskSound, UNCHANGED rdsVars
    PROVE  DiskSound'
<1>1. SameBuffers /\ SameCom /\ UNCHANGED <<availsem, doing, prmsg, written, fault>>
  BY DEF rdsVars, SameBuffers, SameCom
<1>2. ComTyped' /\ HeadRead' /\ Reads' = Reads
  BY <1>1 DEF DiskSound, ComTyped, HeadRead, Reads, SameBuffers, SameCom
<1>3. reqsem' + (IF Reads' THEN 1 ELSE 0) = reqsem + (IF Reads THEN 1 ELSE 0)
  BY <1>1, <1>2 DEF SameCom
<1> QED BY <1>1, <1>2, <1>3, ComOnly

\* At first all buffers are free.
LEMMA InitSound ==
    ASSUME rdsinit
    PROVE  DiskSound
<1>0. /\ \A i \in Bufs : /\ buf[i].op = "NONE" /\ buf[i].status = "INVALID"
      /\ free = Bufs /\ reqq = <<>> /\ cache = <<>> /\ availsem = Sem(RD_BUFFS) /\ reqsem = 0
      /\ com = WAITS /\ doing = [p \in Procs |-> USER]
  BY DEF rdsinit
<1>1. TablesTyped
  <2>1. buf \in [Bufs -> Buffer]
    BY DiskSets DEF rdsinit, Buffer
  <2> QED BY <1>0, <2>1, EmptyList DEF TablesTyped
<1>2. CallsTyped
  BY DEF rdsinit, CallsTyped
<1>3. ComTyped
  <2>1. (CHOOSE d \in Data : TRUE) \in Data
    BY RemoteDiskAssumption
  <2>2. server \in [Blocks -> Data] /\ written \in [Blocks -> Data]
    BY <2>1 DEF rdsinit
  <2>3. reqsem \in Nat /\ com = WAITS /\ asked = NONE /\ replies = {}
    BY DEF rdsinit
  <2> QED BY <2>2, <2>3 DEF ComTyped
<1>4. OneList
  BY <1>0, DiskSets, EmptyList DEF OneList
<1>5. \A p \in Procs : doing[p].at = "user"
  BY <1>0 DEF USER
<1>6. Allocating = {} /\ Unsignaled = {}
  BY <1>5 DEF Allocating, Unsignaled
<1>7. PermitsThere
  <2>1. SemSound(availsem, Procs) /\ available(availsem) = RD_BUFFS /\ availsem.used
        /\ \A q : ~waitsOn(q, availsem)
    BY <1>0, DiskSets, SemNew
  <2>2. SemOf(availsem, Procs, {}) /\ permits(availsem, {}) = RD_BUFFS
    BY <2>1, PermitsNew
  <2> QED BY <1>0, <1>6, <2>1, <2>2, DiskSets, EmptyList DEF PermitsThere
<1>8. RequestsAwaited
  BY <1>0, EmptyList DEF RequestsAwaited, Asks
<1>9. ToldSafe /\ ~Reads /\ HeadRead
  BY <1>0, <1>5 DEF ToldSafe, Told, Reads, HeadRead
<1>10. SignalsCovered
  <2>1. Cardinality(Unsignaled) = 0
    BY <1>6, FS_EmptySet
  <2> QED BY <1>0, <1>9, <2>1, EmptyList DEF SignalsCovered
<1> QED BY <1>1, <1>2, <1>3, <1>4, <1>7, <1>8, <1>9, <1>10 DEF DiskSound

\* What the invariant says about the buffers.
LEMMA SoundAccounts ==
    ASSUME DiskInv
    PROVE  BuffersAccounted
<1> SUFFICES ASSUME fault = "none"
             PROVE  NoBufferLost /\ BuffersInOneList
  BY DEF BuffersAccounted, NoBufferLost, BuffersInOneList
<1>1. DiskSound
  BY DEF DiskInv
<1>2. NoBufferLost
  <2>1. LetGo = letGo(availsem, Allocating)
    BY DEF LetGo, letGo, Allocating
  <2> QED BY <1>1, <2>1 DEF NoBufferLost, DiskSound, PermitsThere, permits
<1>3. BuffersInOneList
  <2>1. reqq \in Seq(Bufs) /\ cache \in Seq(Bufs) /\ free \subseteq Bufs /\ OneList
    BY <1>1 DEF DiskSound, TablesTyped
  <2>2. /\ \A m : m \in ToSet(reqq) <=> Contains(reqq, m)
        /\ \A m : Contains(reqq, m) => m \in Bufs
        /\ \A m : m \in ToSet(cache) <=> Contains(cache, m)
        /\ \A m : Contains(cache, m) => m \in Bufs
    BY <2>1, ListFacts
  <2>3. free \cup ToSet(reqq) \cup ToSet(cache) = Bufs
    BY <2>1, <2>2 DEF OneList
  <2>4. ASSUME NEW p \in Procs, Told(p) PROVE prmsg[p] \in ToSet(cache)
    BY <1>1, <2>2, <2>4 DEF DiskSound, ToldSafe, KeptFor
  <2> QED BY <2>1, <2>3, <2>4 DEF BuffersInOneList, OneList, Told
<1> QED BY <1>2, <1>3

\* Until a fault (a panic, or the links of rdsprocess.c:117) stops the system, no
\* buffer of the disk is lost or in two lists and none is without a permit, whatever
\* processes, the communication process, the server and the network do:
\* rdsbufalloc(), rdsread(), rdswrite(), rdscontrol() and rdsprocess().
THEOREM DiskBuffersAccounted == LiveSpec => []BuffersAccounted
<1>1. rdsinit => DiskInv
  BY InitSound DEF DiskInv
<1>2. ASSUME DiskInv, [Next]_rdsVars PROVE DiskInv'
  <2>1. CASE Next
    BY <1>2, <2>1, NextSound, StepsWithoutFault DEF DiskInv
  <2>2. CASE UNCHANGED rdsVars
    <3>1. fault' = fault
      BY <2>2 DEF rdsVars
    <3> QED BY <1>2, <2>2, <3>1, StutterSound DEF DiskInv
  <2> QED BY <1>2, <2>1, <2>2
<1>3. DiskInv => BuffersAccounted
  BY SoundAccounts
<1> QED BY <1>1, <1>2, <1>3, PTL DEF LiveSpec

-----------------------------------------------------------------------------
(* Where processes use their own blocks: copies of a block.                *)

\* A block has one owner.
LEMMA OneOwner ==
    ASSUME Shared = FALSE, NEW p \in Procs, NEW q \in Procs, NEW b, Uses(p, b), Uses(q, b)
    PROVE  q = p
<1>1. p \in Int /\ q \in Int
  BY RemoteDiskAssumption DEF Procs
<1> DEFINE m == b % NPROC
<1>2. m = p - 1 /\ m = q - 1
  BY DEF Uses
<1> HIDE DEF m
<1> QED BY <1>1, <1>2

\* Only its owner is in a call for a block.
LEMMA OwnerBusy ==
    ASSUME Shared = FALSE, OwnBlocks, NEW p \in Procs, NEW q \in Procs, NEW b, Uses(p, b), Busy(q, b)
    PROVE  q = p
<1>1. Uses(q, b)
  BY DEF OwnBlocks, Busy
<1> QED BY <1>1, OneOwner

\* Calls go on with the block they have, begin with a block of the process, or
\* end.
LEMMA OwnKept ==
    ASSUME OwnBlocks,
           \A p \in Procs :
              \/ doing'[p].at = "user"
              \/ doing[p].at # "user" /\ doing'[p].op = doing[p].op /\ doing'[p].blk = doing[p].blk
              \/ doing'[p].op = "SYNC" /\ doing'[p].blk = 0
              \/ doing'[p].op # "SYNC" /\ Uses(p, doing'[p].blk)
    PROVE  OwnBlocks'
<1> SUFFICES ASSUME NEW p \in Procs, doing'[p].at # "user"
             PROVE  IF doing'[p].op = "SYNC" THEN doing'[p].blk = 0 ELSE Uses(p, doing'[p].blk)
  BY DEF OwnBlocks, Uses
<1>1. doing[p].at # "user" =>
         IF doing[p].op = "SYNC" THEN doing[p].blk = 0 ELSE Uses(p, doing[p].blk)
  BY DEF OwnBlocks
<1> QED BY <1>1

\* A step that makes no copy of block b and starts no call for it.
LEMMA CopyKept ==
    ASSUME NEW b, CopyCurrent(b), written'[b] = written[b],
           \A i \in Bufs : Copy(i, b)' => Copy(i, b) /\ buf'[i].data = buf[i].data,
           \A i \in Bufs : Contains(cache', i) /\ Holds(i, b)' =>
              /\ Contains(cache, i) /\ Holds(i, b)
              /\ buf[i].refcnt <= 0 => buf'[i].refcnt <= 0
              /\ \A j \in Bufs : InFront(cache', j, i) =>
                    InFront(cache, j, i) /\ buf'[j].blk = buf[j].blk,
           \A p \in Procs : Busy(p, b)' => Busy(p, b)
    PROVE  CopyCurrent(b)'
<1>1. /\ \A i, j \in Bufs : Copy(i, b)' /\ Copy(j, b)' => i = j
      /\ \A i \in Bufs : Copy(i, b)' => buf'[i].data = written'[b]
  BY DEF CopyCurrent
<1>2. \A i \in Bufs : Contains(cache', i) /\ Holds(i, b)' =>
         buf'[i].refcnt <= 0 /\ \A j \in Bufs : InFront(cache', j, i) => buf'[j].blk # b
  BY DEF CopyCurrent
<1>3. \A p \in Procs : Busy(p, b)' => \A i \in Bufs : ~Copy(i, b)'
  BY DEF CopyCurrent
<1> QED BY <1>1, <1>2, <1>3 DEF CopyCurrent

\* A step after which there is no copy of block b.
LEMMA NoCopies ==
    ASSUME NEW b, \A i \in Bufs : ~Copy(i, b)'
    PROVE  CopyCurrent(b)'
BY DEF CopyCurrent, Copy, Listed

\* A step that makes a copy in the queue the only one.
LEMMA CopyMade ==
    ASSUME NEW b, NEW i \in Bufs, ~Contains(cache', i), \A j \in Bufs : Copy(j, b)' => j = i,
           buf'[i].data = written'[b], \A p \in Procs : ~Busy(p, b)'
    PROVE  CopyCurrent(b)'
<1>1. \A j \in Bufs : ~(Contains(cache', j) /\ Holds(j, b)')
  BY DEF Copy, Listed
<1> QED BY <1>1 DEF CopyCurrent

\* What steps of calls that move no buffer leave.
LEMMA CallsOnly ==
    ASSUME CurrentSound, SameBuffers, written' = written, OwnBlocks',
           \A b \in Blocks \ {0} :
              (\A p \in Procs : Busy(p, b)' => Busy(p, b)) \/ (\A i \in Bufs : ~Copy(i, b))
    PROVE  CurrentSound'
<1> SUFFICES ASSUME NEW b \in Blocks \ {0} PROVE CopyCurrent(b)'
  BY DEF CurrentSound
<1>1. /\ \A i \in Bufs : Copy(i, b)' <=> Copy(i, b)
      /\ \A i \in Bufs : Holds(i, b)' <=> Holds(i, b)
  BY DEF Copy, Listed, Holds, SameBuffers
<1>2. CASE \A i \in Bufs : ~Copy(i, b)
  BY <1>1, <1>2, NoCopies
<1>3. CASE \A p \in Procs : Busy(p, b)' => Busy(p, b)
  <2>1. CopyCurrent(b)
    BY DEF CurrentSound
  <2> QED BY <1>1, <1>3, <2>1, CopyKept DEF SameBuffers
<1> QED BY <1>2, <1>3

\* What insert() does.
LEMMA InsertFacts ==
    ASSUME TablesTyped, CallsTyped, NEW p \in Procs, NEW r \in Call, NEW i \in Bufs, insert(p, i, r)
    PROVE  /\ buf'[i].op = r.op /\ buf'[i].blk = r.blk /\ buf'[i].data = r.data
           /\ \A j \in Bufs \ {i} : buf'[j] = buf[j]
           /\ \A j : Contains(reqq', j) <=> Contains(reqq, j) \/ j = i
           /\ \A q \in Procs \ {p} : doing'[q] = doing[q]
           /\ r.op = "WRITE" => doing'[p].at = "user"
           /\ r.op # "WRITE" =>
                 doing'[p].at = "inserted" /\ doing'[p].op = r.op /\ doing'[p].blk = r.blk
           /\ written' = IF r.op = "WRITE" THEN [written EXCEPT ![r.blk] = r.data] ELSE written
<1> DEFINE e == [op |-> r.op, blk |-> r.blk, data |-> r.data, pid |-> p,
                 status |-> IF r.op = "WRITE" THEN "VALID" ELSE "INVALID",
                 refcnt |-> IF r.op = "WRITE" THEN 0 ELSE 1]
           u == IF r.op = "WRITE" THEN USER ELSE [r EXCEPT !.at = "inserted"]
<1>e. e.op = r.op /\ e.blk = r.blk /\ e.data = r.data
  OBVIOUS
<1>u. /\ r.op = "WRITE" => u.at = "user"
      /\ r.op # "WRITE" => u.at = "inserted" /\ u.op = r.op /\ u.blk = r.blk
  BY DEF USER, Call
<1>1. /\ buf' = [buf EXCEPT ![i] = e] /\ does(p, u) /\ reqq' = Append(reqq, i)
      /\ written' = IF r.op = "WRITE" THEN [written EXCEPT ![r.blk] = r.data] ELSE written
  BY DEF insert
<1> HIDE DEF e, u
<1>2. buf'[i] = e /\ \A j \in Bufs \ {i} : buf'[j] = buf[j]
  BY <1>1 DEF TablesTyped
<1>3. doing'[p] = u /\ \A q \in Procs \ {p} : doing'[q] = doing[q]
  BY <1>1 DEF does, CallsTyped
<1>4. \A j : Contains(reqq', j) <=> Contains(reqq, j) \/ j = i
  BY <1>1, AppendList DEF TablesTyped
<1> QED BY <1>1, <1>2, <1>3, <1>4, <1>e, <1>u

\* A request is put in the queue: if it is a write no other copy of the block
\* is left.
LEMMA InsertCurrent ==
    ASSUME Shared = FALSE, DiskSound, CurrentSound, NEW p \in Procs, NEW r \in Call, NEW i \in Bufs,
           insert(p, i, r), TakenOut(i),
           doing[p] = r \/ (doing[p].at = "user" /\ r.op = "WRITE"),
           r.op = "WRITE" => Uses(p, r.blk),
           r.op = "WRITE" /\ r.blk # 0 => \A j \in Bufs : Copy(j, r.blk) => j = i
    PROVE  CurrentSound'
<1>t. TablesTyped /\ CallsTyped /\ ComTyped /\ OneList /\ OwnBlocks
  BY DEF DiskSound, CurrentSound
<1>1. /\ buf'[i].op = r.op /\ buf'[i].blk = r.blk /\ buf'[i].data = r.data
      /\ \A j \in Bufs \ {i} : buf'[j] = buf[j]
      /\ \A j : Contains(reqq', j) <=> Contains(reqq, j) \/ j = i
      /\ \A q \in Procs \ {p} : doing'[q] = doing[q]
      /\ r.op = "WRITE" => doing'[p].at = "user"
      /\ r.op # "WRITE" =>
            doing'[p].at = "inserted" /\ doing'[p].op = r.op /\ doing'[p].blk = r.blk
      /\ written' = IF r.op = "WRITE" THEN [written EXCEPT ![r.blk] = r.data] ELSE written
  BY <1>t, InsertFacts
<1>2. /\ \A j \in Bufs : Contains(cache', j) <=> Contains(cache, j) /\ j # i
      /\ \A j, k : InFront(cache', j, k) => InFront(cache, j, k)
  BY DEF TakenOut
<1>3. r.at # "user" /\ r.blk \in Blocks
  BY CallFields
<1>4. OwnBlocks'
  <2>1. ASSUME NEW q \in Procs
        PROVE  \/ doing'[q].at = "user"
               \/ doing[q].at # "user" /\ doing'[q].op = doing[q].op /\ doing'[q].blk = doing[q].blk
    BY <1>1, <1>3
  <2> QED BY <1>t, <2>1, OwnKept
<1>5. ASSUME NEW b \in Blocks \ {0}, ~(r.op = "WRITE" /\ r.blk = b)
      PROVE  CopyCurrent(b)'
  <2>1. CopyCurrent(b)
    BY DEF CurrentSound
  <2>2. ~Holds(i, b)' /\ \A j \in Bufs \ {i} : Holds(j, b)' <=> Holds(j, b)
    BY <1>1, <1>5 DEF Holds
  <2>3. ASSUME NEW j \in Bufs, Copy(j, b)' PROVE Copy(j, b) /\ buf'[j].data = buf[j].data
    <3>1. j # i /\ Holds(j, b) /\ (Contains(reqq', j) \/ Contains(cache', j))
      BY <2>2, <2>3 DEF Copy, Listed
    <3> QED BY <1>1, <1>2, <3>1 DEF Copy, Listed
  <2>4. ASSUME NEW j \in Bufs, Contains(cache', j), Holds(j, b)'
        PROVE  /\ Contains(cache, j) /\ Holds(j, b)
               /\ buf[j].refcnt <= 0 => buf'[j].refcnt <= 0
               /\ \A k \in Bufs : InFront(cache', k, j) =>
                     InFront(cache, k, j) /\ buf'[k].blk = buf[k].blk
    <3>1. j # i /\ Holds(j, b) /\ Contains(cache, j) /\ buf'[j] = buf[j]
      BY <1>1, <1>2, <2>2, <2>4
    <3>2. ASSUME NEW k \in Bufs, InFront(cache', k, j)
          PROVE  InFront(cache, k, j) /\ buf'[k].blk = buf[k].blk
      <4>1. Contains(cache', k)
        BY <3>2 DEF InFront, Contains
      <4> QED BY <1>1, <1>2, <3>2, <4>1
    <3> QED BY <3>1, <3>2
  <2>5. written'[b] = written[b]
    BY <1>1, <1>3, <1>5, <1>t DEF ComTyped
  <2>6. ASSUME NEW q \in Procs, Busy(q, b)' PROVE Busy(q, b)
    BY <1>1, <1>3, <2>6 DEF Busy
  <2> QED BY <2>1, <2>3, <2>4, <2>5, <2>6, CopyKept
<1>6. ASSUME NEW b \in Blocks \ {0}, r.op = "WRITE", r.blk = b
      PROVE  CopyCurrent(b)'
  <2>1. ASSUME NEW j \in Bufs, Copy(j, b)' PROVE j = i
    <3>1. SUFFICES ASSUME j # i PROVE FALSE
      OBVIOUS
    <3>2. Copy(j, b)
      BY <1>1, <1>2, <2>1, <3>1 DEF Copy, Listed, Holds
    <3> QED BY <1>6, <3>1, <3>2
  <2>2. ~Contains(cache', i)
    BY <1>2
  <2>3. buf'[i].data = written'[b]
    BY <1>1, <1>3, <1>6, <1>t DEF ComTyped
  <2>4. ASSUME NEW q \in Procs, Busy(q, b)' PROVE FALSE
    <3>1. q # p
      BY <1>1, <1>6, <2>4 DEF Busy
    <3>2. Busy(q, b)
      BY <1>1, <2>4, <3>1 DEF Busy
    <3> QED BY <1>6, <1>t, <3>1, <3>2, OwnerBusy
  <2> QED BY <2>1, <2>2, <2>3, <2>4, CopyMade
<1> QED BY <1>4, <1>5, <1>6 DEF CurrentSound

\* A written copy in the cache is where the search for the block ends.
LEMMA FirstCopy ==
    ASSUME TablesTyped, NEW b, CopyCurrent(b), NEW i \in Bufs, Contains(cache, i), Holds(i, b)
    PROVE  /\ Places(cache, b) # {} /\ Lowest(Places(cache, b)) \in Places(cache, b)
           /\ cache[Lowest(Places(cache, b))] = i /\ buf[i].refcnt <= 0
<1> DEFINE c == Lowest(Places(cache, b))
<1>1. cache \in Seq(Bufs)
  BY DEF TablesTyped
<1>2. PICK n \in 1 .. Len(cache) : cache[n] = i
  BY DEF Contains
<1>3. n \in Places(cache, b)
  BY <1>1, <1>2 DEF Places, Holds
<1>4. c \in Places(cache, b) /\ c <= n
  BY <1>1, <1>3, PlacesFacts, LowestFacts
<1>5. c \in 1 .. Len(cache) /\ cache[c] \in Bufs /\ buf[cache[c]].blk = b
  BY <1>1, <1>4, PlacesFacts
<1> HIDE DEF c
<1>6. buf[i].refcnt <= 0 /\ \A j \in Bufs : InFront(cache, j, i) => buf[j].blk # b
  BY DEF CopyCurrent
<1>7. ASSUME c < n PROVE FALSE
  <2>1. InFront(cache, cache[c], i)
    BY <1>2, <1>5, <1>7 DEF InFront
  <2> QED BY <1>5, <1>6, <2>1
<1>8. c = n
  BY <1>1, <1>2, <1>4, <1>5, <1>7
<1> QED BY <1>2, <1>3, <1>4, <1>6, <1>8 DEF c

\* No copy of a block is here that rdsread() does not find here.
LEMMA NotHere ==
    ASSUME Shared = FALSE, DiskSound, CurrentSound, NEW p \in Procs, NEW b \in Blocks \ {0},
           doing[p].at = "user", Uses(p, b), localRead(b) = NONE, NEW i \in Bufs
    PROVE  ~Copy(i, b)
<1>t. TablesTyped /\ CallsTyped /\ OwnBlocks /\ CopyCurrent(b) /\ RequestsAwaited
  BY DEF DiskSound, CurrentSound
<1>1. cached(b) = NONE /\ queuedWrite(b) = NONE
  BY DEF localRead
<1>2. ASSUME Holds(i, b) PROVE buf[i].status = "VALID" /\ buf[i].data # NONE
  BY <1>2, <1>t, DiskSets DEF Holds, TablesTyped
<1>3. ASSUME Contains(cache, i), Holds(i, b) PROVE FALSE
  <2>1. Places(cache, b) # {} /\ cache[Lowest(Places(cache, b))] = i
    BY <1>3, <1>t, FirstCopy
  <2> QED BY <1>1, <1>2, <1>3, <2>1 DEF cached
<1>4. ASSUME Contains(reqq, i), Holds(i, b) PROVE FALSE
  <2> DEFINE h == Highest(Places(reqq, b))
             j == reqq[h]
  <2>1. reqq \in Seq(Bufs)
    BY <1>t DEF TablesTyped
  <2>2. Places(reqq, b) # {}
    BY <1>4, <2>1 DEF Contains, Places, Holds
  <2>3. h \in Places(reqq, b)
    BY <2>1, <2>2, PlacesFacts, HighestFacts
  <2>4. j \in Bufs /\ Contains(reqq, j) /\ buf[j].blk = b
    BY <2>1, <2>3, PlacesFacts
  <2>5. IF buf[j].op = "WRITE" THEN buf[j].data = NONE ELSE TRUE
    BY <1>1, <2>2 DEF queuedWrite
  <2> HIDE DEF j
  <2>6. Asks(j)
    BY <1>t, <2>4, <2>5, DiskSets DEF Asks, TablesTyped
  <2>7. PICK q \in Procs : doing[q].at \in {"inserted", "receive"} /\ doing[q].blk = b
    BY <1>t, <2>4, <2>6 DEF RequestsAwaited, AskerWaits
  <2>8. Busy(q, b)
    BY <1>t, <2>7 DEF OwnBlocks, Busy
  <2> QED BY <1>t, <2>7, <2>8, OwnerBusy
<1> QED BY <1>3, <1>4 DEF Copy, Listed

\* A call for block b begins: no copy of the block is here.
LEMMA CallStartsCurrent ==
    ASSUME CallsTyped, CurrentSound, NEW p \in Procs, doing[p].at = "user", NEW r, does(p, r), SameBuffers,
           written' = written,
           IF r.op = "SYNC" THEN r.blk = 0 ELSE Uses(p, r.blk),
           r.op # "SYNC" /\ r.blk # 0 => \A i \in Bufs : ~Copy(i, r.blk)
    PROVE  CurrentSound'
<1>1. doing'[p] = r /\ \A q \in Procs \ {p} : doing'[q] = doing[q]
  BY DEF CallsTyped, does
<1>2. OwnBlocks'
  <2>1. OwnBlocks
    BY DEF CurrentSound
  <2>2. ASSUME NEW q \in Procs
        PROVE  \/ doing'[q].at = "user"
               \/ doing[q].at # "user" /\ doing'[q].op = doing[q].op /\ doing'[q].blk = doing[q].blk
               \/ doing'[q].op = "SYNC" /\ doing'[q].blk = 0
               \/ doing'[q].op # "SYNC" /\ Uses(q, doing'[q].blk)
    <3>1. CASE q = p
      BY <1>1, <3>1
    <3>2. CASE q # p /\ doing[q].at = "user"
      BY <1>1, <3>2
    <3>3. CASE q # p /\ doing[q].at # "user"
      BY <1>1, <3>3
    <3> QED BY <3>1, <3>2, <3>3
  <2> QED BY <2>1, <2>2, OwnKept
<1>3. ASSUME NEW b \in Blocks \ {0}
      PROVE  (\A q \in Procs : Busy(q, b)' => Busy(q, b)) \/ (\A i \in Bufs : ~Copy(i, b))
  <2>1. CASE r.op # "SYNC" /\ r.blk = b
    BY <2>1
  <2>2. CASE ~(r.op # "SYNC" /\ r.blk = b)
    BY <1>1, <2>2 DEF Busy
  <2> QED BY <2>1, <2>2
<1> QED BY <1>2, <1>3, CallsOnly

\* rdsread() of a block it does not have here.
LEMMA RdsreadCurrent ==
    ASSUME Shared = FALSE, DiskSound, CurrentSound, NEW p \in Procs, NEW b \in Blocks, rdsread(p, b)
    PROVE  CurrentSound'
<1> DEFINE r == [at |-> atBuffer, op |-> "READ", blk |-> b, data |-> NONE]
<1>1. /\ doing[p].at = "user" /\ does(p, r) /\ SameBuffers /\ written' = written
      /\ Uses(p, b) /\ localRead(b) = NONE
  BY DEF rdsread, Stands, SameBuffers
<1>2. b # 0 => \A i \in Bufs : ~Copy(i, b)
  BY <1>1, NotHere
<1>3. r.op = "READ" /\ r.blk = b /\ CallsTyped
  BY DEF DiskSound
<1> HIDE DEF r
<1> QED BY <1>1, <1>2, <1>3, CallStartsCurrent

\* RDS_CTL_SYNC.
LEMMA SyncCurrent ==
    ASSUME DiskSound, CurrentSound, NEW p \in Procs, rdscontrolSync(p)
    PROVE  CurrentSound'
<1> DEFINE r == [at |-> atBuffer, op |-> "SYNC", blk |-> 0, data |-> NONE]
<1>1. doing[p].at = "user" /\ does(p, r) /\ SameBuffers /\ written' = written
  BY DEF rdscontrolSync, Stands, SameBuffers
<1>2. r.op = "SYNC" /\ r.blk = 0 /\ CallsTyped
  BY DEF DiskSound
<1> HIDE DEF r
<1> QED BY <1>1, <1>2, CallStartsCurrent

\* rdsbufalloc() and the insertion of the request.
LEMMA BufallocCurrent ==
    ASSUME Shared = FALSE, DiskSound, CurrentSound, NEW p \in Procs, rdsbufalloc(p), fault' = "none"
    PROVE  CurrentSound'
<1>1. doing[p].at \in Alloc /\ doing[p] \in Call /\ OwnBlocks
  BY CallFacts DEF rdsbufalloc, Stands, DiskSound, CurrentSound
<1>2. PICK i \in Bufs : insert(p, i, doing[p]) /\ TakenOut(i)
  BY BufallocTakes
<1> DEFINE r == doing[p]
<1>3. r.op = "WRITE" => Uses(p, r.blk)
  BY <1>1 DEF OwnBlocks
<1>4. ASSUME r.op = "WRITE", r.blk # 0, NEW j \in Bufs PROVE ~Copy(j, r.blk)
  <2>1. r.blk \in Blocks \ {0}
    BY <1>1, <1>4, CallFields
  <2>2. CopyCurrent(r.blk)
    BY <2>1 DEF CurrentSound
  <2>3. Busy(p, r.blk)
    BY <1>1, <1>4 DEF Busy
  <2> QED BY <2>2, <2>3 DEF CopyCurrent
<1>5. r \in Call /\ insert(p, i, r) /\ doing[p] = r
  BY <1>1, <1>2
<1> HIDE DEF r
<1> QED BY <1>2, <1>3, <1>4, <1>5, InsertCurrent

\* recvclr(), and the end of a sync.
LEMMA AwaitCurrent ==
    ASSUME DiskSound, CurrentSound, NEW p \in Procs, Await(p) \/ syncEnd(p)
    PROVE  CurrentSound'
<1>1. CallsTyped /\ OwnBlocks
  BY DEF DiskSound, CurrentSound
<1>2. SameBuffers /\ written' = written /\ doing[p].at # "user"
  BY DEF Await, syncEnd, Stands, SameBuffers
<1>3. /\ doing'[p].at = "user" \/ (doing'[p].op = doing[p].op /\ doing'[p].blk = doing[p].blk)
      /\ \A q \in Procs \ {p} : doing'[q] = doing[q]
  <2>1. CASE Await(p)
    <3> DEFINE u == [doing[p] EXCEPT !.at = "receive"]
    <3>1. doing[p] \in Call
      BY <1>1, <1>2, CallFacts
    <3>2. u.op = doing[p].op /\ u.blk = doing[p].blk
      BY <3>1 DEF Call
    <3>3. does(p, u)
      BY <2>1 DEF Await
    <3> HIDE DEF u
    <3> QED BY <1>1, <3>2, <3>3 DEF does, CallsTyped
  <2>2. CASE syncEnd(p)
    BY <1>1, <2>2 DEF syncEnd, does, CallsTyped, USER
  <2> QED BY <2>1, <2>2
<1>4. OwnBlocks'
  <2>1. ASSUME NEW q \in Procs
        PROVE  \/ doing'[q].at = "user"
               \/ doing[q].at # "user" /\ doing'[q].op = doing[q].op /\ doing'[q].blk = doing[q].blk
    BY <1>2, <1>3
  <2> QED BY <1>1, <2>1, OwnKept
<1>5. \A b \in Blocks \ {0} : \A q \in Procs : Busy(q, b)' => Busy(q, b)
  BY <1>2, <1>3 DEF Busy
<1> QED BY <1>2, <1>4, <1>5, CallsOnly

\* rdsread() returns with what the communication process has brought.
LEMMA RdsreadEndCurrent ==
    ASSUME DiskSound, CurrentSound, NEW p \in Procs, rdsreadEnd(p)
    PROVE  CurrentSound'
<1> DEFINE i == prmsg[p]
           c == CHOOSE k \in DOMAIN cache : cache[k] = i
           n == buf[i].refcnt - 1
<1>t. TablesTyped /\ CallsTyped /\ OwnBlocks
  BY DEF DiskSound, CurrentSound
<1>1. /\ doing[p].at = "receive" /\ doing[p].op = "READ" /\ i # NONE
      /\ does(p, USER) /\ reqq' = reqq /\ written' = written
      /\ buf' = [buf EXCEPT ![i].refcnt = @ - 1]
  BY DEF rdsreadEnd, Stands
<1>2. i \in Bufs /\ Contains(cache, i)
  BY <1>1 DEF DiskSound, ToldSafe, Told, KeptFor
<1>3. c \in 1 .. Len(cache) /\ cache[c] = i
  <2>1. DOMAIN cache = 1 .. Len(cache) /\ \E k \in 1 .. Len(cache) : cache[k] = i
    BY <1>2, <1>t DEF TablesTyped, Contains
  <2> QED BY <2>1
<1>4. cache' = RemoveAt(cache, c) \/ cache' = cache
  BY DEF rdsreadEnd
<1> HIDE DEF i, c
<1>5. n \in Int /\ n <= buf[i].refcnt /\ buf' = [buf EXCEPT ![i].refcnt = n]
  BY <1>1, <1>2, <1>t, BufFields
<1>6. /\ buf'[i].refcnt <= buf[i].refcnt /\ buf'[i].refcnt \in Int /\ buf[i].refcnt \in Int
      /\ \A j \in Bufs : SameRequest(j) /\ buf'[j].data = buf[j].data
      /\ \A j \in Bufs \ {i} : buf'[j] = buf[j]
  <2> HIDE DEF n
  <2> QED BY <1>2, <1>5, <1>t, RefcntSet, BufFields
<1>7. /\ \A j : Contains(cache', j) => Contains(cache, j)
      /\ \A j, k : InFront(cache', j, k) => InFront(cache, j, k)
  <2>1. CASE cache' = RemoveAt(cache, c)
    <3>1. cache \in Seq(Bufs) /\ NoRepeat(cache)
      BY <1>t DEF TablesTyped
    <3> QED BY <1>3, <2>1, <3>1, RemoveAtList, OrderRemoved
  <2> QED BY <1>4, <2>1
<1>8. doing'[p].at = "user" /\ \A q \in Procs \ {p} : doing'[q] = doing[q]
  BY <1>1, <1>t DEF does, CallsTyped, USER
<1>9. OwnBlocks'
  <2>1. ASSUME NEW q \in Procs
        PROVE  \/ doing'[q].at = "user"
               \/ doing[q].at # "user" /\ doing'[q].op = doing[q].op /\ doing'[q].blk = doing[q].blk
    BY <1>8
  <2> QED BY <1>t, <2>1, OwnKept
<1>10. ASSUME NEW b \in Blocks \ {0} PROVE CopyCurrent(b)'
  <2>1. CopyCurrent(b)
    BY DEF CurrentSound
  <2>2. \A j \in Bufs : Holds(j, b)' <=> Holds(j, b)
    BY <1>6 DEF Holds, SameRequest
  <2>3. ASSUME NEW j \in Bufs, Copy(j, b)' PROVE Copy(j, b) /\ buf'[j].data = buf[j].data
    BY <1>1, <1>6, <1>7, <2>2, <2>3 DEF Copy, Listed
  <2>4. ASSUME NEW j \in Bufs, Contains(cache', j), Holds(j, b)'
        PROVE  /\ Contains(cache, j) /\ Holds(j, b)
               /\ buf[j].refcnt <= 0 => buf'[j].refcnt <= 0
               /\ \A k \in Bufs : InFront(cache', k, j) =>
                     InFront(cache, k, j) /\ buf'[k].blk = buf[k].blk
    <3>1. Contains(cache, j) /\ Holds(j, b)
      BY <1>7, <2>2, <2>4
    <3>2. buf[j].refcnt <= 0 => buf'[j].refcnt <= 0
      BY <1>6
    <3>3. \A k \in Bufs : InFront(cache', k, j) => InFront(cache, k, j) /\ buf'[k].blk = buf[k].blk
      BY <1>6, <1>7 DEF SameRequest
    <3> QED BY <3>1, <3>2, <3>3
  <2>5. \A q \in Procs : Busy(q, b)' => Busy(q, b)
    BY <1>8 DEF Busy
  <2> QED BY <1>1, <2>1, <2>3, <2>4, <2>5, CopyKept
<1> QED BY <1>9, <1>10 DEF CurrentSound

\* rdswrite().
LEMMA RdswriteCurrent ==
    ASSUME Shared = FALSE, DiskSound, CurrentSound, NEW p \in Procs, NEW b \in Blocks, NEW d \in Data,
           rdswrite(p, b, d)
    PROVE  CurrentSound'
<1> DEFINE r == [at |-> atBuffer, op |-> "WRITE", blk |-> b, data |-> d]
           c == Lowest(Places(cache, b))
<1>1. r \in Call /\ r.op = "WRITE" /\ r.blk = b
  BY DEF Call, atBuffer
<1>2. /\ doing[p].at = "user" /\ TablesTyped /\ CallsTyped /\ OwnBlocks /\ ComTyped
      /\ free' = free /\ Uses(p, b)
  BY DEF rdswrite, Stands, DiskSound, CurrentSound
<1>3. CASE /\ Writes(b) # {} /\ buf' = [buf EXCEPT ![replaced(b)].data = d]
           /\ written' = [written EXCEPT ![b] = d]
           /\ UNCHANGED <<reqq, cache, availsem, reqsem, doing>>
  <2> DEFINE i == replaced(b)
  <2>1. i \in Bufs /\ Contains(reqq, i) /\ Holds(i, b)
    BY <1>2, <1>3, ReplacedFacts
  <2>i. buf' = [buf EXCEPT ![i].data = d]
    BY <1>3
  <2> HIDE DEF i
  <2>2. \A j \in Bufs : /\ buf'[j].op = buf[j].op /\ buf'[j].blk = buf[j].blk
                        /\ buf'[j].refcnt = buf[j].refcnt
                        /\ buf'[j].data = IF j = i THEN d ELSE buf[j].data
    BY <1>2, <2>i DEF TablesTyped, Buffer
  <2>3. OwnBlocks'
    BY <1>2, <1>3 DEF OwnBlocks, Uses
  <2>4. ASSUME NEW e \in Blocks \ {0} PROVE CopyCurrent(e)'
    <3>1. CopyCurrent(e)
      BY DEF CurrentSound
    <3>2. \A j \in Bufs : (Holds(j, e)' <=> Holds(j, e)) /\ (Copy(j, e)' <=> Copy(j, e))
      BY <1>3, <2>2 DEF Holds, Copy, Listed
    <3>3. \A q \in Procs : Busy(q, e)' <=> Busy(q, e)
      BY <1>3 DEF Busy
    <3>4. CASE e # b
      <4>1. ~Holds(i, e)
        BY <2>1, <3>4 DEF Holds
      <4>2. written'[e] = written[e]
        BY <1>2, <1>3, <3>4 DEF ComTyped
      <4>3. ASSUME NEW j \in Bufs, Copy(j, e)' PROVE Copy(j, e) /\ buf'[j].data = buf[j].data
        BY <2>2, <3>2, <4>1, <4>3 DEF Copy
      <4>4. \A j \in Bufs : Contains(cache', j) /\ Holds(j, e)' =>
              /\ Contains(cache, j) /\ Holds(j, e)
              /\ buf[j].refcnt <= 0 => buf'[j].refcnt <= 0
              /\ \A k \in Bufs : InFront(cache', k, j) =>
                    InFront(cache, k, j) /\ buf'[k].blk = buf[k].blk
        BY <1>3, <2>2, <3>2
      <4> QED BY <3>1, <3>3, <4>2, <4>3, <4>4, CopyKept
    <3>5. CASE e = b
      <4>1. Copy(i, b)
        BY <2>1 DEF Copy, Listed
      <4>2. \A j \in Bufs : Copy(j, e)' => j = i
        BY <2>1, <3>1, <3>2, <3>5, <4>1 DEF CopyCurrent
      <4>3. ~Contains(cache', i)
        BY <1>3, <2>1 DEF DiskSound, OneList
      <4>4. buf'[i].data = written'[e]
        BY <1>2, <1>3, <2>1, <2>2, <3>5 DEF ComTyped
      <4>5. \A q \in Procs : ~Busy(q, e)'
        BY <2>1, <3>1, <3>3, <3>5, <4>1 DEF CopyCurrent
      <4> QED BY <2>1, <4>2, <4>3, <4>4, <4>5, CopyMade
    <3> QED BY <3>4, <3>5
  <2> QED BY <2>3, <2>4 DEF CurrentSound
<1>4. ASSUME Writes(b) = {}, NEW i \in Bufs, b # 0, Copy(i, b)
      PROVE  Contains(cache, i) /\ Holds(i, b) /\ CopyCurrent(b) /\ Reusable(b) /\ cache[c] = i
  <2>1. Holds(i, b) /\ CopyCurrent(b)
    BY <1>4 DEF Copy, CurrentSound
  <2>2. ~Contains(reqq, i)
    <3>1. ASSUME NEW n \in 1 .. Len(reqq), reqq[n] = i PROVE n \in Writes(b)
      BY <1>2, <2>1, <3>1 DEF Writes, Places, Holds, TablesTyped
    <3> QED BY <1>4, <3>1 DEF Contains
  <2>3. Contains(cache, i)
    BY <1>4, <2>2 DEF Copy, Listed
  <2>4. c \in Places(cache, b) /\ cache[c] = i /\ buf[i].refcnt <= 0
    BY <1>2, <2>1, <2>3, FirstCopy
  <2>5. c \in Unreferenced
    BY <2>4 DEF Unreferenced, Places
  <2>6. Reusable(b)
    BY <2>4, <2>5 DEF Reusable
  <2> QED BY <2>1, <2>3, <2>4, <2>6
<1>5. CASE /\ Writes(b) = {} /\ Reusable(b) /\ cache' = RemoveAt(cache, c) /\ insert(p, cache[c], r)
  <2>1. c \in Unreferenced /\ cache[c] \in Bufs
    BY <1>5, ReusableFacts
  <2> HIDE DEF c, r
  <2>2. TakenOut(cache[c])
    BY <1>2, <1>5, <2>1, CacheTaken
  <2>3. r.op = "WRITE" /\ r.blk # 0 => \A j \in Bufs : Copy(j, r.blk) => j = cache[c]
    BY <1>1, <1>4, <1>5
  <2> QED BY <1>1, <1>2, <1>5, <2>1, <2>2, <2>3, InsertCurrent
<1>6. CASE Writes(b) = {} /\ ~Reusable(b) /\ does(p, r) /\ UNCHANGED <<buf, reqq, cache, reqsem, written>>
  <2>1. SameBuffers /\ written' = written
    BY <1>2, <1>6 DEF SameBuffers
  <2>2. b # 0 => \A i \in Bufs : ~Copy(i, b)
    BY <1>4, <1>6
  <2> HIDE DEF r
  <2> QED BY <1>1, <1>2, <1>6, <2>1, <2>2, CallStartsCurrent
<1> QED BY <1>3, <1>5, <1>6 DEF rdswrite

\* The first request is put in front of the cache: a written copy comes from
\* the queue, and a block that was read has no written copy.
LEMMA MovedCurrent ==
    ASSUME DiskSound, CurrentSound, reqq # <<>>, NEW i, i = Head(reqq), reqq' = Tail(reqq),
           cache' = <<i>> \o cache, written' = written, doing' = doing,
           \A j \in Bufs : /\ SameRequest(j)
                           /\ buf[j].op = "WRITE" => buf'[j].data = buf[j].data
                           /\ j # i => buf'[j].refcnt = buf[j].refcnt,
           buf[i].op = "WRITE" => buf'[i].refcnt <= 0,
           buf[i].op # "WRITE" => buf[i].op = "READ"
    PROVE  CurrentSound'
<1>t. TablesTyped /\ CallsTyped /\ OwnBlocks /\ OneList
  BY DEF DiskSound, CurrentSound
<1>1. /\ i \in Bufs /\ Contains(reqq, i) /\ ~Contains(cache, i)
      /\ buf[i].op # "WRITE" => Asks(i) /\ AskerWaits(i, buf[i].pid)
  BY <1>t, HeadFacts DEF OneList
<1>2. \A j : Contains(reqq', j) <=> Contains(reqq, j) /\ j # i
  BY <1>t, TailList DEF TablesTyped
<1>3. /\ \A j : Contains(cache', j) <=> Contains(cache, j) \/ j = i
      /\ \A j, k : InFront(cache', j, k) => InFront(cache, j, k) \/ (j = i /\ Contains(cache, k))
  <2>1. cache \in Seq(Bufs) /\ <<i>> \in Seq(Bufs) /\ \A m : Contains(<<i>>, m) <=> m = i
    BY <1>1, <1>t, UnitList DEF TablesTyped
  <2>2. \A j : Contains(<<i>> \o cache, j) <=> Contains(<<i>>, j) \/ Contains(cache, j)
    BY <2>1, ConcatList
  <2>3. \A j, k : InFront(<<i>> \o cache, j, k) => InFront(cache, j, k) \/ (j = i /\ Contains(cache, k))
    BY <1>1, <2>1, OrderInFront
  <2> QED BY <2>1, <2>2, <2>3
<1>4. OwnBlocks'
  BY <1>t DEF OwnBlocks, Uses
<1>5. ASSUME NEW b \in Blocks \ {0} PROVE CopyCurrent(b)'
  <2>1. CopyCurrent(b)
    BY DEF CurrentSound
  <2>2. \A j \in Bufs : /\ Holds(j, b)' <=> Holds(j, b)
                        /\ Copy(j, b)' <=> Copy(j, b)
                        /\ Copy(j, b) => buf'[j].data = buf[j].data
    BY <1>1, <1>2, <1>3 DEF Holds, SameRequest, Copy, Listed
  <2>3. \A q \in Procs : Busy(q, b)' <=> Busy(q, b)
    BY DEF Busy
  <2>4. CASE buf[i].op # "WRITE" /\ buf[i].blk = b
    <3>1. buf[i].op = "READ" /\ AskerWaits(i, buf[i].pid)
      BY <1>1, <2>4
    <3>2. buf[i].pid \in Procs /\ Busy(buf[i].pid, b)
      BY <2>4, <3>1 DEF AskerWaits, Busy
    <3>3. \A j \in Bufs : ~Copy(j, b)
      BY <2>1, <3>2 DEF CopyCurrent
    <3> QED BY <2>2, <3>3, NoCopies
  <2>5. CASE ~(buf[i].op # "WRITE" /\ buf[i].blk = b)
    <3>1. /\ \A j, k \in Bufs : Copy(j, b)' /\ Copy(k, b)' => j = k
          /\ \A j \in Bufs : Copy(j, b)' => buf'[j].data = written'[b]
          /\ \A q \in Procs : Busy(q, b)' => \A j \in Bufs : ~Copy(j, b)'
      BY <2>1, <2>2, <2>3 DEF CopyCurrent
    <3>2. ASSUME NEW j \in Bufs, Contains(cache', j), Holds(j, b)'
          PROVE  buf'[j].refcnt <= 0 /\ \A k \in Bufs : InFront(cache', k, j) => buf'[k].blk # b
      <4>1. CASE j = i
        <5>1. buf'[j].refcnt <= 0
          BY <2>2, <3>2, <4>1 DEF Holds
        <5>2. \A k : ~InFront(cache', k, j)
          <6>1. ASSUME NEW k, InFront(cache, k, i) PROVE Contains(cache, i)
            BY <6>1 DEF InFront, Contains
          <6> QED BY <1>1, <1>3, <4>1, <6>1
        <5> QED BY <5>1, <5>2
      <4>2. CASE j # i
        <5>1. Contains(cache, j) /\ Holds(j, b)
          BY <1>3, <2>2, <3>2, <4>2
        <5>2. buf'[j].refcnt = buf[j].refcnt
          BY <4>2
        <5>3. buf[j].refcnt <= 0 /\ \A k \in Bufs : InFront(cache, k, j) => buf[k].blk # b
          BY <2>1, <5>1 DEF CopyCurrent
        <5>4. buf[i].blk # b
          <6>1. Copy(j, b) /\ (Holds(i, b) => Copy(i, b))
            BY <1>1, <5>1 DEF Copy, Listed
          <6>2. ~Holds(i, b)
            BY <1>1, <2>1, <4>2, <6>1 DEF CopyCurrent
          <6> QED BY <2>5, <6>2 DEF Holds
        <5>5. \A k \in Bufs : InFront(cache', k, j) => buf'[k].blk # b
          <6>1. \A k \in Bufs : buf'[k].blk = buf[k].blk
            BY DEF SameRequest
          <6>2. \A k \in Bufs : InFront(cache', k, j) => buf[k].blk # b
            BY <1>3, <5>3, <5>4
          <6> QED BY <6>1, <6>2
        <5> QED BY <5>2, <5>3, <5>5
      <4> QED BY <4>1, <4>2
    <3> QED BY <3>1, <3>2 DEF CopyCurrent
  <2> QED BY <2>4, <2>5
<1> QED BY <1>4, <1>5 DEF CurrentSound

\* wait() passes.
LEMMA ComStartCurrent ==
    ASSUME DiskSound, CurrentSound, comStart
    PROVE  CurrentSound'
<1> DEFINE i == Head(reqq)
           e == buf[i]
<1>t. TablesTyped /\ CallsTyped /\ OwnBlocks /\ OneList
  BY DEF DiskSound, CurrentSound
<1>1. reqsem > 0 /\ doing' = doing /\ written' = written /\ reqq # <<>>
  <2>1. reqsem > 0 /\ doing' = doing /\ written' = written
    BY DEF comStart
  <2>2. Len(reqq) > 0
    <3>1. reqsem <= Len(reqq)
      <4> DEFINE x == IF Reads THEN 1 ELSE 0
                 u == Cardinality(Unsignaled)
      <4>1. x \in Nat /\ u \in Nat /\ reqsem \in Nat /\ Len(reqq) \in Nat
        BY Numbers
      <4>2. reqsem + x + u <= Len(reqq)
        BY DEF DiskSound, SignalsCovered
      <4> HIDE DEF x, u
      <4> QED BY <4>1, <4>2
    <3> QED BY <2>1, <3>1, Numbers
  <2> QED BY <2>1, <2>2
<1>2. i \in Bufs /\ Contains(reqq, i)
  BY <1>1, HeadFacts
<1>3. CASE e.op = "READ" /\ UNCHANGED <<buf, free, reqq, cache>>
  <2>1. SameBuffers /\ OwnBlocks'
    BY <1>1, <1>3, <1>t DEF SameBuffers, OwnBlocks, Uses
  <2>2. \A b \in Blocks \ {0} : \A p \in Procs : Busy(p, b)' => Busy(p, b)
    BY <1>1 DEF Busy
  <2> QED BY <1>1, <2>1, <2>2, CallsOnly
<1>4. CASE /\ e.op = "WRITE" /\ reqq' = Tail(reqq) /\ cache' = <<i>> \o cache
           /\ buf' = [buf EXCEPT ![i].refcnt = 0]
  <2>1. 0 \in Int /\ e.op = "WRITE"
    BY <1>4
  <2> HIDE DEF i
  <2>2. /\ buf'[i].refcnt = 0
        /\ \A j \in Bufs : SameRequest(j) /\ buf'[j].data = buf[j].data
        /\ \A j \in Bufs \ {i} : buf'[j] = buf[j]
    BY <1>2, <1>4, <1>t, <2>1, RefcntSet
  <2>3. \A j \in Bufs : /\ SameRequest(j)
                        /\ buf[j].op = "WRITE" => buf'[j].data = buf[j].data
                        /\ j # i => buf'[j].refcnt = buf[j].refcnt
    BY <2>2
  <2>4. buf'[i].refcnt <= 0
    BY <2>2
  <2> QED BY <1>1, <1>4, <2>3, <2>4, MovedCurrent DEF i
<1>5. CASE e.op = "SYNC" /\ reqq' = Tail(reqq) /\ UNCHANGED <<buf, cache>>
  <2>1. \A j : Contains(reqq', j) => Contains(reqq, j)
    BY <1>1, <1>5, <1>t, TailList DEF TablesTyped
  <2>2. OwnBlocks'
    BY <1>1, <1>t DEF OwnBlocks, Uses
  <2>3. ASSUME NEW b \in Blocks \ {0} PROVE CopyCurrent(b)'
    <3>1. CopyCurrent(b) /\ \A q \in Procs : Busy(q, b)' => Busy(q, b)
      BY <1>1 DEF CurrentSound, Busy
    <3>2. \A j \in Bufs : (Holds(j, b)' <=> Holds(j, b)) /\ (Copy(j, b)' => Copy(j, b))
      BY <1>5, <2>1 DEF Holds, Copy, Listed
    <3> QED BY <1>1, <1>5, <3>1, <3>2, CopyKept
  <2> QED BY <2>2, <2>3 DEF CurrentSound
<1> QED BY <1>3, <1>4, <1>5 DEF comStart

\* Steps of the communication process that leave buffers and calls alone.
LEMMA ComCurrent ==
    ASSUME CurrentSound, SameBuffers, doing' = doing, written' = written
    PROVE  CurrentSound'
<1>1. OwnBlocks'
  BY DEF CurrentSound, OwnBlocks, Uses
<1>2. \A b \in Blocks \ {0} : \A p \in Procs : Busy(p, b)' => Busy(p, b)
  BY DEF Busy
<1> QED BY <1>1, <1>2, CallsOnly

\* A reply comes.
LEMMA ComRecvCurrent ==
    ASSUME DiskSound, CurrentSound, NEW r \in replies, comRecv(r)
    PROVE  CurrentSound'
<1>t. TablesTyped /\ CallsTyped /\ ComTyped
  BY DEF DiskSound
<1>1. com.at = "recv" /\ UNCHANGED <<free, doing, written>> /\ com # WAITS
  BY <1>t, ComFacts DEF comRecv
<1>2. CASE com.op = "READ" /\ readDone(r.data)
  <2> DEFINE i == Head(reqq)
  <2>1. reqq # <<>> /\ buf[i].op = "READ"
    BY <1>1, <1>2 DEF DiskSound, HeadRead, Reads
  <2>2. i \in Bufs /\ Contains(reqq, i)
    BY <2>1, HeadFacts
  <2>3. /\ buf' = [buf EXCEPT ![i].data = r.data, ![i].refcnt = 1] /\ reqq' = Tail(reqq)
        /\ cache' = <<i>> \o cache
    BY <1>2 DEF readDone
  <2>4. r.data \in Data \cup {NONE}
    BY <1>t DEF ComTyped
  <2> HIDE DEF i
  <2>5. SameRequest(i) /\ \A j \in Bufs \ {i} : buf'[j] = buf[j]
    BY <1>t, <2>2, <2>3, <2>4, DataSet
  <2>6. \A j \in Bufs : /\ SameRequest(j)
                        /\ buf[j].op = "WRITE" => buf'[j].data = buf[j].data
                        /\ j # i => buf'[j].refcnt = buf[j].refcnt
    BY <2>1, <2>5 DEF SameRequest
  <2> QED BY <1>1, <2>1, <2>3, <2>6, MovedCurrent DEF i
<1>3. CASE SameBuffers
  BY <1>1, <1>3, ComCurrent
<1>4. (com.op = "READ" /\ readDone(r.data)) \/ SameBuffers
  BY <1>1 DEF comRecv, writeDone, SameBuffers
<1> QED BY <1>2, <1>3, <1>4

\* Every step keeps the copies current.
LEMMA NextCurrent ==
    ASSUME Shared = FALSE, DiskSound, CurrentSound, Next, fault' = "none"
    PROVE  CurrentSound'
<1>1. CASE Communicating
  <2>1. ASSUME comSend \/ comTimeout \/ comFail PROVE CurrentSound'
    <3>1. SameBuffers /\ doing' = doing /\ written' = written
      BY <2>1 DEF comSend, comTimeout, comFail, SameBuffers
    <3> QED BY <3>1, ComCurrent
  <2> QED BY <1>1, <2>1, ComStartCurrent, ComRecvCurrent DEF Communicating
<1>2. ASSUME NEW p \in Procs, Calling(p) PROVE CurrentSound'
  BY <1>2, RdsreadCurrent, RdswriteCurrent, SyncCurrent DEF Calling
<1>3. ASSUME NEW p \in Procs, Going(p) PROVE CurrentSound'
  BY <1>3, BufallocCurrent, AwaitCurrent, RdsreadEndCurrent DEF Going
<1> QED BY <1>1, <1>2, <1>3 DEF Next

\* What the invariant says about local reads.
LEMMA CurrentReads ==
    ASSUME CurrentInv
    PROVE  LocalReadCurrent
<1> SUFFICES ASSUME fault = "none", NEW b \in Blocks \ {0}
             PROVE  localRead(b) \in {NONE, written[b]}
  BY DEF LocalReadCurrent
<1>1. TablesTyped /\ CopyCurrent(b)
  BY DEF CurrentInv, CurrentSound, DiskSound
<1>2. \A i \in Bufs : Copy(i, b) => buf[i].data = written[b]
  BY <1>1 DEF CopyCurrent
<1>3. cached(b) \in {NONE, written[b]}
  <2> DEFINE i == cache[Lowest(Places(cache, b))]
  <2>1. CASE Places(cache, b) = {} \/ buf[i].status = "INVALID"
    BY <2>1 DEF cached
  <2>2. CASE Places(cache, b) # {} /\ buf[i].status # "INVALID"
    <3>1. cache \in Seq(Bufs)
      BY <1>1 DEF TablesTyped
    <3>2. Lowest(Places(cache, b)) \in Places(cache, b)
      BY <2>2, <3>1, PlacesFacts, LowestFacts
    <3>3. i \in Bufs /\ Contains(cache, i) /\ buf[i].blk = b
      BY <3>1, <3>2, PlacesFacts
    <3>4. cached(b) = buf[i].data
      BY <2>2 DEF cached
    <3> HIDE DEF i
    <3>5. buf[i].op = "WRITE"
      BY <1>1, <2>2, <3>3 DEF TablesTyped, Buffer
    <3>6. Copy(i, b)
      BY <3>3, <3>5 DEF Copy, Listed, Holds
    <3> QED BY <1>2, <3>3, <3>4, <3>6
  <2> QED BY <2>1, <2>2
<1>4. queuedWrite(b) \in {NONE, written[b]}
  <2> DEFINE i == reqq[Highest(Places(reqq, b))]
  <2>1. CASE Places(reqq, b) = {} \/ buf[i].op # "WRITE"
    BY <2>1 DEF queuedWrite
  <2>2. CASE Places(reqq, b) # {} /\ buf[i].op = "WRITE"
    <3>1. reqq \in Seq(Bufs)
      BY <1>1 DEF TablesTyped
    <3>2. Highest(Places(reqq, b)) \in Places(reqq, b)
      BY <2>2, <3>1, PlacesFacts, HighestFacts
    <3>3. i \in Bufs /\ Contains(reqq, i) /\ buf[i].blk = b
      BY <3>1, <3>2, PlacesFacts
    <3>4. queuedWrite(b) = buf[i].data
      BY <2>2 DEF queuedWrite
    <3> HIDE DEF i
    <3>5. Copy(i, b)
      BY <2>2, <3>3 DEF Copy, Listed, Holds
    <3> QED BY <1>2, <3>3, <3>4, <3>5
  <2> QED BY <2>1, <2>2
<1> QED BY <1>3, <1>4 DEF localRead

\* Unless a fault has stopped the system, what rdsread() finds here of a block other
\* than 0 is what was written last, although a block may be in several buffers: rdswrite() replaces a write that is queued or takes the
\* copy of the cache that the search would find.
THEOREM DiskReadsCurrent == Shared = FALSE /\ LiveSpec => []LocalReadCurrent
<1> SUFFICES ASSUME Shared = FALSE PROVE LiveSpec => []LocalReadCurrent
  OBVIOUS
<1>1. rdsinit => CurrentInv
  <2> SUFFICES ASSUME rdsinit PROVE DiskSound /\ CurrentSound
    BY DEF CurrentInv
  <2>1. DiskSound
    BY InitSound
  <2>2. OwnBlocks
    BY DEF rdsinit, OwnBlocks, USER
  <2>3. \A i \in Bufs : buf[i].op = "NONE"
    BY DEF rdsinit
  <2>4. \A b : \A i \in Bufs : ~Holds(i, b)
    BY <2>3 DEF Holds
  <2>5. \A b : CopyCurrent(b)
    BY <2>4 DEF CopyCurrent, Copy
  <2> QED BY <2>1, <2>2, <2>5 DEF CurrentSound
<1>2. ASSUME CurrentInv, [Next]_rdsVars PROVE CurrentInv'
  <2>1. CASE Next
    BY <1>2, <2>1, NextSound, NextCurrent, StepsWithoutFault DEF CurrentInv
  <2>2. CASE UNCHANGED rdsVars
    <3>1. fault' = fault /\ SameBuffers /\ doing' = doing /\ written' = written
      BY <2>2 DEF rdsVars, SameBuffers
    <3> QED BY <1>2, <2>2, <3>1, StutterSound, ComCurrent DEF CurrentInv
  <2> QED BY <1>2, <2>1, <2>2
<1>3. CurrentInv => LocalReadCurrent
  BY CurrentReads
<1> QED BY <1>1, <1>2, <1>3, PTL DEF LiveSpec

-----------------------------------------------------------------------------
(* Where processes use their own blocks: what the server has.              *)

\* A step that leaves the writes of block b, what is sent and the server alone.
LEMMA WriteKept ==
    ASSUME NEW b, WriteCurrent(b), written'[b] = written[b], server'[b] = server[b],
           \A i \in Bufs : /\ Queued(i, b)' <=> Queued(i, b)
                           /\ Queued(i, b) => buf'[i].data = buf[i].data,
           \A p \in Procs : WillWrite(p, b)' => WillWrite(p, b) \/ NoWrite(b),
           Sends(b)' <=> Sends(b), Sends(b) => com'.data = com.data,
           b \notin doubted' => b \notin doubted,
           Sends(b) /\ (\E r \in replies' : r.fresh) => \E r \in replies : r.fresh
    PROVE  WriteCurrent(b)'
<1>1. NoWrite(b)' <=> NoWrite(b)
  BY DEF NoWrite
<1>2. /\ \A i, j \in Bufs : Queued(i, b)' /\ Queued(j, b)' => i = j
      /\ \A i \in Bufs : Queued(i, b)' => buf'[i].data = written'[b]
  BY DEF WriteCurrent
<1>3. \A p \in Procs : WillWrite(p, b)' => NoWrite(b)'
  BY <1>1 DEF WriteCurrent
<1>4. /\ Sends(b)' /\ NoWrite(b)' => com'.data = written'[b]
      /\ Sends(b)' /\ (\E r \in replies' : r.fresh) => server'[b] = com'.data
      /\ b \notin doubted' /\ NoWrite(b)' /\ ~Sends(b)' => server'[b] = written'[b]
  BY <1>1 DEF WriteCurrent
<1> QED BY <1>2, <1>3, <1>4 DEF WriteCurrent

\* Calls leave alone what the communication process sends.
SameServer ==
    com' = com /\ replies' = replies /\ server' = server /\ doubted' = doubted

\* A step of a call that leaves the queue alone, and starts a write of a block
\* only if none is queued.
LEMMA CallsServer ==
    ASSUME ServerSound, SameServer, reqq' = reqq, written' = written, OwnBlocks',
           \A i \in Bufs : /\ buf'[i].op = buf[i].op /\ buf'[i].blk = buf[i].blk
                           /\ buf'[i].data = buf[i].data,
           \A b \in Blocks : \A p \in Procs : WillWrite(p, b)' => WillWrite(p, b) \/ NoWrite(b)
    PROVE  ServerSound'
<1> SUFFICES ASSUME NEW b \in Blocks PROVE WriteCurrent(b)'
  BY DEF ServerSound
<1>1. WriteCurrent(b)
  BY DEF ServerSound
<1>2. \A i \in Bufs : (Queued(i, b)' <=> Queued(i, b))
  BY DEF Queued, Holds
<1>3. (Sends(b)' <=> Sends(b))
  BY DEF Sends, SameServer
<1> QED BY <1>1, <1>2, <1>3, WriteKept DEF SameServer

\* A process waits, is told or returns.
LEMMA GoesOnServer ==
    ASSUME CallsTyped, ServerSound, NEW p \in Procs, doing[p].at # "user", SameServer, reqq' = reqq, written' = written,
           \A i \in Bufs : /\ buf'[i].op = buf[i].op /\ buf'[i].blk = buf[i].blk
                           /\ buf'[i].data = buf[i].data,
           NEW u, does(p, u),
           u.at = "user" \/ (u.at = "receive" /\ u.op = doing[p].op /\ u.blk = doing[p].blk)
    PROVE  ServerSound'
<1>1. doing'[p] = u /\ \A q \in Procs \ {p} : doing'[q] = doing[q]
  BY DEF does, CallsTyped
<1>2. OwnBlocks'
  <2>1. ASSUME NEW q \in Procs
        PROVE  \/ doing'[q].at = "user"
               \/ doing[q].at # "user" /\ doing'[q].op = doing[q].op /\ doing'[q].blk = doing[q].blk
    BY <1>1
  <2>2. OwnBlocks
    BY DEF ServerSound
  <2> QED BY <2>1, <2>2, OwnKept
<1>3. \A b \in Blocks : \A q \in Procs : WillWrite(q, b)' => WillWrite(q, b)
  BY <1>1 DEF WillWrite
<1> QED BY <1>2, <1>3, CallsServer

\* recvclr().
LEMMA AwaitServer ==
    ASSUME DiskSound, ServerSound, NEW p \in Procs, Await(p)
    PROVE  ServerSound'
<1> DEFINE u == [doing[p] EXCEPT !.at = "receive"]
<1>1. doing[p].at = "inserted" /\ doing[p] \in Call /\ CallsTyped
  BY CallFacts DEF Await, Stands, DiskSound
<1>2. u.at = "receive" /\ u.op = doing[p].op /\ u.blk = doing[p].blk
  BY <1>1 DEF Call
<1>3. does(p, u) /\ SameServer /\ reqq' = reqq /\ written' = written /\ buf' = buf
  BY DEF Await, SameServer
<1> HIDE DEF u
<1> QED BY <1>1, <1>2, <1>3, GoesOnServer

\* A sync returns.
LEMMA SyncEndServer ==
    ASSUME DiskSound, ServerSound, NEW p \in Procs, syncEnd(p)
    PROVE  ServerSound'
<1>1. doing[p].at = "receive" /\ CallsTyped /\ USER.at = "user"
  BY DEF syncEnd, Stands, DiskSound, USER
<1>2. does(p, USER) /\ SameServer /\ reqq' = reqq /\ written' = written /\ buf' = buf
  BY DEF syncEnd, SameServer
<1> QED BY <1>1, <1>2, GoesOnServer

\* rdsread() returns.
LEMMA RdsreadEndServer ==
    ASSUME DiskSound, ServerSound, NEW p \in Procs, rdsreadEnd(p)
    PROVE  ServerSound'
<1> DEFINE i == prmsg[p]
           n == buf[i].refcnt - 1
<1>1. doing[p].at = "receive" /\ CallsTyped /\ TablesTyped /\ USER.at = "user"
  BY DEF rdsreadEnd, Stands, DiskSound, USER
<1>2. /\ does(p, USER) /\ SameServer /\ reqq' = reqq /\ written' = written
      /\ buf' = [buf EXCEPT ![i].refcnt = @ - 1]
  BY DEF rdsreadEnd, SameServer
<1>3. i \in Bufs
  BY DEF rdsreadEnd, Stands, DiskSound, ToldSafe, Told, KeptFor
<1> HIDE DEF i
<1>4. n \in Int /\ buf' = [buf EXCEPT ![i].refcnt = n]
  BY <1>1, <1>2, <1>3, BufFields
<1> HIDE DEF n
<1>5. \A j \in Bufs : SameRequest(j) /\ buf'[j].data = buf[j].data
  BY <1>1, <1>3, <1>4, RefcntSet
<1> QED BY <1>1, <1>2, <1>5, GoesOnServer DEF SameRequest

\* A call begins: no write of the block is queued if it is a write.
LEMMA CallStartsServer ==
    ASSUME CallsTyped, ServerSound, NEW p \in Procs, doing[p].at = "user", NEW r, does(p, r),
           SameServer, buf' = buf, reqq' = reqq, written' = written,
           IF r.op = "SYNC" THEN r.blk = 0 ELSE Uses(p, r.blk),
           r.op = "WRITE" => NoWrite(r.blk)
    PROVE  ServerSound'
<1>1. doing'[p] = r /\ \A q \in Procs \ {p} : doing'[q] = doing[q]
  BY DEF CallsTyped, does
<1>2. OwnBlocks'
  <2>1. OwnBlocks
    BY DEF ServerSound
  <2>2. ASSUME NEW q \in Procs
        PROVE  \/ doing'[q].at = "user"
               \/ doing[q].at # "user" /\ doing'[q].op = doing[q].op /\ doing'[q].blk = doing[q].blk
               \/ doing'[q].op = "SYNC" /\ doing'[q].blk = 0
               \/ doing'[q].op # "SYNC" /\ Uses(q, doing'[q].blk)
    <3>1. CASE q = p
      BY <1>1, <3>1
    <3>2. CASE q # p /\ doing[q].at = "user"
      BY <1>1, <3>2
    <3>3. CASE q # p /\ doing[q].at # "user"
      BY <1>1, <3>3
    <3> QED BY <3>1, <3>2, <3>3
  <2> QED BY <2>1, <2>2, OwnKept
<1>3. \A b \in Blocks : \A q \in Procs : WillWrite(q, b)' => WillWrite(q, b) \/ NoWrite(b)
  BY <1>1 DEF WillWrite
<1> QED BY <1>2, <1>3, CallsServer

\* rdsread() of a block it does not have here.
LEMMA RdsreadServer ==
    ASSUME DiskSound, ServerSound, NEW p \in Procs, NEW b \in Blocks, rdsread(p, b)
    PROVE  ServerSound'
<1> DEFINE r == [at |-> atBuffer, op |-> "READ", blk |-> b, data |-> NONE]
<1>1. /\ doing[p].at = "user" /\ does(p, r) /\ SameServer /\ buf' = buf /\ reqq' = reqq
      /\ written' = written /\ Uses(p, b)
  BY DEF rdsread, Stands, SameServer
<1>2. r.op = "READ" /\ r.blk = b /\ CallsTyped
  BY DEF DiskSound
<1> HIDE DEF r
<1> QED BY <1>1, <1>2, CallStartsServer

\* RDS_CTL_SYNC.
LEMMA SyncServer ==
    ASSUME DiskSound, ServerSound, NEW p \in Procs, rdscontrolSync(p)
    PROVE  ServerSound'
<1> DEFINE r == [at |-> atBuffer, op |-> "SYNC", blk |-> 0, data |-> NONE]
<1>1. /\ doing[p].at = "user" /\ does(p, r) /\ SameServer /\ buf' = buf /\ reqq' = reqq
      /\ written' = written
  BY DEF rdscontrolSync, Stands, SameServer
<1>2. r.op = "SYNC" /\ r.blk = 0 /\ CallsTyped
  BY DEF DiskSound
<1> HIDE DEF r
<1> QED BY <1>1, <1>2, CallStartsServer

\* A request is put in the queue: if it is a write it is the only one of the
\* block.
LEMMA InsertServer ==
    ASSUME Shared = FALSE, DiskSound, ServerSound, NEW p \in Procs, NEW r \in Call, NEW i \in Bufs,
           insert(p, i, r), ~Contains(reqq, i), SameServer,
           doing[p] = r \/ (doing[p].at = "user" /\ r.op = "WRITE"),
           r.op = "WRITE" => Uses(p, r.blk) /\ NoWrite(r.blk)
    PROVE  ServerSound'
<1>t. TablesTyped /\ CallsTyped /\ ComTyped /\ OwnBlocks
  BY DEF DiskSound, ServerSound
<1>1. /\ buf'[i].op = r.op /\ buf'[i].blk = r.blk /\ buf'[i].data = r.data
      /\ \A j \in Bufs \ {i} : buf'[j] = buf[j]
      /\ \A j : Contains(reqq', j) <=> Contains(reqq, j) \/ j = i
      /\ \A q \in Procs \ {p} : doing'[q] = doing[q]
      /\ r.op = "WRITE" => doing'[p].at = "user"
      /\ r.op # "WRITE" =>
            doing'[p].at = "inserted" /\ doing'[p].op = r.op /\ doing'[p].blk = r.blk
      /\ written' = IF r.op = "WRITE" THEN [written EXCEPT ![r.blk] = r.data] ELSE written
  BY <1>t, InsertFacts
<1>2. r.at # "user" /\ r.blk \in Blocks
  BY CallFields
<1>3. OwnBlocks'
  <2>1. ASSUME NEW q \in Procs
        PROVE  \/ doing'[q].at = "user"
               \/ doing[q].at # "user" /\ doing'[q].op = doing[q].op /\ doing'[q].blk = doing[q].blk
    BY <1>1, <1>2
  <2> QED BY <1>t, <2>1, OwnKept
<1>4. \A b \in Blocks : \A q \in Procs : WillWrite(q, b)' => q # p /\ WillWrite(q, b)
  BY <1>1 DEF WillWrite
<1>5. \A b \in Blocks : \A j \in Bufs \ {i} : Queued(j, b)' <=> Queued(j, b)
  BY <1>1 DEF Queued, Holds
<1>6. \A b \in Blocks : Queued(i, b)' <=> r.op = "WRITE" /\ r.blk = b
  BY <1>1 DEF Queued, Holds
<1>7. \A b \in Blocks : ~Queued(i, b)
  BY DEF Queued
<1>8. \A b \in Blocks : (Sends(b)' <=> Sends(b))
  BY DEF Sends, SameServer
<1>9. ASSUME NEW b \in Blocks, ~(r.op = "WRITE" /\ r.blk = b) PROVE WriteCurrent(b)'
  <2>1. WriteCurrent(b)
    BY DEF ServerSound
  <2>2. written'[b] = written[b]
    BY <1>1, <1>2, <1>9, <1>t DEF ComTyped
  <2>3. \A j \in Bufs : /\ Queued(j, b)' <=> Queued(j, b)
                        /\ Queued(j, b) => buf'[j].data = buf[j].data
    BY <1>1, <1>5, <1>6, <1>7, <1>9
  <2> QED BY <1>4, <1>8, <2>1, <2>2, <2>3, WriteKept DEF SameServer
<1>10. ASSUME NEW b \in Blocks, r.op = "WRITE", r.blk = b PROVE WriteCurrent(b)'
  <2>1. WriteCurrent(b) /\ \A j \in Bufs : ~Queued(j, b)
    BY <1>10 DEF ServerSound, NoWrite
  <2>2. \A j \in Bufs : Queued(j, b)' <=> j = i
    BY <1>5, <1>6, <1>10, <2>1
  <2>3. buf'[i].data = written'[b]
    BY <1>1, <1>2, <1>10, <1>t DEF ComTyped
  <2>4. ~NoWrite(b)'
    BY <2>2 DEF NoWrite
  <2>5. ASSUME NEW q \in Procs, WillWrite(q, b)' PROVE FALSE
    <3>1. q # p /\ WillWrite(q, b)
      BY <1>4, <2>5
    <3>2. Busy(q, b)
      BY <3>1 DEF WillWrite, Busy
    <3> QED BY <1>10, <1>t, <3>1, <3>2, OwnerBusy
  <2>6. Sends(b)' /\ (\E m \in replies' : m.fresh) => server'[b] = com'.data
    BY <1>8, <2>1 DEF WriteCurrent, SameServer
  <2> QED BY <2>2, <2>3, <2>4, <2>5, <2>6 DEF WriteCurrent
<1> QED BY <1>3, <1>9, <1>10 DEF ServerSound

\* rdsbufalloc() and the insertion of the request.
LEMMA BufallocServer ==
    ASSUME Shared = FALSE, DiskSound, ServerSound, NEW p \in Procs, rdsbufalloc(p), fault' = "none"
    PROVE  ServerSound'
<1>1. doing[p].at \in Alloc /\ doing[p] \in Call /\ OwnBlocks /\ SameServer
  BY CallFacts DEF rdsbufalloc, Stands, DiskSound, ServerSound, SameServer
<1>2. PICK i \in Bufs : insert(p, i, doing[p]) /\ TakenOut(i)
  BY BufallocTakes
<1>3. ~Contains(reqq, i)
  BY <1>2 DEF TakenOut, DiskSound, OneList
<1> DEFINE r == doing[p]
<1>4. r.op = "WRITE" => Uses(p, r.blk)
  BY <1>1 DEF OwnBlocks
<1>5. ASSUME r.op = "WRITE" PROVE NoWrite(r.blk)
  <2>1. r.blk \in Blocks
    BY <1>1, CallFields
  <2>2. WillWrite(p, r.blk)
    BY <1>1, <1>5 DEF WillWrite
  <2> QED BY <2>1, <2>2 DEF ServerSound, WriteCurrent
<1>6. r \in Call /\ insert(p, i, r) /\ doing[p] = r
  BY <1>1, <1>2
<1> HIDE DEF r
<1> QED BY <1>1, <1>3, <1>4, <1>5, <1>6, InsertServer

\* rdswrite().
LEMMA RdswriteServer ==
    ASSUME Shared = FALSE, DiskSound, ServerSound, NEW p \in Procs, NEW b \in Blocks, NEW d \in Data,
           rdswrite(p, b, d)
    PROVE  ServerSound'
<1> DEFINE r == [at |-> atBuffer, op |-> "WRITE", blk |-> b, data |-> d]
           c == Lowest(Places(cache, b))
<1>1. r \in Call /\ r.op = "WRITE" /\ r.blk = b
  BY DEF Call, atBuffer
<1>2. /\ doing[p].at = "user" /\ TablesTyped /\ CallsTyped /\ OwnBlocks /\ ComTyped
      /\ SameServer /\ Uses(p, b)
  BY DEF rdswrite, Stands, DiskSound, ServerSound, SameServer
<1>3. CASE /\ Writes(b) # {} /\ buf' = [buf EXCEPT ![replaced(b)].data = d]
           /\ written' = [written EXCEPT ![b] = d]
           /\ UNCHANGED <<reqq, cache, availsem, reqsem, doing>>
  <2> DEFINE i == replaced(b)
  <2>1. i \in Bufs /\ Contains(reqq, i) /\ Holds(i, b)
    BY <1>2, <1>3, ReplacedFacts
  <2>i. buf' = [buf EXCEPT ![i].data = d]
    BY <1>3
  <2> HIDE DEF i
  <2>2. \A j \in Bufs : /\ buf'[j].op = buf[j].op /\ buf'[j].blk = buf[j].blk
                        /\ buf'[j].data = IF j = i THEN d ELSE buf[j].data
    BY <1>2, <2>i DEF TablesTyped, Buffer
  <2>3. OwnBlocks'
    BY <1>2, <1>3 DEF OwnBlocks, Uses
  <2>4. ASSUME NEW e \in Blocks PROVE WriteCurrent(e)'
    <3>1. WriteCurrent(e)
      BY DEF ServerSound
    <3>2. \A j \in Bufs : (Queued(j, e)' <=> Queued(j, e))
      BY <1>3, <2>2 DEF Holds, Queued
    <3>3. \A q \in Procs : (WillWrite(q, e)' <=> WillWrite(q, e))
      BY <1>3 DEF WillWrite
    <3>4. (Sends(e)' <=> Sends(e))
      BY <1>2 DEF Sends, SameServer
    <3>5. CASE e # b
      <4>1. ~Queued(i, e)
        BY <2>1, <3>5 DEF Holds, Queued
      <4>2. written'[e] = written[e]
        BY <1>2, <1>3, <3>5 DEF ComTyped
      <4>3. \A j \in Bufs : Queued(j, e) => buf'[j].data = buf[j].data
        BY <2>2, <4>1
      <4> QED BY <1>2, <3>1, <3>2, <3>3, <3>4, <4>2, <4>3, WriteKept DEF SameServer
    <3>6. CASE e = b
      <4>1. Queued(i, e)
        BY <2>1, <3>6 DEF Queued
      <4>2. \A j \in Bufs : Queued(j, e)' => j = i
        BY <2>1, <3>1, <3>2, <4>1 DEF WriteCurrent
      <4>3. ~NoWrite(e) /\ ~NoWrite(e)'
        BY <2>1, <3>2, <4>1 DEF NoWrite
      <4>4. buf'[i].data = written'[e]
        BY <1>2, <1>3, <2>1, <2>2, <3>6 DEF ComTyped
      <4>5. \A q \in Procs : ~WillWrite(q, e)'
        BY <3>1, <3>3, <4>3 DEF WriteCurrent
      <4>6. Sends(e)' /\ (\E m \in replies' : m.fresh) => server'[e] = com'.data
        BY <1>2, <3>1, <3>4 DEF WriteCurrent, SameServer
      <4> QED BY <4>2, <4>3, <4>4, <4>5, <4>6 DEF WriteCurrent
    <3> QED BY <3>5, <3>6
  <2> QED BY <2>3, <2>4 DEF ServerSound
<1>4. ASSUME Writes(b) = {} PROVE NoWrite(b)
  <2> SUFFICES ASSUME NEW i \in Bufs, Queued(i, b) PROVE FALSE
    BY DEF NoWrite
  <2>1. PICK n \in 1 .. Len(reqq) : reqq[n] = i
    BY DEF Queued, Contains
  <2>2. n \in Writes(b)
    BY <1>2, <2>1 DEF Writes, Places, Queued, Holds, TablesTyped
  <2> QED BY <1>4, <2>2
<1>5. CASE /\ Writes(b) = {} /\ Reusable(b) /\ insert(p, cache[c], r)
  <2>1. c \in Unreferenced /\ cache[c] \in Bufs
    BY <1>5, ReusableFacts
  <2>2. c \in 1 .. Len(cache)
    BY <1>2, <2>1 DEF Unreferenced, TablesTyped
  <2> HIDE DEF c, r
  <2>3. ~Contains(reqq, cache[c])
    <3>1. Contains(cache, cache[c])
      BY <2>2 DEF Contains
    <3> QED BY <2>1, <3>1 DEF DiskSound, OneList
  <2> QED BY <1>1, <1>2, <1>4, <1>5, <2>1, <2>3, InsertServer
<1>6. CASE Writes(b) = {} /\ ~Reusable(b) /\ does(p, r) /\ UNCHANGED <<buf, reqq, cache, reqsem, written>>
  <2> HIDE DEF r
  <2> QED BY <1>1, <1>2, <1>4, <1>6, CallStartsServer
<1> QED BY <1>3, <1>5, <1>6 DEF rdswrite

\* The communication process leaves calls alone.
LEMMA ComServer ==
    ASSUME ServerSound, doing' = doing, \A b \in Blocks : WriteCurrent(b)'
    PROVE  ServerSound'
<1>1. OwnBlocks'
  BY DEF ServerSound, OwnBlocks, Uses
<1> QED BY <1>1 DEF ServerSound

\* A request leaves the queue, or none: writes of other blocks stay.
LEMMA HeadLeaves ==
    ASSUME TablesTyped, reqq # <<>>, reqq' = Tail(reqq),
           \A j \in Bufs : /\ SameRequest(j)
                           /\ buf[j].op = "WRITE" => buf'[j].data = buf[j].data
    PROVE  \A b \in Blocks, j \in Bufs :
              /\ Queued(j, b)' <=> Queued(j, b) /\ j # Head(reqq)
              /\ Queued(j, b) => buf'[j].data = buf[j].data
<1>1. \A j : Contains(reqq', j) <=> Contains(reqq, j) /\ j # Head(reqq)
  BY TailList DEF TablesTyped
<1> QED BY <1>1 DEF Queued, Holds, SameRequest

\* wait() passes.
LEMMA ComStartServer ==
    ASSUME DiskSound, ServerSound, comStart
    PROVE  ServerSound'
<1> DEFINE i == Head(reqq)
           e == buf[i]
<1>t. TablesTyped /\ CallsTyped /\ ComTyped
  BY DEF DiskSound
<1>1. /\ reqsem > 0 /\ com = WAITS
      /\ doing' = doing /\ written' = written /\ server' = server /\ doubted' = doubted
  BY DEF comStart
<1>2. reqq # <<>>
  <2> DEFINE x == IF Reads THEN 1 ELSE 0
             u == Cardinality(Unsignaled)
  <2>1. x \in Nat /\ u \in Nat /\ reqsem \in Nat /\ Len(reqq) \in Nat
    BY Numbers
  <2>2. reqsem + x + u <= Len(reqq)
    BY DEF DiskSound, SignalsCovered
  <2> HIDE DEF x, u
  <2>3. Len(reqq) > 0
    BY <1>1, <2>1, <2>2
  <2> QED BY <2>3
<1>3. i \in Bufs /\ Contains(reqq, i) /\ e \in Buffer /\ (e.op = "WRITE" => e.data \in Data)
  BY <1>2, HeadFacts
<1>4. \A b \in Blocks : ~Sends(b)
  BY <1>1 DEF Sends
<1>5. \A b \in Blocks : \A q \in Procs : (WillWrite(q, b)' <=> WillWrite(q, b))
  BY <1>1 DEF WillWrite
<1>6. CASE e.op = "READ" /\ exchange(e) /\ buf' = buf /\ reqq' = reqq
  <2>1. com' # WAITS /\ com'.op = "READ"
    BY <1>3, <1>6, <1>t, ExchangeFacts
  <2>2. \A b \in Blocks : ~Sends(b)'
    BY <2>1 DEF Sends
  <2>3. \A b \in Blocks, j \in Bufs : (Queued(j, b)' <=> Queued(j, b))
    BY <1>6 DEF Queued, Holds
  <2>4. ASSUME NEW b \in Blocks PROVE WriteCurrent(b)'
    <3>1. WriteCurrent(b)
      BY DEF ServerSound
    <3> QED BY <1>1, <1>4, <1>5, <1>6, <2>2, <2>3, <3>1, WriteKept
  <2> QED BY <1>1, <2>4, ComServer
<1>7. CASE /\ e.op = "WRITE" /\ exchange(e) /\ reqq' = Tail(reqq) /\ buf' = [buf EXCEPT ![i].refcnt = 0]
  <2>1. /\ com' # WAITS /\ com'.op = "WRITE" /\ com'.blk = e.blk /\ com'.data = e.data
        /\ \A m \in replies' : ~m.fresh
    BY <1>3, <1>7, <1>t, ExchangeFacts
  <2>2. \A j \in Bufs : SameRequest(j) /\ buf'[j].data = buf[j].data
    <3> HIDE DEF i
    <3>1. 0 \in Int /\ buf' = [buf EXCEPT ![i].refcnt = 0]
      BY <1>7
    <3> QED BY <1>3, <1>t, <3>1, RefcntSet
  <2>3. \A b \in Blocks, j \in Bufs :
           /\ Queued(j, b)' <=> Queued(j, b) /\ j # Head(reqq)
           /\ Queued(j, b) => buf'[j].data = buf[j].data
    BY <1>2, <1>7, <1>t, <2>2, HeadLeaves
  <2>4. \A b \in Blocks : Queued(i, b) <=> e.blk = b
    BY <1>3, <1>7 DEF Queued, Holds
  <2>5. \A b \in Blocks : Sends(b)' <=> e.blk = b
    BY <2>1 DEF Sends
  <2>6. ASSUME NEW b \in Blocks, e.blk # b PROVE WriteCurrent(b)'
    <3>1. WriteCurrent(b)
      BY DEF ServerSound
    <3>2. ~Sends(b)' /\ ~Queued(i, b)
      BY <2>4, <2>5, <2>6
    <3>3. \A j \in Bufs : (Queued(j, b)' <=> Queued(j, b)) /\ (Queued(j, b) => buf'[j].data = buf[j].data)
      BY <2>3, <3>2
    <3> QED BY <1>1, <1>4, <1>5, <3>1, <3>2, <3>3, WriteKept
  <2>7. ASSUME NEW b \in Blocks, e.blk = b PROVE WriteCurrent(b)'
    <3>1. WriteCurrent(b) /\ Queued(i, b)
      BY <2>4, <2>7 DEF ServerSound
    <3>2. NoWrite(b)'
      BY <1>3, <2>3, <3>1 DEF NoWrite, WriteCurrent
    <3>3. com'.data = written'[b]
      BY <1>1, <1>3, <2>1, <3>1 DEF WriteCurrent
    <3>4. Sends(b)' /\ ~(\E m \in replies' : m.fresh)
      BY <2>1, <2>5, <2>7
    <3> HIDE DEF i, e
    <3> QED BY <3>2, <3>3, <3>4 DEF WriteCurrent, NoWrite
  <2> QED BY <1>1, <2>6, <2>7, ComServer
<1>8. CASE e.op = "SYNC" /\ reqq' = Tail(reqq) /\ buf' = buf /\ com' = com /\ replies' = replies
  <2>1. \A b \in Blocks, j \in Bufs :
           /\ Queued(j, b)' <=> Queued(j, b) /\ j # Head(reqq)
           /\ Queued(j, b) => buf'[j].data = buf[j].data
    BY <1>2, <1>8, <1>t, HeadLeaves DEF SameRequest
  <2>2. \A b \in Blocks : ~Queued(i, b) /\ ~Sends(b)'
    BY <1>1, <1>8 DEF Queued, Holds, Sends
  <2>3. ASSUME NEW b \in Blocks PROVE WriteCurrent(b)'
    <3>1. WriteCurrent(b)
      BY DEF ServerSound
    <3>2. \A j \in Bufs : (Queued(j, b)' <=> Queued(j, b)) /\ (Queued(j, b) => buf'[j].data = buf[j].data)
      BY <2>1, <2>2
    <3> QED BY <1>1, <1>4, <1>5, <1>8, <2>2, <3>1, <3>2, WriteKept
  <2> QED BY <1>1, <2>3, ComServer
<1> QED BY <1>6, <1>7, <1>8 DEF comStart

\* A step that leaves the queue and what is written alone.
LEMMA QueueStays ==
    ASSUME ServerSound, NEW b \in Blocks, buf' = buf, reqq' = reqq, doing' = doing, written' = written,
           server'[b] = server[b], (Sends(b)' <=> Sends(b)), Sends(b) => com'.data = com.data,
           b \notin doubted' => b \notin doubted,
           Sends(b) /\ (\E r \in replies' : r.fresh) => \E r \in replies : r.fresh
    PROVE  WriteCurrent(b)'
<1>1. WriteCurrent(b)
  BY DEF ServerSound
<1>2. \A j \in Bufs : (Queued(j, b)' <=> Queued(j, b))
  BY DEF Queued, Holds
<1>3. \A q \in Procs : (WillWrite(q, b)' <=> WillWrite(q, b))
  BY DEF WillWrite
<1> QED BY <1>1, <1>2, <1>3, WriteKept

\* A request is sent.
LEMMA ComSendServer ==
    ASSUME DiskSound, ServerSound, comSend
    PROVE  ServerSound'
<1>t. ComTyped
  BY DEF DiskSound
<1>1. /\ com.at = "try" /\ com' = [com EXCEPT !.at = "recv", !.xmit = TRUE, !.tries = tried(@)]
      /\ UNCHANGED <<buf, reqq, doing, written, doubted>>
  BY DEF comSend
<1>2. com # WAITS /\ com \in Exchange /\ com.blk \in Blocks
  BY <1>1, <1>t, ComFacts
<1>3. com'.op = com.op /\ com'.blk = com.blk /\ com'.data = com.data /\ com' # WAITS
  <2>1. com' = [com EXCEPT !.at = "recv", !.xmit = TRUE, !.tries = com.tries + 1]
    BY <1>1 DEF tried
  <2>2. com'.at = "recv" /\ com'.op = com.op /\ com'.blk = com.blk /\ com'.data = com.data
    BY <1>2, <2>1 DEF Exchange
  <2>3. WAITS.at = "wait"
    BY DEF WAITS
  <2> QED BY <2>2, <2>3
<1>4. \A b \in Blocks : (Sends(b)' <=> Sends(b)) /\ (Sends(b) <=> com.op = "WRITE" /\ com.blk = b)
  BY <1>2, <1>3 DEF Sends
<1>5. CASE UNCHANGED <<server, replies>>
  <2>1. ASSUME NEW b \in Blocks PROVE WriteCurrent(b)'
    BY <1>1, <1>3, <1>4, <1>5, QueueStays
  <2> QED BY <1>1, <2>1, ComServer
<1>6. CASE server' = IF com.op = "WRITE" THEN [server EXCEPT ![com.blk] = com.data] ELSE server
  <2>1. ASSUME NEW b \in Blocks, ~Sends(b) PROVE WriteCurrent(b)'
    <3>1. server'[b] = server[b]
      BY <1>2, <1>4, <1>6, <1>t, <2>1 DEF ComTyped
    <3> QED BY <1>1, <1>3, <1>4, <2>1, <3>1, QueueStays
  <2>2. ASSUME NEW b \in Blocks, Sends(b) PROVE WriteCurrent(b)'
    <3>1. server'[b] = com'.data
      BY <1>2, <1>3, <1>4, <1>6, <1>t, <2>2 DEF ComTyped
    <3>2. WriteCurrent(b)
      BY DEF ServerSound
    <3>3. \A j \in Bufs : (Queued(j, b)' <=> Queued(j, b))
      BY <1>1 DEF Queued, Holds
    <3>4. \A q \in Procs : (WillWrite(q, b)' <=> WillWrite(q, b))
      BY <1>1 DEF WillWrite
    <3>5. (NoWrite(b)' <=> NoWrite(b)) /\ Sends(b)'
      BY <1>4, <2>2, <3>3 DEF NoWrite
    <3>6. /\ \A j, k \in Bufs : Queued(j, b)' /\ Queued(k, b)' => j = k
          /\ \A j \in Bufs : Queued(j, b)' => buf'[j].data = written'[b]
          /\ \A p \in Procs : WillWrite(p, b)' => NoWrite(b)'
      BY <1>1, <3>2, <3>3, <3>4, <3>5 DEF WriteCurrent
    <3>7. NoWrite(b)' => com'.data = written'[b]
      BY <1>1, <1>3, <2>2, <3>2, <3>5 DEF WriteCurrent
    <3> QED BY <3>1, <3>5, <3>6, <3>7 DEF WriteCurrent
  <2> QED BY <1>1, <2>1, <2>2, ComServer
<1> QED BY <1>5, <1>6 DEF comSend

\* No reply comes in time, or nobody expects one any more.
LEMMA ComTimeoutServer ==
    ASSUME DiskSound, ServerSound, comTimeout \/ comFail
    PROVE  ServerSound'
<1>1. /\ UNCHANGED <<buf, reqq, doing, written, doubted, replies, server>>
      /\ com' = com \/ (com.at = "recv" /\ com' = [com EXCEPT !.at = "try"])
  BY DEF comTimeout, comFail
<1>2. ASSUME com.at = "recv", com' = [com EXCEPT !.at = "try"]
      PROVE  com'.op = com.op /\ com'.blk = com.blk /\ com'.data = com.data /\ com' # WAITS /\ com # WAITS
  <2>1. com # WAITS /\ com \in Exchange
    BY <1>2, ComFacts DEF DiskSound
  <2>2. com'.at = "try" /\ com'.op = com.op /\ com'.blk = com.blk /\ com'.data = com.data
    BY <1>2, <2>1 DEF Exchange
  <2> QED BY <2>1, <2>2 DEF WAITS
<1>3. ASSUME NEW b \in Blocks PROVE (Sends(b)' <=> Sends(b)) /\ (Sends(b) => com'.data = com.data)
  <2>1. CASE com' = com
    BY <2>1 DEF Sends
  <2>2. CASE com.at = "recv" /\ com' = [com EXCEPT !.at = "try"]
    BY <1>2, <2>2 DEF Sends
  <2> QED BY <1>1, <2>1, <2>2
<1>4. ASSUME NEW b \in Blocks PROVE WriteCurrent(b)'
  BY <1>1, <1>3, QueueStays
<1> QED BY <1>1, <1>4, ComServer

\* A reply comes.
LEMMA ComRecvServer ==
    ASSUME DiskSound, ServerSound, NEW r \in replies, comRecv(r)
    PROVE  ServerSound'
<1>t. TablesTyped /\ CallsTyped /\ ComTyped
  BY DEF DiskSound
<1>1. com.at = "recv" /\ replies' \subseteq replies /\ UNCHANGED <<doing, server, written>>
  BY DEF comRecv
<1>2. com # WAITS /\ com \in Exchange /\ com.blk \in Blocks
  BY <1>1, <1>t, ComFacts
<1>3. CASE com' = WAITS /\ com.op = "READ" /\ readDone(r.data)
  <2> DEFINE i == Head(reqq)
  <2>1. reqq # <<>> /\ buf[i].op = "READ"
    BY <1>2, <1>3 DEF DiskSound, HeadRead, Reads
  <2>2. i \in Bufs /\ Contains(reqq, i)
    BY <2>1, HeadFacts
  <2>3. buf' = [buf EXCEPT ![i].data = r.data, ![i].refcnt = 1] /\ reqq' = Tail(reqq) /\ doubted' = doubted
    BY <1>3 DEF readDone
  <2>4. r.data \in Data \cup {NONE}
    BY <1>t DEF ComTyped
  <2>5. SameRequest(i) /\ \A j \in Bufs \ {i} : buf'[j] = buf[j]
    <3> HIDE DEF i
    <3> QED BY <1>t, <2>2, <2>3, <2>4, DataSet
  <2>6. \A j \in Bufs : SameRequest(j) /\ (buf[j].op = "WRITE" => buf'[j].data = buf[j].data)
    BY <2>1, <2>5 DEF SameRequest
  <2>7. \A b \in Blocks, j \in Bufs :
           /\ Queued(j, b)' <=> Queued(j, b) /\ j # Head(reqq)
           /\ Queued(j, b) => buf'[j].data = buf[j].data
    BY <1>t, <2>1, <2>3, <2>6, HeadLeaves
  <2>8. \A b \in Blocks : ~Queued(i, b) /\ ~Sends(b) /\ ~Sends(b)'
    BY <1>3, <2>1 DEF Queued, Holds, Sends
  <2>9. ASSUME NEW b \in Blocks PROVE WriteCurrent(b)'
    <3>1. WriteCurrent(b)
      BY DEF ServerSound
    <3>2. \A j \in Bufs : (Queued(j, b)' <=> Queued(j, b)) /\ (Queued(j, b) => buf'[j].data = buf[j].data)
      BY <2>7, <2>8
    <3>3. \A q \in Procs : (WillWrite(q, b)' <=> WillWrite(q, b))
      BY <1>1 DEF WillWrite
    <3> QED BY <1>1, <2>3, <2>8, <3>1, <3>2, <3>3, WriteKept
  <2> QED BY <1>1, <2>9, ComServer
<1>4. CASE com' = WAITS /\ com.op = "WRITE" /\ writeDone(r.fresh)
  <2>1. /\ doubted' = IF r.fresh THEN doubted \ {com.blk} ELSE doubted \cup {com.blk}
        /\ buf' = buf /\ reqq' = reqq
    BY <1>4 DEF writeDone
  <2>2. \A b \in Blocks : ~Sends(b)' /\ (Sends(b) <=> com.blk = b)
    BY <1>2, <1>4 DEF Sends
  <2>3. ASSUME NEW b \in Blocks, com.blk # b PROVE WriteCurrent(b)'
    BY <1>1, <2>1, <2>2, <2>3, QueueStays
  <2>4. ASSUME NEW b \in Blocks, com.blk = b PROVE WriteCurrent(b)'
    <3>1. WriteCurrent(b) /\ Sends(b) /\ ~Sends(b)'
      BY <2>2, <2>4 DEF ServerSound
    <3>2. \A j \in Bufs : (Queued(j, b)' <=> Queued(j, b))
      BY <2>1 DEF Queued, Holds
    <3>3. \A q \in Procs : (WillWrite(q, b)' <=> WillWrite(q, b))
      BY <1>1 DEF WillWrite
    <3>4. (NoWrite(b)' <=> NoWrite(b))
      BY <3>2 DEF NoWrite
    <3>5. /\ \A j, k \in Bufs : Queued(j, b)' /\ Queued(k, b)' => j = k
          /\ \A j \in Bufs : Queued(j, b)' => buf'[j].data = written'[b]
          /\ \A p \in Procs : WillWrite(p, b)' => NoWrite(b)'
      BY <1>1, <2>1, <3>1, <3>2, <3>3, <3>4 DEF WriteCurrent
    <3>6. b \notin doubted' /\ NoWrite(b)' => server'[b] = written'[b]
      <4>1. SUFFICES ASSUME b \notin doubted', NoWrite(b) PROVE server[b] = written[b]
        BY <1>1, <3>4
      <4>2. r.fresh
        BY <2>1, <2>4, <4>1
      <4>3. com.data = written[b] /\ server[b] = com.data
        BY <3>1, <4>1, <4>2 DEF WriteCurrent
      <4> QED BY <4>3
    <3> QED BY <3>1, <3>5, <3>6 DEF WriteCurrent
  <2> QED BY <1>1, <2>3, <2>4, ComServer
<1>5. CASE com' = [com EXCEPT !.at = "try", !.xmit = r.fresh] /\ UNCHANGED <<buf, reqq, doubted>>
  <2>1. com'.at = "try" /\ com'.op = com.op /\ com'.blk = com.blk /\ com'.data = com.data
    BY <1>2, <1>5 DEF Exchange
  <2>2. com' # WAITS
    BY <2>1 DEF WAITS
  <2>3. \A b \in Blocks : (Sends(b)' <=> Sends(b))
    BY <1>2, <2>1, <2>2 DEF Sends
  <2>4. ASSUME NEW b \in Blocks PROVE WriteCurrent(b)'
    BY <1>1, <1>5, <2>1, <2>3, QueueStays
  <2> QED BY <1>1, <2>4, ComServer
<1> QED BY <1>3, <1>4, <1>5 DEF comRecv

\* Every step keeps what is known of the server.
LEMMA NextServer ==
    ASSUME Shared = FALSE, DiskSound, ServerSound, Next, fault' = "none"
    PROVE  ServerSound'
<1>1. CASE Communicating
  BY <1>1, ComStartServer, ComSendServer, ComTimeoutServer, ComRecvServer DEF Communicating
<1>2. ASSUME NEW p \in Procs, Calling(p) PROVE ServerSound'
  BY <1>2, RdsreadServer, RdswriteServer, SyncServer DEF Calling
<1>3. ASSUME NEW p \in Procs, Going(p) PROVE ServerSound'
  BY <1>3, BufallocServer, AwaitServer, RdsreadEndServer, SyncEndServer DEF Going
<1> QED BY <1>1, <1>2, <1>3 DEF Next

\* What the invariant says about the server.
LEMMA ServerWrites ==
    ASSUME ServerInv
    PROVE  WritesReachServer
<1> SUFFICES ASSUME fault = "none", NEW b \in Blocks \ doubted, Writes(b) = {},
                    ~(com # WAITS /\ com.op = "WRITE" /\ com.blk = b)
             PROVE  server[b] = written[b]
  BY DEF WritesReachServer
<1>1. TablesTyped /\ WriteCurrent(b)
  BY DEF ServerInv, ServerSound, DiskSound
<1>2. NoWrite(b)
  <2> SUFFICES ASSUME NEW i \in Bufs, Queued(i, b) PROVE FALSE
    BY DEF NoWrite
  <2>1. PICK n \in 1 .. Len(reqq) : reqq[n] = i
    BY DEF Queued, Contains
  <2>2. n \in Writes(b)
    BY <1>1, <2>1 DEF Writes, Places, Queued, Holds, TablesTyped
  <2> QED BY <2>2
<1>3. ~Sends(b)
  BY DEF Sends
<1> QED BY <1>1, <1>2, <1>3 DEF WriteCurrent

\* When no write of a block is under way the server has what was written last,
\* however often requests and replies were lost, repeated or came late, unless
\* an old reply was taken for the answer: rdswrite(), rdsprocess(), rdscomm().
THEOREM DiskWritesReachServer == Shared = FALSE /\ LiveSpec => []WritesReachServer
<1> SUFFICES ASSUME Shared = FALSE PROVE LiveSpec => []WritesReachServer
  OBVIOUS
<1>1. rdsinit => ServerInv
  <2> SUFFICES ASSUME rdsinit PROVE DiskSound /\ ServerSound
    BY DEF ServerInv
  <2>1. DiskSound
    BY InitSound
  <2>2. \A p \in Procs : doing[p].at = "user"
    BY DEF rdsinit, USER
  <2>3. OwnBlocks
    BY <2>2 DEF OwnBlocks
  <2>4. reqq = <<>> /\ com = WAITS /\ written = server
    BY DEF rdsinit
  <2>5. \A b \in Blocks : ~Sends(b) /\ \A i \in Bufs : ~Queued(i, b)
    BY <2>4, EmptyList DEF Queued, Sends
  <2>6. \A b \in Blocks : WriteCurrent(b)
    BY <2>2, <2>4, <2>5 DEF WriteCurrent, WillWrite
  <2> QED BY <2>1, <2>3, <2>6 DEF ServerSound
<1>2. ASSUME ServerInv, [Next]_rdsVars PROVE ServerInv'
  <2>1. CASE Next
    BY <1>2, <2>1, NextSound, NextServer, StepsWithoutFault DEF ServerInv
  <2>2. CASE UNCHANGED rdsVars
    <3>1. /\ fault' = fault /\ com' = com
          /\ UNCHANGED <<buf, reqq, doing, written, server, doubted, replies>>
      BY <2>2 DEF rdsVars
    <3>2. \A b \in Blocks : (Sends(b)' <=> Sends(b))
      BY <3>1 DEF Sends
    <3>3. ASSUME ServerSound PROVE ServerSound'
      <4>1. ASSUME NEW b \in Blocks PROVE WriteCurrent(b)'
        BY <3>1, <3>2, <3>3, QueueStays
      <4> QED BY <3>1, <3>3, <4>1, ComServer
    <3> QED BY <1>2, <2>2, <3>1, <3>3, StutterSound DEF ServerInv
  <2> QED BY <1>2, <2>1, <2>2
<1>3. ServerInv => WritesReachServer
  BY ServerWrites
<1> QED BY <1>1, <1>2, <1>3, PTL DEF LiveSpec
=============================================================================
