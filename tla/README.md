# A TLA+ verification of Xinu (BeagleBone Black)

The repository is a Xinu operating system for the BeagleBone Black with a
course's additions: futures and a producer/consumer command.
`src/bbb-xinu/system` is the kernel, `device` and `net` the drivers and
protocols, `shell` and `apps` the programs. `cross_compiler` holds a vendored
tool chain and is not looked at.

This directory holds TLA+ modules translated from that source, TLC
configurations (`MC*.cfg`) that check them on small instances, and TLAPS proofs
about the kernel, the memory manager, the buffer pools and the ports for every
size of their tables. `PROJECT.json` lists the runs,
which source lines each definition models, the mutants that show each property
can fail, the hazards the properties are aimed at and the findings.

## 1. Inventory

### Parts that are modelled

| Part | State | Operations | What is hard, and what makes it correct |
|---|---|---|---|
| Scheduler, queues (`resched.c`, `ready.c`, `queue.c`, `getitem.c`, `insert.c`) | ready list with keys, `currpid`, `preempt`, `Defer` | `resched`, `resched_cntl`, `ready`, queue operations | every call may switch to another process in its middle. A process is on the queue its state names, once; there is always something to run; deferral is balanced; the highest priority runs |
| Process manager (`create.c`, `kill.c`, `suspend.c`, `resume.c`, `yield.c`, `chprio.c`, `userret.c`, `xdone.c`) | process table, `prcount`, stacks | one for each file | `kill` sends a message in its middle; slots are reused. `prcount` is exact, the system halts only after the last user process, nobody runs on a freed stack |
| Semaphores (`sem*.c`, `wait.c`, `signal*.c`) | semaphore table and queues | create, delete, reset, wait, signal, signaln | waiters are killed, reset and deleted in loops with rescheduling deferred. The count agrees with the queue; first come, first served |
| Messages (`send.c`, `receive.c`, `recvclr.c`, `recvtime.c`) | one buffer per process | one for each file | a time-out races a message; a second message is refused. No lost wake-up, and no receiver goes on without a message |
| Clock (`clkhandler.c`, `wakeup.c`, `sleep.c`, `insertd.c`, `unsleep.c`) | delta list of sleepers, time slice | tick, wake-up, sleep, early removal | keys are differences. Nobody sleeps too long or too short, every ready process gets the CPU |
| Memory (`meminit.c`, `getmem.c`, `getstk.c`, `freemem.c`) | free list in address order | allocate at either end, free | sizes wrap, blocks come back in any order. No block is shared or lost |
| Buffer pools (`bufinit.c`, `mkbufpool.c`, `getbuf.c`, `freebuf.c`) | lists of buffers, a semaphore each | make, get, free | the result of `wait` is ignored. A permit stands for a buffer, a buffer has one owner |
| Ports (`pt*.c`) | ports with two semaphores, one shared node list, sequence numbers | create, send, receive, reset, delete | a port is reset, deleted and created again under blocked callers. No node on two lists, no stale message, callers get out |
| Futures (`future_*.c`, `apps/fut_queue.c`, `apps/future_*.c`) | value, state, waiting process, two queues | get, set, free, in three modes | suspended callers; queues that overlap in memory. A value for every consumer, one assignment |
| Producer/consumer command (`xsh_prodcons.c`, `produce.c`, `consume.c`) | global `n`, two semaphores | the loops of both processes | two runs at a time; a semaphore deleted by one side. Values in order, both ends finish |
| Terminal driver (`device/tty`) | input buffer, output queue, echo queue, two semaphores, modes | `ttyread`, `ttygetc`, `ttywrite`, `ttyputc`, `ttycontrol`, both halves of the handler | interrupts come between the moment a process is let go and the moment it runs; buffers wrap and overflow. Readers get complete lines as they were typed, output leaves in order, the device is not left idle |
| Shell and `main` (`shell.c`, `main.c`, `xsh_kill.c`) | the command waited for, one message per process | parse, builtins, start a command and wait for it; start the shell again | messages of background commands compete with the awaited one. Lines are parsed as documented, the awaited message is not refused, the shell comes back |
| UDP (`udp.c`) | table of slots, queues of packets | register, receive, send, release, input | a timeout, a packet and a release come together. A receiver is registered while it waits and finds its packet |
| ICMP, IP, network input (`icmp.c`, `ip.c`, `net.c`) | echo table, output queue, the pool of network buffers | ping, echo reply, `netin`, `ipout` | one pool for all. No buffer is lost, the input process goes on |
| ARP (`arp.c`) | cache of entries | resolve, input, allocate | lost, late and repeated answers, eviction. The address is the one of the host, no entry stays pending |
| Remote disk (`device/rds`) | buffers in a free list, a request queue and a cache, two semaphores | read, write, synchronize, the communication process | buffers move between lists of two parties; requests and replies are lost, repeated, late. No buffer is lost, a block's newest version is read and reaches the server, readers return |

How they interact: everything rests on `resched`. System calls run with
interrupts disabled and reach other processes only through `resched`, `ready`
and the queues; interrupts enter between calls. Buffer pools, ports, futures,
the drivers and the command are callers of semaphores, `suspend` and `resume`;
UDP, ICMP and ARP are callers of buffer pools, `send` and `recvtime`; the remote
disk is a caller of UDP, semaphores and messages; the shell learns of the end
of its commands by the message of `kill`.

### Not modelled

| Part | State and operations | Why not |
|---|---|---|
| Opening, closing and deleting a remote disk | the device's state and its name at the server | one process, before and after what `RemoteDisk` models; next |
| Remote files | a mutex around every operation, an exchange like the one of the remote disk | next |
| Local file system | index blocks, free lists on disk, one-block caches | a structure on disk, used under a mutex; last |
| DHCP, DNS, TFTP | request and retry over UDP | sequential programs over `Udp`; later |
| Broadcast, default router, ping to ourselves, the time before the address is known | branches of IP | they add no state to `Net` |
| Scanner of the shell, other commands | tokens, output | formatting; `ping` and `udpecho` are callers of `Icmp` and `Udp` |
| Name space, RAM disk | prefixes, block copies | no concurrency, no hazard |
| Ethernet driver, interrupt dispatch, context switch, platform start | registers, DMA rings, assembly | external: see section 3 |
| I/O switch, C library, configuration program, `TestAndSet` | tables, formatting | no state of their own, or no caller |

## 2. Modules

| Module | Models |
|---|---|
| `KernelState` | the variables of the kernel, queue operations, `resched`, `resched_cntl`, `ready` |
| `Semaphore`, `Message`, `Clock`, `ProcMgr` | the system calls and the clock handler, on the variables of `KernelState` |
| `Kernel` | the composition: initial state, next-state relation, fairness, all kernel properties |
| `MCKernel` | a view for TLC that leaves out what no later step reads |
| `FifoSemaphore` | abstract specification: what the semaphore calls promise |
| `UserSem` | semaphore values as callers above the kernel see them |
| `Memory`, `BufPool`, `Ports`, `Futures`, `FutureQueue`, `ProdCons` | the parts of the same names |
| `Shell` | the shell, the life of its commands, `main` |
| `Command`, `MCCommand` | composition: `Shell` starts `ProdCons` and `Futures`; the sessions for TLC |
| `Tty` | the terminal driver |
| `LineDiscipline` | abstract specification: what the input side of a terminal promises |
| `NetState`, `Udp`, `Icmp`, `Arp` | network buffers, messages and timeouts, and the three protocols on them |
| `Net` | composition: the input process, IP and its output process, fairness and the network properties |
| `RemoteDisk` | the remote disk with its communication process and an unreliable server |
| `SharedLemmas` | lemmas for all proofs: sequences; the semaphores of `UserSem` and their permits |
| `KernelTheorems`, `KernelSafety` | proofs about `Kernel` |
| `StorageTheorems` | proofs about `Memory` and `BufPool` |
| `PortsTheorems`, `CommandTheorems`, `NetTheorems`, `RemoteDiskTheorems` | proofs about the modules of these names; `CommandTheorems` covers `Shell`, `ProdCons` and `Futures`, `NetTheorems` covers `Udp`, `Icmp` and `Arp` |

**Steps and switches.** There is one CPU and system calls run with interrupts
disabled, so what a call does up to the next `resched` is one step. When
`resched` switches, the rest of the call is kept in `frame[p]`, the stack of the
process in C, and is a step of its own (`receiveEnd`, `killEnd`, ...). Loops
that make many processes ready with rescheduling deferred take one step per
round. `clkhandler` may come whenever user code runs.

**Calls.** The constant `Calls` selects the system calls a run's processes
make. The proofs hold for every choice. `kill` sends its message before it takes
the victim out of the table, and a parent that waits in `receive` runs at once,
with the victim half dead. With `KillAgain = FALSE` it, and whoever runs before
`kill` goes on, kills neither a process that is being killed nor one that is
inside `kill`, and a half-dead process neither kills nor exits (`MayKill`): calls
may overlap but do not meet. With `TRUE` nothing is excluded.

**Abstractions.** A queue is a sequence of process IDs instead of links in
`queuetab`. Stacks are numbered places, with the memory list itself in
`Memory`. Names, arguments, descriptors, output and the hardware are left out.
`left` (ticks a sleeper still asked for), `ptgen`, `owner` and `eaten` are
history variables: no action reads them.

**Above the kernel.** `Ports`, `BufPool` and `ProdCons` use semaphores by
`UserSem`; the kernel run `semaphores` shows that the calls keep
`FifoSemaphore`'s promise, which is what `UserSem` takes for granted (first in,
first out, waiters let go on reset and deletion, the place of a killed waiter
given back). `hold` in `Ports` and `FutureQueue` keeps other processes off the
CPU where a call with interrupts disabled resumed nobody.

**Futures.** `future_alloc` passes `&f->set_queue`, the address of the field and
not the queue it points to, so the queues lie over the future and over each
other. In exclusive and shared mode only one of them is used and nothing comes
of it; `Futures` models it as a sequence. In queue mode both are used, and
`FutureQueue` models the words.

**Shell.** A line is the sequence of the types of its tokens. A process is
`run`, `done`, `dying` (it has sent its message and is not yet free) or free.
The priorities decide who runs: the first shell has 50, its commands and the
shells after it 20, and `OthersRun` is the guard of everything of priority 20.
`Command` joins the actions of `ProdCons` and `Futures` under that guard and lets
`xsh_prodcons` start them.

**Terminal.** A call through the device switch keeps the CPU between waits
(`hold`). When the handler signals, a process that was let go runs later and
keeps its permit meanwhile (`LetGo`): interrupts come in between. The input
buffer and the output queue are arrays with indices, so wrapping is part of the
model; the echo queue is the distance of its indices. When an index has left the
buffer or a character was overwritten, the contents mean nothing any more and
the model ends (`corrupt`). `written` and `hidden` are history variables.

**Network.** Calls run with interrupts disabled and give up the CPU in `getbuf`
and `recvtime`; `doing` says where each process stands. A packet is a step of
`netin` for some host: any order, any number of times, or never. Hosts tell the
truth, the hardware address of host `h` is `h`. A queue of UDP is a count, since
packets are alike; the head of an ICMP queue is kept because it wraps at the
wrong constant. Reading or writing a place that holds no packet ends the model
(`fault`). `owner` of a slot is not in the code: it says which process
registered it, and `SharedSlots` says whether others may use it. An ARP entry that
is given to another host has no address in the model until the answer comes, where
the code leaves the old one.

**Remote disk.** `read`, `write` and `control` disable interrupts (`read.c:19`) and
nothing in `device/rds` enables them again, so a call gives up the CPU only where it
waits or signals. A process whose `wait` did not block is still on the CPU: while one
is about to allocate a buffer nobody else runs (`Uninterrupted`). `rdsprocess` itself
runs with interrupts enabled; a clock tick in the middle of its list operations is not
modelled. A request that reaches the server is handled within its
exchange; at most `MaxLate` replies come in a later one. The message of a read
carries the block number of the last write (`asked`), since the code does not
assign it. `written` and `doubted` are history variables.

## 3. Runs

All counts of processes, semaphores and so on are constants of the modules; the
bounds are in the configurations.

| Run | Shows | Bounds, and why they are enough |
|---|---|---|
| `processes` | types, priorities; `ProcessesAccounted`: `prcount`, halt, stacks, with the switch in the middle of `kill` to a parent that waits in `receive` | 4 slots, 3 stacks: a full table, a parent with two children, several `kill` calls under way, the slot and the stack of a victim used again before another `kill` goes on; a priority of 0, which `create` refuses after it took the stack; `KillAgain = FALSE` |
| `semaphores` | queue and state agree, count and queue agree, deferral balanced, refinement of `FifoSemaphore` | 3 users of 1 semaphore, two of which can queue behind a third; it is deleted and created again |
| `messages` | something to run; `NoLostWakeup`: no process waits for a message that is there, and none comes out of `receive` without one | 2 user processes, two message values; suspend, resume, priorities and time-outs interleave |
| `clock` | `DelaysKept`: the delta list is exact, nobody oversleeps; nobody wakes early; every ready process runs, every sleeper wakes | 3 sleepers: removal at the head, in the middle and at the tail; equal, shorter and longer delays and a delay of 0; one priority and a time slice of 2 ticks |
| `memory` | `HeapSound`: the free list, no sharing, no leak | a heap of 6 blocks, 5 sizes: exact and split fits at both ends, merges on either side and on both |
| `bufpool` | `PoolsSound`: a buffer for every permit, one owner; nobody starves | 3 processes, 2 pools of one or two buffers, one process killed anywhere |
| `ports` | `PortsSound`: permits, places and nodes under reset, delete and kill; no stale message; callers get out | 3 processes on 1 port, sizes below, at and above the 2 nodes; sequence numbers up to 3 (`MaxSeq`): a port is created, reset or deleted and created again under a blocked caller |
| `command` | a line is parsed by the documented grammar; the shell does not wait for a command that has ended, and comes back; values of `prodcons` in order and both its processes finish; `FutureSound`: values were set, one assignment in exclusive mode, no `future_set` that is accepted overlooks who waits; everybody returns in exclusive mode | 3 places in the table: the shell, a command in the foreground and one in the background. Three sessions: all lines of up to 6 token types and three commands after it; two runs of `prodcons` one after the other with 2 or 3 values; `prodcons -f` with 3 consumers and 2 producers in any order, either mode |
| `tty` | input implements `LineDiscipline`; what can spoil it; output in order, device not idle with work to do, writers and readers of lines get through | an input buffer of 4 and an output queue of 3, so that all indices wrap; 1 reader with counts below and above a line, 2 writers, a FIFO of 2; an echo queue of 5, which overflows |
| `net` | buffers conserved; `ReceiverServed`: receivers registered and served; ARP entries awaited and right, `netin` goes on | 2 processes, 2 hosts, 1 slot of UDP with 2 places, 1 of ICMP with 1, 1 ARP entry that is evicted, 2 tries, 4 buffers: all of them can be taken. Three sessions: receiving with echo requests, ping with ARP, sending with echo requests |
| `rdisk` | `BuffersAccounted`: buffers in one list and none lost; local reads are current, but for block 0, which a sync claims; writes reach the server; readers return | 2 processes with a block each, 2 buffers, so that they wait for one; 2 tries, 1 late reply, two data values |
| `future_queue_producer` | a violation, see section 4 | 2 consumers, 2 producers, the words of the future |

The views of `tty`, `net` and `rdisk` leave out what no later step reads:
contents of empty places and free slots, the names of buffers, everything after
a fault. In `tty` either the reader or the writers call in one behaviour
(`using`), since input and output meet only in echoes and flow control, which
keys produce in both; when readers call the state of the UART is left out. In
`rdisk` data is compared with what was written last, which is all that reads and
the properties look at.

`CHECK_DEADLOCK FALSE` is set where users may all be waiting or finished
(ports, pools, futures, the shell, the terminal, the network, the disk). The kernel never stops: the null process
and the clock always have a step, and the kernel runs check for deadlock.

Some of these invariants are conjunctions: each part has a definition and a
comment of its own above the whole, and section 4 names the part that fails.

Every property has a mutant in `PROJECT.json`: a change of the code (a dropped
guard, a missing reset, an off-by-one) under which TLC finds the property
violated.

**Fairness.** `Kernel!Fairness` is `WF(Continue) /\ SF(clkhandler)`. The CPU
does not stop in kernel code, and a pending timer interrupt is taken when
interrupts are enabled, again and again, though not continuously: strong
fairness. User code need not do anything. Above the kernel, `WF` for the
process that can go on is what `ReadyRuns` shows for equal priorities, and the
processes modelled there have equal priorities (20 for those of the command).
`BufPool` also assumes that owners return their buffers; `Served` says in its
statement that nobody waits for a second buffer with a first in hand and that
nobody was killed with a buffer, or the permit for one, in hand. In `Futures`
nobody is obliged to free the future, and once it is freed the model ends: what
its remaining users do is undefined.

`Command` asks the shell, `main` and each process of a command to go on when it
can; nobody has to type. `Tty` has `WF` for the UART, whose interrupt comes while
it is enabled, and `SF` for a process in a call, which is disabled while another
one keeps the CPU; `WriterServed` also assumes that echoes end, because the
handler sends them first. `Net` asks timeouts to come and processes that can go
on to do so; no packet has to come. `RemoteDisk` has `WF` for the communication
process and `SF` for the others: while it waits for replies, they take turns.

**External.** The context switch, the interrupt controller, the timer, the
UART, the Ethernet, other hosts, the disk server and the user at the console are
modelled by what the kernel relies on: a switched-out process goes on where it
left off, and interrupts are off inside calls; keys and packets come at any
moment; the server answers each request at most once per copy it gets.

## 4. Findings

One is a run with `expect: violation`, whose property says what a comment of
the code says.

| Run | What the code does |
|---|---|
| `future_queue_producer` | the two queues of a future overlap in memory: a producer that comes first spoils the get queue, and a consumer never returns |

Others came up while the modules were written. They have no run of their own;
each can be seen by a change of constants or of a property.

| Place | What the code does | To see it |
|---|---|---|
| `kill.c:28` | switches to the waiting parent between its count and its effect; a second `kill` counts the victim twice and the system halts early | `KillAgain = TRUE` in `MCProcesses.cfg`: `HaltOnlyWhenLast` fails |
| `recvtime.c:26` | `recvtime(0)` puts a key of 0 on the delta list, which the next tick makes -1: this process and all behind it sleep on | `RecvWaits = {0, 1}` in `MCClock.cfg`: `NoOversleep` fails |
| `chprio.c:25` | changes a priority, neither the ready list nor the CPU | add `"chprio"` to `Calls` in `MCProcesses.cfg`: `HighestPriorityRuns` fails |
| `sleep.c:41` | a delay of 2^31 ms or more becomes a negative key | `HALF = 4`, `Delays = {1, 5}` in `MCClock.cfg`: `DeltaListExact` and `NoOversleep` fail |
| `getmem.c:22` | a size within 7 bytes of 2^32 is rounded to 0, and a free block is handed out | `Requests = {1, 63}` in `MCMemory.cfg`: `NoSharing` fails |
| `ptcreate.c:39` | `ptmaxcnt` is a `uint16`: a port for 2^16 messages is recorded as one for none | `U16 = 2` in `MCPorts.cfg`: `PortsSound` fails |
| `xsh_prodcons.c:5` | two runs of the command share `n` | `Overlap = TRUE` in `MCCommand.cfg`: `InOrder` fails |
| `future_get.c:47` | a consumer that comes after a shared future was set, and before the resumed one runs, sets it back to waiting, and a second producer is accepted; `future_set.c:37` says "only one producer can call future set" | drop the condition on `flag` from `OneSetter` |
| `future_set.c:50` | one `future_set` resumes one of several waiting consumers of a shared future. The future is valid then, and `future_set.c:34` refuses every later set: the others stay in the queue for ever, unless another consumer happens to come before the resumed one has run | drop `LeftBehind` from `WaitersFound`, a part of `FutureSound` |
| `future_cons.c:31` | consumers free a future others still use | `freed` with a process at `"start"` is reachable in `command` |
| `fut_queue.c:17` | a consumer that finds the queue full is not queued and suspends itself | `MAX_SIZE = 2` in `MCCommand.cfg`: `WaitersFound` fails |
| `future_set.c:99` | in queue mode a second producer overwrites the value before the consumer of the first one runs | two consumers of `FutureQueue` with the same `got` |
| `ptclear.c:21` | a port stays in limbo when the process that clears it is killed | drop `Orphaned` from `ResetReleases` |
| `main.c:52` | the shell that is created again has the priority of its commands: the message of a background command can take the place of the awaited one, and the shell waits for ever | drop `first` from `ShellReturns` |
| `main.c:52` | nobody looks whether `create` found a place | drop the last disjunct of `ShellBack` |
| `shell.c:265` | the input file stays open when the output file cannot be opened | by reading: files are not modelled |
| `ttyhandle_in.c:80` | cbreak mode never signals: what is typed can be read only when later input in another mode pays for it | `hidden > 0` with a reader that waits |
| `ttyhandle_in.c:99` | a line kill across the end of the buffer moves the head and leaves the tail before the buffer | `killKey` with `corrupt'` |
| `ttyhandle_in.c:43`, `:156` | raw mode wraps the output tail instead of the input tail, end of file wraps nothing | `rawKey`, `eofKey` with `corrupt'` |
| `ttyhandle_in.c:124` | a newline is stored without a test for room | drop the first case of `OverflowOnlyByNewline`, a part of `LinePromise` |
| `ttyhandle_in.c:256` | echoes overrun their queue | `echoes` in `eputc` |
| `ttyhandle_out.c:57` | the place of a writer that was let go and has not stored its character is taken for a character | `ttyhandle_out` with `corrupt'` |
| `ttycontrol.c:27` | the look-ahead reads the tail, where the next character will be stored | by reading: `nextcEnd` has no result |
| `udp.c:543` | a slot is released under a process that waits on it | `SharedSlots = TRUE` in `MCNet.cfg`: `ReceiverFindsPacket` fails |
| `arp.c:133` | any message is taken for the answer | `Foreign = TRUE` in `MCNet.cfg`: `NeverUnresolved` and `PendingAwaited` fail |
| `arp.c:148` | between the answer and the moment the waiting process runs, `arp_alloc` may give its resolved entry to another host, whose address is then returned | require `arpcache[d.slot].haddr \in {NONE, d.dest}` in `NeverUnresolved` |
| `icmp.c:86`, `:201`, `:339` | replies are queued without a test for room; the head wraps at the number of slots | `fault = "icmp"` is reachable in `net` |
| `net.c:30` | packets nobody receives hold all buffers but one: `netin` waits in `icmp_mkpkt` with the packet it should answer | drop the last disjunct of `NetinGoesOn` |
| `rdsbufalloc.c:31` | "at least one such entry must exist": not when a reader was told and has not run, since its buffer is counted as available already; the system panics | `fault # "bufalloc"` as an invariant of `rdisk`; holds for one process |
| `rdsprocess.c:117` | a second request for the block (a sync counts as block 0) is unlinked with the wrong links | `fault # "links"` as an invariant |
| `rdswrite.c:57` | `semreset` is refused at a count of 0: a permit too many | `=` instead of `>=` in `NoBufferLost` |
| `rdscontrol.c:65` | a sync resumes the communication process, which is not suspended, and does not signal: the queue stays behind by one request until somebody else makes one | drop `Behind` from `ReadReturns` |
| `rdscomm.c:88` | an old reply confirms a write that was lost | drop `doubted` from `WritesReachServer` |
| `rdsread.c:35` | with two processes on a block an older copy may be returned | `Shared = TRUE` in `MCRemoteDisk.cfg`: `LocalReadCurrent` fails |
| `rdscontrol.c:49` | "rd_blknum = 0; /* Unused */": a sync counts as a request for block 0 and hides a queued write of it from `rdsread.c:50`; what is read from the server instead is older, and goes in front of the cache | `Blocks` instead of `Blocks \ {0}` in `LocalReadCurrent`, with 3 buffers |
| `rdsprocess.c:45` | the block number of a read is never put in the message: the server is asked for the block of the last write | `answers` |
| `rdsread.c:36` | a block that was read stays `RD_INVALID`, so it is never served from the cache | `cached` |

The passing runs leave these out: `processes` has no `chprio` and no calls of
`kill` that meet, `clock` no wait of 0, `command` no overlap, `net` no shared slots
and no messages of other processes, `rdisk` no shared blocks, and its
`LocalReadCurrent` is not about block 0. Other cases are excepted in the property
itself, with a name and a comment: `LeftBehind`, `Behind`, `doubted`, `Orphaned`, an
entry that was given away in `NeverUnresolved`, and everything after a `fault` in the
properties of the network and the remote disk. A full ICMP queue is such a fault:
the code goes on there, and loses a buffer.

## 5. Proofs

The theorems hold for every value of the constants: any number of processes,
semaphores, stacks, pools, ports and nodes, any heap, any choice of calls and
arguments that the named assumptions and the conditions in the last column
allow. The assumptions are in the modules that declare the constants
(`ConstantsAssumption`, `WorkloadAssumption`, `MemoryAssumption`,
`PoolsAssumption`, `PortsAssumption`, `CountsAssumption`, `FuturesAssumption`,
`ShellAssumption`, `NetAssumption`, `RemoteDiskAssumption`); TLC evaluates each of them in a run.

| Theorem | States | Condition |
|---|---|---|
| `TypeCorrect` | `Spec => []TypeOK` | |
| `QueuesAgree` | `Spec => []QueueStateAgree` | |
| `AlwaysSomethingToRun` | `Spec => []SomethingToRun` | |
| `DeferralBalanced` | `Spec => []DeferBalanced` | |
| `NoMessageLost` | `Spec => []NoLostWakeup` | |
| `SemaphoreCounts` | `Spec => []SemCountAgree` | |
| `ImplementsFifoSemaphore` | `Spec => SemaphorePromise`, the refinement of `FifoSemaphore` | |
| `HighestPriority` | `Spec => []HighestPriorityRuns` | no `chprio` |
| `TableAccounted` | `Spec => []ProcessesAccounted` | calls of `kill` that overlap do not meet (`KillAgain = FALSE`) |
| `DelaysExact` | `Spec => []DelaysKept` | delays below `HALF`, no wait of 0 |
| `NobodyEarly` | `Spec => NeverEarly` | delays below `HALF`, no wait of 0 |
| `HeapAlwaysSound` | `HeapSpec => []HeapSound` | no request that `roundmb` wraps |
| `PoolsAlwaysSound` | `Spec => []PoolsSound` | |
| `PortsAlwaysSound` | `Spec => []PortsSound` | sizes of ports below 2^16 |
| `NoMessageStale` | `Spec => []NoStaleMessage` | sizes of ports below 2^16 |
| `ValuesInOrder` | `LiveSpec => []InOrder` | one job at a time (`Overlap = FALSE`) |
| `FuturesSound` | `LiveSpec => []FutureSound` | at most `MAX_SIZE` consumers |
| `ChildNotMissed` | `LiveSpec => []ShellReturns` | |
| `GrammarOfLines` | `LiveSpec => []ParseIsGrammar` | |
| `NoBufferLost` | `LiveSpec => []BuffersConserved` | |
| `ReceiversServed` | `LiveSpec => []ReceiverServed` | slots used by their owner, no messages of other processes |
| `PendingsAwaited` | `LiveSpec => []PendingAwaited` | the same |
| `NeverWrongAddress` | `LiveSpec => []NeverUnresolved` | the same |
| `DiskBuffersAccounted` | `LiveSpec => []BuffersAccounted` | |
| `DiskReadsCurrent` | `LiveSpec => []LocalReadCurrent` | no blocks that processes share |
| `DiskWritesReachServer` | `LiveSpec => []WritesReachServer` | the same |

**The conditions** are those under which the code is right; without them TLC
finds the property violated (section 4); `NoMessageStale` has the last one only
because it is proved with `PortsSound`.

- `chprio` changes a priority and neither the ready list nor the CPU.
- A parent that waits in `receive` is switched to in the middle of `kill`, and may
  create, kill and wait meanwhile: the theorem covers that. Excluded is what `MayKill`
  excludes: that a victim is killed again or goes on to kill or exit, and that a process
  in the middle of `kill` is killed.
- A delay from `HALF` on is a negative key. A wait of 0 becomes a key of -1 at
  the next tick, and the test for 0 never succeeds again.
- `roundmb` of a size less than `MB - 1` below 2^32 is 0.
- `ptmaxcnt` is a `uint16`: a port created for 2^16 messages has a semaphore of that
  count and a `ptmaxcnt` of 0.
- Jobs that overlap share `n`. A future's queue has `MAX_SIZE` places (10 in
  `fut_queue.h`), and `enq` that finds none is not noticed.
- A slot may be released under a process that waits on it (`udp.c:543`).
  `arp_resolve` takes any message for the answer (`arp.c:133`) and leaves its entry
  pending for a process that is gone; the answer then reaches that process in a later
  `udp_recv`, which takes it for the news of a packet. `ReceiversServed` needs both
  conditions for this reason.
- A process that reads a block another one has just written puts an older copy in
  front of the cache (`rdsread.c:35`). The theorem about buffers needs no condition:
  it holds with shared blocks, until a fault stops the system. `NoBufferLost` and
  `DiskBuffersAccounted` say nothing of what comes after a fault.

**Kernel: types, queues, deferral** (`KernelTheorems`). The first four are proved
together, as `Inv`. None is inductive alone. That `currpid`
is a process ID needs a ready list that is not empty when the current process
blocks: `SomethingToRun`. That the null process stays ready needs that it is on
the ready list exactly when its state says so: `QueueStateAgree`. That a process
leaves its queue before its state changes needs that no other process runs
inside a loop that defers rescheduling, where states and queues are changed
one by one: `DeferBalanced`. And all need the types.

The argument: `SwitchLemma` and `ReschedLemma` show what `resched` leaves when
the ready list agrees with the states; `ReadyLemma`, `BlockLemma` and
`YieldLemma` do so for its callers; `QuietStep`, `StartStep`, `LoopStep` and
`StopStep` turn this into `Inv'` for a step outside, at the start of, inside and
at the end of a deferring loop. Each action has one lemma, named after it;
`NextInv` collects them. `SharedLemmas` has the facts about sequences: where
`insert` stops and what insertion and removal do to the members of a queue.

**Kernel: messages, semaphores, priorities, table** (`KernelSafety`, on top of `Inv`).
`Alike` and `Becomes` say what a step does to the process states: one process
really changes, the others at most swap the CPU. Every action is first put in
one of these forms, and the properties follow from the form.

- `NoLostWakeup` is inductive with `Inv`.
- `SemInv` adds to `SemCountAgree` that the semaphore a deferring loop works on is
  still in use, or free when it is being deleted: a loop that met a semaphore in
  another phase would count wrongly. The same lemmas show that each step is one
  of `FifoSemaphore`'s, with `QuietView` and `FlushView` for what the abstract
  variables are outside and inside of `semreset` and `semdelete`.
- `PrioInv` adds that the ready list is ordered by priority with the keys `insert`
  saw, and that the current process is at least as important as its head unless a
  `resched` is being held back.
- `TableInv` adds `KillsApart`: the calls of `kill` under way, any number of them, have
  each a victim of its own that is still in the table, and only a process that kills
  itself is both victim and killer. So a call that goes on finds its victim as it left
  it, and the count is off by exactly the victims.

**Kernel: delays** (`KernelSafety`). `DelaysKept` is not inductive: `insertd` and
`unsleep` need that the delta list is in order and no key wraps (`Delta`), and the
clock, which tests a key for 0 after it has decremented it, needs that it was
positive before (`NotDue`). `DeltaInsertAt` and `DeltaRemove` are about any delta
list. `NeverEarly` follows from the invariant step by step: only `wakeup` and a
kill let a sleeper go, and `wakeup` takes those whose key is 0.

**Memory** (`StorageTheorems`). `HeapInv` speaks of addresses: every byte of the heap is
in exactly one block of the free list or one block set aside for a caller, and
the free list is in order with a gap between neighbours. It says of what callers
hold that whole units of `MB` are set aside, which is what `freemem` takes back;
`HeapSound` speaks of the bytes asked for. `WalkFacts`, `CutFacts`, `SpliceFacts` and
`CoalesceFacts` say what the walk along the list, cutting a block at either end
and merging do; `ReleaseAgainRefused` shows that a block freed twice is refused.

**Buffer pools** (`SharedLemmas`, `StorageTheorems`). `SharedLemmas` shows what each operation of
`UserSem` does to the permits of a semaphore: its count, and one for each
process that was let go and has not run. `PoolInv` counts these too: a permit
is taken only by processes that asked that pool (`PermitInv`), and a buffer goes
back to the pool its first word names (`BufferInv`).

**Ports** (`PortsTheorems`). `PortInv` has one part for a port (`PortAt`) and one for the
nodes of all ports (`NodeInv`), which share one free list. `PortAt` says which
process clears a port in limbo and how far it got (`Cleared`), whose wait belongs
to the present use of the port (`Awaited`), and that permits, messages and places
agree with the callers of this use (`Counted`). `NodeInv` says who owns the nodes
while `_ptclear` gives them back: after its first step they are in the free list,
and the list of the port, which still shows them when it is deleted, does not count. `NoStaleMessage` and
`PanicOnlyOvercommitted` are proved with it; TLC checked `PortInv` on the
constants of `MCPorts` and with two ports before the proof was written.

**The shell and its commands** (`CommandTheorems`). Four independent invariants.

- `PcInv` says whose turn it is in a job of `prodcons`: the producer may set the value
  `i` (`ProducerTurn`), the consumer has to take the last one (`ConsumerTurn`), or it is
  the end (`LastTurn`). Each turn says where both processes may stand, what both
  semaphores hold and what `n` is. Each statement has a lemma about one job.
- `FutInv`: whoever may read finds a value that was set (`FutValues`); an exclusive
  future has one waiting consumer, the one `pid` names, and one producer that
  succeeded (`FutExclusive`); who waits for a shared one is in the queue or in the
  local variable of a producer, and no more places are used than consumers have
  called (`FutQueue`); and a queue that is not empty beside a valid future stands
  behind a consumer that a producer has resumed or is about to (`FutOrder`), which is
  what makes those in it `LeftBehind` and not overlooked.
- `ChildHeard`: the first shell that waits has the message of its child if the child
  has sent one. `FirstWaits` uses its priority: others run only while it has no
  message.
- `parse` is two rounds of one search. `RedirectedRound`, `RedirectedStops` and
  `RedirectedTakes` say what a round does to tokens of any number, `AcceptedOnly` and
  `Accepted` put two together, in either direction.

**Network** (`NetTheorems`). Two invariants.

- `Sound` accounts for the buffers. The pool's semaphore is one of `UserSem` whose
  waiters are processes in `getbuf`, and `Conserved` adds up permits (those of
  processes that were let go included), packets in the queues of slots, packets for
  IP's output process, the one `netin` has, and those of processes that resolve an
  address. A place of a queue is counted while it lies between head and tail, so the
  queues are one set of places: `PlacesChange` says how its size changes when a
  packet is put in or taken out, with or without wrapping. Each action has a lemma
  named after it that ends in `Sound`.
- `WaitSound` says who may wait for what: a process in `udp_recv` is
  named by its slot until it has a message, and finds a packet then (`RecvSound`); a slot
  of UDP or ICMP names only processes that wait on it (`TellsWaiter`); a pending ARP entry names a process that waits for it
  (`PendingSound`), and one that was told finds its entry resolved unless it was given
  away (`ResolvingSound`). `UdpKept`, `IcmpKept` and `ArpKept` say what a step of one protocol leaves
  of the parts of the others.

**Remote disk** (`RemoteDiskTheorems`). `DiskSound` accounts for the buffers, and two
invariants stand on it.

- `DiskSound` says that a buffer is in one list (`OneList`) and that there are at least as
  many permits as buffers to be had, those of processes that were let go included
  (`PermitsThere`). What moves a buffer needs more: the communication process takes the
  head of a queue that must not be empty (`SignalsCovered`: no more signals than
  requests), still the one its exchange was started for (`HeadRead`); a read or sync in
  the queue belongs to a process that waits for it and has no other one
  (`RequestsAwaited`), so nobody is told twice; and what a reader was told stays in the
  cache, since its reference keeps `rdsbufalloc` and `rdswrite` away (`ToldSafe`).
- `CopyCurrent` says of a block that it has one written copy, with the last data, which is
  the newest of the block in the cache, and none while its owner is in a call for it. The
  last part is what makes the others inductive: a block that is read goes in front of the
  cache. `FirstCopy` is why `rdswrite` takes that very copy out before it queues another.
- `WriteCurrent` follows a write from the queue to the server: what is being sent is the
  last write unless another one is queued, and a reply of this exchange means that the
  server has it.

Each action has a lemma named after it for each of the three, ending in `Sound`, `Current`
and `Server`. TLC checked the three on the constants of `MCRemoteDisk` and with three buffers
before the proof was written.

Three definitions were changed so that they can be reasoned about, with the same
meaning. The abandoned place in the queue of a semaphore is removed by position
instead of by filtering, in `FifoSemaphore` and `UserSem`. Properties that were
sums over a sequence are stated without one: `DeltaListExact` says of each key
that it is the difference of two remaining times, `NodesConserved` compares the
lists of the ports in pairs, `PanicOnlyOvercommitted` counts a set of places, and the
packets queued in `Net` (`Queued`) are the size of a set. `rdsreadEnd` names the place of
its buffer in the cache by `CHOOSE` instead of by a search.

**Only model-checked.** Liveness (`ReadyRuns`, `SleeperWakes`, `Served`,
`ResetReleases` and the like) is outside the reach of the prover. What the modules
`FutureQueue` and `Tty` promise is not proved: the first is refuted (section 4), the
second is next.

## 6. Plan

1. Done: the kernel, memory, buffer pools, ports, futures and the shell with its
   commands, with their theorems; the terminal; UDP, ICMP, ARP, IP and network input;
   the remote disk, the last two with their theorems.
2. Theorems: `OutputInOrder` and `NothingStuck` of the terminal, and that its input side
   implements `LineDiscipline`; that the calls of `UserSem` are those of `FifoSemaphore`.
3. Opening, closing and deleting a remote disk with the exchange of
   `RemoteDisk`, an abstract disk it implements where no fault of section 4 is met,
   and remote files on the same exchange; then the local file system with the
   order of its writes; DHCP, DNS and TFTP over `Udp`.
