-------------------------------- MODULE Ports --------------------------------
(***************************************************************************)
(* Ports, the rendezvous of processes: ptinit.c, ptcreate.c, ptsend.c,     *)
(* ptrecv.c, ptclear.c, ptreset.c and ptdelete.c.  A port holds a list of  *)
(* messages in nodes taken from one free list, and two semaphores: senders *)
(* wait for space, receivers for messages.                                 *)
(*                                                                         *)
(* The calls run with interrupts disabled, so a call is one step up to the *)
(* next wait() that blocks or semreset(), semdelete() or disposal function *)
(* that may switch to another process.  When it switches nobody, hold      *)
(* keeps the others off the CPU.                                           *)
(***************************************************************************)
EXTENDS UserSem, FiniteSets

CONSTANTS
    Procs,      \* the processes that use ports
    NPORTS,     \* size of the port table
    NMSGS,      \* number of message nodes in the system (maxmsgs of ptinit())
    U16,        \* ptmaxcnt is taken modulo U16
    Counts,     \* sizes given to ptcreate()
    Killable,   \* processes that may be killed
    MaxSeq      \* bound on the sequence numbers

ASSUME PortsAssumption ==
    /\ NPORTS \in Nat \ {0} /\ NMSGS \in Nat \ {0} /\ U16 \in Nat \ {0}
    /\ MaxSeq \in Nat /\ Counts \subseteq Int
    /\ IsFiniteSet(Procs) /\ Killable \subseteq Procs

PortIds == 0 .. NPORTS - 1
Nodes   == 1 .. NMSGS
None    == "none"

VARIABLES
    ptstate, ptmaxcnt, ptseq, ptssem, ptrsem,   \* porttab
    ptlist,     \* porttab: the nodes from pthead to pttail
    ptfree,     \* the free nodes, first the one ptfree points to
    ptgen,      \* history: ptseq of the port when the sender of a node's message began
    ptnextid,
    call,       \* what each process is in the middle of
    hold,       \* the process that does not lose the CPU, or None
    panicked    \* panic() has stopped the system

ptVars == <<ptstate, ptmaxcnt, ptseq, ptssem, ptrsem, ptlist, ptfree, ptgen,
            ptnextid, call, hold, panicked>>

Call(op, port, seq) == [op |-> op, port |-> port, seq |-> seq]
Idle == Call("idle", 0, 0)

Waiting(p) == \E x \in PortIds : waitsOn(p, ptssem[x]) \/ waitsOn(p, ptrsem[x])

\* p has the CPU, or may get it.
Runs(p) == ~panicked /\ hold \in {None, p} /\ ~Waiting(p)
Starts(p) == Runs(p) /\ hold = None /\ call[p] = Idle

ptinit ==
    /\ ptstate = [x \in PortIds |-> "FREE"]
    /\ ptmaxcnt = [x \in PortIds |-> 0]
    /\ ptseq = [x \in PortIds |-> 0]
    /\ ptssem = [x \in PortIds |-> NoSem]
    /\ ptrsem = [x \in PortIds |-> NoSem]
    /\ ptlist = [x \in PortIds |-> <<>>]
    /\ ptfree = [i \in Nodes |-> i]
    /\ ptgen = [m \in Nodes |-> 0]
    /\ ptnextid = 0
    /\ call = [p \in Procs |-> Idle]
    /\ hold = None
    /\ panicked = FALSE

-----------------------------------------------------------------------------
(* Creation.                                                               *)

\* The first free entry at or after ptnextid, in cyclic order.
freeport ==
    LET d == CHOOSE i \in 0 .. NPORTS - 1 :
                /\ ptstate[(ptnextid + i) % NPORTS] = "FREE"
                /\ \A j \in 0 .. i - 1 : ptstate[(ptnextid + j) % NPORTS] # "FREE"
    IN  (ptnextid + d) % NPORTS

\* The results of the two semcreate() calls are not checked: one may be SYSERR.
ptcreate(p, count) ==
    LET x == freeport IN
    /\ Starts(p)
    /\ count >= 0
    /\ \E y \in PortIds : ptstate[y] = "FREE"
    /\ ptseq[x] < MaxSeq
    /\ ptstate' = [ptstate EXCEPT ![x] = "ALLOC"]
    /\ \E s \in {Sem(count), NoSem}, r \in {Sem(0), NoSem} :
          /\ ptssem' = [ptssem EXCEPT ![x] = s]
          /\ ptrsem' = [ptrsem EXCEPT ![x] = r]
    /\ ptlist' = [ptlist EXCEPT ![x] = <<>>]
    /\ ptseq' = [ptseq EXCEPT ![x] = @ + 1]
    /\ ptmaxcnt' = [ptmaxcnt EXCEPT ![x] = count % U16]
    /\ ptnextid' = (x + 1) % NPORTS
    /\ UNCHANGED <<ptfree, ptgen, call, hold, panicked>>

-----------------------------------------------------------------------------
(* Sending.                                                                *)

\* A node for the message, linked in at the tail; a receiver is let go.
put(x, seq) ==
    IF ptfree = <<>>
    THEN /\ panicked' = TRUE
         /\ UNCHANGED <<ptfree, ptgen, ptlist, ptrsem>>
    ELSE /\ ptfree' = Tail(ptfree)
         /\ ptgen' = [ptgen EXCEPT ![Head(ptfree)] = seq]
         /\ ptlist' = [ptlist EXCEPT ![x] = Append(@, Head(ptfree))]
         /\ ptrsem' = [ptrsem EXCEPT ![x] = signaled(@)]
         /\ UNCHANGED panicked

\* ptsend() when the port has space.
ptsend(p, x) ==
    /\ Starts(p)
    /\ ptstate[x] = "ALLOC"
    /\ passes(ptssem[x])
    /\ ptssem' = [ptssem EXCEPT ![x] = passed(@)]
    /\ put(x, ptseq[x])
    /\ UNCHANGED <<ptstate, ptmaxcnt, ptseq, ptnextid, call, hold>>

ptsendWait(p, x) ==
    /\ Starts(p)
    /\ ptstate[x] = "ALLOC"
    /\ blocks(ptssem[x])
    /\ ptssem' = [ptssem EXCEPT ![x] = blocked(@, p)]
    /\ call' = [call EXCEPT ![p] = Call("send", x, ptseq[x])]
    /\ UNCHANGED <<ptstate, ptmaxcnt, ptseq, ptrsem, ptlist, ptfree, ptgen, ptnextid,
                   hold, panicked>>

\* Mutant: ptsend() does not look at the sequence number again.
samePortAny(c) == ptstate[c.port] = "ALLOC" /\ (ptseq[c.port] = c.seq \/ c.op = "send")

\* The port is allocated and has not been reset since the call began.
samePort(c) == ptstate[c.port] = "ALLOC" /\ ptseq[c.port] = c.seq

\* The rest of ptsend(), after the wait.
ptsendEnd(p) ==
    /\ call[p].op = "send"
    /\ Runs(p)
    /\ IF samePort(call[p]) THEN put(call[p].port, call[p].seq)
       ELSE UNCHANGED <<ptrsem, ptlist, ptfree, ptgen, panicked>>
    /\ call' = [call EXCEPT ![p] = Idle]
    /\ UNCHANGED <<ptstate, ptmaxcnt, ptseq, ptssem, ptnextid, hold>>

-----------------------------------------------------------------------------
(* Receiving.                                                              *)

\* The first message; its node is free again and a sender is let go.
take(x) ==
    /\ ptlist' = [ptlist EXCEPT ![x] = Tail(@)]
    /\ ptfree' = <<Head(ptlist[x])>> \o ptfree
    /\ ptssem' = [ptssem EXCEPT ![x] = signaled(@)]

ptrecv(p, x) ==
    /\ Starts(p)
    /\ ptstate[x] = "ALLOC"
    /\ passes(ptrsem[x])
    /\ ptrsem' = [ptrsem EXCEPT ![x] = passed(@)]
    /\ take(x)
    /\ UNCHANGED <<ptstate, ptmaxcnt, ptseq, ptgen, ptnextid, call, hold, panicked>>

ptrecvWait(p, x) ==
    /\ Starts(p)
    /\ ptstate[x] = "ALLOC"
    /\ blocks(ptrsem[x])
    /\ ptrsem' = [ptrsem EXCEPT ![x] = blocked(@, p)]
    /\ call' = [call EXCEPT ![p] = Call("recv", x, ptseq[x])]
    /\ UNCHANGED <<ptstate, ptmaxcnt, ptseq, ptssem, ptlist, ptfree, ptgen, ptnextid,
                   hold, panicked>>

\* The rest of ptrecv(), after the wait.
ptrecvEnd(p) ==
    /\ call[p].op = "recv"
    /\ Runs(p)
    /\ IF samePort(call[p]) THEN take(call[p].port)
       ELSE UNCHANGED <<ptlist, ptfree, ptssem>>
    /\ call' = [call EXCEPT ![p] = Idle]
    /\ UNCHANGED <<ptstate, ptmaxcnt, ptseq, ptrsem, ptgen, ptnextid, hold, panicked>>

-----------------------------------------------------------------------------
(* ptreset() and ptdelete(): _ptclear() in the steps between which other   *)
(* processes may run.                                                      *)

\* After a call that let somebody go (or may have) others can run.
holdUnless(p, switched) == hold' = IF switched THEN None ELSE p

\* The port goes to limbo; the messages are disposed of, one by one.
_ptclear(p, x, op) ==
    /\ Starts(p)
    /\ ptstate[x] = "ALLOC"
    /\ ptseq[x] < MaxSeq
    /\ ptstate' = [ptstate EXCEPT ![x] = "LIMBO"]
    /\ ptseq' = [ptseq EXCEPT ![x] = @ + 1]
    /\ call' = [call EXCEPT ![p] = Call(op, x, 0)]
    /\ holdUnless(p, ptlist[x] # <<>>)
    /\ UNCHANGED <<ptmaxcnt, ptssem, ptrsem, ptlist, ptfree, ptgen, ptnextid, panicked>>

ptreset(p, x)  == _ptclear(p, x, "reset")
ptdelete(p, x) == _ptclear(p, x, "delete")

\* The whole message list goes to the free list.  pthead and pttail are set to
\* NULL for a reset only.
relink(x, emptied) ==
    /\ ptfree' = ptlist[x] \o ptfree
    /\ ptlist' = IF emptied THEN [ptlist EXCEPT ![x] = <<>>] ELSE ptlist

\* The nodes go to the free list and the senders are let go.
clearSenders(p) ==
    LET x       == call[p].port
        isReset == call[p].op = "reset"
    IN  /\ call[p].op \in {"reset", "delete"}
        /\ call[p].seq = 0
        /\ Runs(p)
        /\ relink(x, isReset)
        /\ ptssem' = [ptssem EXCEPT ![x] = IF isReset THEN reset(@, ptmaxcnt[x])
                                                      ELSE deleted(@)]
        /\ call' = [call EXCEPT ![p].seq = 1]
        /\ holdUnless(p, ptssem[x].queue # <<>>)
        /\ UNCHANGED <<ptstate, ptmaxcnt, ptseq, ptrsem, ptgen, ptnextid, panicked>>

\* The receivers are let go.
clearReceivers(p) ==
    LET x == call[p].port IN
    /\ call[p].op \in {"reset", "delete"}
    /\ call[p].seq = 1
    /\ Runs(p)
    /\ ptrsem' = [ptrsem EXCEPT ![x] = IF call[p].op = "reset" THEN reset(@, 0)
                                                               ELSE deleted(@)]
    /\ call' = [call EXCEPT ![p].seq = 2]
    /\ holdUnless(p, ptrsem[x].queue # <<>>)
    /\ UNCHANGED <<ptstate, ptmaxcnt, ptseq, ptssem, ptlist, ptfree, ptgen, ptnextid,
                   panicked>>

\* The port leaves limbo; a deleted one is the next that ptcreate() looks at.
clearEnd(p) ==
    LET x == call[p].port IN
    /\ call[p].op \in {"reset", "delete"}
    /\ call[p].seq = 2
    /\ Runs(p)
    /\ \/ /\ call[p].op = "reset"
          /\ ptstate' = [ptstate EXCEPT ![x] = "ALLOC"]
          /\ UNCHANGED ptnextid
       \/ /\ call[p].op = "delete"
          /\ ptstate' = [ptstate EXCEPT ![x] = "FREE"]
          /\ ptnextid' = x
    /\ call' = [call EXCEPT ![p] = Idle]
    /\ hold' = None
    /\ UNCHANGED <<ptmaxcnt, ptseq, ptssem, ptrsem, ptlist, ptfree, ptgen, panicked>>

-----------------------------------------------------------------------------
\* kill() of a process that is in the middle of a call; its ID is used again.
killed(p) ==
    /\ ~panicked
    /\ hold = None
    /\ call[p] # Idle
    /\ ptssem' = [x \in PortIds |-> IF waitsOn(p, ptssem[x]) THEN abandoned(ptssem[x], p)
                                                             ELSE ptssem[x]]
    /\ ptrsem' = [x \in PortIds |-> IF waitsOn(p, ptrsem[x]) THEN abandoned(ptrsem[x], p)
                                                             ELSE ptrsem[x]]
    /\ call' = [call EXCEPT ![p] = Idle]
    /\ UNCHANGED <<ptstate, ptmaxcnt, ptseq, ptlist, ptfree, ptgen, ptnextid, hold, panicked>>

\* panic() never returns.
stopped == panicked /\ UNCHANGED ptVars

Begin(p) ==
    \/ \E count \in Counts : ptcreate(p, count)
    \/ \E x \in PortIds : \/ ptsend(p, x) \/ ptsendWait(p, x)
                          \/ ptrecv(p, x) \/ ptrecvWait(p, x)
                          \/ ptreset(p, x) \/ ptdelete(p, x)

\* What p does without calling anything new.
Goes(p) ==
    ptsendEnd(p) \/ ptrecvEnd(p) \/ clearSenders(p) \/ clearReceivers(p) \/ clearEnd(p)

Next ==
    \/ \E p \in Procs : Begin(p) \/ Goes(p)
    \/ \E p \in Killable : killed(p)
    \/ stopped

Spec == ptinit /\ [][Next]_ptVars

\* Processes of one priority share the CPU by time slices, so one that can go
\* on does (ReadyRuns of module Kernel).
LiveSpec == Spec /\ \A p \in Procs : WF_ptVars(Goes(p))

-----------------------------------------------------------------------------
(* Properties.                                                             *)

Allocated == {x \in PortIds : ptstate[x] = "ALLOC"}

\* The processes that were let go by a signal() for port x as it is now, and
\* have not run since.
Promised(op, x) ==
    {p \in Procs : call[p] = Call(op, x, ptseq[x]) /\ ~Waiting(p)}

\* The nodes of the free list and of the allocated ports are all different, and
\* none is lost: no message is on two lists however ptsend(), ptrecv(),
\* ptreset() and ptdelete() interleave.
NodesConserved ==
    /\ IsInjective(ptfree)
    /\ \A x \in Allocated :
          /\ IsInjective(ptlist[x])
          /\ ToSet(ptlist[x]) \cap ToSet(ptfree) = {}
          /\ \A y \in Allocated \ {x} : ToSet(ptlist[x]) \cap ToSet(ptlist[y]) = {}
    /\ \A m \in Nodes : \/ m \in ToSet(ptfree)
                        \/ \E x \in PortIds : ptstate[x] # "FREE" /\ m \in ToSet(ptlist[x])

\* A receiver that gets past its wait() finds a message: ptrecv() never takes
\* the first message of an empty list, though other receivers, a reset or a
\* delete and a new port may come between the signal() and the receiver.
PermitsBacked ==
    \A x \in Allocated :
       available(ptrsem[x]) + Cardinality(Promised("recv", x)) <= Len(ptlist[x])

\* The port never holds more messages than it was created for, counting the
\* senders that have been promised space.
SpaceBound ==
    \A x \in Allocated :
       ptssem[x].used =>
         Len(ptlist[x]) + available(ptssem[x]) + Cardinality(Promised("send", x))
            <= ptmaxcnt[x]

\* "verify port has not been reset": every message in a port was sent since the
\* port was created or last reset; a sender that blocked before never puts its
\* message into the port that came after.
NoStaleMessage ==
    \A x \in Allocated : \A i \in 1 .. Len(ptlist[x]) : ptgen[ptlist[x][i]] = ptseq[x]

\* A place for each message the ports in use were created for.
Places ==
    {s \in PortIds \X (1 .. U16) : ptstate[s[1]] # "FREE" /\ s[2] <= ptmaxcnt[s[1]]}

\* "Port system ran out of message nodes" is only reached when the ports were
\* created for more messages than there are nodes.
PanicOnlyOvercommitted == panicked => NMSGS < Cardinality(Places)

\* ptsend() and ptrecv() find a node, a place and a message when their wait()
\* lets them go, however resets, deletions, new ports and kills interleave.
PortsSound == NodesConserved /\ PermitsBacked /\ SpaceBound /\ PanicOnlyOvercommitted

\* The process that cleared port x was killed and left it in limbo.
Orphaned(x) ==
    /\ ptstate[x] = "LIMBO"
    /\ \A p \in Procs : ~(call[p].op \in {"reset", "delete"} /\ call[p].port = x)

\* "Delete a port, freeing waiting processes": a process that was waiting when
\* the port was reset or deleted gets out of its call, unless the process that
\* does this is killed half way.
ResetReleases ==
    \A p \in Procs :
       (call[p].op \in {"send", "recv"} /\ call[p].seq # ptseq[call[p].port])
          ~> (call[p] = Idle \/ panicked \/ Orphaned(call[p].port))
=============================================================================
