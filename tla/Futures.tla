------------------------------- MODULE Futures -------------------------------
(***************************************************************************)
(* Exclusive and shared futures: future_alloc.c, future_get.c,             *)
(* future_set.c, future_free.c and the processes that use them,            *)
(* future_cons.c and future_prod.c.  One future, with one call of          *)
(* future_get() or future_set() for every process; module FutureQueue has  *)
(* the third mode.                                                         *)
(*                                                                         *)
(* A call runs with interrupts disabled: other processes run in the middle *)
(* of it only when the caller is suspended.  The exception is a shared     *)
(* future_set(), which enables interrupts before it resumes the consumer.  *)
(*                                                                         *)
(* Consumers may free the future, and nobody else learns of it.  What a    *)
(* process does that uses the future afterwards is undefined: the model    *)
(* ends there and claims nothing.                                          *)
(***************************************************************************)
EXTENDS Integers, Sequences, SequencesExt, FiniteSets

CONSTANTS
    Consumers, Producers,   \* process IDs
    Flags,                  \* modes the future may be allocated in
    MAX_SIZE                \* places in get_queue, which are used once each

Procs == Consumers \cup Producers

ASSUME FuturesAssumption ==
    /\ Procs \subseteq Nat \ {0} /\ Consumers \cap Producers = {}
    /\ Flags \subseteq {"EXCLUSIVE", "SHARED"}
    /\ MAX_SIZE \in Nat \ {0}

VARIABLES
    flag, value, state, pid,    \* fields of the future
    get_queue, used,    \* waiting consumers, and places used so far
    freed,              \* the future's memory has been given back
    at,                 \* where each process stands
    got,                \* the value each consumer read, or 0
    procID,             \* the consumer each producer is to resume, or 0
    suspended           \* processes in state PR_SUSP

futVars ==
    <<flag, value, state, pid, get_queue, used, freed, at, got, procID, suspended>>

-----------------------------------------------------------------------------
future_alloc ==
    /\ flag \in Flags
    /\ value = 0
    /\ state = "EMPTY"
    /\ pid = 0
    /\ get_queue = << >> /\ used = 0
    /\ freed = FALSE
    /\ at = [p \in Procs |-> "start"]
    /\ got = [c \in Consumers |-> 0]
    /\ procID = [p \in Producers |-> 0]
    /\ suspended = {}

\* p runs next and is about to use the future.
Runs(p, place) == at[p] = place /\ p \notin suspended /\ ~freed

goto(p, place) == at' = [at EXCEPT ![p] = place]

\* future_get() returns with the value.
read(c) ==
    /\ got' = [got EXCEPT ![c] = value]
    /\ goto(c, "done")

\* enq(): the result, an error when no place is left, is never looked at.
enq(c) ==
    /\ get_queue' = IF used = MAX_SIZE THEN get_queue ELSE Append(get_queue, c)
    /\ used' = IF used = MAX_SIZE THEN used ELSE used + 1

\* deq(): the first waiting consumer; an empty queue is reset.
deq ==
    /\ get_queue' = IF get_queue = << >> THEN << >> ELSE Tail(get_queue)
    /\ used' = IF get_queue = << >> THEN 0 ELSE used

\* resume() wakes up a suspended process and refuses everything else.
resume(q) == suspended' = suspended \ {q}

-----------------------------------------------------------------------------
(* future_get()                                                            *)

Getting(c, mode) == c \in Consumers /\ flag = mode /\ Runs(c, "start")

\* Another consumer was here before.
exclusiveRefused(c) ==
    /\ Getting(c, "EXCLUSIVE")
    /\ pid # 0 \/ state = "WAITING"
    /\ goto(c, "failed")
    /\ UNCHANGED <<flag, value, state, pid, get_queue, used, freed, got, procID, suspended>>

exclusiveGet(c) ==
    /\ Getting(c, "EXCLUSIVE")
    /\ pid = 0 /\ state = "VALID"
    /\ pid' = c
    /\ read(c)
    /\ UNCHANGED <<flag, value, state, get_queue, used, freed, procID, suspended>>

exclusiveWait(c) ==
    /\ Getting(c, "EXCLUSIVE")
    /\ pid = 0 /\ state = "EMPTY"
    /\ state' = "WAITING"
    /\ pid' = c
    /\ suspended' = suspended \cup {c}
    /\ goto(c, "waited")
    /\ UNCHANGED <<flag, value, get_queue, used, freed, got, procID>>

sharedGet(c) ==
    /\ Getting(c, "SHARED")
    /\ state = "VALID" /\ pid = 0
    /\ read(c)
    /\ UNCHANGED <<flag, value, state, pid, get_queue, used, freed, procID, suspended>>

\* A consumer also waits while another one was resumed and has not run yet.
sharedWait(c) ==
    /\ Getting(c, "SHARED")
    /\ state # "VALID" \/ pid # 0
    /\ state' = "WAITING"
    /\ enq(c)
    /\ suspended' = suspended \cup {c}
    /\ goto(c, "waited")
    /\ UNCHANGED <<flag, value, pid, freed, got, procID>>

\* A resumed consumer reads the value.
waited(c) ==
    /\ c \in Consumers /\ Runs(c, "waited")
    /\ pid' = IF flag = "SHARED" THEN 0 ELSE pid
    /\ read(c)
    /\ UNCHANGED <<flag, value, state, get_queue, used, freed, procID, suspended>>

\* future_free() by a consumer that has its value, as in future_cons().  Only
\* the caller's own pointer is set to NULL.
future_free(c) ==
    /\ c \in Consumers /\ Runs(c, "done")
    /\ freed' = TRUE
    /\ UNCHANGED <<flag, value, state, pid, get_queue, used, at, got, procID, suspended>>

future_get(c) ==
    \/ exclusiveRefused(c) \/ exclusiveGet(c) \/ exclusiveWait(c)
    \/ sharedGet(c) \/ sharedWait(c) \/ waited(c)

-----------------------------------------------------------------------------
(* future_set(), called by future_prod().  The value a producer sets is    *)
(* its process ID.                                                         *)

Setting(p) == p \in Producers /\ Runs(p, "start")

setRefused(p) ==
    /\ Setting(p)
    /\ state = "VALID"
    /\ goto(p, "failed")
    /\ UNCHANGED <<flag, value, state, pid, get_queue, used, freed, got, procID, suspended>>

setEmpty(p) ==
    /\ Setting(p)
    /\ state = "EMPTY"
    /\ value' = p
    /\ state' = "VALID"
    /\ goto(p, "done")
    /\ UNCHANGED <<flag, pid, get_queue, used, freed, got, procID, suspended>>

\* Mutant: the waiting consumer is not resumed.
exclusiveSetQuiet(p) ==
    /\ Setting(p)
    /\ flag = "EXCLUSIVE" /\ state = "WAITING"
    /\ value' = p
    /\ state' = "VALID"
    /\ goto(p, "done")
    /\ UNCHANGED <<flag, pid, get_queue, used, freed, got, procID, suspended>>

exclusiveSet(p) ==
    /\ Setting(p)
    /\ flag = "EXCLUSIVE" /\ state = "WAITING"
    /\ value' = p
    /\ state' = "VALID"
    /\ resume(pid)
    /\ goto(p, "done")
    /\ UNCHANGED <<flag, pid, get_queue, used, freed, got, procID>>

\* The first waiting consumer, and no other, leaves the queue to be resumed.
sharedSet(p) ==
    /\ Setting(p)
    /\ flag = "SHARED" /\ state = "WAITING"
    /\ value' = p
    /\ state' = "VALID"
    /\ deq
    /\ pid' = IF get_queue = << >> THEN -1 ELSE Head(get_queue)
    /\ procID' = [procID EXCEPT ![p] = pid']
    /\ goto(p, "resume")
    /\ UNCHANGED <<flag, freed, got, suspended>>

\* Mutant: the consumer to resume is read from the future after interrupts
\* were enabled.
sharedResumePid(p) ==
    /\ p \in Producers /\ at[p] = "resume"
    /\ resume(pid)
    /\ at' = [at EXCEPT ![p] = "done"]
    /\ procID' = [procID EXCEPT ![p] = 0]
    /\ UNCHANGED <<flag, value, state, pid, get_queue, used, freed, got>>

\* Interrupts are enabled; the consumer is the one kept in a local variable.
sharedResume(p) ==
    /\ p \in Producers /\ at[p] = "resume"
    /\ resume(procID[p])
    /\ at' = [at EXCEPT ![p] = "done"]
    /\ procID' = [procID EXCEPT ![p] = 0]
    /\ UNCHANGED <<flag, value, state, pid, get_queue, used, freed, got>>

future_set(p) ==
    \/ setRefused(p) \/ setEmpty(p) \/ exclusiveSet(p)
    \/ sharedSet(p) \/ sharedResume(p)

-----------------------------------------------------------------------------
step(p) == future_get(p) \/ future_set(p)

-----------------------------------------------------------------------------
(* Properties.                                                             *)

\* future_get() never returns before a future_set(): what a consumer returns
\* is the value some producer set.
OnlySetValues ==
    \A c \in Consumers : at[c] = "done" => got[c] \in Producers

\* An exclusive future is assigned once: one future_set() succeeds, all others
\* fail, and the consumer that gets a value gets that one.
OneSetter ==
    flag = "EXCLUSIVE" =>
       /\ Cardinality({p \in Producers : at[p] = "done"}) <= 1
       /\ \A c \in Consumers : at[c] = "done" =>
             \E p \in Producers : got[c] = p /\ at[p] = "done"

\* c is about to be resumed, or has been resumed.
Handed(c) ==
    \/ \E p \in Producers : procID[p] = c
    \/ at[c] \in {"waited", "done"} /\ c \notin suspended

Queued(c) == \E i \in DOMAIN get_queue : get_queue[i] = c

\* The next future_set() is accepted and can come to c.
Findable(c) ==
    /\ state = "WAITING"
    /\ IF flag = "EXCLUSIVE" THEN pid = c ELSE Queued(c)

\* A shared future_set() has resumed another consumer and left c in the queue of
\* a valid future, where future_set.c:34 refuses every later one: c goes on only
\* when a consumer that finds the other one not run yet sets the future back to
\* waiting (future_get.c:45) and a producer comes after that.
LeftBehind(c) ==
    flag = "SHARED" /\ state = "VALID" /\ Queued(c) /\ \E d \in Consumers \ {c} : Handed(d)

\* Whoever waits has not been missed: a producer is about to resume it, the next
\* future_set() is accepted and can come to it, or, in shared mode only, it was
\* left behind by one that resumed another waiting consumer.
WaitersFound ==
    ~freed =>
       \A c \in suspended :
          (\E p \in Producers : procID[p] = c) \/ Findable(c) \/ LeftBehind(c)

\* future_get() and future_set() hand over values that were set, an exclusive
\* one once, and no future_set() that is accepted overlooks who waits, in
\* whatever order they are called.
FutureSound == OnlySetValues /\ OneSetter /\ WaitersFound
=============================================================================
