----------------------------- MODULE FutureQueue -----------------------------
(***************************************************************************)
(* Futures in mode FUTURE_QUEUE: handle_queue_get() of future_get.c,       *)
(* handle_queue_set() of future_set.c and the queues of fut_queue.c.  One  *)
(* future, with one call of future_get() or future_set() for every         *)
(* process.                                                                *)
(*                                                                         *)
(* The code passes the addresses of the fields set_queue and get_queue to  *)
(* the queue operations, not the queues the fields point to.  A queue is   *)
(* thus laid over the future itself, from the field on, and the two        *)
(* overlap: the first place of the set queue is the tail of the get queue. *)
(* The words behind the future belong to the two queues that were          *)
(* allocated right after it and are not used.                              *)
(*                                                                         *)
(* The fields state and pid are written and never read in this mode, and   *)
(* left out.  Calls run with interrupts disabled, so other processes run   *)
(* only when one is resumed or the caller is suspended; hold keeps them    *)
(* off the CPU otherwise.                                                  *)
(***************************************************************************)
EXTENDS Integers, FiniteSets

CONSTANTS
    Consumers, Producers,   \* process IDs, disjoint sets of positive numbers
    MAX_SIZE,               \* places in a queue
    Junk                    \* values new memory may hold

Procs == Consumers \cup Producers

SYSERR == -1

\* Fields set_queue and get_queue are words 4 and 5 of the future.
SETQ  == 4
GETQ  == 5
Words == SETQ .. 5 + 2 * (MAX_SIZE + 2)

VARIABLES
    value,      \* of the future
    w,          \* its words from set_queue on, and the words behind it
    at,         \* where each process stands
    got,        \* the value each consumer read, or 0
    suspended,  \* processes in state PR_SUSP
    hold        \* the process that does not lose the CPU, or 0

queueVars == <<value, w, at, got, suspended, hold>>

-----------------------------------------------------------------------------
(* fut_queue.c.  A queue at word base: tail, MAX_SIZE places, head.        *)

headOf(base) == base + 1 + MAX_SIZE

initqu(u, base) == [u EXCEPT ![base] = 0, ![headOf(base)] = 0]

isEmpty(u, base) == u[headOf(base)] = u[base]

\* The result is never looked at: a full queue drops the process.
enq(u, base, p) ==
    LET place == base + 1 + u[base] IN
    IF u[base] = MAX_SIZE \/ place \notin Words THEN u
    ELSE LET v == [u EXCEPT ![place] = p] IN [v EXCEPT ![base] = @ + 1]

\* deq(): the words afterwards, and the process.
deqWords(u, base) ==
    IF isEmpty(u, base) THEN [u EXCEPT ![headOf(base)] = 0, ![base] = 0]
    ELSE [u EXCEPT ![headOf(base)] = @ + 1]

deqPid(u, base) ==
    LET place == base + 1 + u[headOf(base)] IN
    IF isEmpty(u, base) \/ place \notin Words THEN SYSERR ELSE u[place]

-----------------------------------------------------------------------------
future_alloc ==
    /\ value = 0
    /\ \E j \in Junk : w = initqu(initqu([x \in Words |-> j], GETQ), SETQ)
    /\ at = [p \in Procs |-> "start"]
    /\ got = [c \in Consumers |-> 0]
    /\ suspended = {}
    /\ hold = 0

\* p runs next: it is not suspended, and nobody else keeps the CPU.
Runs(p, place) == at[p] = place /\ p \notin suspended /\ hold \in {0, p}

goto(p, place) == at' = [at EXCEPT ![p] = place]

\* p resumes q and goes on: if q was suspended, p may lose the CPU.
resume(p, q) ==
    /\ suspended' = suspended \ {q}
    /\ hold' = IF q \in suspended THEN 0 ELSE p

\* suspend(currpid)
suspend(p) ==
    /\ suspended' = suspended \cup {p}
    /\ hold' = 0

-----------------------------------------------------------------------------
(* handle_queue_get()                                                      *)

Getting(c) == c \in Consumers /\ Runs(c, "start")

\* The caller returns with the value.
finish(c) ==
    /\ got' = [got EXCEPT ![c] = value]
    /\ goto(c, "done")
    /\ hold' = 0
    /\ UNCHANGED <<value, w, suspended>>

\* A producer waits: it is resumed, and the caller goes on.
releaseProducer(c, next) ==
    /\ Getting(c) /\ ~isEmpty(w, SETQ)
    /\ w' = deqWords(w, SETQ)
    /\ resume(c, deqPid(w, SETQ))
    /\ goto(c, next)
    /\ UNCHANGED <<value, got>>

\* The caller joins the get queue and waits.
joinGetQueue(c) ==
    /\ w' = enq(w, GETQ, c)
    /\ suspend(c)
    /\ goto(c, "get")
    /\ UNCHANGED <<value, got>>

\* Only producers wait: the caller reads what the resumed one set.
get1(c) == isEmpty(w, GETQ) /\ releaseProducer(c, "get1")

get1End(c) == c \in Consumers /\ Runs(c, "get1") /\ finish(c)

\* Consumers wait, too: the caller lets a producer go and queues up.
get2(c) == ~isEmpty(w, GETQ) /\ releaseProducer(c, "get2")

get2Wait(c) == c \in Consumers /\ Runs(c, "get2") /\ joinGetQueue(c)

\* No producer waits.
get3(c) == Getting(c) /\ isEmpty(w, SETQ) /\ joinGetQueue(c)

\* A consumer was resumed.
getEnd(c) == c \in Consumers /\ Runs(c, "get") /\ finish(c)

-----------------------------------------------------------------------------
(* handle_queue_set().  The value a producer sets is its process ID.       *)

Setting(p) == p \in Producers /\ Runs(p, "start")

\* The value is set and the first consumer of the get queue resumed.
serveFirst(p) ==
    /\ value' = p
    /\ w' = deqWords(w, GETQ)
    /\ suspended' = suspended \ {deqPid(w, GETQ)}
    /\ hold' = 0
    /\ goto(p, "done")
    /\ UNCHANGED got

joinSetQueue(p) ==
    /\ w' = enq(w, SETQ, p)
    /\ suspend(p)
    /\ goto(p, "set")
    /\ UNCHANGED <<value, got>>

\* Both queues have processes: a producer is resumed, then the caller waits.
set1(p) ==
    /\ Setting(p)
    /\ ~isEmpty(w, GETQ) /\ ~isEmpty(w, SETQ)
    /\ w' = deqWords(w, SETQ)
    /\ resume(p, deqPid(w, SETQ))
    /\ goto(p, "set1")
    /\ UNCHANGED <<value, got>>

set1Wait(p) == p \in Producers /\ Runs(p, "set1") /\ joinSetQueue(p)

\* Only consumers wait.
set2(p) ==
    /\ Setting(p)
    /\ isEmpty(w, SETQ) /\ ~isEmpty(w, GETQ)
    /\ serveFirst(p)

\* Nobody waits for a value.
set3(p) == Setting(p) /\ isEmpty(w, GETQ) /\ joinSetQueue(p)

\* A producer was resumed.
setEnd(p) == p \in Producers /\ Runs(p, "set") /\ serveFirst(p)

-----------------------------------------------------------------------------
get(c) == get1(c) \/ get1End(c) \/ get2(c) \/ get2Wait(c) \/ get3(c) \/ getEnd(c)

set(p) == set1(p) \/ set1Wait(p) \/ set2(p) \/ set3(p) \/ setEnd(p)

Next == \E p \in Procs : get(p) \/ set(p)

\* The processes have one priority: time slices let each of them go on.
Spec ==
    /\ future_alloc /\ [][Next]_queueVars
    /\ \A p \in Procs : WF_queueVars(get(p) \/ set(p))

-----------------------------------------------------------------------------
(* Properties.                                                             *)

\* With a producer for every consumer, every consumer returns.
ConsumersReturn ==
    Cardinality(Producers) >= Cardinality(Consumers)
       => \A c \in Consumers : <>(at[c] = "done")
=============================================================================
