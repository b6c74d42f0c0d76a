---------------------------- MODULE FifoSemaphore ----------------------------
(***************************************************************************)
(* What the semaphore calls promise to their users: each semaphore holds a *)
(* number of permits; a process that asks when none is left waits its turn *)
(* in a first-come, first-served queue; a released permit goes to the      *)
(* first in line and is stored only when nobody waits.  A waiter leaves    *)
(* early only by being killed.  Deleting or resetting a semaphore lets the *)
(* waiters go one by one before anything else can happen to it.            *)
(***************************************************************************)
EXTENDS Integers, Sequences, SequencesExt

CONSTANTS Procs, Sems

VARIABLES phase, permits, waiters, alive
absVars == <<phase, permits, waiters, alive>>

Waits(p) == \E s \in Sems : p \in ToSet(waiters[s])

Init ==
    /\ phase = [s \in Sems |-> "closed"]
    /\ permits = [s \in Sems |-> 0]
    /\ waiters = [s \in Sems |-> <<>>]
    /\ alive \subseteq Procs

Open(s, n) ==
    /\ phase[s] = "closed"
    /\ phase' = [phase EXCEPT ![s] = "open"]
    /\ permits' = [permits EXCEPT ![s] = n]
    /\ UNCHANGED <<waiters, alive>>

Acquire(s) ==
    /\ phase[s] = "open"
    /\ permits[s] > 0
    /\ permits' = [permits EXCEPT ![s] = @ - 1]
    /\ UNCHANGED <<phase, waiters, alive>>

Queue(s, p) ==
    /\ phase[s] = "open"
    /\ permits[s] = 0
    /\ ~Waits(p)
    /\ p \in alive
    /\ waiters' = [waiters EXCEPT ![s] = Append(@, p)]
    /\ UNCHANGED <<phase, permits, alive>>

Release(s) ==
    /\ phase[s] = "open"
    /\ \/ /\ waiters[s] = <<>>
          /\ permits' = [permits EXCEPT ![s] = @ + 1]
          /\ UNCHANGED waiters
       \/ /\ waiters[s] # <<>>
          /\ waiters' = [waiters EXCEPT ![s] = Tail(@)]
          /\ UNCHANGED permits
    /\ UNCHANGED <<phase, alive>>

\* A waiter is killed: it leaves its place i in the line, which closes up.
Abandon(s, p) ==
    /\ phase[s] = "open"
    /\ \E i \in 1 .. Len(waiters[s]) :
          /\ waiters[s][i] = p
          /\ waiters' = [waiters EXCEPT ![s] = RemoveAt(@, i)]
    /\ alive' = alive \ {p}
    /\ UNCHANGED <<phase, permits>>

StartFlush(s) ==
    /\ phase[s] = "open"
    /\ phase' = [phase EXCEPT ![s] = "flushing"]
    /\ permits' = [permits EXCEPT ![s] = 0]
    /\ UNCHANGED <<waiters, alive>>

Flush(s) ==
    /\ phase[s] = "flushing"
    /\ waiters[s] # <<>>
    /\ waiters' = [waiters EXCEPT ![s] = Tail(@)]
    /\ UNCHANGED <<phase, permits, alive>>

\* The flushed semaphore is gone, or starts again with n permits.
EndFlush(s, n) ==
    /\ phase[s] = "flushing"
    /\ waiters[s] = <<>>
    /\ \/ /\ phase' = [phase EXCEPT ![s] = "closed"]
          /\ UNCHANGED permits
       \/ /\ phase' = [phase EXCEPT ![s] = "open"]
          /\ permits' = [permits EXCEPT ![s] = n]
    /\ UNCHANGED <<waiters, alive>>

\* Processes come and go; one that waits goes by Abandon.
Lifecycle ==
    /\ alive' \subseteq Procs
    /\ \A p \in alive \ alive' : ~Waits(p)
    /\ UNCHANGED <<phase, permits, waiters>>

\* The number of permits of a new or reset semaphore is any natural number.
Next ==
    \/ Lifecycle
    \/ \E s \in Sems :
          \/ Acquire(s) \/ Release(s) \/ StartFlush(s) \/ Flush(s)
          \/ \E p \in Procs : Queue(s, p) \/ Abandon(s, p)
          \/ permits'[s] \in Nat /\ (Open(s, permits'[s]) \/ EndFlush(s, permits'[s]))

Spec == Init /\ [][Next]_absVars
=============================================================================
