------------------------------- MODULE Command -------------------------------
(***************************************************************************)
(* The shell (module Shell) with the command the repository adds to it:    *)
(* xsh_prodcons.c, which starts a producer and a consumer on semaphores    *)
(* (module ProdCons), or with -f producers and consumers of a future       *)
(* (module Futures).  The command ends at once; the processes it started   *)
(* go on beside the shell, with the priority of a command.                 *)
(***************************************************************************)
EXTENDS Shell, ProdCons, Futures

VARIABLE
    started     \* prodcons -f was run: the processes of the future exist

commandVars == <<shellVars, pcVars, futVars, started>>

\* The mode of the future matters only to a session that runs prodcons -f.
Init ==
    /\ ShellInit /\ ProdConsInit /\ future_alloc /\ started = FALSE
    /\ "-f" \in menu \/ flag = CHOOSE f \in Flags : TRUE

\* xsh_prodcons() by command process p: a wrong argument, "-f" (the first one
\* is followed: others use futures of their own), or a count.
xsh(p) ==
    /\ work(p)
    /\ \/ UNCHANGED <<pcVars, futVars, started>>
       \/ /\ runs[p] = "-f"
          /\ started' = TRUE
          /\ UNCHANGED <<pcVars, futVars>>
       \/ /\ runs[p] = "count"
          /\ \E j \in Jobs, c \in Counts :
                /\ \A k \in Jobs : k < j => count[k] # 0
                /\ xsh_prodcons(j, c)
          /\ UNCHANGED <<futVars, started>>

\* The processes that were started have priority 20.
Producing(j) == OthersRun /\ ProducerStep(j) /\ UNCHANGED <<shellVars, futVars, started>>
Consuming(j) == OthersRun /\ ConsumerStep(j) /\ UNCHANGED <<shellVars, futVars, started>>
Future(p)    == OthersRun /\ started /\ step(p) /\ UNCHANGED <<shellVars, pcVars, started>>

Freeing(c) ==
    OthersRun /\ started /\ future_free(c) /\ UNCHANGED <<shellVars, pcVars, started>>

Typing == typeLine /\ UNCHANGED <<pcVars, futVars, started>>

Shelling == ShellStep /\ UNCHANGED <<pcVars, futVars, started>>
Ending(p) == (return(p) \/ dies(p)) /\ UNCHANGED <<pcVars, futVars, started>>
Restarting == MainStep /\ UNCHANGED <<pcVars, futVars, started>>

Next ==
    \/ Typing \/ Shelling \/ Restarting
    \/ \E p \in Slots : xsh(p) \/ Ending(p)
    \/ \E j \in Jobs : Producing(j) \/ Consuming(j)
    \/ \E p \in Procs : Future(p)
    \/ \E c \in Consumers : Freeing(c)

\* The shell comes to the CPU before the others or in turn with them, and
\* time slices let each of the others go on.  Nobody has to type, and a
\* consumer need not free the future.
LiveSpec ==
    /\ Init /\ [][Next]_commandVars
    /\ WF_commandVars(Shelling) /\ WF_commandVars(Restarting)
    /\ \A p \in Slots : WF_commandVars(xsh(p) \/ Ending(p))
    /\ \A j \in Jobs : WF_commandVars(Producing(j)) /\ WF_commandVars(Consuming(j))
    /\ \A p \in Procs : WF_commandVars(Future(p))

\* With a producer, every consumer of an exclusive future returns from
\* future_get(), with the value or with an error, unless another consumer
\* freed the future first.
ConsumersReturn ==
    flag = "EXCLUSIVE" /\ Producers # {}
       => \A c \in Consumers : started ~> at[c] \in {"done", "failed"} \/ freed
=============================================================================
