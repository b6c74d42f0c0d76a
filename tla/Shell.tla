--------------------------------- MODULE Shell --------------------------------
(***************************************************************************)
(* The shell, the commands it starts and the main process that starts it   *)
(* again: shell/shell.c and system/main.c.  The shell reads a line from    *)
(* the console, parses it and creates a process for the command; unless    *)
(* the command is to run in the background, it waits for the message that  *)
(* kill() sends to the parent of a process that ends.  A process has room  *)
(* for one message.                                                        *)
(*                                                                         *)
(* A line is the sequence of the types of its tokens, as lexan() leaves    *)
(* them.  What the commands themselves do is module Command's.  Files that *)
(* are redirected to are left out, but for open() that fails.              *)
(***************************************************************************)
EXTENDS Integers, Sequences, SequencesExt, FiniteSets

CONSTANTS
    Slots,      \* places of the process table for the shell and its commands
    NONE,       \* no message, nobody
    Sessions    \* [menu, tokens, lines]: the commands the user runs, the length
                \* of the first line and the number of lines typed after it

ASSUME ShellAssumption ==
    /\ Slots # {} /\ NONE \notin Slots
    /\ \A s \in Sessions : s.tokens \in Nat /\ s.lines \in Nat

VARIABLES
    sh,         \* the process that is the shell, or NONE
    shell,      \* what it does: "prompt" or "wait"
    first,      \* it is the first shell
    child,      \* the command it waits for
    line,       \* what was typed and is not yet read
    lines,      \* lines that can still be typed
    proc,       \* state of each process: "free", "shell", "run", "done", "dying"
    runs,       \* the command each process executes
    prparent,   \* parent of each process
    prmsg,      \* message of each process
    main,       \* what the main process does
    mainmsg,    \* its message
    menu        \* the commands the user works with

shellVars ==
    <<sh, shell, first, child, line, lines, proc, runs, prparent, prmsg, main, mainmsg, menu>>

CMDPRIO == 20   \* SHELL_CMDPRIO, and the priority of main

-----------------------------------------------------------------------------
(* The syntax of a line.                                                   *)

Types == {"amper", "less", "greater", "other"}

\* One round of the search for redirection at the end of the tokens.
redirected(r) ==
    LET n   == Len(r.toks)
        op  == r.toks[n - 1]
    IN  IF n < 3 \/ r.err THEN r
        ELSE IF op \notin {"less", "greater"} THEN r
        ELSE IF r.toks[n] # "other" \/ op \in r.files THEN [r EXCEPT !.err = TRUE]
        ELSE [r EXCEPT !.toks = SubSeq(@, 1, n - 2), !.files = @ \cup {op}]

\* Mutant: the second redirection may repeat the first.
redirectedAgain(r) ==
    redirected([redirected([r EXCEPT !.files = {}]) EXCEPT !.files = {}])

redirections(r) == redirected(redirected(r))

\* How the shell understands a line that is not empty.
parse(toks) ==
    LET backgnd == Last(toks) = "amper"
        r == redirections(
                [toks  |-> IF backgnd THEN Front(toks) ELSE toks,
                 files |-> {}, err |-> FALSE])
    IN  [ok |-> /\ ~r.err /\ r.toks # <<>>
                /\ \A k \in DOMAIN r.toks : r.toks[k] = "other",
         backgnd |-> backgnd, files |-> r.files, ntok |-> Len(r.toks)]

-----------------------------------------------------------------------------
\* Mutant: the first shell gets the priority of its commands.
firstPrioLow == CMDPRIO

\* The priorities main gives to the first shell and to those after it.
firstPrio == 50
nextPrio  == 20
prprio    == IF first THEN firstPrio ELSE nextPrio

\* main has created the first shell.
ShellInit ==
    /\ sh = CHOOSE p \in Slots : TRUE
    /\ shell = "prompt" /\ first = TRUE /\ child = NONE
    /\ proc = [p \in Slots |-> IF p = sh THEN "shell" ELSE "free"]
    /\ runs = [p \in Slots |-> NONE]
    /\ prparent = [p \in Slots |-> NONE]
    /\ prmsg = [p \in Slots |-> NONE]
    /\ main = "receive" /\ mainmsg = NONE
    /\ \E s \in Sessions :
          menu = s.menu /\ line \in SeqOf(Types, s.tokens) /\ lines = s.lines

\* The shell has something to do.
Ready ==
    /\ sh # NONE
    /\ \/ shell = "prompt" /\ line # <<>>
       \/ shell = "wait" /\ prmsg[sh] # NONE

\* Processes of priority 20 run when the shell does not, or when it has no
\* higher priority.
OthersRun == ~Ready \/ prprio <= CMDPRIO

\* The user types a line: a command, in the foreground or in the background.
typeLine ==
    /\ line = <<>> /\ lines > 0
    /\ line' \in {<<"other">>, <<"other", "amper">>}
    /\ lines' = lines - 1
    /\ UNCHANGED <<sh, shell, first, child, proc, runs, prparent, prmsg, main, mainmsg, menu>>

\* send(q, m): refused when q has a message, or is no process any more.
sent(q, m) ==
    [prmsg EXCEPT ![q] = IF proc[q] = "free" \/ @ # NONE THEN @ ELSE m]

\* kill(p) up to and with the message to the parent.  The main process is the
\* parent of the shell.
message(p) ==
    IF prparent[p] = NONE
    THEN /\ mainmsg' = IF main # "dead" /\ mainmsg = NONE THEN p ELSE mainmsg
         /\ UNCHANGED prmsg
    ELSE /\ prmsg' = sent(prparent[p], p)
         /\ UNCHANGED mainmsg

-----------------------------------------------------------------------------
(* The shell.                                                              *)

\* The shell reads the line in the buffer.
reads == sh # NONE /\ shell = "prompt" /\ line # <<>> /\ line' = <<>>

\* The line is no command: a syntax error, an unknown name, redirection or
\* the background for a builtin, a file that cannot be opened.
refused ==
    /\ reads
    /\ UNCHANGED <<sh, shell, first, child, lines, proc, runs, prparent, prmsg, main,
                   mainmsg, menu>>

Builtin == LET l == parse(line) IN l.ok /\ ~l.backgnd /\ l.files = {}

\* Mutant: no message to the parent.
endShellQuiet ==
    /\ UNCHANGED <<prmsg, mainmsg>>
    /\ proc' = [proc EXCEPT ![sh] = "free"]
    /\ sh' = NONE /\ shell' = "prompt" /\ child' = NONE

\* The process that is the shell ends: exit, end of file, or kill().
endShell ==
    /\ message(sh)
    /\ proc' = [proc EXCEPT ![sh] = "free"]
    /\ sh' = NONE /\ shell' = "prompt" /\ child' = NONE

exit ==
    /\ reads /\ Builtin
    /\ endShell
    /\ UNCHANGED <<first, lines, runs, prparent, main, menu>>

\* The builtin kill, of a command or of the main process.
xsh_kill ==
    /\ reads /\ Builtin
    /\ \/ \E q \in Slots \ {sh} :
             /\ proc[q] # "free"
             /\ message(q)
             /\ proc' = [proc EXCEPT ![q] = "free"]
             /\ UNCHANGED main
       \/ /\ main' = "dead"
          /\ UNCHANGED <<prmsg, mainmsg, proc>>
    /\ UNCHANGED <<sh, shell, first, child, lines, runs, prparent, menu>>

\* A command: create(), recvclr() and resume(), then receive().
spawn(p, c) ==
    LET l == parse(line) IN
    /\ reads /\ l.ok /\ proc[p] = "free"
    /\ proc' = [proc EXCEPT ![p] = "run"]
    /\ runs' = [runs EXCEPT ![p] = c]
    /\ prparent' = [prparent EXCEPT ![p] = sh]
    /\ prmsg' = [prmsg EXCEPT ![p] = NONE, ![sh] = NONE]
    /\ shell' = IF l.backgnd THEN "prompt" ELSE "wait"
    /\ child' = IF l.backgnd THEN NONE ELSE p
    /\ UNCHANGED <<sh, first, lines, main, mainmsg, menu>>

\* while (msg != child)
isChild(m) == m = child

receive ==
    /\ sh # NONE /\ shell = "wait" /\ prmsg[sh] # NONE
    /\ prmsg' = [prmsg EXCEPT ![sh] = NONE]
    /\ \/ isChild(prmsg[sh]) /\ shell' = "prompt" /\ child' = NONE
       \/ ~isChild(prmsg[sh]) /\ UNCHANGED <<shell, child>>
    /\ UNCHANGED <<sh, first, line, lines, proc, runs, prparent, main, mainmsg, menu>>

ShellStep == refused \/ exit \/ xsh_kill \/ receive \/ \E p \in Slots, c \in menu : spawn(p, c)

-----------------------------------------------------------------------------
(* Commands, and the main process.                                         *)

\* A command does its work: see module Command.
work(p) ==
    /\ OthersRun /\ proc[p] = "run"
    /\ proc' = [proc EXCEPT ![p] = "done"]
    /\ UNCHANGED <<sh, shell, first, child, line, lines, runs, prparent, prmsg, main,
                   mainmsg, menu>>

\* Its process returns, which is kill(): the message comes first.
return(p) ==
    /\ OthersRun /\ proc[p] = "done"
    /\ message(p)
    /\ proc' = [proc EXCEPT ![p] = "dying"]
    /\ UNCHANGED <<sh, shell, first, child, line, lines, runs, prparent, main, menu>>

dies(p) ==
    /\ OthersRun /\ proc[p] = "dying"
    /\ proc' = [proc EXCEPT ![p] = "free"]
    /\ UNCHANGED <<sh, shell, first, child, line, lines, runs, prparent, prmsg, main,
                   mainmsg, menu>>

mainReceive ==
    /\ OthersRun /\ main = "receive" /\ mainmsg # NONE
    /\ mainmsg' = NONE
    /\ main' = "sleep"
    /\ UNCHANGED <<sh, shell, first, child, line, lines, proc, runs, prparent, prmsg, menu>>

\* After sleepms(): create() may find the table full, and nobody looks.
mainCreate ==
    /\ OthersRun /\ main = "sleep"
    /\ main' = "receive"
    /\ \/ \E p \in Slots :
             /\ proc[p] = "free"
             /\ proc' = [proc EXCEPT ![p] = "shell"]
             /\ prparent' = [prparent EXCEPT ![p] = NONE]
             /\ prmsg' = [prmsg EXCEPT ![p] = NONE]
             /\ sh' = p /\ first' = FALSE
       \/ /\ \A p \in Slots : proc[p] # "free"
          /\ UNCHANGED <<proc, prparent, prmsg, sh, first>>
    /\ UNCHANGED <<shell, child, line, lines, runs, mainmsg, menu>>

MainStep == mainReceive \/ mainCreate

-----------------------------------------------------------------------------
(* Properties.                                                             *)

Redirections ==
    { <<>>, <<"less", "other">>, <<"greater", "other">>,
      <<"less", "other", "greater", "other">>, <<"greater", "other", "less", "other">> }

\* "command_name [args*] [redirection] [&]", where redirection is "either or
\* both of < input_file or > output_file": the shell accepts the lines of this
\* form and no others, and finds the parts as they were meant.
ParseIsGrammar ==
    line # <<>> =>
       LET l == parse(line)
           Splits(k, r, b) ==
              line = [j \in 1 .. k |-> "other"] \o r \o (IF b THEN <<"amper">> ELSE <<>>)
       IN  /\ l.ok => \E r \in Redirections :
                         /\ Splits(l.ntok, r, l.backgnd)
                         /\ l.files = ToSet(r) \ {"other"}
           /\ \A k \in 1 .. Len(line), r \in Redirections, b \in BOOLEAN :
                 Splits(k, r, b) => l.ok

\* The first shell never waits for a command that has ended: since its
\* priority is higher it takes each message before another command can send
\* one, so that the message of its child is not refused.
ShellReturns ==
    first /\ shell = "wait" /\ proc[child] \in {"dying", "free"}
       => prmsg[sh] = child

\* When the shell ends there is a new one, as long as main lives and the
\* table has a place for it.
ShellBack ==
    sh = NONE ~> \/ sh # NONE \/ main = "dead"
                 \/ \A p \in Slots : proc[p] # "free"
=============================================================================
