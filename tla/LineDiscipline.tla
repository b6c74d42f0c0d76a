---------------------------- MODULE LineDiscipline ----------------------------
(***************************************************************************)
(* What the input side of a terminal promises: characters come to the      *)
(* readers in the order in which they were typed, each to one reader, and  *)
(* only when the line they are on is complete; until then they can be      *)
(* erased.  When the buffer is full, and in the cases the driver does not  *)
(* guard against, the promise ends (broken).                               *)
(***************************************************************************)
EXTENDS Integers, Sequences

CONSTANTS
    Keys,       \* characters that can be stored
    Length      \* characters the buffer holds

VARIABLES
    chars,      \* typed and not yet read, the oldest first
    ready,      \* how many of them readers may take
    edit,       \* how many of the last ones can still be erased
    broken

lineVars == <<chars, ready, edit, broken>>

Init ==
    chars = <<>> /\ ready = 0 /\ edit = 0 /\ broken = FALSE

\* A character of an incomplete line.
Edited(c) ==
    /\ chars' = Append(chars, c)
    /\ edit' = edit + 1
    /\ UNCHANGED ready

\* A character that is stored and that nothing makes available.
Hidden(c) ==
    /\ chars' = Append(chars, c)
    /\ UNCHANGED <<ready, edit>>

\* The end of a line makes the line available; a character on its own does
\* so with itself.
Completed(c, n) ==
    /\ chars' = Append(chars, c)
    /\ ready' = ready + n + 1
    /\ edit' = edit - n

Erased(n) ==
    /\ n <= edit
    /\ chars' = SubSeq(chars, 1, Len(chars) - n)
    /\ edit' = edit - n
    /\ UNCHANGED ready

Typed ==
    \/ \E c \in Keys : Edited(c) \/ Hidden(c) \/ Completed(c, edit) \/ Completed(c, 0)
    \/ \E n \in {1, edit} : Erased(n)

\* A reader takes the oldest character.
Taken ==
    /\ ready > 0
    /\ chars' = Tail(chars)
    /\ ready' = ready - 1
    /\ UNCHANGED edit

Next ==
    /\ ~broken
    /\ \/ (Typed \/ Taken) /\ Len(chars') <= Length /\ UNCHANGED broken
       \/ broken' = TRUE

Spec == Init /\ [][Next]_lineVars
=============================================================================
