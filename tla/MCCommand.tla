------------------------------ MODULE MCCommand -------------------------------
(* Sessions for TLC: the shell alone, two runs of prodcons, prodcons -f.   *)
EXTENDS Command

MCSessions ==
    { [menu |-> {"other"}, tokens |-> 6, lines |-> 3],
      [menu |-> {"count"}, tokens |-> 2, lines |-> 1],
      [menu |-> {"-f"}, tokens |-> 2, lines |-> 0] }
=============================================================================
