---------------------------------- MODULE Tty ---------------------------------
(***************************************************************************)
(* The serial terminal driver, device/tty.  Processes call ttyputc(),      *)
(* ttywrite(), ttyread() (with ttygetc()) and ttycontrol() through the     *)
(* device switch, which disables interrupts; the handler fills the input   *)
(* buffer and empties the echo and output queues.  A call gives up the CPU *)
(* only where it waits for a semaphore: a process that was let go runs     *)
(* later, and interrupts come before it does.                              *)
(*                                                                         *)
(* The input buffer and the output queue are arrays with their indices.    *)
(* Of the echo queue only the number of characters is kept.  The options   *)
(* no call changes have their initial values.  When an input pointer has   *)
(* left the buffer, a character that was not read is overwritten, or a     *)
(* place of the output queue is sent before its character is there, the    *)
(* contents mean nothing any more and the model ends (corrupt).            *)
(***************************************************************************)
EXTENDS UserSem, FiniteSets

CONSTANTS
    Readers, Writers,   \* processes
    TY_IBUFLEN, TY_OBUFLEN, TY_EBUFLEN,
    UART_FIFO_SIZE,
    Texts,      \* characters written, from {"x", "newline"}
    Counts,     \* counts given to ttyread()
    NOBODY

ASSUME TtyAssumption ==
    /\ Readers \cap Writers = {} /\ NOBODY \notin Readers \cup Writers
    /\ TY_IBUFLEN \in Nat /\ TY_IBUFLEN > 1
    /\ TY_OBUFLEN \in Nat \ {0} /\ TY_EBUFLEN \in Nat \ {0}
    /\ UART_FIFO_SIZE \in 1 .. TY_OBUFLEN
    /\ Texts \subseteq {"x", "newline"} /\ Counts \subseteq Nat

VARIABLES
    ibuff, ihead, itail, isem, icursor, \* the input buffer
    imode, iecho,
    obuff, ohead, otail, osem,          \* the output queue
    echoes,     \* characters in the echo queue: the distance of its indices
    oheld,      \* output is stopped
    etbei,      \* the UART interrupts when it can take output
    outEnd,     \* a handler was switched away from before its last test
    at,         \* where each process stands
    todo,       \* what a writer still has to write, how much a reader to read
    hold,       \* the process that keeps the CPU inside a call, or NOBODY
    using,      \* the processes that call: see Next
    hidden,     \* history: characters stored and not signalled
    written,    \* history: characters in the output queue, the oldest first
    corrupt

inVars   == <<ibuff, ihead, itail, isem, icursor, imode, iecho, hidden>>
outVars  == <<obuff, ohead, otail, osem, written>>
uartVars == <<echoes, oheld, etbei, outEnd>>
procVars == <<at, todo, hold, using>>
ttyVars  == <<inVars, outVars, uartVars, procVars, corrupt>>

Procs   == Readers \cup Writers
IPlaces == 0 .. TY_IBUFLEN - 1
OPlaces == 0 .. TY_OBUFLEN - 1

ttyinit ==
    /\ ibuff = [i \in IPlaces |-> "char"] /\ ihead = 0 /\ itail = 0
    /\ isem = Sem(0) /\ icursor = 0
    /\ imode = "cooked" /\ iecho = TRUE
    /\ obuff = [i \in OPlaces |-> "x"] /\ ohead = 0 /\ otail = 0
    /\ osem = Sem(TY_OBUFLEN)
    /\ echoes = 0 /\ oheld = FALSE /\ etbei = TRUE /\ outEnd = FALSE
    /\ at = [p \in Procs |-> "user"]
    /\ todo = [p \in Procs |-> IF p \in Writers THEN <<>> ELSE 0]
    /\ hold = NOBODY
    /\ using \in {Readers, Writers}
    /\ hidden = 0 /\ written = <<>> /\ corrupt = FALSE

goto(p, place) == at' = [at EXCEPT ![p] = place]

\* p stands at place and can go on; interrupts are enabled, or p has the CPU.
Runs(p, place) ==
    /\ ~corrupt
    /\ at[p] = place /\ ~waitsOn(p, isem) /\ ~waitsOn(p, osem)
    /\ hold \in {NOBODY, p}

wrapped(i, n) == IF i >= n THEN 0 ELSE i

\* wait(s) by p: a process that need not wait keeps the CPU.
waits(s, p) == IF passes(s) THEN passed(s) ELSE blocked(s, p)
keeps(s, p) == IF passes(s) THEN p ELSE NOBODY

-----------------------------------------------------------------------------
(* Output by processes.                                                    *)

\* NEWLINE is preceded by RETURN.
crlf(text) ==
    FlattenSeq([i \in DOMAIN text |->
                   IF text[i] = "newline" THEN <<"return", "newline">> ELSE <<text[i]>>])

\* ttywrite(), or ttyputc() for one character, up to the first wait().
ttywrite(w, text) ==
    /\ w \in using /\ Runs(w, "user")
    /\ todo' = [todo EXCEPT ![w] = crlf(text)]
    /\ goto(w, "put")
    /\ osem' = waits(osem, w)
    /\ hold' = keeps(osem, w)
    /\ UNCHANGED <<obuff, ohead, otail, written, inVars, uartVars, using, corrupt>>

\* Mutant: the device is left as it is.
ttykickoutNot == UNCHANGED etbei

ttykickout == etbei' = TRUE

\* ttyputc(), after wait(): store the character, start the device; then the
\* next character, if there is one.
ttyputc(w) ==
    LET ch == Head(todo[w]) IN
    /\ Runs(w, "put")
    /\ obuff' = [obuff EXCEPT ![otail] = ch]
    /\ written' = Append(written, ch)
    /\ otail' = wrapped(otail + 1, TY_OBUFLEN)
    /\ ttykickout
    /\ todo' = [todo EXCEPT ![w] = Tail(@)]
    /\ \/ /\ Len(todo[w]) > 1
          /\ osem' = waits(osem, w)
          /\ hold' = keeps(osem, w)
          /\ UNCHANGED at
       \/ /\ Len(todo[w]) = 1
          /\ goto(w, "user")
          /\ hold' = NOBODY
          /\ UNCHANGED osem
    /\ UNCHANGED <<ohead, inVars, echoes, oheld, outEnd, using, corrupt>>

-----------------------------------------------------------------------------
(* Input by processes.                                                     *)

\* How many characters ttyread() goes for.  In cooked mode it always waits
\* for the first; otherwise 0 stands for all that are there.
readCount(count) ==
    IF imode = "cooked" THEN IF count = 0 THEN 1 ELSE count
    ELSE IF count = 0 THEN isem.count ELSE count

ttyread(r, count) ==
    /\ r \in using /\ Runs(r, "user")
    /\ readCount(count) > 0
    /\ todo' = [todo EXCEPT ![r] = readCount(count)]
    /\ goto(r, IF imode = "cooked" THEN "first" ELSE "chars")
    /\ isem' = waits(isem, r)
    /\ hold' = keeps(isem, r)
    /\ UNCHANGED <<ibuff, ihead, itail, icursor, imode, iecho, hidden, outVars,
                   uartVars, using, corrupt>>

\* Whether ttyread() ends with character ch, taken at place.
lastChar(r, place, ch) ==
    \/ todo[r] = 1
    \/ place = "first" /\ ch = "eof" /\ imode = "cooked"
    \/ place \in {"first", "line"} /\ ch = "newline"

\* ttygetc(), after wait(): take the character, then wait for the next one.
ttygetc(r) ==
    LET ch == ibuff[ihead] IN
    \E place \in {"first", "line", "chars"} :
    /\ Runs(r, place)
    /\ ihead' = wrapped(ihead + 1, TY_IBUFLEN)
    /\ todo' = [todo EXCEPT ![r] = IF lastChar(r, place, ch) THEN 0 ELSE @ - 1]
    /\ \/ /\ lastChar(r, place, ch)
          /\ goto(r, "user")
          /\ hold' = NOBODY
          /\ UNCHANGED isem
       \/ /\ ~lastChar(r, place, ch)
          /\ goto(r, IF place = "first" THEN "line" ELSE place)
          /\ isem' = waits(isem, r)
          /\ hold' = keeps(isem, r)
    /\ UNCHANGED <<ibuff, itail, icursor, imode, iecho, hidden, outVars, uartVars, using, corrupt>>

\* ttycontrol(): look ahead by one character.
nextc(r) ==
    /\ r \in using /\ Runs(r, "user")
    /\ goto(r, "peek")
    /\ isem' = waits(isem, r)
    /\ hold' = keeps(isem, r)
    /\ UNCHANGED <<ibuff, ihead, itail, icursor, imode, iecho, hidden, outVars,
                   uartVars, todo, using, corrupt>>

nextcEnd(r) ==
    /\ Runs(r, "peek")
    /\ goto(r, "user")
    /\ isem' = signaled(isem)
    /\ hold' = NOBODY
    /\ UNCHANGED <<ibuff, ihead, itail, icursor, imode, iecho, hidden, outVars,
                   uartVars, todo, using, corrupt>>

\* ttycontrol(): modes and echo.
setMode(p) ==
    /\ p \in using /\ Runs(p, "user")
    /\ \/ imode' \in {"raw", "cooked", "cbreak"} /\ UNCHANGED iecho
       \/ iecho' \in BOOLEAN /\ UNCHANGED imode
    /\ UNCHANGED <<ibuff, ihead, itail, isem, icursor, hidden, outVars, uartVars,
                   procVars, corrupt>>

-----------------------------------------------------------------------------
(* Input interrupts: ttyhandle_in(), one character at a time.              *)

Interrupt == ~corrupt /\ hold = NOBODY

\* Readers that have a permit and have not taken their character yet.
LetGo == {r \in Readers : at[r] # "user" /\ ~waitsOn(r, isem)}

\* Characters in the input buffer.
Stored == available(isem) + Cardinality(LetGo) + icursor + hidden

\* The character goes to the tail of the input buffer.
stow(c, next) ==
    /\ using = Readers
    /\ ibuff' = [ibuff EXCEPT ![itail] = c]
    /\ itail' = next
    /\ corrupt' = (Stored >= TY_IBUFLEN \/ next \notin IPlaces)
    /\ UNCHANGED <<ihead, imode, iecho>>

\* eputc(), n times: there is no test for a full queue.
eputc(n) ==
    /\ echoes' = (echoes + n) % TY_EBUFLEN
    /\ IF n > 0 THEN ttykickout ELSE UNCHANGED etbei
    /\ UNCHANGED outEnd

\* echoch(): NEWLINE takes two characters, and so does a control character.
echoch(c) == eputc(IF ~iecho THEN 0 ELSE IF c = "char" THEN 1 ELSE 2)

\* In raw mode every character is stored; the index does not wrap.
rawKey(c) ==
    /\ Interrupt /\ imode = "raw"
    /\ available(isem) < TY_IBUFLEN
    /\ stow(c, itail + 1)
    /\ isem' = signaled(isem)
    /\ UNCHANGED <<icursor, hidden, uartVars>>

\* ^S and ^Q
flowKey ==
    /\ Interrupt /\ imode # "raw"
    /\ \/ oheld' = FALSE /\ ttykickout
       \/ oheld' = TRUE /\ UNCHANGED etbei
    /\ UNCHANGED <<inVars, echoes, outEnd, corrupt>>

\* Any other character restarts output.
Key(mode) == Interrupt /\ imode = mode /\ oheld' = FALSE

\* Cbreak mode: the character is stored, and the semaphore not signalled.
cbreakKey(c) ==
    /\ Key("cbreak")
    /\ \/ /\ available(isem) >= TY_IBUFLEN
          /\ eputc(1)
          /\ UNCHANGED <<ibuff, itail, ihead, imode, iecho, hidden, corrupt>>
       \/ /\ available(isem) < TY_IBUFLEN
          /\ stow(c, wrapped(itail + 1, TY_IBUFLEN))
          /\ echoch(c)
          /\ hidden' = hidden + 1
    /\ UNCHANGED <<isem, icursor>>

\* Line kill.  When the line lies across the end of the buffer, the head is
\* moved and the tail left before the buffer.
killKey ==
    /\ Key("cooked")
    /\ itail' = itail - icursor
    /\ ihead' = IF itail' < 0 THEN ihead + TY_IBUFLEN ELSE ihead
    /\ corrupt' = (itail' < 0)
    /\ icursor' = 0
    /\ eputc(2)
    /\ UNCHANGED <<ibuff, isem, imode, iecho, hidden>>

\* Mutant: the erased character leaves the line but not the buffer.
erasedKept(i) == i

\* erase1(): the index after one character is taken back.
erased(i) == IF i = 0 THEN TY_IBUFLEN - 1 ELSE i - 1

eraseKey ==
    /\ Key("cooked")
    /\ \/ /\ icursor > 0
          /\ icursor' = icursor - 1
          /\ itail' = erased(itail)
          /\ eputc(IF iecho THEN 3 ELSE 0)
       \/ /\ icursor = 0
          /\ UNCHANGED <<icursor, itail, echoes, etbei, outEnd>>
    /\ UNCHANGED <<ibuff, ihead, isem, imode, iecho, hidden, corrupt>>

\* Mutant: the newline itself is not counted.
lineSignalsShort == icursor

\* "Make entire line (plus \n or \r) available"
lineSignals == icursor + 1

newlineKey ==
    /\ Key("cooked")
    /\ echoch("newline")
    /\ stow("newline", wrapped(itail + 1, TY_IBUFLEN))
    /\ isem' = signaledN(isem, lineSignals)
    /\ icursor' = 0
    /\ UNCHANGED hidden

\* The test for an overflow keeps one place for the newline.
inputFull == available(isem) + icursor >= TY_IBUFLEN - 1

fullKey ==
    /\ Key("cooked")
    /\ inputFull
    /\ eputc(1)
    /\ UNCHANGED <<inVars, corrupt>>

\* End of file, at the beginning of a line; the index does not wrap.
eofKey ==
    /\ Key("cooked")
    /\ ~inputFull
    /\ echoch("eof")
    /\ \/ /\ icursor # 0
          /\ UNCHANGED <<inVars, corrupt>>
       \/ /\ icursor = 0
          /\ stow("eof", itail + 1)
          /\ isem' = signaled(isem)
          /\ UNCHANGED <<icursor, hidden>>

charKey ==
    /\ Key("cooked")
    /\ ~inputFull
    /\ echoch("char")
    /\ icursor' = icursor + 1
    /\ stow("char", wrapped(itail + 1, TY_IBUFLEN))
    /\ UNCHANGED <<isem, hidden>>

ttyhandle_in ==
    /\ \/ \E c \in {"char", "newline", "eof"} : rawKey(c) \/ cbreakKey(c)
       \/ flowKey \/ killKey \/ eraseKey \/ newlineKey \/ fullKey \/ eofKey \/ charKey
    /\ UNCHANGED <<outVars, procVars>>

-----------------------------------------------------------------------------
(* Output interrupts.                                                      *)

\* Mutant: the test looks at the output queue alone.
idleOutput(e, s) == s.count >= TY_OBUFLEN

\* Both queues are empty, as far as the count tells.
idle(e, s) == e = 0 /\ s.count >= TY_OBUFLEN

\* Mutant: echoed characters are counted too.
ocharsEchoed(e, sent) == e + sent

\* Characters for which writers get room, of those the handler sent.
ochars(e, sent) == sent

\* ttyhandle_out(), when there are n free places in the UART: echoed
\* characters first, then output.  signaln() may switch to a writer before
\* the handler comes to its last test.
ttyhandle_out(n) ==
    LET e     == IF echoes < n THEN echoes ELSE n
        avail == TY_OBUFLEN - osem.count
        sent  == IF avail < n - e THEN avail ELSE n - e
    IN
    /\ Interrupt /\ etbei /\ ~oheld
    /\ echoes' = echoes - e
    /\ ohead' = (ohead + sent) % TY_OBUFLEN
    /\ osem' = signaledN(osem, ochars(e, sent))
    /\ written' = SubSeq(written, sent + 1, Len(written))
    /\ corrupt' = (sent > Len(written))
    /\ \/ /\ etbei' = ~idle(echoes', osem')
          /\ UNCHANGED outEnd
       \/ /\ osem.queue # <<>> /\ sent > 0
          /\ outEnd' = TRUE
          /\ UNCHANGED etbei
    /\ UNCHANGED <<obuff, otail, oheld, inVars, procVars>>

\* The last test of a handler that was switched away from; there may be more.
ttyhandle_outEnd ==
    /\ Interrupt /\ outEnd
    /\ etbei' = (etbei /\ ~idle(echoes, osem))
    /\ outEnd' \in BOOLEAN
    /\ UNCHANGED <<echoes, oheld, inVars, outVars, procVars, corrupt>>

-----------------------------------------------------------------------------
Reading(r) == ttygetc(r) \/ nextcEnd(r)

Calling ==
    \/ \E w \in Writers, ch \in Texts : ttywrite(w, <<ch>>)
    \/ \E r \in Readers :
          nextc(r) \/ setMode(r) \/ \E count \in Counts : ttyread(r, count)

Transmit == \E n \in 1 .. UART_FIFO_SIZE : ttyhandle_out(n)

\* The readers' calls and what is stored in the input buffer do not depend on
\* the output queue, and the writers depend on the input only by echoes and
\* flow control, which keys on an empty line produce as well.  So in one
\* behaviour either readers or writers call, and characters are stored for
\* readers only.
Next ==
    \/ Calling \/ ttyhandle_in \/ Transmit \/ ttyhandle_outEnd
    \/ \E w \in Writers : ttyputc(w)
    \/ \E r \in Readers : Reading(r)

\* The UART goes on as long as its interrupt is enabled, and a process that
\* does not wait comes to the CPU although others have it in between.  Nobody
\* has to type or to call.
LiveSpec ==
    /\ ttyinit /\ [][Next]_ttyVars
    /\ WF_ttyVars(Transmit)
    /\ \A w \in Writers : SF_ttyVars(ttyputc(w))
    /\ \A r \in Readers : SF_ttyVars(Reading(r))

\* Two states that differ only in places of the buffers that hold nothing are
\* one state: such a place is written before it is read, or corrupt is set.
\* When readers call, the echoes and the UART are of no interest: nothing in
\* the input depends on them.
StateView ==
    << [i \in 1 .. Stored |-> ibuff[(ihead + i - 1) % TY_IBUFLEN]], written,
       ihead, itail, isem, icursor, imode, hidden, ohead, otail, osem,
       IF using = Readers THEN <<>> ELSE <<iecho, uartVars>>, procVars, corrupt >>

-----------------------------------------------------------------------------
(* Properties.                                                             *)

\* The input buffer as its users see it.
Chars == [i \in 1 .. Stored |-> ibuff[(ihead + i - 1) % TY_IBUFLEN]]

Line == INSTANCE LineDiscipline WITH
    Keys <- {"char", "newline", "eof"}, Length <- TY_IBUFLEN,
    chars <- IF corrupt THEN <<>> ELSE Chars,
    ready <- IF corrupt THEN 0 ELSE available(isem) + Cardinality(LetGo),
    edit <- IF corrupt THEN 0 ELSE icursor,
    broken <- corrupt

\* In cooked mode the test for a full buffer protects what was not read:
\* only a newline beyond the last place, or a line kill or an end of file at
\* the end of the buffer, can spoil the input.  The place kept for a newline
\* makes up for one reader that was let go and is not counted; for two of
\* them it does not.
OverflowOnlyByNewline ==
    [][ corrupt' /\ imode = "cooked" /\ hidden = 0 /\ UNCHANGED outVars
              /\ Cardinality(LetGo) <= 1
           => \/ icursor' = 0 /\ Stored >= TY_IBUFLEN
              \/ itail' \notin IPlaces ]_ttyVars

\* "cooked mode => line editing": readers get what was typed, in order, once,
\* and not before the line is complete, however the buffer wraps and however
\* editing, mode changes and readers that were let go interleave; and the
\* input is spoilt in the cases above only.
LinePromise == Line!Spec /\ OverflowOnlyByNewline

\* The places of the output queue hold what was written and not yet sent, in
\* order, and the count of the semaphore is the room that is left, less the
\* permits of writers that were let go and have not stored their character.
OutputInOrder ==
    ~corrupt =>
       /\ \A i \in DOMAIN written : obuff[(ohead + i - 1) % TY_OBUFLEN] = written[i]
       /\ otail = (ohead + Len(written)) % TY_OBUFLEN
       /\ available(osem) + Len(written)
             + Cardinality({w \in Writers : at[w] = "put" /\ ~waitsOn(w, osem)}) = TY_OBUFLEN

\* The device is not left idle with work to do: while there is a character to
\* echo or to write, the output interrupt is enabled.
NothingStuck == ~corrupt /\ (echoes # 0 \/ written # <<>>) => etbei

\* Every writer gets its text out, unless output is stopped with ^S or there
\* are echoes without end, which ttyhandle_out() sends first.
WriterServed ==
    <>[](echoes = 0) =>
       \A w \in Writers : at[w] = "put" ~> at[w] = "user" \/ oheld \/ corrupt

\* A process that reads a line returns once a complete line is there, unless
\* another one reads too and takes the end of the line.
LineRead ==
    \A r \in Readers :
       (/\ at[r] \in {"first", "line"}
        /\ \E i \in 1 .. available(isem) + Cardinality(LetGo) : Chars[i] = "newline")
       ~> at[r] = "user" \/ corrupt \/ \E q \in Readers \ {r} : at[q] # "user"
=============================================================================
