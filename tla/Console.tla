------------------------------- MODULE Console ------------------------------
(***************************************************************************)
(* The console (console.c): typing edits a line in a ring buffer and echoes *)
(* it on the screen; processes read the lines that are complete, and write. *)
(* cons.lock makes each action atomic up to a sleep().  Characters are      *)
(* their codes; input.r, w and e are unsigned integers that wrap at 2^WIDTH.*)
(***************************************************************************)
EXTENDS Integers, Sequences, FiniteSets

CONSTANTS
  Proc,
  INPUT_BUF,  \* a power of two
  WIDTH,
  COLS, ROWS, \* of the screen; memory has one row more
  Keys,       \* characters that are typed
  Output,     \* characters that programs write
  Codes,      \* colours that programs set
  Lengths,    \* sizes of reads
  NTYPE       \* bound: characters typed and written

BACKSPACE == \h100
CtrlD == 4
CtrlH == 8
CtrlU == 21
CtrlP == 16
Enter == 10
Blank == 32   \* also for 0: neither shows

VARIABLES
  input,      \* the ring buffer
  screen,     \* crt, the cursor and the colours
  reader,     \* the consoleread() each process is in
  killed,
  pending,    \* characters that are in complete lines and have not been read
  edit,       \* the line being typed
  paper,      \* all that was put on the screen, without scrolling
  start,      \* where the echo of edit starts on the paper; -1 if not known
  left        \* characters that can still be typed or written

vars == <<input, screen, reader, killed, pending, edit, paper, start, left>>

U(n) == n % (2^WIDTH)
Cell == 0..((ROWS + 1) * COLS)
PaperCell == 0..((NTYPE + 1) * (COLS + 1) * (INPUT_BUF + 1))
NoRead == [pc |-> "idle", n |-> 0, target |-> 0]

Init ==
  /\ \E i \in {0, U(-1)} :
       input = [buf |-> [k \in 0..(INPUT_BUF - 1) |-> 0], r |-> i, w |-> i, e |-> i]
  /\ screen = [crt |-> [i \in Cell |-> Blank], pos |-> 0, fg |-> 7, bg |-> 0, panic |-> FALSE]
  /\ reader = [p \in Proc |-> NoRead]
  /\ killed = [p \in Proc |-> FALSE]
  /\ pending = <<>>
  /\ edit = <<>>
  /\ paper = [cells |-> [i \in PaperCell |-> Blank], at |-> 0, top |-> 0]
  /\ start = 0
  /\ left = NTYPE

-----------------------------------------------------------------------------
(* Colours *)

Foreground == <<\hee, \he7, \he9, \h1f, \he0, \h11, \hef, \hed,
                \hec, \he6, \he8, \h1e, \he1, \h10, \hea, \heb>>
Background == <<\hce, \hc7, \hc9, \hc5, \hc0, \hc3, \hcf, \hcd,
                \hcc, \hc6, \hc8, \hc4, \hc1, \hc2, \hca, \hcb>>

getfbytecolor(k) == Foreground[IF k \in 0..14 THEN k + 1 ELSE 16]
getbbytecolor(k) == Background[IF k \in 0..14 THEN k + 1 ELSE 16]

\* 6, brown, is also what every other byte gives.
getcolorcode(c) ==
  IF \E k \in 0..15 : c \in {Foreground[k + 1], Background[k + 1]}
  THEN CHOOSE k \in 0..15 : c \in {Foreground[k + 1], Background[k + 1]}
  ELSE 6

IsForeground(c) == c \in \he6..\hef \/ c \in {\he0, \he1, \h10, \h11, \h1e, \h1f}

IsBackground(c) == c \in \hc0..\hcf

setColor(s, code) == [s EXCEPT !.fg = code % 16, !.bg = code \div 16]

-----------------------------------------------------------------------------
(* The screen *)

scroll(s) ==
  LET pos == s.pos - COLS
      moved(i) == IF i < (ROWS - 1) * COLS THEN s.crt[i + COLS] ELSE s.crt[i]
  IN  [s EXCEPT !.pos = pos,
                !.crt = [i \in Cell |-> IF i \in pos..(ROWS * COLS - 1) THEN Blank ELSE moved(i)]]

\* cgaputc()
cgaputc(s, c) ==
  LET t == IF c = Enter THEN [s EXCEPT !.pos = @ + COLS - (@ % COLS)]
           ELSE IF c = BACKSPACE THEN [s EXCEPT !.pos = IF @ > 0 THEN @ - 1 ELSE @]
           ELSE IF IsForeground(c) THEN [s EXCEPT !.fg = getcolorcode(c)]
           ELSE IF IsBackground(c) THEN [s EXCEPT !.bg = getcolorcode(c)]
           ELSE [s EXCEPT !.crt[s.pos] = c, !.pos = @ + 1]
      u == IF t.pos \div COLS >= ROWS THEN scroll(t) ELSE t
  IN  IF t.pos > (ROWS + 1) * COLS THEN [t EXCEPT !.panic = TRUE]
      ELSE [u EXCEPT !.crt[u.pos] = Blank]

\* The same character on the paper, of which the screen shows ROWS rows from
\* top; what is above it will not be seen again.
put(t, c) ==
  LET at == IF c = Enter THEN (t.at \div COLS + 1) * COLS
            ELSE IF c = BACKSPACE THEN IF t.at > t.top * COLS THEN t.at - 1 ELSE t.at
            ELSE IF IsForeground(c) \/ IsBackground(c) THEN t.at ELSE t.at + 1
      top == IF at \div COLS - t.top >= ROWS THEN t.top + 1 ELSE t.top
  IN  [cells |-> [i \in PaperCell |-> IF i = at \/ i < top * COLS THEN Blank
                                      ELSE IF i = t.at /\ at = t.at + 1 /\ c # Enter THEN c
                                      ELSE t.cells[i]],
       at |-> at, top |-> top]

\* The characters cs, one after the other.
RECURSIVE show(_, _)
show(s, cs) == IF cs = <<>> THEN s ELSE show(cgaputc(s, Head(cs)), Tail(cs))

RECURSIVE print(_, _)
print(t, cs) == IF cs = <<>> THEN t ELSE print(put(t, Head(cs)), Tail(cs))

consputc(cs) == screen' = show(screen, cs) /\ paper' = print(paper, cs)

\* Variant of Erase: one for the line.
EraseOne(n) == <<BACKSPACE>>

Erase(n) == [k \in 1..n |-> BACKSPACE]

-----------------------------------------------------------------------------
(* Typing: consoleintr(), one character at a time *)

Typed == left > 0 /\ left' = left - 1

\* Kill line.
killline ==
  /\ Typed /\ CtrlU \in Keys
  /\ input' = [input EXCEPT !.e = input.w]
  /\ consputc(Erase(U(input.e - input.w)))
  /\ edit' = <<>>
  /\ UNCHANGED <<reader, killed, pending, start>>

backspace ==
  /\ Typed /\ CtrlH \in Keys
  /\ IF input.e # input.w
     THEN /\ input' = [input EXCEPT !.e = U(@ - 1)]
          /\ consputc(Erase(1))
          /\ edit' = SubSeq(edit, 1, Len(edit) - 1)
     ELSE UNCHANGED <<input, screen, paper, edit>>
  /\ UNCHANGED <<reader, killed, pending, start>>

\* Variant of Room: one character too many.
RoomTwice(in) == U(in.e - in.r) <= INPUT_BUF

Room(in) == U(in.e - in.r) < INPUT_BUF

\* Variant of Complete: a full buffer does not complete the line.
CompleteEnds(in, c) == c \in {Enter, CtrlD}

\* The line is complete: '\n', ^D, or the buffer is full.
Complete(in, c) == c \in {Enter, CtrlD} \/ in.e = U(in.r + INPUT_BUF)

wakeup == reader' = [p \in Proc |-> IF reader[p].pc = "sleep" THEN [reader[p] EXCEPT !.pc = "awake"]
                                    ELSE reader[p]]

type(c) ==
  LET in == [input EXCEPT !.buf[input.e % INPUT_BUF] = c, !.e = U(@ + 1)]
  IN  /\ Typed /\ c \in Keys \ {CtrlU, CtrlH, CtrlP}
      /\ \/ ~Room(input) /\ UNCHANGED <<input, screen, paper, reader, pending, edit, start>>
         \/ /\ Room(input)
            /\ consputc(<<c>>)
            /\ IF Complete(in, c)
               THEN /\ input' = [in EXCEPT !.w = in.e]
                    /\ wakeup
                    /\ pending' = pending \o Append(edit, c)
                    /\ edit' = <<>>
                    /\ start' = paper'.at
               ELSE /\ input' = in
                    /\ edit' = Append(edit, c)
                    /\ UNCHANGED <<reader, pending, start>>
      /\ UNCHANGED killed

-----------------------------------------------------------------------------
(* Reading and writing *)

\* consoleread()'s loop, as far as it goes without sleeping: a = [r, n, eof].
RECURSIVE take(_, _, _)
take(r, n, target) ==
  LET c == input.buf[r % INPUT_BUF]
  IN  IF n = 0 THEN [r |-> r, n |-> n, done |-> TRUE]
      ELSE IF r = input.w THEN [r |-> r, n |-> n, done |-> FALSE]
      ELSE IF c = CtrlD THEN [r |-> IF n < target THEN r ELSE U(r + 1), n |-> n, done |-> TRUE]
      ELSE IF c = Enter THEN [r |-> U(r + 1), n |-> n - 1, done |-> TRUE]
      ELSE take(U(r + 1), n - 1, target)

\* Go on reading.  Killed, a process does not sleep.
Read(p, n, target) ==
  LET t == take(input.r, n, target)
  IN  /\ input' = [input EXCEPT !.r = t.r]
      /\ pending' = SubSeq(pending, U(t.r - input.r) + 1, Len(pending))
      /\ reader' = [reader EXCEPT ![p] =
           IF t.done \/ killed[p] THEN NoRead ELSE [pc |-> "sleep", n |-> t.n, target |-> target]]
      /\ UNCHANGED <<screen, killed, edit, paper, start, left>>

consoleread(p, n) == reader[p].pc = "idle" /\ ~killed[p] /\ Read(p, n, n)
resume(p) == reader[p].pc = "awake" /\ Read(p, reader[p].n, reader[p].target)

kill(p) ==
  /\ ~killed[p] /\ reader[p].pc # "idle"
  /\ killed' = [killed EXCEPT ![p] = TRUE]
  /\ reader' = [reader EXCEPT ![p].pc = IF @ = "sleep" THEN "awake" ELSE @]
  /\ UNCHANGED <<input, screen, pending, edit, paper, start, left>>

\* consolewrite() of one character.
consolewrite(c) ==
  /\ Typed
  /\ consputc(<<c>>)
  /\ start' = IF edit = <<>> THEN paper'.at ELSE -1
  /\ UNCHANGED <<input, reader, killed, pending, edit>>

\* A new paper.
clear ==
  /\ Typed
  /\ screen' = [screen EXCEPT !.pos = 0,
                             !.crt = [i \in Cell |-> IF i < ROWS * COLS THEN Blank ELSE @[i]]]
  /\ paper' = [cells |-> [i \in PaperCell |-> Blank], at |-> 0, top |-> 0]
  /\ start' = IF edit = <<>> THEN 0 ELSE -1
  /\ UNCHANGED <<input, reader, killed, pending, edit>>

sys_color(code) ==
  /\ Typed
  /\ screen' = IF code \in 0..255 THEN setColor(screen, code) ELSE screen
  /\ UNCHANGED <<input, reader, killed, pending, edit, paper, start>>

Next ==
  \/ clear
  \/ \E code \in Codes : sys_color(code)
  \/ killline \/ backspace
  \/ \E c \in Keys : type(c)
  \/ \E p \in Proc, n \in Lengths : consoleread(p, n)
  \/ \E p \in Proc : resume(p) \/ kill(p)
  \/ \E c \in Output : consolewrite(c)

Spec == Init /\ [][Next]_vars

-----------------------------------------------------------------------------
(* Properties *)

\* The n characters of the ring buffer from index i on.
Ring(i, n) == [k \in 1..n |-> input.buf[U(i + k - 1) % INPUT_BUF]]

\* Readers get the characters of complete lines, each once and in order, and
\* the line being edited is what was typed and not erased: typing never
\* overwrites what has not been read, also when the indices wrap.
Lines ==
  /\ Ring(input.r, U(input.w - input.r)) = pending
  /\ Ring(input.w, U(input.e - input.w)) = edit

\* No reader sleeps while there is something to read or after it was killed,
\* and a full buffer has something to read, so that typing can go on.
NoReaderStuck ==
  /\ \A p \in Proc : reader[p].pc = "sleep" => pending = <<>> /\ ~killed[p]
  /\ Len(pending) + Len(edit) = INPUT_BUF => pending # <<>>

\* The screen is a window on the paper: scrolling and the cursor lose nothing
\* and cgaputc() never leaves the screen ("pos under/overflow").
Window ==
  /\ ~screen.panic
  /\ screen.pos = paper.at - paper.top * COLS
  /\ \A i \in 0..(ROWS * COLS - 1) : screen.crt[i] = paper.cells[paper.top * COLS + i]

\* The line that will be read is the line on the screen: echo and erasing match
\* the edits, unless a program wrote in the middle of the line.
EchoIsLine ==
  start >= 0 =>
    /\ paper.at = start + Len(edit)
    /\ \A k \in 1..Len(edit) : start + k > paper.top * COLS => paper.cells[start + k - 1] = edit[k]

\* A colour set by number is the one that its byte, once printed, sets.
ColourBytes ==
  left = NTYPE => \A k \in 0..15 :
    /\ cgaputc(setColor(screen, 0), getfbytecolor(k)) = setColor(cgaputc(screen, getbbytecolor(0)), k)
    /\ cgaputc(setColor(screen, 0), getbbytecolor(k)) = setColor(cgaputc(screen, getbbytecolor(0)), 16 * k)
=============================================================================
