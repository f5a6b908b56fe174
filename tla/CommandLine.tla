---------------------------- MODULE CommandLine ----------------------------
(***************************************************************************)
(* The command tasks of the two terminals.  gpiomon (esp8266terminal,      *)
(* terminal.c) collects a line byte by byte; command_task                  *)
(* (esp8266terminal2, main/terminal_main.c) reads what is typed to pos and *)
(* looks for an end of line from the start of the buffer.  Both have the   *)
(* line cut into arguments by module ArgParser and look at those.  What a  *)
(* command does is left out, but for "wifi" of the second terminal looking *)
(* at arg[1] whether the line had one or not.                              *)
(*                                                                         *)
(* External: who types, and the serial driver.  The clock sends CR, a      *)
(* request and CR (ledclocksw/main.c:197); the enter key of the second     *)
(* terminal's user sends CR and LF (esp8266terminal2/README.md:64), and a  *)
(* read there returns up to MaxRead bytes, which may be part of a line,    *)
(* part of what the enter key sends, or more than a line.  MaxTyped bounds *)
(* the bytes in all.  The task asks for BUF_SIZE bytes wherever pos is, so *)
(* a read may go on behind the buffer: whatever happens then, the model    *)
(* ends there.                                                             *)
(***************************************************************************)
EXTENDS ArgParser

\* SizeOfCmd is that of the array cmd.
CONSTANTS Letters, WIFI, SizeOfCmd, BUF_SIZE, MaxRead, MaxTyped, CR, LF, Unset

Tasks == {"gpiomon", "command_task"}
Bytes == Letters \cup {WIFI, QUOTE, SPACE}

ASSUME CommandLineAssumption ==
  /\ {SizeOfCmd, MaxRead, MaxTyped, BUF_SIZE} \subseteq Nat \ {0}
  /\ {CR, LF, NUL, Unset} \cap Bytes = {}
  /\ CR # LF /\ NUL \notin {CR, LF}

VARIABLES
  task,         \* which of the tasks this is
  pos,          \* bytes before the place for the next one
  handling,     \* between the end of a line and the command
  known,        \* how many places of arg have ever been set
  halted,       \* the task has followed a pointer that was never set, or
                \* written behind its buffer
  typed,        \* history: the bytes in all, the line being typed, and whether
                \* the enter key is half read
  lines,        \* history: the lines that were typed, of a read only the first
  handled,      \* history: what was parsed, each with the line it was typed in
  orderly       \* history: no line was empty, and each ended with its read

own == <<task, pos, handling, known, halted, typed, lines, handled, orderly>>
commandvars == <<line, rover, argv, running, own>>

\* The array cmd, with the byte behind it, or the buffer of command_task.
Size(t) == IF t = "gpiomon" THEN SizeOfCmd + 1 ELSE BUF_SIZE

CommandInit ==
  /\ task \in Tasks
  /\ line = [n \in 1 .. Size(task) |-> Unset] /\ rover = 1 /\ argv = <<>> /\ running = FALSE
  /\ pos = 0 /\ handling = FALSE /\ known = 0 /\ halted = FALSE
  /\ typed = [bytes |-> 0, line |-> <<>>, entering |-> FALSE]
  /\ lines = <<>> /\ handled = <<>> /\ orderly = TRUE

Reading(t, n) == task = t /\ ~halted /\ ~handling /\ typed.bytes + n <= MaxTyped

-----------------------------------------------------------------------------
\* gpiomon.

\* The end of the text is written behind it, and so behind the array if that
\* is full.
EndOfLine ==
  /\ Reading("gpiomon", 1)
  /\ line' = [line EXCEPT ![pos + 1] = NUL]
  /\ pos' = 0
  /\ StartParse /\ handling' = TRUE
  /\ typed' = [typed EXCEPT !.bytes = @ + 1, !.line = <<>>]
  /\ lines' = Append(lines, typed.line)
  /\ handled' = Append(handled, [text |-> SubSeq(line, 1, pos), line |-> typed.line])
  /\ UNCHANGED <<task, known, halted, orderly>>

Byte(ch) ==
  /\ Reading("gpiomon", 1)
  /\ IF pos < SizeOfCmd
     THEN line' = [line EXCEPT ![pos + 1] = ch] /\ pos' = pos + 1
     ELSE UNCHANGED <<line, pos>>
  /\ typed' = [typed EXCEPT !.bytes = @ + 1, !.line = Append(@, ch)]
  /\ UNCHANGED <<rover, argv, running, task, handling, known, halted>>
  /\ UNCHANGED <<lines, handled, orderly>>

gpiomon == EndOfLine \/ \E ch \in Bytes : Byte(ch)

-----------------------------------------------------------------------------
\* command_task.
First(places) == IF places = {} THEN 0 ELSE Min(places)

\* An end of line; in the mutated form the carriage return is not one.
IsEolNewline(c) == c = LF
IsEol(c) == c \in {CR, LF}

\* The first end of line among n bytes, or 0.  argparser_check_for_eol ends
\* the text there and returns its index: 0 for the first byte, as for none.
FirstEol(d, n) == First({i \in 1 .. n : IsEol(d[i])})
Ended(d, n) == IF FirstEol(d, n) = 0 THEN d ELSE [d EXCEPT ![FirstEol(d, n)] = NUL]
argparser_check_for_eol(d, n) == IF FirstEol(d, n) = 0 THEN 0 ELSE FirstEol(d, n) - 1

\* The bytes that are read, at pos.
WithBytes(s) ==
  [n \in DOMAIN line |-> IF n \in pos + 1 .. pos + Len(s) THEN s[n - pos] ELSE line[n]]

\* The user's side of a read.  LF comes after CR and nowhere else.
CanFollow(s) ==
  \A i \in DOMAIN s : s[i] = LF <=> (IF i = 1 THEN typed.entering ELSE s[i - 1] = CR)

\* The line that the first end of line in the read ends, and what is left
\* after the last.
Ends(s) == {i \in DOMAIN s : s[i] \in {CR, LF}}
LineUpTo(s) ==
  typed.line \o SubSeq(s, 1, IF Ends(s) = {} THEN Len(s) ELSE Min(Ends(s)) - 1)
LineLeft(s) ==
  IF Ends(s) = {} THEN typed.line \o s ELSE SubSeq(s, Max(Ends(s)) + 1, Len(s))

Typing(s) ==
  /\ CanFollow(s)
  /\ typed' = [bytes |-> typed.bytes + Len(s), line |-> LineLeft(s),
               entering |-> s[Len(s)] = CR]
  /\ lines' = IF Ends(s) = {} THEN lines ELSE Append(lines, LineUpTo(s))
  /\ orderly' = (orderly /\ (Ends(s) # {} => /\ Ends(s) = {Len(s) - 1, Len(s)}
                                            /\ LineUpTo(s) # <<>>))

Read(s) ==
  LET received == WithBytes(s)
      n == pos + Len(s)
      len == argparser_check_for_eol(received, n)
  IN  /\ Reading("command_task", Len(s)) /\ n <= BUF_SIZE
      /\ Typing(s)
      /\ line' = Ended(received, n) /\ pos' = n
      /\ IF len = 0
         THEN UNCHANGED <<rover, argv, running, handling, handled>>
         ELSE /\ StartParse /\ handling' = TRUE
              /\ handled' = Append(handled,
                   [text |-> SubSeq(line', 1, First({i \in 1 .. n : line'[i] = NUL}) - 1),
                    line |-> LineUpTo(s)])
      /\ UNCHANGED <<task, known, halted>>

\* The read is not limited to what is left of the buffer.
Overrun(s) ==
  /\ Reading("command_task", Len(s)) /\ pos + Len(s) > BUF_SIZE
  /\ CanFollow(s)
  /\ halted' = TRUE /\ pos' = pos + Len(s)
  /\ UNCHANGED <<line, rover, argv, running, task, handling, known, typed>>
  /\ UNCHANGED <<lines, handled, orderly>>

command_task ==
  \E s \in BoundedSeq(Bytes \cup {CR, LF}, MaxRead) \ {<<>>} : Read(s) \/ Overrun(s)

-----------------------------------------------------------------------------
\* A pass of argparser_parse.
Parse == handling /\ argparser_parse /\ UNCHANGED own

\* How many of its arguments a command looks at that did not count them:
\* strlen(argv[0]), and argv[1] of "wifi"; the place of argv[0] may hold
\* "wifi" still if the line has no argument.
LooksAt ==
  IF task = "command_task" /\ (argv = <<>> \/ Texts[1] = <<WIFI>>) THEN 2 ELSE 1

\* gpiomon clears its array before every line, command_task never does: a
\* place that was not set now holds what it held before.
StillKnown == IF task = "gpiomon" THEN Len(argv) ELSE Max({known, Len(argv)})

\* pos = data; in the mutated form pos stays behind the line.
StaysBehind(n) == n
Restart(n) == 0

\* handle_command and command_process: anything may come of a pointer that was
\* never set.
Command ==
  /\ handling /\ ~running
  /\ known' = StillKnown
  /\ halted' \in (IF LooksAt <= StillKnown THEN {FALSE} ELSE BOOLEAN)
  /\ pos' = IF task = "command_task" THEN Restart(pos) ELSE pos
  /\ handling' = FALSE
  /\ UNCHANGED <<line, rover, argv, running, task, typed, lines, handled, orderly>>

CommandNext == gpiomon \/ command_task \/ Parse \/ Command

CommandSpec == CommandInit /\ [][CommandNext]_commandvars

-----------------------------------------------------------------------------
\* An argument that is typed at the places f to t of a text: in quotes, or a word
\* that has no space and does not begin with a quote.
InQuotes(text, f) == text[f] = QUOTE
IsArgument(text, f, t) ==
  IF InQuotes(text, f) THEN /\ f < t /\ text[t] = QUOTE
                            /\ \A i \in f + 1 .. t - 1 : text[i] # QUOTE
                       ELSE f <= t /\ \A i \in f .. t : text[i] # SPACE

\* The argument itself.
BeginOf(text, f) == IF InQuotes(text, f) THEN f + 1 ELSE f
EndOf(text, f, t) == IF InQuotes(text, f) THEN t - 1 ELSE t
Meant(text, f, t) == SubSeq(text, BeginOf(text, f), EndOf(text, f, t))

\* The ways to type a text: where the arguments are, each after at least one
\* space, and no more than spaces besides.
Typings(text) ==
  LET Places(n) == {f \in [1 .. n -> DOMAIN text] :
                      \A i, j \in 1 .. n : i < j => f[i] < f[j]}
      Pairs(n) == [from : Places(n), to : Places(n)]
  IN  {w \in UNION {Pairs(n) : n \in 0 .. (Len(text) + 1) \div 2} :
         /\ \A k \in DOMAIN w.from : IsArgument(text, w.from[k], w.to[k])
         /\ \A k \in DOMAIN w.from : k > 1 => w.to[k - 1] + 1 < w.from[k]
         /\ \A i \in DOMAIN text :
              text[i] # SPACE => \E k \in DOMAIN w.from : i \in w.from[k] .. w.to[k]}

\* The arguments that were typed are the arguments that are found, those with
\* spaces and those with quotes inside too, up to the size of the array,
\* whatever an earlier line has left in the buffer (argparser.c:27-52;
\* argparser_tests.c:21-23, 35-42).
FindsWhatWasTyped ==
  handling /\ ~running =>
    LET text == Last(handled).text IN
    \A w \in Typings(text) :
      Texts = [k \in 1 .. Min({Len(w.from), ARGPARSER_MAXARGS}) |->
                 Meant(text, w.from[k], w.to[k])]

\* What is parsed is what was typed, each line whole and once: with gpiomon as
\* far as it fits into the array, however long or short the lines before it
\* were; with command_task as long as no line is empty and a read that has an
\* end of line ends with it (terminal.c:194-203, terminal_main.c:427-438,
\* argparser.c:6-17).
Fitting(l) == IF task = "gpiomon" /\ Len(l) > SizeOfCmd THEN SubSeq(l, 1, SizeOfCmd) ELSE l
LinesAreHandled ==
  orderly =>
    [i \in DOMAIN handled |-> handled[i].text] = [i \in DOMAIN lines |-> Fitting(lines[i])]

\* Whatever is lost of a line, and of the lines after it, what is parsed is of
\* one line, its beginning or its end: never a part of two lines
\* (terminal.c:194-203, terminal_main.c:427-438).
NeverMixesLines ==
  \A i \in DOMAIN handled :
    \/ IsPrefix(handled[i].text, handled[i].line)
    \/ IsSuffix(handled[i].text, handled[i].line)

\* pos never leaves the array cmd, with the byte behind it left for the end of
\* the text.  It leaves the buffer of command_task only if one line does not fit
\* with a read behind it, or two reads do not fit: however many lines there are,
\* empty ones too, after which pos is not set back, and however they are cut
\* into reads, nothing piles up (terminal.c:194-203, terminal_main.c:427-438).
PosIsWithin ==
  IF task = "gpiomon" THEN pos <= SizeOfCmd
  ELSE pos > BUF_SIZE => \/ 1 + Len(typed.line) + MaxRead > BUF_SIZE
                         \/ 2 * MaxRead > BUF_SIZE

\* The clock sends CR first; the task goes on to read its request and to ask a
\* time server (README.md:8-11, main.c:197).
ServesTheClock == task = "gpiomon" /\ lines = <<<<>>>> => ~halted
=============================================================================
