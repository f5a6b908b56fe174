----------------------------- MODULE ArgParser -----------------------------
(***************************************************************************)
(* argparser_parse of the terminals (esp8266terminal/argparser.c): cuts a  *)
(* line into arguments in place, at spaces and at double quotes.  Pointers *)
(* are places of the buffer; one step is a pass of the loop.  Module       *)
(* CommandLine has the tasks that call it.                                 *)
(***************************************************************************)
EXTENDS Integers, Sequences, SequencesExt, FiniteSetsExt

CONSTANT ARGPARSER_MAXARGS

ASSUME ArgParserAssumption == ARGPARSER_MAXARGS \in Nat \ {0}

VARIABLES line, rover, argv, running

NUL == "0"
QUOTE == "q"
SPACE == "_"

-----------------------------------------------------------------------------
\* The first place from "from" with the byte c, or 0; the end of the text, a
\* NUL, is not passed.
strchr(from, c) ==
  LET found == {i \in from .. Len(line) : line[i] \in {c, NUL}}
  IN  IF found = {} \/ line[Min(found)] # c THEN 0 ELSE Min(found)

\* The text of an argument, up to the NUL that ends it.
Text(p) == SubSeq(line, p, strchr(p, NUL) - 1)
Texts == [i \in DOMAIN argv |-> Text(argv[i])]

\* while (argc < ARGPARSER_MAXARGS), which "continue" comes to as well.
GoesOn(n) == n < ARGPARSER_MAXARGS

\* An argument begins at "from" and ends before the next "c", where it is cut;
\* without one it is the last.
Argument(from, c) ==
  LET temp == strchr(from, c) IN
  /\ argv' = Append(argv, from)
  /\ IF temp = 0
     THEN running' = FALSE /\ UNCHANGED <<line, rover>>
     ELSE /\ line' = [line EXCEPT ![temp] = NUL]
          /\ rover' = temp + 1
          /\ running' = GoesOn(Len(argv'))

Quoted == line[rover] = QUOTE /\ Argument(rover + 1, QUOTE)

Skip ==
  /\ line[rover] = SPACE /\ rover' = rover + 1
  /\ running' = GoesOn(Len(argv))
  /\ UNCHANGED <<line, argv>>

EndOfText == line[rover] = NUL /\ running' = FALSE /\ UNCHANGED <<line, rover, argv>>

\* In the mutated form a word ends at a quote as well.
WordEndAtQuote(r) == IF strchr(r, QUOTE) # 0 THEN QUOTE ELSE SPACE
WordEnd(r) == SPACE
Word == line[rover] \notin {QUOTE, SPACE, NUL} /\ Argument(rover, WordEnd(rover))

argparser_parse == running /\ (Quoted \/ Skip \/ EndOfText \/ Word)

\* A call for the text at the start of the buffer.
StartParse == rover' = 1 /\ argv' = <<>> /\ running' = TRUE
=============================================================================
