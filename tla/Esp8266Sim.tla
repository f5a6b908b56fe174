----------------------------- MODULE Esp8266Sim -----------------------------
(***************************************************************************)
(* The simulator of a terminal (esp8266simulator/appsrc/esp8266sim.c): a   *)
(* select() loop that reads the serial line into one ring buffer, takes    *)
(* lines out of it with cb_readuntilbyte, which resumes where it gave up,  *)
(* and sends its answers from another ring buffer.  The ring buffers are   *)
(* queues of bytes, which is what CbQueue shows of them.                   *)
(***************************************************************************)
EXTENDS Naturals, Sequences, SequencesExt

CONSTANTS
  Byte, Cr,                \* bytes on the line, and the one that ends a line
  Nul,                     \* the end of a C string
  Request,                 \* "time sync"
  Answer,                  \* what a request is answered with
  RdCapacity, WrCapacity,  \* of the ring buffers: 1023
  BufSize,                 \* of the line buffer: 1024
  LineLengths              \* lengths of the longest line, the CR not counted

ASSUME Esp8266SimAssumption ==
  /\ Cr \in Byte /\ Nul \notin Byte
  /\ Request \in Seq(Byte \ {Cr})
  /\ Answer \in Seq(Byte)
  /\ {RdCapacity, WrCapacity} \subseteq Nat /\ LineLengths \subseteq Nat
  /\ BufSize \in Nat /\ BufSize > RdCapacity /\ BufSize >= Len(Request)

VARIABLES
  rd, wr,     \* the bytes in rd_cb and wr_cb
  buf,        \* the line buffer
  rd_idx,     \* where cb_readuntilbyte resumes
  fds,        \* what select() found ready
  pc,         \* where the loop is
  longest     \* no longer line is sent to the simulator

simvars == <<rd, wr, buf, rd_idx, fds, pc, longest>>

\* malloc leaves the line buffer as it is.
SimInit ==
  /\ rd = << >> /\ wr = << >>
  /\ \E b \in Byte \cup {Nul} : buf = [i \in 0 .. BufSize - 1 |-> b]
  /\ rd_idx = 0
  /\ fds = {}
  /\ pc = "select"
  /\ longest \in LineLengths

\* fd_write is set only if there is something to send.  The mutated form
\* asks for room instead of bytes.
WantsRoom == Len(wr) < WrCapacity
WantsToWrite == wr # << >>

\* select() waits until something is ready; a time-out only repeats it.
Select(ready) ==
  /\ pc = "select"
  /\ "write" \in ready => WantsToWrite
  /\ fds' = ready
  /\ pc' = IF "read" \in ready THEN "read" ELSE "write"
  /\ UNCHANGED <<rd, wr, buf, rd_idx>>

\* No line is longer than that.
LinesFit(bytes) ==
  \A i \in 1 .. Len(bytes) - longest :
    \E j \in i .. i + longest : bytes[j] = Cr

\* perform_read: read() returns some of what the line holds, no more than
\* there is room for, or nothing at all.
perform_read(chunk) ==
  /\ pc = "read"
  /\ LinesFit(rd \o chunk)
  /\ rd' = rd \o chunk
  /\ pc' = "parse"
  /\ UNCHANGED <<wr, buf, rd_idx, fds>>

\* cb_readuntilbyte copies from rd_idx on, to the index of the byte that
\* ends a line, or to that after the last byte.
EndOfLine == {i \in rd_idx .. Len(rd) - 1 : rd[i + 1] = Cr}
Stop == IF EndOfLine = {} THEN Len(rd)
        ELSE CHOOSE i \in EndOfLine : \A j \in EndOfLine : i <= j
CopyTo(last) == [i \in 0 .. BufSize - 1 |->
                   IF i \in rd_idx .. last THEN rd[i + 1] ELSE buf[i]]

\* strncmp(buf, "time sync", 9) == 0, after buf was terminated.
IsRequest(line) ==
  \A i \in 1 .. Len(Request) : line[i - 1] = Request[i]

\* cb_write: all of the answer or nothing.
Put(answer) ==
  IF Len(wr) + Len(answer) <= WrCapacity THEN wr \o answer ELSE wr

\* Where the next search starts, and what comes after a line.  In the
\* mutated forms it starts where the last one ended, and other lines wait.
NoRestart == Stop
Restart == 0
OneLineOnly == "write"
CheckNextLine == "parse"

\* A line is complete.
TakeLine ==
  LET line == [CopyTo(Stop) EXCEPT ![Stop] = Nul]
  IN  /\ pc = "parse"
      /\ EndOfLine # {}
      /\ buf' = line
      /\ rd' = SubSeq(rd, Stop + 2, Len(rd))
      /\ rd_idx' = Restart
      /\ wr' = IF IsRequest(line) THEN Put(Answer) ELSE wr
      /\ pc' = CheckNextLine
      /\ UNCHANGED fds

\* None is: the next search resumes at the first byte that is yet to come.
\* The mutated form takes that one as seen.
ResumeAfter == Stop + 1
Resume == Stop

NoLine ==
  /\ pc = "parse"
  /\ EndOfLine = {}
  /\ buf' = CopyTo(Stop - 1)
  /\ rd_idx' = Resume
  /\ pc' = "write"
  /\ UNCHANGED <<rd, wr, fds>>

\* perform_write: write() takes some of the bytes that follow the tail, if
\* there are any.
perform_write(n) ==
  /\ pc = "write"
  /\ "write" \in fds
  /\ n = 0 => wr = << >>
  /\ wr' = SubSeq(wr, n + 1, Len(wr))
  /\ pc' = "select"
  /\ fds' = {}
  /\ UNCHANGED <<rd, buf, rd_idx>>

NothingToWrite ==
  /\ pc = "write"
  /\ "write" \notin fds
  /\ pc' = "select"
  /\ fds' = {}
  /\ UNCHANGED <<rd, wr, buf, rd_idx>>

Read == \E n \in 0 .. RdCapacity - Len(rd) :
          \E chunk \in [1 .. n -> Byte] : perform_read(chunk)
Write == \E n \in 0 .. Len(wr) : perform_write(n)
Loop == Read \/ TakeLine \/ NoLine \/ Write \/ NothingToWrite

SimNext ==
  /\ \/ \E ready \in SUBSET {"read", "write"} \ {{}} : Select(ready)
     \/ Loop
  /\ UNCHANGED longest

SimSpec == SimInit /\ [][SimNext]_simvars

\* The loop does not stop, and a serial line without flow control takes more
\* bytes sooner or later.
FairSimSpec ==
  /\ SimSpec
  /\ WF_simvars(Loop /\ UNCHANGED longest)
  /\ SF_simvars(\E ready \in {{"write"}, {"read", "write"}} :
                  Select(ready) /\ UNCHANGED longest)

-----------------------------------------------------------------------------
\* No complete line is left behind when the loop waits in select(), where
\* only more bytes would wake it (esp8266sim.c:89-121).
NothingIsLeftBehind == pc = "select" => ~ Contains(rd, Cr)

\* If each line fits the ring buffer, there is room when the loop waits: it
\* never finds the line readable and itself unable to read
\* (esp8266sim.c:25-28, 101-121).
InputIsRead ==
  longest < RdCapacity => (pc = "select" => Len(rd) < RdCapacity)

\* Lines are taken whole and in order, and exactly the requests are
\* answered, unless the answer does not fit (esp8266sim.c:101-124).
Server == INSTANCE LineServer
ServerSpec == Server!Spec

\* Answers are sent, also when the ring buffer for input has filled with a
\* line that is too long, and nothing will be read any more
\* (esp8266sim.c:22-28, 78-127).
AnswersAreSent == []<>(wr = << >>) \/ []<>(pc = "parse" /\ EndOfLine # {})
=============================================================================
