# Ledclock: a TLA+ model of the clock, its terminals and their tools

The repository holds a wall clock and what keeps it on time. The clock is a
program for an MSP430 (`ledclocksw`): it counts seconds, drives four
seven-segment digits and asks over a serial line for the time. What answers is
one of two programs for an ESP8266 (`esp8266terminal`, then
`esp8266terminal2`), or a simulator of them on a PC (`esp8266simulator`).
`tzadj` generates the daylight-saving table of the first terminal,
`nonblockingserver` is a study for the TCP server of the second,
`esp8266term_test` tests their argument parser and `ledclockhw` is the board.
No part of the repository but the clock is needed to understand the others.

## Inventory

### The clock firmware, `ledclocksw`

Three interrupts and a main loop that never sleeps share memory without locks;
interrupts do not nest.

| part | state | operations | correct when |
|---|---|---|---|
| serial receiver, `usc.c` | `hwuart_flags`, `hwuart_pos`, `hwuart_linebuf`, two buffers of 28 bytes | receive interrupt: store, complete and drop; `hwuart_getlinebuf` | a line that fits is received whole and announced; the buffer that is parsed does not change |
| real-time clock, `rtc.c` | `rtcctx`: flags, hours, minutes, seconds | timer interrupt once a second | the fields count the seconds of a day; the time is requested every minute until it is set, every hour afterwards |
| main loop, `main.c:178-203` | the line buffer it took | handles `p` (print), `TIMEhh:mm:ss` (set); sends `time sync ...` when a request is due | a time that is set or printed under a ticking clock is off by a carry at most; requests are served and never stop |
| display, `main.c:39-105` | `digit_idx`, two ports | shows one digit at each period of a second timer | each digit is shown in turn and is the digit of the time |
| callback table, `timerfn.c` | 8 slots of ticks and callback | register, look up, remove, call | linked, but nothing calls it |
| conversions, `utilityfn.c` | none | integers from and to text | |

What is hard: the main loop and the interrupts interleave at every
instruction; RAM is not cleared at reset (`startup.S:7-10`); lines are lost,
cut and garbled on the serial line; `rtcctx` is neither volatile nor
protected; carries test for equality only.

### The simulator, `esp8266simulator`

`circularbuffer.c` is a ring buffer for one producer, which alone writes
`head`, and one consumer, which alone writes `tail`, with a set of parsing
functions for the consumer. `esp8266sim.c` is a `select()` loop that reads the
serial line into one ring, takes lines out of it and answers `time sync`
through another ring. Correct when the bytes come out as they went in, none
lost or doubled, when each parsing function does what its comment in the
header says, and when the loop can always make progress. What is hard: both
sides working at once, wrap-around, full and empty, partial reads and writes.

### The first terminal, `esp8266terminal`

`terminal.c` assembles and dispatches command lines from the serial line in the
one task it creates, `gpiomon` (line 236). `ntp.c` asks a time server:
a DNS callback opens a connection, sends and arms a timer; a network callback
disarms it, computes the local time and prints the `TIME` line the clock
reads. `tzstruct.c` decides from a table whether summer time is in force.
Correct when each request ends in one answer or one error, when its
connection is released, and when the time of day computed by repeated
subtraction is the time of day. What is hard: callbacks in any order, the
answer against the time-out, boundaries.

### The second terminal, `esp8266terminal2`

Everything is in `terminal_main.c`: a command task (lines from the serial
line, `argparser.c`), Wi-Fi event handlers that set and clear a bit, and a
monitor that a timer calls, which joins the network, listens, accepts and
receives. A callback of the network task counts the data that waits. Correct
when data that waits is received, a connection is closed once, and the line
buffer is overrun by no line that fits. What is hard: the network task and the timer task share
`tcp_client_handle` and `tcp_client_data_waiting`. `setserial.c` sets the speed of
a serial device and ends.

### Tools

`tzadj/dow.c` prints the table of last Sundays of March and October;
`tzadj/tzstruct.c` looks an instant up in it, with a loop that is written
differently from the terminal's and has the same result, and `testtzstruct.c` tests
that. `nonblockingserver` serves a
listening socket, one client and the terminal with `select()`.
`esp8266term_test` tests the argument parser. The section "Web Interface Time
Setting" of the repository's README has no code.

### Interactions

    time server <-UDP-> ntp.c --TIME line--> usc.c -> main.c -> rtc.c -> display
                          ^                                       |
                          +---- command task <-- "time sync" -----+

The simulator stands in for everything left of `usc.c`.

## Modules

| module | models | role |
|---|---|---|
| `LineMailbox` | what `usc.c` promises | abstract specification |
| `Usc`, `MCUsc` | `usc.c` and the poll of `main.c` | implements `LineMailbox` |
| `UscProofs` | | proofs about `Usc` |
| `TimeOfDay` | what `rtc.c` promises | abstract specification |
| `Rtc` | `rtc.c` | implements `TimeOfDay` |
| `RtcProofs` | | proofs about `Rtc` |
| `LedClock`, `MCLedClock` | `main.c` between `Rtc` and the mailbox | composition |
| `LedClockProofs` | | proofs about `LedClock` |
| `Display`, `MCDisplay` | the display interrupt, with the clock of `Rtc` | composition |
| `DisplayProofs` | | proofs about `Display` |
| `ByteQueue` | what the ring buffer promises its two sides | abstract specification |
| `CircularBuffer` | the state and the arithmetic of `circularbuffer.c` | operators |
| `CbQueue`, `MCCbQueue` | producer and consumer on one ring buffer | implements `ByteQueue` |
| `CbParse`, `MCCbParse` | the functions that look into the buffer and parse it | |
| `RingBufferProofs` | | proofs about `CbQueue` and `CbParse` |
| `LineServer` | what the simulator promises | abstract specification |
| `Esp8266Sim`, `MCEsp8266Sim` | the loop of `esp8266sim.c` on two queues | implements `LineServer` |
| `TzTable` | `londontzstruct.c`, `tzstruct.c` | operators |
| `NtpTime` | the conversion of an answer in `ntp.c` | |
| `ClockSyncProofs` | | proofs about `NtpTime`, `LastSunday` and `ClockSync` |
| `LastSunday` | `tzadj/dow.c` | operators |
| `ClockSync`, `MCClockSync` | clock, terminal and the generator of its table | composition of `Rtc`, `NtpTime`, `LastSunday` |
| `NtpClient`, `MCNtpClient` | requests and callbacks of `ntp.c` | |
| `FirstTerminalProofs` | | proofs about `NtpClient` and `Esp8266Sim` |
| `TcpMonitor`, `MCTcpMonitor` | the server of `esp8266terminal2` | |
| `WifiStation`, `MCWifiStation` | its Wi-Fi station and the command that configures it | |
| `ArgParser` | `argparser.c` of both terminals | used by `CommandLine` |
| `CommandLine`, `MCCommandLine` | the command tasks of both terminals | composition with `ArgParser` |
| `SecondTerminalProofs` | | proofs about `TcpMonitor`, `WifiStation` and `CommandLine` |

Each `MC` module extends its specification and holds the values of constants;
`.cfg` files of the same name run it, and `MCCommandLineClock.cfg` is a second
one for `MCCommandLine`.

### Usc

State as in `usc.c`; the line buffers are functions from index to byte, so the
bytes that an older line left behind the terminator are there. One step is one
receive interrupt (interrupts do not nest) or one access of the main loop to
what it shares with it: test the flag, clear it, take the buffer, finish
parsing. `hwuart_flags &= ~...` is one step because no other bit is in use:
the store writes 0 whatever was loaded. The initial state leaves flag and
buffers open (`PowerUp`): the start-up code jumps to `main` without clearing
RAM. `wire`, `newest`, `fetches`, `got` are history: the code has no such
variables, and no action reads them.

`ParseBytes` is a timing assumption. The main loop compares five bytes and
converts three numbers in place, in much less than the 1.04 ms a byte takes at
9600 baud, so at most one byte arrives meanwhile. The assumption matters: with
two, a line of one byte can be completed and the buffer the main loop reads
becomes the one the interrupt writes. `printtime` is no exception, since `p`
needs no more of the line once it was recognised. A zero byte on the wire is
not among `Chars`: it would end the C string early.

### Rtc

The flags are a set, the fields are integers of the width of the target
(`Incr` wraps). `RtcSpec` is the clock on its own; `LedClock` takes its only
action.

### LedClock

One step is one access of the main loop to `rtcctx` or to the mailbox, one
tick, or one line completed. The receiver is present as `LineMailbox`, which
`Usc` implements; lines are records, and the times on them include times out
of range, which is what garbled lines amount to. `flags |= TIMESET` is split
into load and store: `rtcctx` is not volatile and the C language promises no
single instruction (the build at `-Os` happens to use one). `ideal`, `sane`
and `quiet` are history.

At most one tick falls into an iteration of the main loop (`ticked`): the
longest iteration prints the time and sends the request, 39 bytes or 41 ms,
and a tick comes once a second.

### Display

One step is one event of the timer, one of the two port writes of the interrupt
(`P3OUT`, then `P2OUT`: the display sees what is between), or one tick of the
clock. An interrupt that reads `TA1IV` gets the match before the overflow if
both flags are set, as the hardware gives them out; that happens once, when
interrupts are enabled, since `main` takes long enough for both to be set.
After that each event is served before the next (`TimerEvent`): the shorter
gap is 50 us, and the other interrupts take less. Four digits take 8 ms, so
one tick at most falls into a sweep (`ticked`). `begun`, `frame` and `start` are
history; `begun` separates the start, when two digits are selected that the
interrupt has not lit (see "Observations"). The clock is the one that keeps the time of day; what a line sets out
of range, and the digits of a time that is just being set, are not in this
module.

### CircularBuffer, CbQueue

`CircularBuffer` has the three variables of `circularbuffer_t` and the functions
of `head`, `tail` and `size`, which change none of them. In `CbQueue` each call is split where the other side can interfere:
it loads the index of the other side, copies in one or two parts, and moves
its own index. `src` and `taken` are the arguments and results of the calls,
and link the steps to `ByteQueue`: the bytes of the message that was offered
are what joins the queue. A step that copies several bytes is one step,
because the other side reads none of them: that is what `NoOverlap` shows.
Memory is taken to be sequentially consistent; the code has no barriers, and
the simulator, its only user, has one thread. `perform_read` and `perform_write` are
the in-place accesses of the simulator.

### CbParse

One program fills the buffer with `cb_putchar` (`Putchar`, which does not test for
room: its guard is the caller's duty) and calls one function after the other. `call` records the last call and its result; only `cb_ungetchar` looks
at it, since what is put back is what was read. Bytes are characters of a small alphabet: a
digit of either base, one of base sixteen only, the signs and a blank are put in
(`Chars`), and the zero that `memset` leaves is there from the start. `WordSize` is the range of `size_t`, in which `tail - 1`
wraps. `NumberOf` is the number of a row of digits, however many: the overflow of
an `int` in `cb_atoi` is left out, as is `cb_atof`. `IsNumber` does not compute a
number again but takes the digits off the result, one by one, until nothing is
left.

### Esp8266Sim

The ring buffers are the queues that `CbQueue` implements; `perform_read` takes
any number of bytes up to what is free, which includes what
`cb_freeafterhead` allows. One step is one return of `select()`, one
`perform_read`, one turn of the loop over lines, or one `perform_write`. The
line buffer is there with what `malloc` left in it, because `strncmp` reads
it beyond the line. `longest` is how long the other end's lines may be in a
behaviour (`LineLengths`): short enough for the ring buffer, or so long that
one fills it. The clock sends 31 bytes at most. Time-outs of `select()` change nothing and are left
out, as are its errors. The comment on `cb_readuntilbyte`
(`circularbuffer.c:284-286`) calls `pos_ctx` the index of the last byte read; it is the
index after it when no end of line was found, and the caller depends on that.

### NtpTime, TzTable, LastSunday

`simpledivide` and `simplemod` are given by what the loops compute, a quotient
of the predecessor, since they test with `>`. `Windows` are the intervals of
instants that a run walks through, second by second: every instant in them is
an answer that is converted. The table has all its rows, and
`tz_shouldaddanhour` the loop's way of stopping. `LastSunday` has `dow.c` as
functions of the year; its one loop is `RowOf`. `IsLastSunday` is a calendar
that counts days and years and knows nothing of the formula.

### ClockSync

The clock of `Rtc` (with the firmware's constants) is set from the line of
`NtpTime`, hour 24 included. A request goes to the server, which stamps its answer
with the time at which it sends it (`ntp.c:79-82`), and the answer goes to the
clock; either may be lost, several may be under way and overtake each other
(`exchanges`), and the two ways together take up to `MaxDelay` seconds. What the
terminal prints is the stamp, however old it is by then. Server and clock count
seconds that begin together: how far apart they are within a second is left out.
The clock takes a line in one step, since `LedClock`
has the interleaving with a tick. `season`, `transit` (how long the last answer was
on its way) and `unanswered` are history.

### NtpClient

Three tasks share a timer and `g_conn`: the command task and the resolver's
callback open, send and arm (`Arm` is a step of its own, because the answer may
come first), the network's callback disarms, prints and releases, and the timer
prints an error. `irregular` notes what makes a request not be on its own:
another one overlapped it, its answer came before its timer was armed, or after it ran out.
`lookups` are the callbacks the resolver owes: none for a name it refuses at once
(`AskRefused`), for which nothing is armed and nothing printed. Left out: an answer in more than
one piece, and a receive that fails in the callback.

### TcpMonitor

Every access of the monitor to the two variables it shares with the network
task is a step: accept, reset the counter, store the handle, test, receive,
and load and store of the decrement. A step of the network task is one call of
`tcp_server_callback`, which has the higher priority. `strangers` and
`forgotten` are history, and make `CountIsExact` an equation: what the counter
has that does not belong to the client, and what it lacks.

### WifiStation

Two callers of `wifi_sta_join` (`p`), the command that stores a name and a
password, and the library with its events. `StoreSsid` and `StorePassword` may
each fail; what the monitor reads in between is a mixture, whose connection
attempt fails. `esp_wifi_connect` is a no-operation while connected.

### CommandLine, ArgParser

One variable, `task`, says which terminal this is: `gpiomon` of the first gets
bytes one by one, `command_task` of the second gets what a read returns: up to
`MaxRead` bytes, which may be part of a line, several lines, or one half of the CR
and LF that the enter key sends. Both have the line cut by `argparser_parse`, one pass of its loop
a step (`Parse`), and then run a command, of which only its looks at `argv` are
modelled: `known` is how many places of `argv` were ever set, and following one
that was not may halt the task (`halted`). `typed`, `lines`, `handled` and `orderly`
are history; of a read with several ends of line `lines` has the first line,
which is the one the code looks at. The limit of a read is `BUF_SIZE` wherever `pos` is,
so a read may go on behind the buffer (`Overrun`): `pos` is then outside, and the
model ends there (`halted`), since what the program does next is undefined.

What the parser should find is said without a parser: a way to type a text
(`Typings`) is where its arguments begin and end, each of them in quotes or a word,
with spaces between them and nothing but spaces besides. `FindsWhatWasTyped` takes
every such way, so that it also says that a text can be meant in one way only
(as far as `argv` has places); a
text with an open quote, or with an argument close behind a quote, is none.

## Runs

| run | what it shows | bounds, and why they are enough |
|---|---|---|
| `usc` | the double buffer loses, tears and garbles no line that fits, is announced and fetched, and implements the mailbox, whatever RAM held at reset | `LastPos` 2 (a line of 2 characters is the longest: empty, shorter, exact and overlong lines occur), two characters (a torn line differs from both), lines of up to 6 bytes (an overlong line restarts twice), one byte per parse |
| `ledclock` | setting, printing and requesting under a ticking clock | 3 hours of 2 minutes of 3 seconds, int from -4 to 3: three hours are the fewest for which an hour ahead is not an hour behind; two times are set, one the last second of the day, where all carries hit, and one out of range |
| `display` | each digit in turn, no ghosts, no time ahead of the clock; the fields count the day | the hours and minutes of the clock in full; a minute of two seconds |
| `cbqueue` | the ring buffer is a queue for two concurrent sides | 4 places, so a message of 3 bytes fills it, and wraps at each index; two bytes; all messages of up to 3 |
| `cbparse` | searching and parsing | 4 places, all contents over 5 characters; sequences of 1 to 3 |
| `esp8266sim` | lines are taken whole, none is left behind, requests are answered and answers sent | a read buffer of 4 and lines of up to 3 bytes, or of 4, which fill it; several lines, and parts of lines, come in with one read; an answer of 2 bytes in a buffer of 3, so some do not fit |
| `clocksync` | the clock stays behind by a second and the way of the last answer, and hours out of range have one cause; the conversion is right; the table is the generator's | the firmware's constants; every second of 28 hours that have two midnights and an end of summer time, seven seconds around each change of the table and around each multiple of 365 days; requests and answers up to a second on their way, or lost |
| `ntpclient` | one line for each request that is not refused, connections released with their answers | 4 requests and 3 connections, so that leaks exhaust the pool |
| `tcpmonitor` | a counter shared without a lock | two clients, which may both wait, of two items each and an end |
| `wifistation` | joining from two tasks while credentials change | two access points, so a mixture matches neither; two events ahead |
| `commandline` | lines are assembled, kept apart and cut as typed, and outgrow the buffer only if they do not fit | an array of 3 and 2 arguments, a buffer of 6, 7 bytes in all, reads of up to 3: lines shorter, as long and longer than the array, empty ones, more arguments than places, an end of line in two reads, alone in one, or twice in one, and reads that go on behind the buffer |
| `commandlineclock` | see "Finding" | as `commandline` |

Each property of a passing run has a mutant: a plausible slip in the modelled
code (the definition next to the original, named for the slip) that the run
then reports.

### Properties worth a remark

- `SetTimeIsNotBehind` is as strong as the code allows: a carry between
  `hours = ...` and `minutes = ...` does leave the clock an hour ahead, and
  TLC reaches that state. What holds is that it is never behind and never
  ahead by anything else. `PrintIsNotAhead` is its counterpart for `printtime`.
- `SyncIsNotOverdue` holds although a request can be lost in the split
  `flags |= TIMESET`: it is lost only where the time was just set.
- `KeepsAsking` covers times out of range: the fields overflow and come back
  into range, after which the carries work again. It is conditional on lines
  not arriving for ever only because each of them may set the time anew.
- `OutOfRangeByRequests`: `ntp.c:96` prints hour 24 between 23:00 and 24:00 UTC
  in summer. 24 is no carry for the clock (`rtc.c:28`), so its hours grow to 25, 26
  and on until an answer comes; the display indexes its ten numerals with
  hours / 10 (`main.c:44-91`). The property bounds the hours by the requests
  that were not answered: an answer an hour keeps them below 26.
- `CountIsExact` names every way in which the counter is wrong: items that came
  before the accept or within the decrement are forgotten (`forgotten`), and
  another connection's are counted (`strangers`). `NeverBlocksAlone` and
  `CountedIsReceived` say what follows: only strangers block the monitor, and
  only what was forgotten stays unread.
- `LinesAreHandled` and `NeverMixesLines`: with `command_task` the first needs
  orderly typing (no line is empty, and a read that has an end of line has the whole
  of it and nothing behind); the second is what holds without.
- `PosIsWithin`: a line that does not fit takes `pos` out of the buffer of
  `command_task` (`terminal_main.c:427`), and TLC reaches that state. The property says
  that nothing else does: bytes do not pile up over lines, not even after empty ones,
  where `pos` is not set back.
- `StaysBehindByTransit` is an equation. With no answer under way for longer than a
  second the clock is one or two seconds behind; nothing in the line lets it do better.
- `NoGhost` and the start: see "Observations".
- `NumberIsTaken` says that where there is no number nothing but blanks and a sign is
  taken, as the comment in the code does and the one in the header does not (see
  "Observations").

### Fairness

- `Usc`, `LedClock`: `WF_vars(Main)`, the main loop never blocks or sleeps
  (`main.c:178`), and an interrupt always returns. `WF_vars(Tick)`: the crystal
  runs and the interrupt is enabled; the guard `ticked = 0` only orders a tick
  against the iterations, and becomes true again in each. Nothing is assumed
  of the serial line: neither that bytes arrive nor that they stop.
- `Display`: `WF_vars(TimerEvent)` and `WF_vars(Timer1_A1)`, the timer runs and
  interrupts are enabled for good.
- `Esp8266Sim`: `WF_vars(Loop)`, the program does not stop, and strong fairness
  of a `select()` that finds the line writable: it is opened without flow
  control (`uart.c`), so its output drains at 9600 baud; weak fairness would
  not do, because the loop leaves `select()` each time it returns.
- `NtpClient`: weak fairness of the resolver's callback (lwIP calls back with an
  address or without), of the sender coming to the line where it arms, and of a
  timer that is armed running out. Each request re-arms the timer: one that is
  made again and again before it runs out would keep it from doing so;
  `MaxRequests` ends that, and the clock asks once a minute at most. Nothing is
  assumed of answers.
- `TcpMonitor`: `WF_vars(Monitor)`, a timer calls it every ten seconds. Nothing
  makes a peer connect, send or end.
- `WifiStation`: weak fairness of the monitor and of the task that delivers
  events; strong fairness of `esp_wifi_set_config` not failing and of an access
  point accepting the right credentials, each of which may fail any number of
  times but not always.
- `CbQueue`, `CbParse`, `ClockSync` and `CommandLine` have no liveness
  properties and no fairness.

## Finding

`commandlineclock`: the clock begins its request with a carriage return
(`main.c:197`). For the first terminal that is an empty line: `argparser_parse`
stores nothing, `argv[0]` is null, and `handle_command` calls `strlen(argv[0])`
(`terminal.c:171`). README.md:8-11 says that this pair kept time; whether it did
depended on address 0 being readable.

## Observations

Disagreements met while modelling that no run repeats. The model has the code's
behaviour in each.

- `cb_match` (`circularbuffer.c:349`) never compares the first byte: the loop
  ends at index 0 whether it matched or not. The header (`circularbuffer.h:73`)
  promises to consume the bytes "if all len bytes match". No program calls it.
- `cb_peek_ex` (`circularbuffer.c:371`) copies `len + 1` bytes if there are as
  many (`circularbuffer.h:85`). No program calls it.
- `cb_atoi` on something that is not a number: the header says that "it will read a
  single value from the buffer if it does not match a number"
  (`circularbuffer.h:96-97`), the code puts that value back
  (`circularbuffer.c:438-440`), as its own comment says (lines 415-416). No program
  calls it. `NumberIsTaken` states what the code's comment does.
- `cb_ungetchar` (`circularbuffer.c:392`) computes `(tail - 1) % size` without
  sign: right for sizes that are powers of two only, which the simulator's are.
- Enter on an empty line in the second terminal: an end of line at index 0 is
  taken for none (`argparser.c:12`), the buffer is not restarted, and the next
  command loses its beginning.
- `wifi` without an argument in the second terminal reads `arg[1]`, which holds
  what an earlier line left there, or nothing.
- A request whose time-out runs out never releases its connection: under the comment
  "clean up connection" (`ntp.c:43`) there is no code. `ReleasedWithAnswer` says so.
- A name that the resolver refuses at once (no server yet, no room for another
  lookup) gets neither a line nor an error (`ntp.c:185-190`): only `ERR_OK` is looked at,
  and the result is not handed on. `RequestIsFollowedByLine` leaves such requests out.
- At the start two digits are selected (`main.c:157`) with no segment on. The first
  interrupt writes the segments of the leftmost digit before it selects it
  (`main.c:91-92`), so for that moment the second and the fourth show its numeral.
  `NoGhost` says that this is the only such moment.
- `command_task` asks for `BUF_SIZE` bytes wherever `pos` is (`terminal_main.c:427`), so a
  long line is written behind the buffer. `PosIsWithin` says when.
- A second TCP client overwrites the handle of the first, which is never
  closed, and its data is counted for the other (`terminal_main.c:204`).

## Proofs

TLAPS checks every proof; the theorems hold for all values of the constants
that satisfy the assumptions of the modules. `UscAssumption`, `RtcAssumption`,
`LedClockAssumption`, `DisplayAssumption`, `CircularBufferAssumption`,
`CbQueueAssumption`, `WindowsAssumption`, `NtpClientAssumption`,
`TcpMonitorAssumption`, `WifiStationAssumption` and `ArgParserAssumption` say what
kind of values the constants are and no more. `ClockSyncAssumption` also says that
a day has 24 hours, an hour 60 minutes and a minute 60 seconds, as the requests'
lines have; `Esp8266SimAssumption` that the line buffer is larger than the ring buffer and no
shorter than a request;
`CbParseAssumption` that a decimal digit is less than ten; `CommandLineAssumption`
that the ends of line, NUL and what an unset byte holds are no letters. What a run shows on a
small instance these show for the programs: buffers of 28 and of 1024, days of 24
hours, 16-bit integers, every instant, any number of clients, events and lines.
Type invariants (`TypeCorrect`, `StationTypeCorrect`, `CommandTypeCorrect`) are
proved and not repeated as invariants of runs; so are `UnreadStaysAnnounced`,
`RtcStaysInRange`, `InPlaceAlwaysSuffices`, `TimesFollow`, `OneHourIsOutOfRange`,
`GeneratorFindsSundays` and `HandleStaysOpen`. Every safety property that a passing run checks is
stated by a theorem.

- `UscProofs`. The invariant `IInv` strengthens the checked ones by
  `LineSoFar` (while the line on the wire fits, what is in the buffer being
  written is that line) and `FetchCount` (how the number of fetches, the flag
  and the main loop's place go together: without it, nothing bounds the
  fetches of one line by two). `LineIsNotTorn` assumes `ParseBytes <= 1` and
  needs `ParsesBackground`: the parser's buffer is the one in the background,
  or it was swapped away during this parse and the interrupt has yet to write
  its first byte. `ImplementsMailbox` maps `CompleteLine` to `Deliver`,
  `GetLine` to `Fetch` and all else to stuttering.
- `RtcProofs`. `RtcTypeOK` is inductive; the refinement splits on which of
  the fields carry.
- `LedClockProofs`. `TInv` (types), `RangeInv` (the fields already set are
  in range, as are the others if they were), `SyncInv` (how `quiet` relates to
  the fields, with the flag pending or not) and `FieldInv` / `LeadInv` (which of
  two kinds of lead the half-set or half-printed time can have).
- `RingBufferProofs`, about `CbQueue`. `WInv`: the message fits what is free, and what is copied
  of it lies from `head` on. `RInv`: what is copied lies from `tail` on, and
  what is yet to be copied is there. Both must survive the steps of the other
  side, which can only make more room and more data. The lemma `FreeIsNotUsed`
  (no place is reached both from `head` within what is free and from `tail`
  within what is used) is what keeps the sides apart.
- `RingBufferProofs`, about `CbParse`. `ParseInv` is types, and that a byte that may
  be put back is one. The rest is in single steps: where a row of bytes ends
  (`FirstNotIs`, from the least element of a set of naturals, `LeastNat`), what is
  left after it (`ReadUpToIs`), and what the digits make. `BackIs` is where the size
  matters: going back undoes going on if the size divides the range of `size_t`,
  and that is the hypothesis of `NumberIsTakenWhole` and `HexIsTakenWhole`. The
  recursive functions of `cb_atoi` and of `IsNumber` are shown to exist and to have
  their values by a least counterexample (`NumberExists`, `NumberType`,
  `QuotientsAre`), which is as far as induction over data goes here.
- `DisplayProofs`. `DarkInv`: the timer matches only after it has overflowed, so
  no digit is lit when the segments change, once the interrupt has lit one, and the
  first segments are written at the first interrupt. For `FrameNotAhead`,
  `FrameInv` says that there is a place `c` before which the digits are those of
  the time when the leftmost was shown and from which on they are those of the
  time now, and that the two times are one carry apart; `MixtureIsNotAhead`
  goes through the three kinds of carry. `OldTens` is the arithmetic: old tens
  with new ones do not exceed the new number.
- `ClockSyncProofs`. `Quotient` gives what the subtractions compute, and `OfTheDay`
  that a remainder of 365 days is left of a day too; the theorems need no
  induction, because each line depends on its instant alone. `SyncInv` then adds
  `FieldsInv` (the ranges of the fields) and `Arriving` (no answer is stamped after
  now) to them and is inductive with `OutOfRangeByRequests`. `StaysBehind` holds as long as
  `hours < IntMax`, which takes years without an answer to fail: a tick is a second
  more or a day less but for a second (`TickCounts`), and neither changes the time
  of day that follows (`SameTimeNext`); an answer is converted for its stamp, which
  `transit` takes back to the present.
- `ClockSyncProofs`, about `LastSunday`. The calendar is counted by recursion over
  years and months. A function so defined fulfils its equation if some function
  does (`YearEquation`, `MonthsAre`), and has the values of the closed form
  because there is no least year for which it would not (`LeastNat`, `YearsAre`).
  `LastDayIs` compares it with the day number in `weekday`, `SundayIs` goes back to
  Sunday, for all years from 1970 to 2034; `TableRow` puts the numbers of the table
  against it.
- `FirstTerminalProofs`, about `NtpClient`. `ConnInv`: connections that exist or were
  answered have been opened, none is both, and the timer runs beside a sender only
  if requests overlapped.
- `FirstTerminalProofs`, about `Esp8266Sim`. `ResumeInv`: what was searched before is
  copied to the line buffer and has no end of line, so a search that resumes where
  the last one gave up finds the first. With `LinesFit` (what waits holds no line
  longer than the other end sends) and the absence of an end of line outside the
  loop that takes lines it is inductive; `ImplementsServer` maps the turn of the
  loop that takes a line to the step of `LineServer`.
- `SecondTerminalProofs`, about `TcpMonitor`. `QueueInv` (who waits is not accepted
  yet, and waits once) and `PlaceInv` (what the monitor may rely on at each of its
  places: the handle is set, the counter is positive, what was loaded is a lower
  bound of it) with `HandleIsOpen` and `CountIsExact`.
- `SecondTerminalProofs`, about `WifiStation`. `BitFollowsLink` is inductive as it
  stands: one lemma says what an event that is posted does to the link that the
  events so far amount to, another what one that is delivered does (`Posted`,
  `Delivered`). `OkMeansStored` needs `HalfStored`: at the place between the two
  stores the name is the one that was given.
- `SecondTerminalProofs`, about `CommandLine`. `ArrayInv`: the array of `gpiomon` holds
  the beginning of the line that is typed. `BufferInv`: the buffer of `command_task`
  holds the end of it (`Holds`), or begins with the end of an empty line
  (`Spoilt`), after which an empty text is parsed and nothing of the line; with
  orderly typing it holds the line. All of this is said of a task that has not
  halted. A read is split into those that end no line
  (`ReadOn`), that end one (`ReadEnds`) and that find the buffer spoilt
  (`ReadSpoilt`). `RoomInv` is what `PosIsWithin` needs beside it: in a buffer without
  an end of line there is at most one byte more than the line has so far, the end of
  an empty line before it; a buffer with one is as one read has left it, and the next
  read is parsed.
- `SecondTerminalProofs`, about `ArgParser` in `CommandLine`. The parser cuts the
  buffer it reads, by a NUL behind each argument. `Holding`: when a line is handed
  over, the buffer begins with the text and a NUL. `Progress` says what is true
  between two passes of the loop, for every way the text was typed: the arguments
  found are the first of those typed, with a NUL behind each, and from `rover` on
  the buffer still holds the text. `ParserInv` is this while the loop runs, and its
  conclusion after it; `NoEnd` (what is typed so far holds no NUL) makes the line
  that `gpiomon` ends a text. `StrchrIs` says where `strchr` stops, `NextArgument` and
  `PassHolds` what a pass does to `Progress`. The ways to type a text are not
  counted, so there is no bound on their number or on the length of a line.

Only model-checked:

- the liveness properties (`LineIsFetched`, `RequestIsServed`, `KeepsAsking`,
  `AllDigitsAreShown`, `AnswersAreSent`, `RequestIsFollowedByLine`,
  `CountedIsReceived`, `JoinsInTheEnd`), which need fairness and are out of the
  prover's reach.

## Not modelled, and why

- Pure I/O and hardware set-up: `uart.c`, `setserial.c`, `main.c:110-168`,
  `uartloopback_test.c`, the board.
- `timerfn.c`: linked, but its call in the main loop (`main.c:202`) and its
  interrupt (`timerfn.c:120-141`) are commented out, so there is no caller whose
  order of calls could be modelled and there are no ticks. `utilityfn.c`:
  sequential conversions without state.
- `nonblockingserver`: a study of `select()` that no other part uses.
- Commands that end in calls of a hardware or Wi-Fi library and touch no state
  another task uses: pins, sleep and `wifi` of the first terminal; `get`, `set
  apcred` and the access point of the second, which nothing starts.
- `cb_atof` (floating point), and `cb_full`, `cb_empty` and `cb_memcmp`, which
  return 0 whatever the buffer holds.
- What the second terminal does after a line has outgrown `BUF_SIZE`: it is undefined,
  and the model ends there. In the first terminal the byte behind a full
  array is part of the model's array (`Size`), and what lies there is not modelled.
- In `wifi_sta_join`, a mode that cannot be read or set (`terminal_main.c:75-78`, its
  result is overwritten by line 83) and a connect that fails in the library (lines
  103-108, which report it and change nothing).
- In `ntp.c`: answers in several pieces, a receive that fails in the callback,
  and the wrap of the 32-bit timestamp in 2036.
- Timing beyond the assumptions above. The receiver's overrun in hardware
  (an interrupt delayed by more than a byte) is a byte that does not arrive.
- What a compiler may do to `rtcctx.flags`, which is not volatile, in a loop
  without calls. How the display reads a time that is just being set.

## What is left

- Composing `Display` with the fields that `LedClock` sets one by one: what is shown
  while a time is being set.
- Garbled lines in `ClockSync`.
