---------------------------- MODULE LineMailbox ----------------------------
(***************************************************************************)
(* What the serial receiver of the clock (ledclocksw/usc.c) promises to    *)
(* the main loop (ledclocksw/main.c): a mailbox with room for one line.    *)
(* A line that arrives replaces the one that is there, read or not; a      *)
(* fetch returns the line that is there, whole.  A line may be fetched a   *)
(* second time when it arrived while the main loop was about to fetch its  *)
(* predecessor, and never a third time.                                    *)
(***************************************************************************)
EXTENDS Naturals, Sequences

CONSTANT Lines      \* the lines that can be delivered

VARIABLES newest,   \* the line in the mailbox
          fetches,  \* how often it has been fetched
          got       \* the line that was fetched last

vars == <<newest, fetches, got>>

\* RAM is not cleared at reset: the mailbox may seem to hold a line that
\* was never received (fetches = 0) or may rightly seem empty (fetches = 2).
Init ==
  /\ fetches \in {0, 2}
  /\ got = << >>

Deliver ==
  /\ newest' \in Lines
  /\ fetches' = 0
  /\ UNCHANGED got

Fetch ==
  /\ fetches < 2
  /\ got' = newest
  /\ fetches' = fetches + 1
  /\ UNCHANGED newest

Next == Deliver \/ Fetch

Spec == Init /\ [][Next]_vars
=============================================================================
