---------------------------- MODULE MCCommandLine ----------------------------
(***************************************************************************)
(* Instance of CommandLine for TLC: an array for three bytes and room for  *)
(* two arguments, so that a line may be shorter or longer than the array,  *)
(* and have more arguments than places, after any other line, and a buffer *)
(* for two reads, which lines that are read in parts may outgrow.          *)
(***************************************************************************)
EXTENDS CommandLine

=============================================================================
