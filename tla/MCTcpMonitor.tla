---------------------------- MODULE MCTcpMonitor ----------------------------
(***************************************************************************)
(* Two clients, as many as fit into the queue of connections, of which     *)
(* each sends up to two items and ends.                                    *)
(***************************************************************************)
EXTENDS TcpMonitor

=============================================================================
