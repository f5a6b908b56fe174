---------------------------- MODULE MCNtpClient ----------------------------
(* Instance of NtpClient for TLC.                                          *)
EXTENDS NtpClient
=============================================================================
