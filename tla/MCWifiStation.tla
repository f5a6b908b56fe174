---------------------------- MODULE MCWifiStation ----------------------------
(***************************************************************************)
(* Two access points, so that a mixture of their credentials matches       *)
(* neither; two events ahead.                                              *)
(***************************************************************************)
EXTENDS WifiStation

=============================================================================
