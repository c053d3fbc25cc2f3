---------------------------- MODULE MCDtlsSession ----------------------------
(***************************************************************************)
(* Model values of DtlsSession for TLC.                                     *)
(***************************************************************************)
EXTENDS DtlsSession
=============================================================================
