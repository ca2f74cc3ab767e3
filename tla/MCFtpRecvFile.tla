--------------------------- MODULE MCFtpRecvFile ----------------------------
(***************************************************************************)
(* FtpRecvFile with two units to a half and files of up to MaxTotal units: *)
(* the last half is short for odd lengths, and five units make the double  *)
(* buffer go round and come back to the half it started with.              *)
(***************************************************************************)
EXTENDS FtpRecvFile
=============================================================================
