--------------------------- MODULE MCFtpSendFile ----------------------------
(***************************************************************************)
(* FtpSendFile with two units to a half: files of 0 to MaxTotal units end  *)
(* on a full half, on a short one, and fill each half more than once.      *)
(***************************************************************************)
EXTENDS FtpSendFile
=============================================================================
