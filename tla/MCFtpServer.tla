---------------------------- MODULE MCFtpServer -----------------------------
(***************************************************************************)
(* FtpServer for TLC.  One peer with many commands shows what a session    *)
(* keeps from command to command; two peers with few commands show what    *)
(* the threads do to each other.                                           *)
(***************************************************************************)
EXTENDS FtpServer
=============================================================================
