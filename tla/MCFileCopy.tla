----------------------------- MODULE MCFileCopy -----------------------------
(***************************************************************************)
(* FileCopy with two units to a half and a split limit of five: a part     *)
(* takes two chunks, and sources of 0 to MaxSize units end on a full chunk *)
(* and on a short one and are written in one, two or three parts.          *)
(***************************************************************************)
EXTENDS FileCopy
=============================================================================
