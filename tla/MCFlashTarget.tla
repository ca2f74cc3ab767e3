--------------------------- MODULE MCFlashTarget ---------------------------
(* FlashTarget with the regions of the USA and of another country. *)
EXTENDS FlashTarget

CONSTANT Europe
=============================================================================
