------------------------- MODULE FlashDumpConstants -------------------------
(* The numbers that read_flash() works with, and FlashDump's bound. *)
EXTENDS Integers

CONSTANTS Sectors,   \* disc_info.total_sectors
          Step,      \* sec_step: sectors in two megabytes
          Retries,   \* reads of one step: 29
          MaxDumps   \* bound: dumps

ASSUME FlashDumpAssumption ==
  Sectors \in Nat \ {0} /\ Step \in Nat \ {0} /\ Retries \in Nat \ {0} /\ MaxDumps \in Nat

=============================================================================
