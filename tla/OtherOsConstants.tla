-------------------------- MODULE OtherOsConstants --------------------------
(* The sizes that OtherOs works with (toolbox.cpp 4067-4074, 4214-4253), and
   its bounds.                                                              *)
EXTENDS Integers

CONSTANTS Chunk,      \* sectors written at once: 16
          MaxImage,   \* sectors that an image may have: BFFC
          NandCount,  \* FLASH_6TH_REGION_NEW_SECTOR_COUNT: 4200
          Images,     \* bound: sizes of images in sectors
          Capacities, \* bound: sizes of the region before it is resized
          MaxChoices, \* bound: operations
          MaxFaults   \* bound: failing calls and power cuts

ASSUME OtherOsAssumption ==
  Chunk \in Nat \ {0} /\ MaxImage \in Nat /\ NandCount \in Nat
  /\ Images \subseteq Nat /\ Capacities \subseteq Nat
  /\ MaxChoices \in Nat /\ MaxFaults \in Nat

=============================================================================
