------------------------------ MODULE MCToolbox ------------------------------
(* The operations of the menu that Lv1Patches, SystemModes, SystemFiles,
   OtherOs and FlashDump model, for TLC.  The main loop dispatches one
   operation at a time (toolbox.cpp 7960-8151) and these five share no state:
   `part' says which of them a behaviour is about.  The variables are the
   modules' own, by their names; those that a part does not have stay Unused. *)
EXTENDS Lv1Tables, OtherOsConstants, FlashDumpConstants

CONSTANTS Running, Shipped, MaxChanges   \* of Lv1Patches

ASSUME Lv1Assumption ==
  /\ Running \subseteq Kernels
  /\ Shipped \subseteq SUBSET Options
  /\ MaxChanges \in Nat

VARIABLES
  part,
  console, target, phase, found, syscalls, mem, poked, lv1, readAt, chosen,
  flag, token, shown, changes, faults,
  files, mode, job, chain, clean, choice, status, replaces, choices,
  then, swap, redirected, refused,
  kind, magic, table, capacity, header, image, usb, at, reported, selected,
  system, asked, misread,
  nor, sector, step2, retry, readlen, written, saved, rom, said, dumps

Lv1 == INSTANCE Lv1Patches
Modes == INSTANCE SystemModes
Files == INSTANCE SystemFiles
Other == INSTANCE OtherOs
Dump == INSTANCE FlashDump

(* The variables that one part alone has. *)
OnlyLv1 == <<console, target, found, syscalls, mem, poked, lv1, readAt, chosen,
             flag, token, shown, changes>>
OnlyModes == <<mode, chain, clean, choice, status>>
OnlyFiles == <<then, swap, redirected, refused>>
OnlyOther == <<kind, magic, table, capacity, header, image, usb, reported,
               selected, system, asked, misread>>
OnlyDump == <<nor, sector, step2, retry, readlen, written, saved, rom, said,
              dumps>>

vars == <<part, OnlyLv1, OnlyModes, OnlyFiles, OnlyOther, OnlyDump, phase,
          faults, files, job, replaces, choices, at>>

Unused == "unused"

NoLv1 ==
  /\ console = Unused /\ target = Unused /\ found = Unused
  /\ syscalls = Unused /\ mem = Unused /\ poked = Unused /\ lv1 = Unused
  /\ readAt = Unused /\ chosen = Unused /\ flag = Unused /\ token = Unused
  /\ shown = Unused /\ changes = Unused

NoModes ==
  /\ mode = Unused /\ chain = Unused /\ clean = Unused /\ choice = Unused
  /\ status = Unused

NoFiles ==
  /\ then = Unused /\ swap = Unused /\ redirected = Unused /\ refused = Unused

NoOther ==
  /\ kind = Unused /\ magic = Unused /\ table = Unused /\ capacity = Unused
  /\ header = Unused /\ image = Unused /\ usb = Unused /\ reported = Unused
  /\ selected = Unused /\ system = Unused /\ asked = Unused
  /\ misread = Unused

NoDump ==
  /\ nor = Unused /\ sector = Unused /\ step2 = Unused /\ retry = Unused
  /\ readlen = Unused /\ written = Unused /\ saved = Unused /\ rom = Unused
  /\ said = Unused /\ dumps = Unused

Init ==
  \/ /\ part = "lv1"
     /\ Lv1!Init
     /\ NoModes /\ NoFiles /\ NoOther /\ NoDump
     /\ files = Unused /\ job = Unused /\ replaces = Unused /\ choices = Unused
     /\ at = Unused
  \/ /\ part = "modes"
     /\ Modes!Init
     /\ NoLv1 /\ NoFiles /\ NoOther /\ NoDump
     /\ at = Unused
  \/ /\ part = "files"
     /\ Files!Init
     /\ NoLv1 /\ NoModes /\ NoOther /\ NoDump
     /\ at = Unused
  \/ /\ part = "otheros"
     /\ Other!Init
     /\ NoLv1 /\ NoModes /\ NoFiles /\ NoDump
     /\ phase = Unused /\ files = Unused /\ job = Unused /\ replaces = Unused
  \/ /\ part = "dump"
     /\ Dump!Init
     /\ NoLv1 /\ NoModes /\ NoFiles /\ NoOther
     /\ phase = Unused /\ faults = Unused /\ files = Unused /\ job = Unused
     /\ replaces = Unused /\ choices = Unused

Next ==
  \/ /\ part = "lv1"
     /\ Lv1!Next
     /\ UNCHANGED <<part, OnlyModes, OnlyFiles, OnlyOther, OnlyDump,
                    files, job, replaces, choices, at>>
  \/ /\ part = "modes"
     /\ Modes!Next
     /\ UNCHANGED <<part, OnlyLv1, OnlyFiles, OnlyOther, OnlyDump,
                    at>>
  \/ /\ part = "files"
     /\ Files!Next
     /\ UNCHANGED <<part, OnlyLv1, OnlyModes, OnlyOther, OnlyDump,
                    at>>
  \/ /\ part = "otheros"
     /\ Other!Next
     /\ UNCHANGED <<part, OnlyLv1, OnlyModes, OnlyFiles, OnlyDump,
                    phase, files, job, replaces>>
  \/ /\ part = "dump"
     /\ Dump!Next
     /\ UNCHANGED <<part, OnlyLv1, OnlyModes, OnlyFiles, OnlyOther,
                    phase, faults, files, job, replaces, choices>>

Spec == Init /\ [][Next]_vars

-----------------------------------------------------------------------------
(* Each part's variables have the types that its module gives them. *)
TypeOK ==
  CASE part = "lv1" -> Lv1!TypeOK
    [] part = "modes" -> Modes!TypeOK
    [] part = "files" -> Files!TypeOK
    [] part = "otheros" -> Other!TypeOK
    [] part = "dump" -> Dump!TypeOK

(* "LV1 Patches": what the menu shows of an option is what was last chosen
   for it; LV1 holds those patches and no others; the flags are shown as the
   EEPROM has them.                                                         *)
SettingsTellThePatches == part = "lv1" => Lv1!SettingsTellThePatches
OnlyChosenPatches == part = "lv1" => Lv1!OnlyChosenPatches
FlagsAreShown == part = "lv1" => Lv1!FlagsAreShown

(* "Selector": the modes that the names tell are the modes of the files, as
   long as nothing failed; a failed switch of COBRA is healed by the next.  *)
ModesTell == part = "modes" => Modes!ModesTell
CobraHeals == [][part = "modes" => Modes!HealsCobra]_vars

(* No single failure loses the registry; the emulators are of one kind; and
   LV1 loads a kernel that is there, unless one was refused.                *)
FilesKept == part = "files" => Files!FilesKept

(* A broken installation does not start unasked, a reported one is whole, and
   header and image stay in their region.                                   *)
OtherOsSafe == part = "otheros" => Other!OtherOsSafe

(* A dump holds the sectors of the flash in order, and a kept one all of them. *)
DumpInOrder == part = "dump" => Dump!DumpInOrder

-----------------------------------------------------------------------------
(* Firmwares as they come: with nothing patched, or with the hypervisor open
   to LV2.                                                                  *)
ShippedOptions == {{}, {"lv1_um", "lv1_pp"}}

=============================================================================
