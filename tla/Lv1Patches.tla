----------------------------- MODULE Lv1Patches -----------------------------
(* The columns "LV1 Patches" and "Utilities" of the menu, from the start of
   the program on: check_settings(), apply_settings(), change_lv1_um(),
   change_lv1_dm(), add_utilities() and the flags they read in the EEPROM
   (toolbox.cpp, storage.h).

   The main loop handles one choice at a time: it stores the choice, calls
   parse_settings() and apply_settings() and rebuilds the columns, which reads
   LV1's memory again.  All of that is one action.  LV1's memory outlives the
   program and a restart of LV2; a power cycle resets it to what the firmware
   has patched itself.  Calls to the update manager may fail.               *)
EXTENDS Lv1Tables, FiniteSets

CONSTANTS Running,     \* the kernels the program may find
          Shipped,     \* which options a firmware may come with switched on
          MaxChanges,  \* bound: choices made in the menu
          MaxFaults    \* bound: calls to the update manager that fail

Flags == {"util_qa", "util_recovery", "util_prodmode"}

VARIABLES
  console,    \* [kernel, nor, text]: the running kernel, the flash, version.txt
  target,     \* EID0 holds the target ID 0x82
  phase,      \* "off" or "menu"
  found,      \* c_firmware and dex_mode
  syscalls,   \* the addresses in use, by the kernel they are named for
  mem,        \* LV1's patched words
  poked,      \* LV2's patched doublewords
  lv1,        \* the variables lv1_*: what the last check_settings() read
  readAt,     \* the target that reading was made for
  chosen,     \* ghost: the options chosen and the targets they were written for
  flag,       \* the flags in the EEPROM
  token,      \* the QA token in the EEPROM allows QA
  shown,      \* what "Utilities" shows of the flags
  changes, faults

vars == <<console, target, phase, found, syscalls, mem, poked, lv1, readAt,
          chosen, flag, token, shown, changes, faults>>

fw == found.ver

Console(t) == [dex |-> t, nor |-> console.nor]

W(t, o) == OptionWords(fw, Console(t), o)

(* Mutant: the addresses of the running kernel's mode are looked at. *)
ReadingOfKernel(m, old) ==
  IF ~HasTable(fw) THEN old
  ELSE LET test == Test(fw, Console(console.kernel.dex))
       IN [ o \in Options |-> \E alt \in test[o] : alt \subseteq m ]

(* check_settings(): without a table for the firmware the variables stay. *)
Reading(m, old) ==
  IF ~HasTable(fw) THEN old
  ELSE LET test == Test(fw, Console(target))
       IN [ o \in Options |-> \E alt \in test[o] : alt \subseteq m ]

(* change_lv1_um(u) and change_lv1_dm(d). *)
UmDm(m, u, d) ==
  LET um == IF HasTable(fw) THEN UmWords(fw) ELSE {}
      dm == IF HasTable(fw) THEN DmWords(fw) ELSE {}
  IN (m \ (um \cup dm)) \cup (IF u THEN um ELSE {}) \cup (IF d THEN dm ELSE {})

(* The two patches for the time of an access to the EEPROM, and what remains
   of them: the values of the variables are written back.                   *)
Opened(m, r) == IF r["lv1_um"] /\ r["lv1_dm"] THEN m ELSE UmDm(m, TRUE, TRUE)

(* Mutant: closing switches both patches off. *)
RestoredOff(m, r) ==
  IF r["lv1_um"] /\ r["lv1_dm"] THEN m ELSE UmDm(m, FALSE, FALSE)

Restored(m, r) ==
  IF r["lv1_um"] /\ r["lv1_dm"] THEN m ELSE UmDm(m, r["lv1_um"], r["lv1_dm"])

Access(m) == HasTable(fw) /\ UmWords(fw) \cup DmWords(fw) \subseteq m

(* read_recover_mode_flag() and read_product_mode_flag() return 0 if the read
   fails; read_qa_flag() does not look, and its value is then 0: set.       *)
ReadFlag(f, value, ok) == IF ok THEN value ELSE f = "util_qa"

(* The flags that "Utilities" offers on this firmware. *)
Offered(f) == CASE f = "util_qa" -> HasTable(fw)
                [] f = "util_recovery" -> TRUE
                [] f = "util_prodmode" -> fw = 355

Shown(m, values, ok) ==
  [ f \in Flags |-> Offered(f) /\ ReadFlag(f, values[f], Access(m) /\ ok) ]

(* Words an option has for one target only are remembered with the target. *)
Keys(o) == IF W(TRUE, o) = W(FALSE, o) THEN {o} \X BOOLEAN ELSE {<<o, target>>}

KeysOf(os) == UNION { Keys(o) : o \in os }

-----------------------------------------------------------------------------
Init ==
  /\ \E k \in Running :
       console \in [kernel : {k}, nor : BOOLEAN, text : {0, k.ver}]
  /\ target = console.kernel.dex
  /\ phase = "off"
  /\ found = Detected(console.kernel, console.text)
  /\ syscalls = NoAddresses
  /\ \E s \in Shipped :
       /\ mem = UNION { W(target, o) : o \in s }
       /\ chosen = IF HasTable(fw) THEN KeysOf(s) ELSE {}
  /\ poked = {}
  /\ lv1 = [ o \in Options |-> FALSE ]
  /\ readAt = target
  /\ flag = [ f \in Flags |-> FALSE ]
  /\ token = FALSE
  /\ shown = [ f \in Flags |-> FALSE ]
  /\ changes = 0
  /\ faults = 0

(* The columns are built: the variables are read, then add_utilities() opens
   the EEPROM, reads the flags and closes it again.  umdm: what it does to the
   memory m; r: the reading it starts from.                                 *)
Columns(m, old, values, ok) ==
  LET r == Reading(m, old)
      after == Restored(m, r)
  IN /\ mem' = after
     /\ lv1' = Reading(after, r)
     /\ readAt' = target
     /\ shown' = Shown(Opened(m, r), values, ok)

(* main() up to the menu. *)
Start(mapped) ==
  /\ phase = "off"
  /\ found.ver # 0
  /\ fw # 355 => mapped
  /\ phase' = "menu"
  /\ syscalls' = SyscallAddresses(found)
  /\ poked' = poked \cup GenericPokes(found, mapped)
  /\ Columns(IF mapped THEN mem \cup ProtectionWords(fw) ELSE mem,
             lv1, flag, TRUE)
  /\ UNCHANGED <<console, target, found, chosen, flag, token, changes, faults>>

(* A choice in "LV1 Patches". *)
Choose(o, v) ==
  /\ phase = "menu"
  /\ changes < MaxChanges
  /\ lv1[o] # v
  /\ LET m == IF v THEN mem \cup W(target, o) ELSE mem \ W(target, o)
     IN /\ mem' = m
        /\ lv1' = Reading(m, [lv1 EXCEPT ![o] = v])
  /\ readAt' = target
  /\ chosen' = IF v /\ HasTable(fw) THEN chosen \cup Keys(o) ELSE chosen \ Keys(o)
  /\ changes' = changes + 1
  /\ UNCHANGED <<console, target, phase, found, syscalls, poked, flag, token,
                 shown, faults>>

(* Mutant: the token is never reset. *)
ToggledKeepsToken(f, bad) ==
  LET set == ~ReadFlag(f, flag[f], "read" \notin bad)
      stopped == f = "util_qa" /\ "token" \in bad
  IN /\ flag' = IF stopped \/ "write" \in bad THEN flag ELSE [flag EXCEPT ![f] = set]
     /\ token' = IF f = "util_qa" /\ ~stopped THEN token \/ set ELSE token

(* toggle_*_flag() of storage.h with the calls in bad failing: the read, the
   steps before the flag is written (EID5, the token), the write.           *)
Toggled(f, bad) ==
  LET set == ~ReadFlag(f, flag[f], "read" \notin bad)
      stopped == f = "util_qa" /\ "token" \in bad
  IN /\ flag' = IF stopped \/ "write" \in bad THEN flag ELSE [flag EXCEPT ![f] = set]
     /\ token' = IF f = "util_qa" /\ ~stopped THEN set ELSE token

(* A choice in "Utilities".  Firmwares without a table ignore it. *)
ToggleFlag(f, bad) ==
  /\ phase = "menu"
  /\ changes < MaxChanges
  /\ Offered(f)
  /\ "token" \in bad => f = "util_qa"
  /\ faults + Cardinality(bad) <= MaxFaults
  /\ IF Access(Opened(mem, lv1))
       THEN Toggled(f, bad)
       ELSE UNCHANGED <<flag, token>>
  /\ Columns(Restored(mem, lv1), lv1, flag', "show" \notin bad)
  /\ changes' = changes + 1
  /\ faults' = faults + Cardinality(bad)
  /\ UNCHANGED <<console, target, phase, found, syscalls, poked, chosen>>

(* The entry that looks for kernels rebuilds "Utilities". *)
Utilities ==
  /\ phase = "menu"
  /\ Columns(mem, lv1, flag, TRUE)
  /\ UNCHANGED <<console, target, phase, found, syscalls, poked, chosen, flag,
                 token, changes, faults>>

(* The options that boot_otherOS() forces: its val is 1 for all of them, and
   lv1_pp is left out on every firmware but 4.21; 4.31 and 4.50 leave the two
   options of GameOS out on NAND.                                           *)
ForcedOptions ==
  Options \ ((IF fw = 421 THEN {} ELSE {"lv1_pp"})
             \cup (IF fw \in {431, 450} /\ ~console.nor
                     THEN {"lv1_smgo", "lv1_go"} ELSE {}))

(* "Boot OtherOS" with all patches: the last step before the restart, and the
   dialog if the restart is refused.                                        *)
BootOtherOS(restarts) ==
  /\ phase = "menu"
  /\ changes < MaxChanges
  /\ mem' = mem \cup UNION { W(target, o) : o \in ForcedOptions }
  /\ chosen' = IF HasTable(fw) THEN chosen \cup KeysOf(ForcedOptions) ELSE chosen
  /\ lv1' = Reading(mem', lv1)
  /\ readAt' = target
  /\ phase' = IF restarts THEN "off" ELSE "menu"
  /\ changes' = changes + 1
  /\ UNCHANGED <<console, target, found, syscalls, poked, flag, token, shown,
                 faults>>

(* EID0's target is rewritten and the restart that should follow fails. *)
Retarget ==
  /\ phase = "menu"
  /\ changes < MaxChanges
  /\ target' = ~target
  /\ changes' = changes + 1
  /\ UNCHANGED <<console, phase, found, syscalls, mem, poked, lv1, readAt,
                 chosen, flag, token, shown, faults>>

(* The program ends, or LV2 alone restarts: LV1 keeps its memory. *)
Exit(lv2) ==
  /\ phase = "menu"
  /\ phase' = "off"
  /\ poked' = IF lv2 THEN {} ELSE poked
  /\ UNCHANGED <<console, target, found, syscalls, mem, lv1, readAt, chosen,
                 flag, token, shown, changes, faults>>

Next ==
  \/ \E mapped \in BOOLEAN : Start(mapped)
  \/ \E o \in Options, v \in BOOLEAN : Choose(o, v)
  \/ \E f \in Flags, bad \in SUBSET {"read", "token", "write", "show"} :
       ToggleFlag(f, bad)
  \/ Utilities
  \/ \E restarts \in BOOLEAN : BootOtherOS(restarts)
  \/ Retarget
  \/ \E lv2 \in BOOLEAN : Exit(lv2)

Spec == Init /\ [][Next]_vars

-----------------------------------------------------------------------------
(* Types: the patches the program works with are words of its tables, and
   what it shows are Booleans.                                              *)
TypeOK ==
  /\ console \in [kernel : Running, nor : BOOLEAN, text : {0} \cup Versions]
  /\ target \in BOOLEAN /\ readAt \in BOOLEAN /\ token \in BOOLEAN
  /\ phase \in {"off", "menu"}
  /\ found = Detected(console.kernel, console.text)
  /\ syscalls \in Kernels \cup {NoAddresses}
  /\ lv1 \in [Options -> BOOLEAN]
  /\ chosen \subseteq Options \X BOOLEAN
  /\ flag \in [Flags -> BOOLEAN] /\ shown \in [Flags -> BOOLEAN]
  /\ changes \in 0 .. MaxChanges /\ faults \in 0 .. MaxFaults

(* What the menu shows of an option is what was last chosen for it, whatever
   was toggled, forced, restarted or converted in between: check_settings()
   finds exactly what apply_settings() wrote.                               *)
SettingsTellThePatches ==
  phase = "menu" =>
    \A o \in Options :
      Misread(fw, Console(readAt), o) \/ lv1[o] = (<<o, readAt>> \in chosen)

(* LV1 holds the patches that were chosen and no others: opening the EEPROM
   for a flag leaves no patch behind and takes none away.  4.31 is the
   exception: it misreads lv1_um and switches it off when it closes.        *)
OnlyChosenPatches ==
  LET left == { key \in chosen : ~(fw = 431 /\ key[1] = "lv1_um") }
      wanted == UNION { W(key[2], key[1]) : key \in left }
      um431 == IF fw = 431 THEN UmWords(fw) ELSE {}
  IN /\ wanted \subseteq mem
     /\ mem \subseteq wanted \cup um431 \cup ProtectionWords(fw)
     /\ phase = "menu" /\ fw # 355 => ProtectionWords(fw) \subseteq mem

(* The flags shown are those of the EEPROM, and flag and token agree, as long
   as no call failed.                                                       *)
FlagsAreShown ==
  faults = 0 /\ phase = "menu" /\ HasTable(fw) =>
    /\ \A f \in Flags : Offered(f) => shown[f] = flag[f]
    /\ token = flag["util_qa"]

(* common.h names one set of addresses for each kernel, and the program should
   work with the set of the kernel it runs on.  It does not on the debug kernels
   of 4.75 and 4.76, whose lines || and && make unreachable.                *)
OwnSyscalls ==
  phase = "menu" => syscalls = AddressesFor(console.kernel)

=============================================================================
