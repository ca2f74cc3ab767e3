---------------------------- MODULE FlashTarget ----------------------------
(***************************************************************************)
(* The DEX/CEX column of the toolbox (src/source/toolbox.cpp, cex_dex() in *)
(* src/include/storage.h): conversion of the console's target ID, the      *)
(* names of the plug-ins that go with it, and the names of the LV2 kernels *)
(* in the two ROS banks of the flash.  write_to_device() changes all three *)
(* in this order, swap_kernel() only the kernels.                          *)
(*                                                                         *)
(* Every call to the storage or the file system may fail and the power may *)
(* be cut between two calls; faults counts both.  External: a sector is    *)
(* written whole or not at all, the three sectors of a bank's directory    *)
(* may be written in part, and rename() refuses a name that exists.        *)
(***************************************************************************)
EXTENDS Integers, FiniteSets

CONSTANTS Regions,    \* target IDs of CEX consoles
          USA,        \* the region 0x84
          DEX,        \* the target ID 0x82
          NoId,       \* the target ID 0, of a buffer that was not filled
          Plugins,    \* number of plug-ins renamed with the target
          MaxFaults   \* bound: failed calls and power cuts

ASSUME TargetAssumption ==
    /\ USA \in Regions
    /\ DEX \notin Regions
    /\ NoId \notin Regions \cup {DEX}
    /\ Plugins \in Nat \ {0}
    /\ MaxFaults \in Nat

VARIABLES
    pc,          \* where the toolbox is
    op,          \* "swap", "convert" or "file"
    id0, seal,   \* target ID of EID0: in clear, and in its signed section
    eid5,        \* target ID of EID5, never written
    bank,        \* names of the two kernels in each ROS bank
    module,      \* contents under each of the names of each plug-in
    key,         \* eid_root_key on the hard disk
    errorFile,   \* error_cex_dex exists
    dexMode,     \* dex_mode: the running kernel is the DEX kernel
    dexFlash,    \* dex_flash
    step,        \* renames done
    mode,        \* _mode of search_flash(): the kind wanted
    m,           \* the bank searched
    ros,         \* banks renamed
    rr,          \* the last call to the storage succeeded
    told,        \* the last message of this operation
    faults,      \* history: failed calls and power cuts
    missed,      \* history: banks whose sectors could not be read or written
    refused,     \* history: cex_dex() gave up in this operation
    lostEid5     \* history: cex_dex() did not get the ID of EID5

flash == <<id0, seal, bank>>
search == <<mode, m, ros, rr, missed>>
given == <<eid5, key>>
vars == <<pc, op, flash, given, module, errorFile, dexMode, dexFlash, step,
          search, told, faults, refused, lostEid5>>

Targets == Regions \cup {DEX}
Kinds == {"cex", "dex"}
Other(k) == IF k = "cex" THEN "dex" ELSE "cex"
KindOf(id) == IF id = DEX THEN "dex" ELSE "cex"

-----------------------------------------------------------------------------
(* A ROS bank holds a CEX and a DEX kernel.  The active one is named       *)
(* lv2_kernel.self, the other lv2Ckernel.self or lv2Dkernel.self by its    *)
(* kind; only the letter is kept.  "?" is no such name.                    *)
ROS == {1, 2}
Letters == {"_", "C", "D", "?"}
Spare(k) == IF k = "cex" THEN "C" ELSE "D"

Active(k) == [j \in Kinds |-> IF j = k THEN "_" ELSE Spare(j)]
Foreign == [j \in Kinds |-> IF j = "cex" THEN "_" ELSE "?"]
Whole(b) == \E k \in Kinds : b[k] = "_" /\ b[Other(k)] # "_"
IsActive(b, k) == b[k] = "_" /\ b[Other(k)] # "_"

Has(b, letter) == \E k \in Kinds : b[k] = letter

\* One kind of spare kernel, and the wanted one.
Swappable(b, k) ==
    /\ Has(b, "C") # Has(b, "D")
    /\ Has(b, Spare(k))

Renamed(b, k) ==
    [j \in Kinds |-> IF b[j] = "_" THEN Spare(Other(k))
                     ELSE IF b[j] = Spare(k) THEN "_" ELSE b[j]]

\* Mutant: a bank is written as soon as one of its names has changed.
BothFoundOne(b, k) == \E j \in Kinds : Renamed(b, k)[j] # b[j]

\* found = 2
BothFound(b, k) == Swappable(b, k) /\ (\A j \in Kinds : Renamed(b, k)[j] # b[j])

\* What three sectors may hold after a write that failed.
Torn(old, new) == {[j \in Kinds |-> IF j \in S THEN new[j] ELSE old[j]] : S \in SUBSET Kinds}

-----------------------------------------------------------------------------
(* A plug-in has an active file (.sprx) and files put away under .sprx.cex *)
(* and .sprx.dex.                                                          *)
Names == {"sprx", "cex", "dex"}
Installed(k) == [n \in Names |-> IF n = "sprx" THEN k ELSE IF n = Other(k) THEN n ELSE "none"]

\* rename(): refuses a missing source and an existing destination.
Movable(files, from, to) == files[from] # "none" /\ files[to] = "none"
Move(files, from, to) == [files EXCEPT ![to] = files[from], ![from] = "none"]

\* Step s of the renames that make kind k active: put away, then take.
From(s, k) == IF s % 2 = 0 THEN "sprx" ELSE k
To(s, k) == IF s % 2 = 0 THEN Other(k) ELSE "sprx"
PluginOf(s) == (s \div 2) + 1

-----------------------------------------------------------------------------
Ok == faults' = faults
Fault == faults < MaxFaults /\ faults' = faults + 1

Init ==
    /\ pc = "off"
    /\ op = "swap"
    /\ id0 \in Targets
    /\ seal = id0
    /\ eid5 \in Targets
    /\ bank \in [ROS -> {Active(k) : k \in Kinds} \cup {Foreign}]
    /\ id0 # DEX => \A b \in ROS : IsActive(bank[b], "cex")
    /\ module = [p \in 1 .. Plugins |-> Installed(KindOf(id0))]
    /\ key \in {"none", "good", "bad"}
    /\ errorFile = FALSE
    /\ dexMode = FALSE
    /\ dexFlash = FALSE
    /\ step = 0
    /\ mode = "cex"
    /\ m = 1
    /\ ros = 0
    /\ rr = TRUE
    /\ told = "none"
    /\ faults = 0
    /\ missed = {}
    /\ refused = FALSE
    /\ lostEid5 = FALSE

\* The console starts from a bank with one active kernel, and the toolbox in it.
Boot ==
    /\ pc = "off"
    /\ \E b \in ROS : Whole(bank[b]) /\ dexMode' = IsActive(bank[b], "dex")
    /\ pc' = "menu"
    /\ UNCHANGED <<op, flash, given, module, errorFile, dexFlash, step, search,
                   told, faults, refused, lostEid5>>

\* The user places another eid_root_key, or turns the console off.
PlaceKey ==
    /\ pc = "menu"
    /\ key' \in {"none", "good", "bad"} \ {key}
    /\ UNCHANGED <<pc, op, flash, eid5, module, errorFile, dexMode, dexFlash,
                   step, search, told, faults, refused, lostEid5>>

TurnOff ==
    /\ pc = "menu"
    /\ pc' = "off"
    /\ UNCHANGED <<op, flash, given, module, errorFile, dexMode, dexFlash, step,
                   search, told, faults, refused, lostEid5>>

Cut ==
    /\ pc \notin {"off", "menu"}
    /\ Fault
    /\ pc' = "off"
    /\ UNCHANGED <<op, flash, given, module, errorFile, dexMode, dexFlash, step,
                   search, told, refused, lostEid5>>

-----------------------------------------------------------------------------
\* get_eid(): a sector that is not read counts as CEX.
GetEid ==
    \/ Ok /\ dexFlash' = (id0 = DEX)
    \/ Fault /\ dexFlash' = FALSE

Begin(o) ==
    /\ pc = "menu"
    /\ op' = o
    /\ told' = "none"
    /\ missed' = {}
    /\ refused' = FALSE
    /\ UNCHANGED <<flash, given, module, errorFile, dexMode, step, lostEid5>>

\* Mutant: swap_kernel() does not ask for the target.
SwapKernelAlways ==
    /\ Begin("swap")
    /\ GetEid
    /\ mode' = (IF dexMode THEN "cex" ELSE "dex")
    /\ m' = 1
    /\ ros' = 0
    /\ rr' = TRUE
    /\ pc' = "search"

\* swap_kernel(): the kernel that is not running, on a DEX console only.
SwapKernel ==
    /\ Begin("swap")
    /\ GetEid
    /\ mode' = (IF dexMode THEN "cex" ELSE "dex")
    /\ m' = 1
    /\ ros' = 0
    /\ rr' = TRUE
    /\ pc' = (IF dexFlash' THEN "search" ELSE "menu")

\* write_to_device() with a root key and the user's consent.
Convert ==
    /\ Begin("convert")
    /\ key # "none"
    /\ pc' = "convert"
    /\ UNCHANGED <<dexFlash, mode, m, ros, rr, faults>>

\* write_to_device() without a root key or without consent: get_eid() chooses
\* the name of the file, and again in write_eid(); only the last answer is kept.
UseFile ==
    /\ Begin("file")
    /\ GetEid
    /\ pc' = "file"
    /\ UNCHANGED <<mode, m, ros, rr>>

\* The target of EID0 and the one in its section are each turned over.
TurnedOver(id, true_dex, e5) ==
    IF true_dex THEN IF id = DEX THEN USA ELSE DEX
                ELSE IF id = DEX THEN e5 ELSE DEX

\* Mutant: true_dex_dex_idps is set in the wrong branch.
TurnedOverSealSwapped(id, sealed, true_dex, e5) ==
    IF true_dex THEN IF id = DEX THEN DEX ELSE USA
                ELSE IF sealed = DEX THEN e5 ELSE DEX

TurnedOverSeal(id, sealed, true_dex, e5) ==
    IF true_dex THEN IF id = DEX THEN USA ELSE DEX
                ELSE IF sealed = DEX THEN e5 ELSE DEX

\* cex_dex() with the console's key.  A failed read of EID5 gives the ID 0,
\* the result of the write is ignored.
Converted ==
    /\ pc = "convert"
    /\ key = "good"
    /\ \E lost, failed \in BOOLEAN :
          LET e5 == IF lost THEN NoId ELSE eid5
          IN  /\ faults' = faults + Cardinality({f \in {1, 2} : <<lost, failed>>[f]})
              /\ faults' <= MaxFaults
              /\ lostEid5' = (lostEid5 \/ lost)
              /\ \/ /\ id0' = TurnedOver(id0, e5 = DEX, e5)
                    /\ seal' = TurnedOverSeal(id0, seal, e5 = DEX, e5)
                 \/ failed /\ UNCHANGED <<id0, seal>>
    /\ pc' = "settle"
    /\ UNCHANGED <<op, bank, given, module, errorFile, dexMode, dexFlash, step,
                   search, told, refused>>

\* cex_dex(): the section does not verify, with another console's key or with
\* a sector that was not read.
ConvertRefused ==
    /\ pc = "convert"
    /\ \/ key = "bad" /\ Ok
       \/ Fault
    /\ errorFile' = TRUE
    /\ refused' = TRUE
    /\ pc' = "settle"
    /\ UNCHANGED <<op, flash, given, module, dexMode, dexFlash, step, search,
                   told, lostEid5>>

\* write_eid() with a dump of this console and two confirmations.
FileWritten ==
    /\ pc = "file"
    /\ Ok
    /\ \E id \in Targets : id0' = id /\ seal' = id
    /\ pc' = "settle"
    /\ UNCHANGED <<op, bank, given, module, errorFile, dexMode, dexFlash, step,
                   search, told, refused, lostEid5>>

\* write_eid(): no file, of the wrong size, another console's, or not confirmed.
FileRefused ==
    /\ pc = "file"
    /\ Ok
    /\ pc' = "menu"
    /\ UNCHANGED <<op, flash, given, module, errorFile, dexMode, dexFlash, step,
                   search, told, refused, lostEid5>>

\* write_eid(): a call to the storage fails, the write at worst after the fact.
FileFails ==
    /\ pc = "file"
    /\ Fault
    /\ \/ \E id \in Targets : id0' = id /\ seal' = id
       \/ UNCHANGED <<id0, seal>>
    /\ pc' = "menu"
    /\ UNCHANGED <<op, bank, given, module, errorFile, dexMode, dexFlash, step,
                   search, told, refused, lostEid5>>

-----------------------------------------------------------------------------
\* get_eid() after EID0 was written, or not: it decides on names and kernel.
Settle ==
    /\ pc = "settle"
    /\ GetEid
    /\ step' = 0
    /\ pc' = "rename"
    /\ UNCHANGED <<op, flash, given, module, errorFile, dexMode, search, told,
                   refused, lostEid5>>

\* One rename(); its result is ignored.
Rename ==
    /\ pc = "rename"
    /\ step < 2 * Plugins
    /\ LET k == IF dexFlash THEN "dex" ELSE "cex"
           p == PluginOf(step)
       IN  \/ /\ Ok
              /\ module' = IF Movable(module[p], From(step, k), To(step, k))
                           THEN [module EXCEPT ![p] = Move(@, From(step, k), To(step, k))]
                           ELSE module
           \/ Fault /\ UNCHANGED module
    /\ step' = step + 1
    /\ UNCHANGED <<pc, op, flash, given, errorFile, dexMode, dexFlash, search,
                   told, refused, lostEid5>>

\* Mutant: the last rename is forgotten.
RenamesDoneEarly ==
    /\ pc = "rename"
    /\ step = 2 * Plugins - 1
    /\ mode' = "cex"
    /\ m' = 1
    /\ ros' = 0
    /\ rr' = TRUE
    /\ missed' = {}
    /\ pc' = (IF dexFlash THEN "report" ELSE "search")
    /\ UNCHANGED <<op, flash, given, module, errorFile, dexMode, dexFlash, step,
                   told, faults, refused, lostEid5>>

\* search_flash(1, 0) on a CEX target.
RenamesDone ==
    /\ pc = "rename"
    /\ step = 2 * Plugins
    /\ mode' = "cex"
    /\ m' = 1
    /\ ros' = 0
    /\ rr' = TRUE
    /\ missed' = {}
    /\ pc' = (IF dexFlash THEN "report" ELSE "search")
    /\ UNCHANGED <<op, flash, given, module, errorFile, dexMode, dexFlash, step,
                   told, faults, refused, lostEid5>>

\* search_flash(): the device cannot be opened.
OpenFails ==
    /\ pc = "search"
    /\ m = 1
    /\ Fault
    /\ missed' = ROS
    /\ told' = "failed"
    /\ pc' = "report"
    /\ UNCHANGED <<op, flash, given, module, errorFile, dexMode, dexFlash, step,
                   mode, m, ros, rr, refused, lostEid5>>

\* One round of the loop over the banks.
NextBank ==
    /\ pc = "search"
    /\ m \in ROS
    /\ m' = m + 1
    /\ UNCHANGED <<pc, op, id0, seal, given, module, errorFile, dexMode,
                   dexFlash, step, mode, told, refused, lostEid5>>

BankUnread ==
    /\ NextBank
    /\ Fault
    /\ rr' = FALSE
    /\ missed' = missed \cup {m}
    /\ UNCHANGED <<bank, ros>>

BankSkipped ==
    /\ NextBank
    /\ ~BothFound(bank[m], mode)
    /\ Ok
    /\ rr' = TRUE
    /\ UNCHANGED <<bank, ros, missed>>

\* Mutant: a bank renamed is counted once per name.
BankRenamedTwice ==
    /\ NextBank
    /\ BothFound(bank[m], mode)
    /\ Ok
    /\ bank' = [bank EXCEPT ![m] = Renamed(@, mode)]
    /\ ros' = ros + 2
    /\ rr' = TRUE
    /\ UNCHANGED missed

BankRenamed ==
    /\ NextBank
    /\ BothFound(bank[m], mode)
    /\ Ok
    /\ bank' = [bank EXCEPT ![m] = Renamed(@, mode)]
    /\ ros' = ros + 1
    /\ rr' = TRUE
    /\ UNCHANGED missed

BankTorn ==
    /\ NextBank
    /\ BothFound(bank[m], mode)
    /\ Fault
    /\ \E b \in Torn(bank[m], Renamed(bank[m], mode)) : bank' = [bank EXCEPT ![m] = b]
    /\ rr' = FALSE
    /\ missed' = missed \cup {m}
    /\ UNCHANGED ros

\* Mutant: the loop ends after the first bank that was renamed.
SearchEndsEarly ==
    /\ pc = "search"
    /\ m \notin ROS \/ ros > 0
    /\ told' = IF ros > 0 THEN "changed" ELSE IF op = "swap" THEN "failed" ELSE told
    /\ pc' = IF ros > 0 /\ rr THEN "off" ELSE "report"
    /\ UNCHANGED <<op, flash, given, module, errorFile, dexMode, dexFlash, step,
                   search, faults, refused, lostEid5>>

\* The message, and the restart if the last call succeeded.
SearchEnds ==
    /\ pc = "search"
    /\ m \notin ROS
    /\ told' = IF ros > 0 THEN "changed" ELSE IF op = "swap" THEN "failed" ELSE told
    /\ pc' = IF ros > 0 /\ rr THEN "off" ELSE "report"
    /\ UNCHANGED <<op, flash, given, module, errorFile, dexMode, dexFlash, step,
                   search, faults, refused, lostEid5>>

\* Mutant: the file is not removed once it was reported.
ReportKeeps ==
    /\ pc = "report"
    /\ IF op = "convert" /\ errorFile
       THEN told' = "refused" /\ errorFile' = TRUE
       ELSE UNCHANGED <<told, errorFile>>
    /\ pc' = "menu"
    /\ UNCHANGED <<op, flash, given, module, dexMode, dexFlash, step, search,
                   faults, refused, lostEid5>>

\* Only the conversion looks for the file that tells of its failure.
Report ==
    /\ pc = "report"
    /\ IF op = "convert" /\ errorFile
       THEN told' = "refused" /\ errorFile' = FALSE
       ELSE UNCHANGED <<told, errorFile>>
    /\ pc' = "menu"
    /\ UNCHANGED <<op, flash, given, module, dexMode, dexFlash, step, search,
                   faults, refused, lostEid5>>

Next ==
    \/ Boot \/ PlaceKey \/ TurnOff \/ Cut
    \/ SwapKernel \/ Convert \/ UseFile
    \/ Converted \/ ConvertRefused
    \/ FileWritten \/ FileRefused \/ FileFails
    \/ Settle \/ Rename \/ RenamesDone
    \/ OpenFails \/ BankUnread \/ BankSkipped \/ BankRenamed \/ BankTorn
    \/ SearchEnds \/ Report

Spec == Init /\ [][Next]_vars

-----------------------------------------------------------------------------
TypeOK ==
    /\ pc \in {"off", "menu", "convert", "file", "settle", "rename", "search", "report"}
    /\ op \in {"swap", "convert", "file"}
    /\ id0 \in Targets \cup {NoId} /\ seal \in Targets \cup {NoId}
    /\ eid5 \in Targets
    /\ bank \in [ROS -> [Kinds -> Letters]]
    /\ module \in [1 .. Plugins -> [Names -> Kinds \cup {"none"}]]
    /\ key \in {"none", "good", "bad"}
    /\ errorFile \in BOOLEAN /\ dexMode \in BOOLEAN /\ dexFlash \in BOOLEAN
    /\ step \in 0 .. 2 * Plugins
    /\ mode \in Kinds
    /\ m \in 1 .. 3
    /\ ros \in 0 .. 2
    /\ rr \in BOOLEAN
    /\ told \in {"none", "changed", "failed", "refused"}
    /\ faults \in 0 .. MaxFaults
    /\ missed \subseteq ROS
    /\ refused \in BOOLEAN /\ lostEid5 \in BOOLEAN

\* No operation is going on.
Idle == pc \in {"menu", "off"}

\* The target ID in clear and the one in the signed section of EID0 agree at
\* every moment, whatever failed: cex_dex() derives them from different bytes
\* by two chains of conditions.  They become 0 only if EID5 could not be read
\* while cex_dex() turned a DEX target into the original one: nobody looks at
\* the result of that read.
TargetKept ==
    /\ seal = id0
    /\ id0 = NoId => lostEid5

\* Every failed call or power cut costs at most one bank its only active
\* kernel or one plug-in its active file: search_flash() renames both kernels
\* of a bank or none and passes over torn banks, and a plug-in is missing only
\* between its two renames.
OneLossPerFault ==
    Cardinality({b \in ROS : ~Whole(bank[b])})
      + Cardinality({p \in 1 .. Plugins : module[p]["sprx"] = "none"})
        <= faults + (IF pc = "rename" /\ step % 2 = 1 THEN 1 ELSE 0)

\* When "LV2 Kernel successfully changed" has been shown, every bank with the
\* two kernels has the wanted one active, except those whose sectors could
\* not be read or written, and some bank has it.
KernelChanged ==
    told = "changed" =>
        /\ \E b \in ROS : IsActive(bank[b], mode)
        /\ \A b \in ROS \ missed :
              Whole(bank[b]) => IsActive(bank[b], mode) \/ bank[b] = Foreign

\* Without failures no operation leaves a DEX kernel on a console whose target
\* is CEX: write_to_device() and write_eid() take it back after the target,
\* swap_kernel() asks for the target before.
CexTargetHasCexKernel ==
    Idle /\ faults = 0 /\ id0 # DEX => \A b \in ROS : IsActive(bank[b], "cex")

\* Without failures the active plug-ins are those of the target, also when the
\* renames run although nothing was converted, or from CEX to CEX.
PluginsFollowTarget ==
    Idle /\ faults = 0 => \A p \in 1 .. Plugins : module[p] = Installed(KindOf(id0))

\* Without failures the user is told of a refused conversion, and of no other:
\* error_cex_dex never outlives the operation it belongs to, although the
\* restart at the end of search_flash() comes before the test for it.
RefusalReported ==
    Idle /\ faults = 0 => (refused <=> told = "refused") /\ ~errorFile
=============================================================================
