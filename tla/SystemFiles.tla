---------------------------- MODULE SystemFiles ----------------------------
(* The operations that replace files of the system by copies: the registry
   (set_xReg(), toolbox.cpp 8358-8431), the kernel (load_lv2_kernel(),
   8445-8536) and the PS2 emulators (the branch "swap_emu" of
   apply_settings(), 11916-11971).

   As in SystemModes an operation is a list of calls, made one at a time; after
   the last of them it looks at the names (`then') and goes on.  Every call may
   fail, and the power may go between two of them or during a copy.         *)
EXTENDS FileSteps, Integers

CONSTANTS MaxChoices,  \* bound: choices made in the menu
          MaxFaults    \* bound: failing calls and power cuts

Emulators == {"net", "gx", "ps2"}

(* Where a file may be: the places of an emulator are the flash, the program's
   directory, its backup there, and the USB device.                         *)
Flash  == [net |-> "net.flash", gx |-> "gx.flash", ps2 |-> "ps2.flash"]
Hdd    == [net |-> "net.hdd", gx |-> "gx.hdd", ps2 |-> "ps2.hdd"]
Backup == [net |-> "net.cobra", gx |-> "gx.cobra", ps2 |-> "ps2.cobra"]
Usb    == [net |-> "net.usb", gx |-> "gx.usb", ps2 |-> "ps2.usb"]

Names == { place[e] : place \in {Flash, Hdd, Backup, Usb}, e \in Emulators }
         \cup {"reg", "reg.bak", "reg.usb", "kernel", "kernel.new"}

VARIABLES files,      \* what is under which name
          job,        \* the calls still to make
          then,       \* where the operation goes on after them
          swap,       \* swap_emu
          redirected, \* LV1 loads the kernel from the flash
          refused,    \* a kernel was refused for want of space
          phase,      \* "run", or "reset" when LV2 restarts
          replaces,   \* rename() replaces an existing file
          choices, faults

vars == <<files, job, then, swap, redirected, refused, phase, replaces, choices,
          faults>>

(* The size of the emulator tells whether it is COBRA's; the size of a file
   that is not there is whatever the stack holds.                           *)
SwapRead(f) ==
  IF Exists(f, Flash["net"]) THEN {IF f[Flash["net"]] = "cobra" THEN 1 ELSE 0}
  ELSE {0, 1}

(* COBRA's emulators in the flash, the original ones perhaps on a USB device,
   not all of them perhaps; a registry; perhaps a kernel to load.           *)
Init ==
  /\ \E onUsb \in SUBSET Emulators, kernel \in {Absent, "lv2"} :
       files = [ n \in Names |->
                   CASE n \in { Flash[e] : e \in Emulators } -> "cobra"
                     [] n \in { Usb[e] : e \in onUsb } -> "orig"
                     [] n = "reg" -> "old"
                     [] n = "kernel.new" -> kernel
                     [] OTHER -> Absent ]
  /\ job = <<>>
  /\ then = "menu"
  /\ swap = 1
  /\ redirected = FALSE
  /\ refused = FALSE
  /\ phase = "run"
  /\ replaces \in BOOLEAN
  /\ choices = 0
  /\ faults = 0

-----------------------------------------------------------------------------
(* Mutant: the registry is removed before its copy is made. *)
RegRestoreUnlinksFirst ==
  <<Unlink("reg.bak"), Unlink("reg"), Ren("reg", "reg.bak"),
    Copy("reg.usb", "reg")>>

(* The calls of the operations. *)
RegBackup  == <<Unlink("reg.usb"), Copy("reg", "reg.usb")>>
RegRestore == <<Unlink("reg.bak"), Ren("reg", "reg.bak"), Unlink("reg"),
                Copy("reg.usb", "reg")>>
RegBack    == <<Ren("reg.bak", "reg")>>

UnlinkAll(place) ==
  <<Unlink(place["net"]), Unlink(place["gx"]), Unlink(place["ps2"])>>
CopyAll(from, to) ==
  <<Copy(from["net"], to["net"]), Copy(from["ps2"], to["ps2"]),
    Copy(from["gx"], to["gx"])>>

Begin(calls, next) ==
  /\ phase = "run"
  /\ then = "menu"
  /\ choices < MaxChoices
  /\ job' = calls
  /\ then' = next
  /\ choices' = choices + 1

(* "Backup" and "Restore" of the registry, confirmed. *)
BackupRegistry ==
  /\ Exists(files, "reg")
  /\ Begin(RegBackup, "done")
  /\ UNCHANGED <<files, swap, redirected, refused, phase, replaces, faults>>

RestoreRegistry ==
  /\ Exists(files, "reg.usb")
  /\ Begin(RegRestore, "restored")
  /\ UNCHANGED <<files, swap, redirected, refused, phase, replaces, faults>>

(* "Load LV2 Kernel", confirmed, with one of the kernels found; the one in the
   flash is not replaced.                                                   *)
LoadKernel(k) ==
  /\ Exists(files, k)
  /\ Begin(IF k = "kernel" THEN <<>> ELSE <<Unlink("kernel")>>,
           IF k = "kernel" THEN "installed" ELSE "space")
  /\ UNCHANGED <<files, swap, redirected, refused, phase, replaces, faults>>

(* "Toggle PS2 Emulator": the first time the files in the flash are copied. *)
SwapEmulators ==
  /\ Begin(IF Exists(files, Backup["net"]) THEN <<>> ELSE CopyAll(Flash, Backup),
           "source")
  /\ swap' = 1 - swap
  /\ UNCHANGED <<files, redirected, refused, phase, replaces, faults>>

-----------------------------------------------------------------------------
(* The next call, which succeeds if it can, or fails. *)
Call(ok) ==
  /\ phase = "run"
  /\ job # <<>>
  /\ LET c == Head(job)
         possible == Possible(files, c, replaces)
     IN IF ok
          THEN /\ files' = IF possible THEN Effect(files, c) ELSE files
               /\ faults' = faults
          ELSE /\ possible
               /\ faults < MaxFaults
               /\ files' \in Failures(files, c)
               /\ faults' = faults + 1
  /\ job' = Tail(job)
  /\ UNCHANGED <<then, swap, redirected, refused, phase, replaces, choices>>

Goes(calls, next) == /\ job' = calls
                     /\ then' = next

At(label) == /\ phase = "run"
             /\ job = <<>>
             /\ then = label

(* The registry is there, or the old one is put back. *)
Restored ==
  /\ At("restored")
  /\ Goes(IF Exists(files, "reg") THEN <<>> ELSE RegBack, "done")
  /\ UNCHANGED <<files, swap, redirected, refused, phase, replaces, choices,
                 faults>>

(* Is there space for the kernel? *)
Space(fits) ==
  /\ At("space")
  /\ IF fits THEN Goes(<<Copy("kernel.new", "kernel")>>, "installed")
             ELSE Goes(<<>>, "done")
  /\ refused' = (refused \/ ~fits)
  /\ UNCHANGED <<files, swap, redirected, phase, replaces, choices, faults>>

(* LV1's path to the kernel is looked for and changed if it is found, as it is
   not once it has been changed, and LV2 restarts in either case, unless the
   update manager refuses.                                                  *)
Install(restarts) ==
  /\ At("installed")
  /\ Goes(<<>>, IF Exists(files, "kernel") /\ restarts THEN "menu" ELSE "done")
  /\ redirected' \in {redirected, redirected \/ Exists(files, "kernel")}
  /\ phase' = IF Exists(files, "kernel") /\ restarts THEN "reset" ELSE phase
  /\ restarts \/ (faults < MaxFaults /\ Exists(files, "kernel"))
  /\ faults' = IF restarts THEN faults ELSE faults + 1
  /\ UNCHANGED <<files, swap, refused, replaces, choices>>

(* Emulators from the USB device, if its owner agrees, into the program's
   directory; without any the operation ends.                               *)
Source(agreed) ==
  /\ At("source")
  /\ agreed => Exists(files, Usb["net"])
  /\ IF ~Exists(files, Hdd["net"]) /\ ~Exists(files, Usb["net"])
       THEN Goes(<<>>, "done")
       ELSE Goes(IF agreed THEN UnlinkAll(Hdd) \o CopyAll(Usb, Hdd) ELSE <<>>, "swap")
  /\ UNCHANGED <<files, swap, redirected, refused, phase, replaces, choices,
                 faults>>

(* The emulators in the flash are replaced by the ones chosen. *)
Swap ==
  /\ At("swap")
  /\ Goes(IF Exists(files, Hdd["net"])
            THEN UnlinkAll(Flash) \o CopyAll(IF swap = 0 THEN Hdd ELSE Backup, Flash)
            ELSE <<>>,
          "done")
  /\ UNCHANGED <<files, swap, redirected, refused, phase, replaces, choices,
                 faults>>

(* check_settings(). *)
Finish ==
  /\ At("done")
  /\ Goes(<<>>, "menu")
  /\ swap' \in SwapRead(files)
  /\ UNCHANGED <<files, redirected, refused, phase, replaces, choices, faults>>

(* The power goes; LV1's memory with it.  A copy that is under way stays as it
   is, and the program is started again.                                    *)
Cut ==
  /\ phase = "run"
  /\ job # <<>>
  /\ faults < MaxFaults
  /\ faults' = faults + 1
  /\ files' \in {files} \cup
       IF Head(job).kind = "copy" THEN {[files EXCEPT ![Head(job).to] = "short"]} ELSE {}
  /\ Goes(<<>>, "menu")
  /\ swap' \in SwapRead(files')
  /\ redirected' = FALSE
  /\ UNCHANGED <<refused, phase, replaces, choices>>

(* LV2 restarts from the path that LV1 has, and the program is started again;
   if that is the installed kernel's and there is none, or a part of one, it
   does not.                                                                *)
Restart ==
  /\ phase = "reset"
  /\ redirected => files["kernel"] = "lv2"
  /\ phase' = "run"
  /\ swap' \in SwapRead(files)
  /\ UNCHANGED <<files, job, then, redirected, refused, replaces, choices, faults>>

(* reboot_ps3(): the kernel alone, or the whole console. *)
Reboot(soft) ==
  /\ phase = "run"
  /\ then = "menu"
  /\ phase' = IF soft THEN "reset" ELSE "run"
  /\ redirected' = (redirected /\ soft)
  /\ swap' \in SwapRead(files)
  /\ UNCHANGED <<files, job, then, refused, replaces, choices, faults>>

Next ==
  \/ BackupRegistry \/ RestoreRegistry \/ SwapEmulators
  \/ \E k \in {"kernel", "kernel.new"} : LoadKernel(k)
  \/ \E ok \in BOOLEAN : Call(ok)
  \/ Restored \/ Swap \/ Finish \/ Cut \/ Restart
  \/ \E yes \in BOOLEAN : Space(yes) \/ Install(yes) \/ Source(yes) \/ Reboot(yes)

Spec == Init /\ [][Next]_vars

-----------------------------------------------------------------------------
(* Types. *)
TypeOK ==
  /\ files \in [Names -> {Absent, "cobra", "orig", "old", "lv2", "empty", "short"}]
  /\ then \in {"menu", "restored", "space", "installed", "source", "swap", "done"}
  /\ swap \in {0, 1}
  /\ redirected \in BOOLEAN /\ refused \in BOOLEAN /\ replaces \in BOOLEAN
  /\ phase \in {"run", "reset"}
  /\ choices \in 0 .. MaxChoices /\ faults \in 0 .. MaxFaults

(* Restoring the registry, with its calls unchecked and its success judged by
   a name: no single failure or power cut leaves the console without a whole
   registry under one of its two names, as long as the copy on the USB device
   is whole.                                                                *)
RegistryKept ==
  faults <= 1 /\ then = "menu" /\ files["reg.usb"] # "short" =>
    files["reg"] = "old" \/ files["reg.bak"] = "old"

(* As long as nothing fails, the three emulators in the flash are of one kind,
   the one the menu shows, as far as the USB device had an original of each,
   and COBRA's are kept for the way back.                                   *)
EmulatorsAgree ==
  faults = 0 /\ then = "menu" =>
    \A e \in Emulators :
      /\ swap = 1 => files[Flash[e]] = "cobra"
      /\ swap = 0 => files[Backup[e]] = "cobra"
      /\ swap = 0 /\ Exists(files, Usb[e]) => files[Flash[e]] = "orig"

(* LV1 loads the kernel from a path where there is one, unless one was
   refused: the installed kernel is removed before the space is looked at.  *)
KernelThere ==
  faults = 0 /\ then = "menu" /\ redirected => refused \/ files["kernel"] = "lv2"

(* What no sequence of operations may lose: the three above. *)
FilesKept == RegistryKept /\ EmulatorsAgree /\ KernelThere

=============================================================================
