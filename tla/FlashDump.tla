----------------------------- MODULE FlashDump -----------------------------
(* "Export Flash to File": dump_flash() and read_flash() (toolbox.cpp
   8651-8704, 6453-6671).  The flash is read in steps of at most Step sectors;
   a read that fails is tried again with half as many, and every step begins
   with the full number again.  A NAND dump has a copy of the system ROM
   written around it.

   The file is the sequence of the sectors written to it.  It is far below the
   size at which read_flash() would split it, so it is never split.         *)
EXTENDS FlashDumpConstants, Sequences

VARIABLES
  nor,        \* is_nor()
  at,         \* "menu", "read", "write", "close"
  sector,     \* the next sector
  step2,      \* sec_step2
  retry,
  readlen,    \* sectors that the last read gave
  written,    \* sectors_written
  saved,      \* the file's sectors, or NoFile
  rom,        \* the system ROM is at the file's two ends
  said,       \* the last dialog
  dumps

vars == <<nor, at, sector, step2, retry, readlen, written, saved, rom, said, dumps>>

NoFile == <<0>>
File == saved # NoFile

(* Mutant: the last step is not cut. *)
ClipNever(s) == Step

Clip(s) == IF s + Step > Sectors THEN Sectors - s ELSE Step
Half(n) == IF n \div 2 < 2 THEN 1 ELSE n \div 2

Init ==
  /\ nor \in BOOLEAN
  /\ at = "menu"
  /\ sector = 0 /\ step2 = 0 /\ retry = 1 /\ readlen = 0 /\ written = 0
  /\ saved = NoFile
  /\ rom = FALSE
  /\ said = "none"
  /\ dumps = 0

(* The dump is confirmed: the file of the same second is removed, and the free
   space looked at; the device opened and asked for its size; the file opened.
   Only that failure is not reported.                                       *)
DumpFlash(space, device, opened) ==
  /\ at = "menu"
  /\ dumps < MaxDumps
  /\ dumps' = dumps + 1
  /\ rom' = FALSE
  /\ IF space /\ device /\ opened
       THEN /\ at' = "read"
            /\ sector' = 0 /\ step2' = Clip(0) /\ retry' = 1
            /\ readlen' = 0 /\ written' = 0
            /\ saved' = <<>>
            /\ UNCHANGED said
       ELSE /\ saved' = NoFile
            /\ said' = IF ~space THEN "space" ELSE IF ~device THEN "cannot" ELSE said
            /\ UNCHANGED <<at, sector, step2, retry, readlen, written>>
  /\ UNCHANGED nor

(* One read; n sectors come, or an error.  After an error the drive is moved to
   both ends of the flash and half as much is asked for, unless TRIANGLE is
   held; the last of the attempts is given up.                              *)
ReadGives(n) ==
  /\ at = "read"
  /\ readlen' = n
  /\ at' = IF n = 0 THEN "close" ELSE "write"
  /\ UNCHANGED <<nor, sector, step2, retry, written, saved, rom, said, dumps>>

ReadFails(triangle) ==
  /\ at = "read"
  /\ step2' = Half(step2)
  /\ readlen' = 0
  /\ retry' = retry + 1
  /\ at' = IF triangle \/ retry = Retries THEN "close" ELSE "read"
  /\ UNCHANGED <<nor, sector, written, saved, rom, said, dumps>>

(* Mutant: the next step begins a full step further. *)
WriteFullStep(ok) ==
  /\ at = "write"
  /\ IF ok
       THEN /\ saved' = saved \o [ i \in 1 .. readlen |-> sector + i ]
            /\ written' = written + readlen
            /\ LET more == written' # Sectors /\ readlen = step2
                   next == sector + Step
               IN /\ sector' = IF more THEN next ELSE sector
                  /\ step2' = IF more THEN Clip(next) ELSE step2
                  /\ at' = IF more /\ Clip(next) # 0 THEN "read" ELSE "close"
            /\ retry' = 1
       ELSE /\ at' = "close"
            /\ UNCHANGED <<saved, written, sector, step2, retry>>
  /\ UNCHANGED <<nor, readlen, rom, said, dumps>>

(* What was read is written, unless TRIANGLE is held or the write fails; then
   the next step, or the end.                                               *)
Write(ok) ==
  /\ at = "write"
  /\ IF ok
       THEN /\ saved' = saved \o [ i \in 1 .. readlen |-> sector + i ]
            /\ written' = written + readlen
            /\ LET more == written' # Sectors /\ readlen = step2
                   next == sector + step2
               IN /\ sector' = IF more THEN next ELSE sector
                  /\ step2' = IF more THEN Clip(next) ELSE step2
                  /\ at' = IF more /\ Clip(next) # 0 THEN "read" ELSE "close"
            /\ retry' = 1
       ELSE /\ at' = "close"
            /\ UNCHANGED <<saved, written, sector, step2, retry>>
  /\ UNCHANGED <<nor, readlen, rom, said, dumps>>

(* An incomplete file is removed.  The condition for success is A || !A; on
   NAND the system ROM goes to a file of that name, a new one if need be.   *)
Close ==
  /\ at = "close"
  /\ at' = "menu"
  /\ LET kept == IF written = Sectors THEN saved ELSE NoFile
     IN saved' = IF ~nor /\ kept = NoFile THEN <<>> ELSE kept
  /\ rom' = ~nor
  /\ said' = "saved"
  /\ UNCHANGED <<nor, sector, step2, retry, readlen, written, dumps>>

Next ==
  \/ \E space, device, opened \in BOOLEAN : DumpFlash(space, device, opened)
  \/ \E n \in 0 .. step2 : ReadGives(n)
  \/ \E b \in BOOLEAN : ReadFails(b) \/ Write(b)
  \/ Close

Spec == Init /\ [][Next]_vars

-----------------------------------------------------------------------------
(* Types. *)
TypeOK ==
  /\ nor \in BOOLEAN /\ rom \in BOOLEAN
  /\ at \in {"menu", "read", "write", "close"}
  /\ sector \in 0 .. Sectors /\ step2 \in 0 .. Step
  /\ retry \in 1 .. Retries + 1 /\ readlen \in 0 .. Step
  /\ written \in 0 .. Sectors
  /\ said \in {"none", "space", "cannot", "saved"}
  /\ dumps \in 0 .. MaxDumps

(* However the reads failed, were halved and came short, the file holds the
   sectors of the flash in their order with none left out or doubled, and a NOR
   file that is still there after the dump holds all of them; a NAND file that
   does not, holds none.                                                    *)
DumpInOrder ==
  File =>
    /\ saved = [ i \in 1 .. Len(saved) |-> i ]
    /\ at = "menu" => Len(saved) = Sectors \/ (saved = <<>> /\ ~nor)

=============================================================================
