------------------------------ MODULE OtherOs ------------------------------
(* OtherOS: the region of the flash that holds it (resize_vflash(), toolbox.cpp
   4254-4423), the boot loader in it (install_petiboot(), 4078-4213), and the
   flag that says which system starts (boot_otherOS(), 8547-8633;
   set_gameos_flag(), 4948-5024).

   The region begins with a header, the parameters with the flag and a
   database, four sectors that are written at once; the loader's image follows,
   written in pieces of up to 16 sectors.  Every call to the storage may fail
   and the power may go between two writes.                                 *)
EXTENDS OtherOsConstants

HeaderSectors == 4    \* VFLASH5_HEADER_SECTORS + VFLASH5_OS_DB_AREA_SECTORS

VARIABLES
  kind,      \* "vflash" or "nand": which of the two tables the console has
  magic,     \* the table begins with its two magic numbers
  table,     \* the regions: as "old", or resized with the numbers of a kind
  capacity,  \* the sectors of region 5 that LV2 knows of since it started
  header,    \* [size, flag] of the OS area, or NoHeader
  image,     \* sectors of the header's image that are in place
  usb,       \* sectors of the image on the USB device
  at,        \* install_petiboot(): the next sector of the image; else Idle
  reported,  \* what the last dialog says
  selected,  \* option_selected of "Boot OtherOS"
  system,    \* what runs: "gameos", "otheros", "dead" with half an image
  asked,     \* ghost: OtherOS was asked for since the header was written
  misread,   \* ghost: a piece of this image could not be read
  choices, faults

vars == <<kind, magic, table, capacity, header, image, usb, at, reported,
          selected, system, asked, misread, choices, faults>>

NoHeader == [size |-> 0, flag |-> "none"]
Idle == -1
Smaller(a, b) == IF a <= b THEN a ELSE b

(* The size of region 5 once it is resized: C000 and 4200 sectors. *)
Resized == [vflash |-> MaxImage + HeaderSectors, nand |-> NandCount]

Init ==
  /\ kind \in {"vflash", "nand"}
  /\ magic \in BOOLEAN
  /\ table = "old"
  /\ capacity \in Capacities
  /\ header = NoHeader
  /\ image = 0
  /\ usb \in Images
  /\ at = Idle
  /\ reported = "none"
  /\ selected = 0
  /\ system = "gameos"
  /\ asked = FALSE
  /\ misread = FALSE
  /\ choices = 0
  /\ faults = 0

Idling == system = "gameos" /\ at = Idle

Operation == Idling /\ choices < MaxChoices /\ choices' = choices + 1

Fault(n) == faults + n <= MaxFaults /\ faults' = faults + n

Whole == image = header.size

-----------------------------------------------------------------------------
(* resize_vflash().  If the flag of the extended flash cannot be read,
   is_vflash_on() looks at a byte that was never written; each of the two
   functions reads its own sector and looks for the magic numbers.          *)
Resize(as, ok) ==
  /\ Operation
  /\ Fault((IF as = kind THEN 0 ELSE 1) + (IF ok THEN 0 ELSE 1))
  /\ LET patched == ok /\ as = kind /\ magic
     IN /\ table' = IF patched THEN as ELSE table
        /\ reported' = IF patched THEN "resized" ELSE "failed"
  /\ UNCHANGED <<kind, magic, capacity, header, image, usb, at, selected,
                 system, asked, misread>>

(* Mutant: the parameters in place keep their flag. *)
InstallHeaderKeepsFlag(ok) ==
  /\ Operation
  /\ Fault(IF ok THEN 0 ELSE 1)
  /\ IF ok /\ usb <= MaxImage /\ capacity >= HeaderSectors + usb
       THEN /\ header' = [size |-> usb,
                          flag |-> IF header = NoHeader THEN "gameos" ELSE header.flag]
            /\ image' = 0
            /\ at' = 0
            /\ asked' = FALSE
            /\ misread' = FALSE
            /\ UNCHANGED reported
       ELSE /\ reported' = "failed"
            /\ UNCHANGED <<header, image, at, asked, misread>>
  /\ UNCHANGED <<kind, magic, table, capacity, usb, selected, system>>

(* install_petiboot(): the checks, then the header.  Other files come before. *)
InstallHeader(ok) ==
  /\ Operation
  /\ Fault(IF ok THEN 0 ELSE 1)
  /\ IF ok /\ usb <= MaxImage /\ capacity >= HeaderSectors + usb
       THEN /\ header' = [size |-> usb, flag |-> "gameos"]
            /\ image' = 0
            /\ at' = 0
            /\ asked' = FALSE
            /\ misread' = FALSE
            /\ UNCHANGED reported
       ELSE /\ reported' = "failed"
            /\ UNCHANGED <<header, image, at, asked, misread>>
  /\ UNCHANGED <<kind, magic, table, capacity, usb, selected, system>>

(* The next piece.  fread()'s result is never negative: a piece that cannot be
   read is written as the buffer is.  The piece is lost if the write fails. *)
InstallPiece(read, ok) ==
  /\ at # Idle /\ at < header.size
  /\ Fault((IF read THEN 0 ELSE 1) + (IF ok THEN 0 ELSE 1))
  /\ LET next == at + Smaller(header.size - at, Chunk)
     IN /\ at' = IF ok THEN next ELSE Idle
        /\ image' = IF ok /\ read /\ image = at THEN next ELSE image
  /\ misread' = (misread \/ ~read)
  /\ reported' = IF ok THEN reported ELSE "failed"
  /\ UNCHANGED <<kind, magic, table, capacity, header, usb, selected, system,
                 asked, choices>>

InstallEnd ==
  /\ at # Idle /\ at >= header.size
  /\ at' = Idle
  /\ reported' = "installed"
  /\ UNCHANGED <<kind, magic, table, capacity, header, image, usb, selected,
                 system, asked, misread, choices, faults>>

-----------------------------------------------------------------------------
(* LV2 restarts, or the console, with header h: LV2 learns the size of the
   region, and the flag decides what starts.  Only on NAND does the region
   begin elsewhere; one that has moved holds no header.                     *)
Start(h) ==
  LET moved == table = "nand" /\ capacity # Resized["nand"]
      other == ~moved /\ h.flag = "otheros"
  IN /\ capacity' = IF table = "old" THEN capacity ELSE Resized[table]
     /\ header' = IF moved THEN NoHeader ELSE h
     /\ image' = IF moved THEN 0 ELSE image
     /\ system' = IF ~other THEN "gameos" ELSE IF Whole THEN "otheros" ELSE "dead"
     /\ selected' = 0

(* The first call that fails: one up to the read of the header, the write, the
   restart.                                                                 *)
Bad == {"none", "read", "write", "restart"}

(* A choice of "Boot OtherOS", 1 with all patches, 2 with the current ones: the
   choice shown is ignored, and it stays when its owner declines or a call
   fails.                                                                   *)
BootOtherOS(v, agreed, bad) ==
  /\ Operation
  /\ selected # v
  /\ bad # "none" => v # 0 /\ agreed
  /\ Fault(IF bad = "none" THEN 0 ELSE 1)
  /\ LET found == v # 0 /\ agreed /\ bad # "read" /\ capacity >= 2 /\ header # NoHeader
         set == found /\ (bad = "write" => header.flag = "otheros")
         new == IF set THEN [header EXCEPT !.flag = "otheros"] ELSE header
     IN /\ asked' = (asked \/ set)
        /\ IF set /\ bad # "restart"
             THEN Start(new) /\ UNCHANGED reported
             ELSE /\ header' = new
                  /\ selected' = v
                  /\ reported' = IF v # 0 /\ agreed THEN "failed" ELSE reported
                  /\ UNCHANGED <<system, capacity, image>>
  /\ UNCHANGED <<kind, magic, table, usb, at, misread>>

(* set_gameos_flag(), confirmed: nothing is said of a failure. *)
SetGameOsFlag(bad) ==
  /\ Operation
  /\ Fault(IF bad = "none" THEN 0 ELSE 1)
  /\ LET set == bad \notin {"read", "write"} /\ header.flag = "otheros"
         new == IF set THEN [header EXCEPT !.flag = "gameos"] ELSE header
     IN IF set /\ bad # "restart"
          THEN Start(new)
          ELSE /\ header' = new
               /\ UNCHANGED <<capacity, image, system, selected>>
  /\ reported' = IF bad # "read" /\ header.flag = "gameos" THEN "set" ELSE reported
  /\ UNCHANGED <<kind, magic, table, usb, at, asked, misread>>

Restart ==
  /\ Idling
  /\ Start(header)
  /\ UNCHANGED <<kind, magic, table, usb, at, reported, asked, misread, choices, faults>>

(* The power goes, during an installation too. *)
Cut ==
  /\ system = "gameos"
  /\ at # Idle
  /\ Fault(1)
  /\ at' = Idle
  /\ reported' = "cut"
  /\ Start(header)
  /\ UNCHANGED <<kind, magic, table, usb, asked, misread, choices>>

(* Another image is put on the USB device; OtherOS gives the console back. *)
NewFile(n) ==
  /\ Idling
  /\ usb' = n
  /\ UNCHANGED <<kind, magic, table, capacity, header, image, at, reported,
                 selected, system, asked, misread, choices, faults>>

OtherOsEnds ==
  /\ system = "otheros"
  /\ system' = "gameos"
  /\ header' = [header EXCEPT !.flag = "gameos"]
  /\ UNCHANGED <<kind, magic, table, capacity, image, usb, at, reported,
                 selected, asked, misread, choices, faults>>

Next ==
  \/ \E as \in {"vflash", "nand"}, ok \in BOOLEAN : Resize(as, ok)
  \/ \E ok \in BOOLEAN : InstallHeader(ok)
  \/ \E read, ok \in BOOLEAN : InstallPiece(read, ok)
  \/ InstallEnd
  \/ \E v \in 0 .. 2, agreed \in BOOLEAN, bad \in Bad :
       BootOtherOS(v, agreed, bad)
  \/ \E bad \in Bad : SetGameOsFlag(bad)
  \/ Restart \/ Cut \/ OtherOsEnds
  \/ \E n \in Images : NewFile(n)

Spec == Init /\ [][Next]_vars
-----------------------------------------------------------------------------
(* Types. *)
TypeOK ==
  /\ kind \in {"vflash", "nand"} /\ magic \in BOOLEAN
  /\ table \in {"old", kind}
  /\ capacity \in Capacities \cup {Resized[kind]}
  /\ header \in {NoHeader} \cup [size : Images, flag : {"gameos", "otheros"}]
  /\ image \in 0 .. header.size /\ usb \in Images
  /\ at \in {Idle} \cup 0 .. header.size
  /\ reported \in {"none", "resized", "installed", "failed", "set", "cut"}
  /\ selected \in 0 .. 2 /\ system \in {"gameos", "otheros", "dead"}
  /\ asked \in BOOLEAN /\ misread \in BOOLEAN
  /\ choices \in 0 .. MaxChoices /\ faults \in 0 .. MaxFaults

(* A new header says GameOS, and it is written before the image: an installation
   that fails or is cut short does not make the console start half an image
   unless its owner has asked for OtherOS since.                            *)
NoSurprise ==
  /\ system = "dead" => asked /\ faults > 0
  /\ header.flag = "otheros" => asked

(* The image is in place when the installation says so, unless a piece could
   not be read, which it does not notice.                                   *)
InstalledIsWhole ==
  at = Idle /\ reported = "installed" /\ ~misread => Whole

(* Header and image are inside the region that LV2 knows, and stay inside when
   it is resized and the console restarts: 0xBFFC is what fits then.        *)
InRegion ==
  header # NoHeader => HeaderSectors + header.size <= capacity

(* A header never makes a broken or foreign system start: the three above. *)
OtherOsSafe == NoSurprise /\ InstalledIsWhole /\ InRegion

=============================================================================
