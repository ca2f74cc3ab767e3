--------------------------- MODULE OtherOs_proofs ---------------------------
(* Theorems about OtherOs for every size of image, region and piece, and any
   number of operations and failures.  The inductive invariant follows an
   installation: between two pieces, what is in place ends where the next
   piece goes, unless a piece could not be read; and an image is left
   incomplete by a failure only.                                            *)
EXTENDS OtherOs, TLAPS

(* An installation is running: nothing else is, and it is where it thinks.  The
   other system runs from a header.                                         *)
Running ==
  /\ at # Idle =>
       /\ system = "gameos"
       /\ misread \/ image = at
  /\ system = "otheros" => header # NoHeader

(* An incomplete image has a failure behind it. *)
Blamed ==
  /\ misread => faults > 0
  /\ at = Idle /\ ~Whole => faults > 0

(* The size of a header was checked before it was written. *)
Checked == header.size <= MaxImage /\ InRegion

IInv == TypeOK /\ Running /\ Blamed /\ NoSurprise /\ InstalledIsWhole /\ Checked

Headers == {NoHeader} \cup [size : Images, flag : {"gameos", "otheros"}]

-----------------------------------------------------------------------------
(* Setting the flag keeps the rest of the header. *)
LEMMA FlagSet ==
  ASSUME NEW h \in Headers, h # NoHeader, NEW f \in {"gameos", "otheros"}
  PROVE  LET new == [h EXCEPT !.flag = f]
         IN new \in Headers /\ new # NoHeader /\ new.size = h.size /\ new.flag = f
  <1>1. h \in [size : Images, flag : {"gameos", "otheros"}]
    BY DEF Headers
  <1> QED
    BY <1>1 DEF Headers, NoHeader

(* A header's size is a number of sectors. *)
LEMMA SizeIsNat ==
  ASSUME NEW h \in Headers
  PROVE  h.size \in Nat /\ (h = NoHeader => h.size = 0 /\ h.flag = "none")
  <1>1. CASE h = NoHeader
    BY <1>1 DEF NoHeader
  <1>2. CASE h # NoHeader
    <2>1. h \in [size : Images, flag : {"gameos", "otheros"}]
      BY <1>2 DEF Headers
    <2> QED
      BY <1>2, <2>1, OtherOsAssumption
  <1> QED
    BY <1>1, <1>2

(* A failure is counted. *)
LEMMA FaultCounts ==
  ASSUME TypeOK, NEW n \in Nat, Fault(n)
  PROVE  /\ faults' \in 0 .. MaxFaults
         /\ faults' >= faults
         /\ n > 0 => faults' > 0
  BY OtherOsAssumption DEF TypeOK, Fault

(* A start of the console with a header h of the same size as before, whose flag
   somebody has asked for, between two operations or after a failure.       *)
LEMMA StartKeeps ==
  ASSUME IInv, NEW h \in Headers, h.size = header.size, Start(h),
         h # NoHeader => header # NoHeader,
         h.flag = "otheros" => asked',
         asked => asked',
         asked' \in BOOLEAN,
         faults' \in 0 .. MaxFaults, faults' >= faults,
         at' = Idle,
         at = Idle \/ faults' > 0,
         reported' \in {"none", "resized", "installed", "failed", "set", "cut"},
         reported' = "installed" => at = Idle /\ reported = "installed",
         choices' \in 0 .. MaxChoices,
         UNCHANGED <<kind, magic, table, usb, misread>>
  PROVE  IInv'
  <1> USE OtherOsAssumption
  <1> DEFINE moved == table = "nand" /\ capacity # Resized["nand"]
             other == ~moved /\ h.flag = "otheros"
  <1>0. /\ capacity' = IF table = "old" THEN capacity ELSE Resized[table]
        /\ header' = IF moved THEN NoHeader ELSE h
        /\ image' = IF moved THEN 0 ELSE image
        /\ system' = IF ~other THEN "gameos" ELSE IF Whole THEN "otheros" ELSE "dead"
        /\ selected' = 0
    BY DEF Start
  <1>1. /\ kind \in {"vflash", "nand"} /\ table \in {"old", kind}
        /\ capacity \in Capacities \cup {Resized[kind]}
        /\ header \in Headers /\ image \in 0 .. header.size
    BY DEF IInv, TypeOK, Headers
  <1>2. header.size \in Nat /\ NoHeader.size = 0 /\ NoHeader.flag = "none"
    BY <1>1, SizeIsNat DEF NoHeader
  <1>3. capacity' \in Capacities \cup {Resized[kind]}
    BY <1>0, <1>1
  <1>4. header' \in Headers /\ image' \in 0 .. header'.size /\ NoHeader \in Headers
    <2>1. NoHeader \in Headers
      BY DEF Headers
    <2>2. CASE moved
      BY <1>0, <1>2, <2>1, <2>2
    <2>3. CASE ~moved
      BY <1>0, <1>1, <1>2, <2>1, <2>3
    <2> QED
      BY <2>2, <2>3
  <1>5. TypeOK'
    <2>1. magic' \in BOOLEAN /\ asked' \in BOOLEAN /\ misread' \in BOOLEAN
      BY Zenon DEF IInv, TypeOK
    <2>2. system' \in {"gameos", "otheros", "dead"} /\ selected' \in 0 .. 2
      BY <1>0
    <2>3. usb' \in Images /\ at' \in {Idle} \cup 0 .. header'.size
      BY DEF IInv, TypeOK
    <2> QED
      BY <1>1, <1>3, <1>4, <2>1, <2>2, <2>3 DEF TypeOK, Headers
  <1>6. faults \in Nat /\ (misread => faults > 0) /\ (at = Idle /\ ~Whole => faults > 0)
    BY DEF IInv, TypeOK, Blamed
  <1>7. ~Whole => faults' > 0
    BY <1>6 DEF IInv, TypeOK
  <1>8. Whole => Whole'
    <2>1. CASE moved
      BY <1>0, <1>2, <2>1 DEF Whole
    <2>2. CASE ~moved
      BY <1>0, <2>2 DEF Whole
    <2> QED
      BY <2>1, <2>2
  <1>9. Running'
    <2>1. system' = "otheros" => header' # NoHeader
      BY <1>0, <1>2
    <2> QED
      BY <2>1 DEF Running
  <1>10. Blamed'
    BY <1>6, <1>7, <1>8 DEF Blamed
  <1>11. NoSurprise'
    <2>1. system' = "dead" => asked' /\ faults' > 0
      BY <1>0, <1>7
    <2>2. header'.flag = "otheros" => asked'
      <3>1. CASE moved
        BY <1>0, <1>2, <3>1
      <3>2. CASE ~moved
        BY <1>0, <3>2
      <3> QED
        BY <3>1, <3>2
    <2> QED
      BY <2>1, <2>2 DEF NoSurprise
  <1>12. InstalledIsWhole'
    BY <1>8 DEF IInv, InstalledIsWhole
  <1>13. Checked'
    <2>1. header'.size <= MaxImage
      BY <1>0, <1>2 DEF IInv, Checked
    <2>2. ASSUME header' # NoHeader
          PROVE  HeaderSectors + header'.size <= capacity'
      <3>1. ~moved /\ header' = h
        BY <1>0, <2>2
      <3>2. header.size <= MaxImage
        BY DEF IInv, Checked
      <3>3. CASE table = "vflash"
        <4>1. capacity' = MaxImage + HeaderSectors
          BY <1>0, <3>3 DEF Resized
        <4> QED
          BY <1>2, <3>1, <3>2, <4>1 DEF HeaderSectors
      <3>4. CASE table # "vflash"
        <4>1. capacity' = capacity
          BY <1>0, <1>1, <3>1, <3>4
        <4>2. header # NoHeader
          BY <2>2, <3>1
        <4> QED
          BY <3>1, <4>1, <4>2 DEF IInv, Checked, InRegion
      <3> QED
        BY <3>3, <3>4
    <2> QED
      BY <2>1, <2>2 DEF Checked, InRegion
  <1> QED
    BY <1>5, <1>9, <1>10, <1>11, <1>12, <1>13 DEF IInv

-----------------------------------------------------------------------------
LEMMA InitInv == Init => IInv
  <1> SUFFICES ASSUME Init PROVE IInv
    OBVIOUS
  <1> USE OtherOsAssumption
  <1>1. /\ table = "old" /\ capacity \in Capacities /\ header = NoHeader
        /\ image = 0 /\ at = Idle /\ reported = "none" /\ selected = 0
        /\ system = "gameos" /\ choices = 0 /\ faults = 0
        /\ kind \in {"vflash", "nand"} /\ usb \in Images
        /\ asked = FALSE /\ misread = FALSE
    BY DEF Init
  <1>2. magic \in BOOLEAN
    BY Zenon DEF Init
  <1>3. NoHeader.size = 0 /\ NoHeader.flag = "none"
    BY DEF NoHeader
  <1>4. TypeOK
    <2>1. asked \in BOOLEAN /\ misread \in BOOLEAN
      BY <1>1
    <2>2. at \in {Idle} \cup 0 .. header.size /\ image \in 0 .. header.size
      BY <1>1, <1>3
    <2> QED
      BY <1>1, <1>2, <2>1, <2>2 DEF TypeOK
  <1> QED
    BY <1>1, <1>3, <1>4
    DEF IInv, Running, Blamed, NoSurprise, InstalledIsWhole, Checked, InRegion, Whole

(* Resizing changes the table only: the region follows at the next start. *)
LEMMA ResizeInv ==
  ASSUME IInv, NEW as \in {"vflash", "nand"}, NEW ok \in BOOLEAN, Resize(as, ok)
  PROVE  IInv'
  <1>1. /\ UNCHANGED <<kind, magic, capacity, header, image, usb, at, selected,
                       system, asked, misread>>
        /\ at = Idle
    BY DEF Resize, Operation, Idling
  <1>2. /\ table' \in {table, kind} /\ reported' \in {"resized", "failed"}
    BY DEF Resize
  <1>3. choices' \in 0 .. MaxChoices /\ faults' \in 0 .. MaxFaults /\ faults' >= faults
    <2> DEFINE n == (IF as = kind THEN 0 ELSE 1) + (IF ok THEN 0 ELSE 1)
    <2>1. n \in Nat /\ Fault(n)
      <3>1. Fault(n)
        BY Zenon DEF Resize
      <3>2. n \in Nat
        <4>1. (IF as = kind THEN 0 ELSE 1) \in Nat
          OBVIOUS
        <4>2. (IF ok THEN 0 ELSE 1) \in Nat
          BY Zenon
        <4>3. \A i, j \in Nat : i + j \in Nat
          OBVIOUS
        <4> QED
          BY <4>1, <4>2, <4>3, Zenon
      <3> QED
        BY <3>1, <3>2
    <2> HIDE DEF n
    <2>2. faults' \in 0 .. MaxFaults /\ faults' >= faults
      BY <2>1, FaultCounts DEF IInv
    <2> QED
      BY <2>2, OtherOsAssumption DEF Resize, Operation, IInv, TypeOK
  <1>4. TypeOK'
    BY <1>1, <1>2, <1>3 DEF IInv, TypeOK
  <1> QED
    BY <1>1, <1>2, <1>3, <1>4
    DEF IInv, TypeOK, Running, Blamed, NoSurprise, InstalledIsWhole, Checked,
        InRegion, Whole

(* The header is written for an image that fits, and nothing of it is there. *)
LEMMA InstallHeaderInv ==
  ASSUME IInv, NEW ok \in BOOLEAN, InstallHeader(ok)
  PROVE  IInv'
  <1> USE OtherOsAssumption
  <1>1. /\ UNCHANGED <<kind, magic, table, capacity, usb, selected, system>>
        /\ at = Idle /\ system = "gameos"
    BY DEF InstallHeader, Operation, Idling
  <1>2. choices' \in 0 .. MaxChoices /\ faults' \in 0 .. MaxFaults /\ faults' >= faults
    BY DEF InstallHeader, Operation, Fault, IInv, TypeOK
  <1>3. CASE ok /\ usb <= MaxImage /\ capacity >= HeaderSectors + usb
    <2>1. /\ header' = [size |-> usb, flag |-> "gameos"] /\ image' = 0 /\ at' = 0
          /\ asked' = FALSE /\ misread' = FALSE /\ reported' = reported
      BY <1>3 DEF InstallHeader
    <2>2. usb \in Images /\ usb \in Nat
      BY DEF IInv, TypeOK
    <2>3. header' \in Headers /\ header'.size = usb /\ header'.flag = "gameos"
      BY <2>1, <2>2 DEF Headers
    <2>4. TypeOK'
      <3>1. magic' \in BOOLEAN /\ asked' \in BOOLEAN /\ misread' \in BOOLEAN
        BY <1>1, <2>1, Zenon DEF IInv, TypeOK
      <3>2. image' \in 0 .. header'.size /\ at' \in {Idle} \cup 0 .. header'.size
        BY <2>1, <2>2, <2>3
      <3> QED
        BY <1>1, <1>2, <2>1, <2>3, <3>1, <3>2 DEF IInv, TypeOK, Headers
    <2>5. Running' /\ Blamed' /\ InstalledIsWhole'
      BY <1>1, <2>1 DEF Running, Blamed, InstalledIsWhole, Idle
    <2>6. NoSurprise'
      BY <1>1, <2>3 DEF NoSurprise
    <2>7. Checked'
      BY <1>1, <1>3, <2>3 DEF Checked, InRegion
    <2> QED
      BY <2>4, <2>5, <2>6, <2>7 DEF IInv
  <1>4. CASE ~(ok /\ usb <= MaxImage /\ capacity >= HeaderSectors + usb)
    <2>1. reported' = "failed" /\ UNCHANGED <<header, image, at, asked, misread>>
      BY <1>4 DEF InstallHeader
    <2>2. TypeOK'
      BY <1>1, <1>2, <2>1 DEF IInv, TypeOK
    <2> QED
      BY <1>1, <1>2, <2>1, <2>2
      DEF IInv, TypeOK, Running, Blamed, NoSurprise, InstalledIsWhole, Checked,
          InRegion, Whole
  <1> QED
    BY <1>3, <1>4

(* A piece that is read and written moves both ends on together. *)
LEMMA InstallPieceInv ==
  ASSUME IInv, NEW read \in BOOLEAN, NEW ok \in BOOLEAN, InstallPiece(read, ok)
  PROVE  IInv'
  <1> USE OtherOsAssumption
  <1> DEFINE next == at + Smaller(header.size - at, Chunk)
  <1>1. /\ UNCHANGED <<kind, magic, table, capacity, header, usb, selected,
                       system, asked, choices>>
        /\ at # Idle /\ at < header.size
        /\ at' = IF ok THEN next ELSE Idle
        /\ image' = IF ok /\ read /\ image = at THEN next ELSE image
        /\ misread' = (misread \/ ~read)
        /\ reported' = IF ok THEN reported ELSE "failed"
    BY DEF InstallPiece
  <1>2. header \in Headers /\ header.size \in Nat
    BY SizeIsNat DEF IInv, TypeOK, Headers
  <1>3. at \in 0 .. header.size /\ image \in 0 .. header.size
    BY <1>1 DEF IInv, TypeOK
  <1>4. next \in 0 .. header.size
    BY <1>1, <1>2, <1>3 DEF Smaller
  <1>5. faults \in Nat /\ faults' \in 0 .. MaxFaults /\ faults' >= faults
        /\ (~read => faults' > 0) /\ (~ok => faults' > 0)
    BY DEF InstallPiece, Fault, IInv, TypeOK
  <1>6. system = "gameos" /\ (misread \/ image = at)
    BY <1>1 DEF IInv, Running
  <1> HIDE DEF next
  <1>7. TypeOK'
    <2>1. magic' \in BOOLEAN /\ asked' \in BOOLEAN /\ misread' \in BOOLEAN
      BY <1>1, Zenon DEF IInv, TypeOK
    <2>2. image' \in 0 .. header'.size /\ at' \in {Idle} \cup 0 .. header'.size
      BY <1>1, <1>3, <1>4
    <2> QED
      BY <1>1, <1>5, <2>1, <2>2 DEF IInv, TypeOK
  <1>8. Running'
    BY <1>1, <1>6 DEF IInv, Running
  <1>9. Blamed'
    <2>1. misread => faults' > 0
      BY <1>5 DEF IInv, Blamed
    <2>2. at' = Idle => ~ok
      BY <1>1, <1>4 DEF Idle
    <2> QED
      BY <1>1, <1>5, <2>1, <2>2 DEF Blamed
  <1>10. NoSurprise' /\ Checked'
    BY <1>1, <1>6 DEF IInv, NoSurprise, Checked, InRegion
  <1>11. InstalledIsWhole'
    <2>1. at' = Idle => reported' = "failed"
      BY <1>1, <1>4 DEF Idle
    <2> QED
      BY <2>1 DEF InstalledIsWhole
  <1> QED
    BY <1>7, <1>8, <1>9, <1>10, <1>11 DEF IInv

(* The last piece is behind: unless one was misread, the image is whole. *)
LEMMA InstallEndInv ==
  ASSUME IInv, InstallEnd
  PROVE  IInv'
  <1> USE OtherOsAssumption
  <1>1. /\ UNCHANGED <<kind, magic, table, capacity, header, image, usb, selected,
                       system, asked, misread, choices, faults>>
        /\ at # Idle /\ at >= header.size /\ at' = Idle /\ reported' = "installed"
    BY DEF InstallEnd
  <1>2. header.size \in Nat /\ at \in 0 .. header.size
    BY <1>1, SizeIsNat DEF IInv, TypeOK, Headers
  <1>3. ~misread => Whole
    BY <1>1, <1>2 DEF IInv, Running, Whole
  <1>4. TypeOK'
    BY <1>1 DEF IInv, TypeOK
  <1>5. Whole' <=> Whole
    BY <1>1 DEF Whole
  <1> QED
    BY <1>1, <1>3, <1>4, <1>5
    DEF IInv, Running, Blamed, NoSurprise, InstalledIsWhole, Checked, InRegion

(* A choice of "Boot OtherOS": the flag is set by its owner's wish only. *)
LEMMA BootOtherOSInv ==
  ASSUME IInv, NEW v \in 0 .. 2, NEW agreed \in BOOLEAN, NEW bad \in Bad,
         BootOtherOS(v, agreed, bad)
  PROVE  IInv'
  <1> USE OtherOsAssumption
  <1> DEFINE found == v # 0 /\ agreed /\ bad # "read" /\ capacity >= 2 /\ header # NoHeader
             set == found /\ (bad = "write" => header.flag = "otheros")
             new == IF set THEN [header EXCEPT !.flag = "otheros"] ELSE header
  <1>1. /\ UNCHANGED <<kind, magic, table, usb, at, misread>>
        /\ at = Idle /\ system = "gameos"
        /\ asked' = (asked \/ set)
        /\ choices' = choices + 1 /\ choices < MaxChoices
    BY Zenon DEF BootOtherOS, Operation, Idling
  <1>2. \/ /\ set /\ Start(new) /\ reported' = reported
        \/ /\ header' = new /\ selected' = v /\ reported' \in {"failed", reported}
           /\ UNCHANGED <<system, capacity, image>>
    BY DEF BootOtherOS
  <1>3. faults' \in 0 .. MaxFaults /\ faults' >= faults
    <2>1. PICK n \in Nat : Fault(n)
      BY DEF BootOtherOS
    <2> QED
      BY <2>1, FaultCounts DEF IInv
  <1>4. choices' \in 0 .. MaxChoices /\ asked' \in BOOLEAN
    BY <1>1 DEF IInv, TypeOK
  <1>5. header \in Headers /\ header.size \in Nat
    BY SizeIsNat DEF IInv, TypeOK, Headers
  <1>6. new \in Headers /\ new.size = header.size /\ (new # NoHeader => header # NoHeader)
        /\ (new.flag = "otheros" => asked')
    <2>1. CASE set
      BY <1>1, <1>5, <2>1, FlagSet
    <2>2. CASE ~set
      BY <1>1, <1>5, <2>2 DEF IInv, NoSurprise
    <2> QED
      BY <2>1, <2>2
  <1> HIDE DEF new, set
  <1>7. CASE set /\ Start(new) /\ reported' = reported
    <2>1. reported' \in {"none", "resized", "installed", "failed", "set", "cut"}
      BY <1>7 DEF IInv, TypeOK
    <2> QED
      BY <1>1, <1>3, <1>4, <1>6, <1>7, <2>1, StartKeeps
  <1>8. CASE /\ header' = new /\ selected' = v /\ reported' \in {"failed", reported}
             /\ UNCHANGED <<system, capacity, image>>
    <2>1. Whole' <=> Whole
      BY <1>6, <1>8 DEF Whole
    <2>2. TypeOK'
      <3>1. magic' \in BOOLEAN /\ misread' \in BOOLEAN
        BY <1>1, Zenon DEF IInv, TypeOK
      <3>2. at' \in {Idle} \cup 0 .. header'.size /\ image' \in 0 .. header'.size
        BY <1>1, <1>6, <1>8 DEF IInv, TypeOK
      <3> QED
        BY <1>1, <1>3, <1>4, <1>6, <1>8, <3>1, <3>2 DEF IInv, TypeOK, Headers
    <2>3. Running' /\ Blamed' /\ NoSurprise'
      BY <1>1, <1>3, <1>6, <1>8, <2>1 DEF IInv, TypeOK, Running, Blamed, NoSurprise
    <2>4. InstalledIsWhole'
      BY <1>1, <1>8, <2>1 DEF IInv, InstalledIsWhole
    <2>5. Checked'
      BY <1>6, <1>8 DEF IInv, Checked, InRegion
    <2> QED
      BY <2>2, <2>3, <2>4, <2>5 DEF IInv
  <1> QED
    BY <1>2, <1>7, <1>8

(* set_gameos_flag() takes the flag back. *)
LEMMA SetGameOsFlagInv ==
  ASSUME IInv, NEW bad \in Bad, SetGameOsFlag(bad)
  PROVE  IInv'
  <1> USE OtherOsAssumption
  <1> DEFINE set == bad \notin {"read", "write"} /\ header.flag = "otheros"
             new == IF set THEN [header EXCEPT !.flag = "gameos"] ELSE header
  <1>1. /\ UNCHANGED <<kind, magic, table, usb, at, asked, misread>>
        /\ at = Idle /\ system = "gameos"
        /\ choices' = choices + 1 /\ choices < MaxChoices
    BY Zenon DEF SetGameOsFlag, Operation, Idling
  <1>2. reported' \in {"set", reported}
    BY DEF SetGameOsFlag
  <1>3. Start(new) \/ (header' = new /\ UNCHANGED <<capacity, image, system, selected>>)
    BY DEF SetGameOsFlag
  <1>4. faults' \in 0 .. MaxFaults /\ faults' >= faults
    <2>1. PICK n \in Nat : Fault(n)
      BY DEF SetGameOsFlag
    <2> QED
      BY <2>1, FaultCounts DEF IInv
  <1>5. choices' \in 0 .. MaxChoices
    BY <1>1 DEF IInv, TypeOK
  <1>6. header \in Headers /\ header.size \in Nat
        /\ (header = NoHeader => header.flag = "none")
    BY SizeIsNat DEF IInv, TypeOK, Headers
  <1>7. new \in Headers /\ new.size = header.size /\ (new # NoHeader => header # NoHeader)
        /\ (new.flag = "otheros" => asked)
    <2>1. CASE set
      BY <1>6, <2>1, FlagSet
    <2>2. CASE ~set
      BY <1>6, <2>2 DEF IInv, NoSurprise
    <2> QED
      BY <2>1, <2>2
  <1> HIDE DEF new, set
  <1>8. asked \in BOOLEAN /\ asked' = asked
    BY <1>1 DEF IInv, TypeOK
  <1>9. CASE Start(new)
    <2>1. reported' \in {"none", "resized", "installed", "failed", "set", "cut"}
      BY <1>2 DEF IInv, TypeOK
    <2> QED
      BY <1>1, <1>2, <1>4, <1>5, <1>7, <1>8, <1>9, <2>1, StartKeeps
  <1>10. CASE header' = new /\ UNCHANGED <<capacity, image, system, selected>>
    <2>1. Whole' <=> Whole
      BY <1>7, <1>10 DEF Whole
    <2>2. TypeOK'
      <3>1. magic' \in BOOLEAN /\ misread' \in BOOLEAN
        BY <1>1, Zenon DEF IInv, TypeOK
      <3>2. at' \in {Idle} \cup 0 .. header'.size /\ image' \in 0 .. header'.size
        BY <1>1, <1>7, <1>10 DEF IInv, TypeOK
      <3> QED
        BY <1>1, <1>2, <1>4, <1>5, <1>7, <1>8, <1>10, <3>1, <3>2
        DEF IInv, TypeOK, Headers
    <2>3. Running' /\ Blamed' /\ NoSurprise'
      BY <1>1, <1>4, <1>7, <1>10, <2>1 DEF IInv, TypeOK, Running, Blamed, NoSurprise
    <2>4. InstalledIsWhole'
      BY <1>1, <1>2, <1>10, <2>1 DEF IInv, InstalledIsWhole
    <2>5. Checked'
      BY <1>7, <1>10 DEF IInv, Checked, InRegion
    <2> QED
      BY <2>2, <2>3, <2>4, <2>5 DEF IInv
  <1> QED
    BY <1>3, <1>9, <1>10

LEMMA RestartInv ==
  ASSUME IInv, Restart
  PROVE  IInv'
  <1>1. /\ UNCHANGED <<kind, magic, table, usb, at, reported, asked, misread,
                       choices, faults>>
        /\ at = Idle /\ Start(header)
    BY DEF Restart, Idling
  <1>2. header \in Headers /\ (header.flag = "otheros" => asked)
    BY DEF IInv, TypeOK, Headers, NoSurprise
  <1>3. asked \in BOOLEAN /\ faults \in 0 .. MaxFaults /\ choices \in 0 .. MaxChoices
        /\ reported \in {"none", "resized", "installed", "failed", "set", "cut"}
    BY DEF IInv, TypeOK
  <1> QED
    BY <1>1, <1>2, <1>3, StartKeeps

(* A power cut may leave a part of an image, under a header that says GameOS. *)
LEMMA CutInv ==
  ASSUME IInv, Cut
  PROVE  IInv'
  <1>1. /\ UNCHANGED <<kind, magic, table, usb, asked, misread, choices>>
        /\ at' = Idle /\ Start(header) /\ reported' = "cut"
    BY DEF Cut
  <1>2. header \in Headers /\ (header.flag = "otheros" => asked)
    BY DEF IInv, TypeOK, Headers, NoSurprise
  <1>3. asked \in BOOLEAN /\ choices \in 0 .. MaxChoices
    BY DEF IInv, TypeOK
  <1>4. faults' \in 0 .. MaxFaults /\ faults' >= faults /\ faults' > 0
    BY FaultCounts DEF IInv, Cut
  <1> QED
    BY <1>1, <1>2, <1>3, <1>4, StartKeeps

LEMMA NewFileInv ==
  ASSUME IInv, NEW n \in Images, NewFile(n)
  PROVE  IInv'
  BY DEF NewFile, IInv, TypeOK, Running, Blamed, NoSurprise, InstalledIsWhole,
         Checked, InRegion, Whole

LEMMA OtherOsEndsInv ==
  ASSUME IInv, OtherOsEnds
  PROVE  IInv'
  <1>1. /\ system = "otheros" /\ system' = "gameos"
        /\ header' = [header EXCEPT !.flag = "gameos"]
        /\ UNCHANGED <<kind, magic, table, capacity, image, usb, at, reported,
                       selected, asked, misread, choices, faults>>
    BY DEF OtherOsEnds
  <1>2. header \in Headers /\ header # NoHeader
    BY <1>1 DEF IInv, TypeOK, Headers, Running
  <1>3. header' \in Headers /\ header'.size = header.size /\ header'.flag = "gameos"
    BY <1>1, <1>2, FlagSet
  <1>4. Whole' <=> Whole
    BY <1>1, <1>3 DEF Whole
  <1>5. TypeOK'
    <2>1. magic' \in BOOLEAN /\ asked' \in BOOLEAN /\ misread' \in BOOLEAN
      BY <1>1, Zenon DEF IInv, TypeOK
    <2>2. at' \in {Idle} \cup 0 .. header'.size /\ image' \in 0 .. header'.size
      BY <1>1, <1>3 DEF IInv, TypeOK
    <2> QED
      BY <1>1, <1>3, <2>1, <2>2 DEF IInv, TypeOK, Headers
  <1>6. Running' /\ Blamed' /\ NoSurprise'
    BY <1>1, <1>3, <1>4 DEF IInv, Running, Blamed, NoSurprise
  <1>7. InstalledIsWhole'
    BY <1>1, <1>4 DEF IInv, InstalledIsWhole
  <1>8. Checked'
    BY <1>1, <1>2, <1>3 DEF IInv, Checked, InRegion
  <1> QED
    BY <1>5, <1>6, <1>7, <1>8 DEF IInv

LEMMA StepInv == IInv /\ [Next]_vars => IInv'
  <1> SUFFICES ASSUME IInv, [Next]_vars PROVE IInv'
    OBVIOUS
  <1>1. ASSUME NEW as \in {"vflash", "nand"}, NEW ok \in BOOLEAN, Resize(as, ok)
        PROVE  IInv'
    BY <1>1, ResizeInv
  <1>2. ASSUME NEW ok \in BOOLEAN, InstallHeader(ok) PROVE IInv'
    BY <1>2, InstallHeaderInv
  <1>3. ASSUME NEW read \in BOOLEAN, NEW ok \in BOOLEAN, InstallPiece(read, ok)
        PROVE  IInv'
    BY <1>3, InstallPieceInv
  <1>4. CASE InstallEnd
    BY <1>4, InstallEndInv
  <1>5. ASSUME NEW v \in 0 .. 2, NEW agreed \in BOOLEAN, NEW bad \in Bad,
               BootOtherOS(v, agreed, bad)
        PROVE  IInv'
    BY <1>5, BootOtherOSInv
  <1>6. ASSUME NEW bad \in Bad, SetGameOsFlag(bad) PROVE IInv'
    BY <1>6, SetGameOsFlagInv
  <1>7. CASE Restart
    BY <1>7, RestartInv
  <1>8. CASE Cut
    BY <1>8, CutInv
  <1>9. CASE OtherOsEnds
    BY <1>9, OtherOsEndsInv
  <1>10. ASSUME NEW n \in Images, NewFile(n) PROVE IInv'
    BY <1>10, NewFileInv
  <1>11. CASE UNCHANGED vars
    BY <1>11
    DEF vars, IInv, TypeOK, Running, Blamed, NoSurprise, InstalledIsWhole, Checked,
        InRegion, Whole
  <1> QED
    BY <1>1, <1>2, <1>3, <1>4, <1>5, <1>6, <1>7, <1>8, <1>9, <1>10, <1>11 DEF Next

-----------------------------------------------------------------------------
(* The three parts of the property are parts of the invariant. *)
LEMMA InvImpliesSafe == IInv => OtherOsSafe
  BY DEF IInv, Checked, OtherOsSafe

(* Header, image and flag fit each other, whatever fails and whenever the power
   goes.                                                                    *)
THEOREM OtherOsInvariant == Spec => []IInv
  <1> QED
    BY InitInv, StepInv, PTL DEF Spec

(* Types of the flash's region and of the operations on it. *)
THEOREM TypeCorrect == Spec => []TypeOK
  <1>1. IInv => TypeOK
    BY DEF IInv
  <1> QED
    BY <1>1, OtherOsInvariant, PTL

(* No installation that failed or was cut starts unasked, a reported one is whole
   if its pieces could be read, and the image stays inside the region, for any
   sizes, any number of operations and any number of failures.              *)
THEOREM OtherOsIsSafe == Spec => []OtherOsSafe
  <1> QED
    BY InvImpliesSafe, OtherOsInvariant, PTL
=============================================================================
