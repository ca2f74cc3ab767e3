------------------------- MODULE FlashTarget_proofs -------------------------
(***************************************************************************)
(* Proofs about FlashTarget, for any regions, number of plug-ins and bound *)
(* of faults.  KernelInv describes the banks and the search through them   *)
(* whatever fails.  QuietInv describes the operations as long as nothing   *)
(* has failed: the target, the kernels and the plug-ins agree, or one of   *)
(* the three is on its way.                                                *)
(***************************************************************************)
EXTENDS FlashTarget, FiniteSetTheorems, TLAPS

Both == [j \in Kinds |-> "_"]
Neither == [j \in Kinds |-> Spare(j)]
Standard == {Active("cex"), Active("dex"), Foreign}

\* A bank after a successful look at it: the wanted kernel is active, or the
\* bank is one that search_flash() passes over.
Settled(b, k) == bank[b] \in {Active(k), Foreign, Both, Neither}

KernelInv ==
    /\ \A b \in ROS : bank[b] \in Standard \cup {Both, Neither}
    /\ pc \in {"convert", "file", "settle", "rename", "search"} => told = "none"
    /\ pc = "search" =>
          /\ \A b \in ROS \ missed : b < m => Settled(b, mode)
          /\ ros > 0 => \E b \in ROS : b < m /\ bank[b] = Active(mode)
    /\ told = "changed" =>
          /\ \A b \in ROS \ missed : Settled(b, mode)
          /\ \E b \in ROS : bank[b] = Active(mode)

\* No DEX kernel beside a CEX target.
KernelsAgree == id0 # DEX => \A b \in ROS : bank[b] \in {Active("cex"), Foreign}

\* Plug-in p after s renames towards kind k.
HalfMoved(k) == [n \in Names |-> IF n = "sprx" THEN "none" ELSE n]
PluginAt(p, s, k) ==
    /\ 2 * p <= s => module[p] = Installed(k)
    /\ 2 * p = s + 1 => module[p] \in {Installed(k), HalfMoved(k)}
    /\ 2 * p > s + 1 => \E j \in Kinds : module[p] = Installed(j)

\* The operation, the target and the storage calls.
QuietControl ==
    /\ id0 \in Targets
    /\ pc = "convert" => op = "convert"
    /\ pc = "file" => op = "file"
    /\ pc \in {"settle", "rename"} => op # "swap"
    /\ pc = "rename" => dexFlash = (id0 = DEX)
    /\ pc = "search" => rr

QuietPlugins ==
    /\ pc = "settle" => \A p \in 1 .. Plugins : \E j \in Kinds : module[p] = Installed(j)
    /\ pc = "rename" => \A p \in 1 .. Plugins : PluginAt(p, step, KindOf(id0))
    /\ pc \notin {"settle", "rename"} =>
          \A p \in 1 .. Plugins : module[p] = Installed(KindOf(id0))

QuietKernels ==
    /\ \A b \in ROS : bank[b] \in Standard
    /\ pc \notin {"settle", "rename", "search"} => KernelsAgree
    /\ pc \in {"settle", "rename"} /\ refused => KernelsAgree
    /\ pc = "search" =>
          \/ op = "swap" /\ id0 = DEX
          \/ /\ op # "swap" /\ id0 # DEX /\ mode = "cex"
             /\ \A b \in ROS : b < m => bank[b] \in {Active("cex"), Foreign}
    /\ pc = "search" /\ refused => KernelsAgree /\ ros = 0

QuietRefusal ==
    /\ pc \in {"convert", "file"} => ~refused
    /\ pc \in {"settle", "rename", "search", "report"} =>
          (errorFile <=> refused) /\ told # "refused" /\ (refused => op = "convert")
    /\ pc \notin {"settle", "rename", "search", "report"} =>
          ~errorFile /\ (refused <=> told = "refused")

Quiet == QuietControl /\ QuietPlugins /\ QuietKernels /\ QuietRefusal

QuietInv == faults = 0 => Quiet

-----------------------------------------------------------------------------
LEMMA KernelKinds == \A k \in Kinds : Other(k) \in Kinds /\ Other(k) # k /\ Other(Other(k)) = k
  BY DEF Kinds, Other

LEMMA BankTypes ==
  ASSUME NEW b \in Standard \cup {Both, Neither}
  PROVE  b \in [Kinds -> Letters]
  BY DEF Standard, Both, Neither, Active, Foreign, Kinds, Letters, Spare

LEMMA RenamedType ==
  ASSUME NEW b \in [Kinds -> Letters], NEW k \in Kinds
  PROVE  Renamed(b, k) \in [Kinds -> Letters]
  BY DEF Renamed, Kinds, Letters, Spare, Other

LEMMA TornType ==
  ASSUME NEW b \in [Kinds -> Letters], NEW c \in [Kinds -> Letters]
  PROVE  Torn(b, c) \subseteq [Kinds -> Letters]
  BY DEF Torn

\* A bank that is written has the other kernel active and gets the wanted one.
LEMMA FoundMeansOther ==
  ASSUME NEW k \in Kinds, NEW b \in Standard \cup {Both, Neither}, BothFound(b, k)
  PROVE  b = Active(Other(k)) /\ Renamed(b, k) = Active(k)
  BY DEF Standard, Both, Neither, Active, Foreign, Kinds, Spare, Other, Renamed,
         BothFound, Swappable, Has

\* A bank that is passed over has the wanted kernel active or is no standard bank.
LEMMA NotFoundMeansSettled ==
  ASSUME NEW k \in Kinds, NEW b \in Standard \cup {Both, Neither}, ~BothFound(b, k)
  PROVE  b \in {Active(k), Foreign, Both, Neither}
  BY DEF Standard, Both, Neither, Active, Foreign, Kinds, Spare, Other, Renamed,
         BothFound, Swappable, Has

LEMMA TornBanks ==
  ASSUME NEW k \in Kinds, NEW b \in Torn(Active(Other(k)), Active(k))
  PROVE  b \in Standard \cup {Both, Neither}
  BY DEF Torn, Standard, Both, Neither, Active, Foreign, Kinds, Spare, Other

LEMMA NonstandardNotWhole == ~Whole(Both) /\ ~Whole(Neither)
  BY DEF Whole, Both, Neither, Kinds, Spare, Other

LEMMA ActiveIsActive == \A k \in Kinds : IsActive(Active(k), k)
  BY DEF IsActive, Active, Kinds, Spare, Other

LEMMA ForeignIsCex == IsActive(Foreign, "cex")
  BY DEF IsActive, Foreign, Kinds, Other

-----------------------------------------------------------------------------
LEMMA TwoFlags ==
  ASSUME NEW a, NEW b
  PROVE  Cardinality({f \in {1, 2} : <<a, b>>[f]}) \in Nat
<1>1. IsFiniteSet({1})
  BY FS_Singleton
<1>2. IsFiniteSet({1} \cup {2})
  BY <1>1, FS_AddElement
<1>3. IsFiniteSet({f \in {1, 2} : <<a, b>>[f]})
  BY <1>2, FS_Subset
<1> QED
  BY <1>3, FS_CardinalityType

\* The banks renamed are among those looked at.
Counted == pc = "search" => ros < m

LEMMA TypeInvariant == Spec => [](TypeOK /\ Counted)
<1>1. Init => TypeOK /\ Counted
  <2> SUFFICES ASSUME Init PROVE TypeOK /\ Counted
    OBVIOUS
  <2>1. bank \in [ROS -> [Kinds -> Letters]]
    <3>1. \A k \in Kinds : Active(k) \in [Kinds -> Letters]
      BY DEF Active, Kinds, Letters, Spare
    <3>2. Foreign \in [Kinds -> Letters]
      BY DEF Foreign, Kinds, Letters
    <3> QED
      BY <3>1, <3>2 DEF Init
  <2>2. module \in [1 .. Plugins -> [Names -> Kinds \cup {"none"}]]
    <3>1. Installed(KindOf(id0)) \in [Names -> Kinds \cup {"none"}]
      BY DEF Installed, KindOf, Names, Kinds, Other
    <3> QED
      BY <3>1 DEF Init
  <2>3. step \in 0 .. 2 * Plugins /\ faults \in 0 .. MaxFaults
    BY TargetAssumption DEF Init
  <2>4. mode \in Kinds /\ id0 \in Targets /\ seal \in Targets /\ eid5 \in Targets
    BY DEF Init, Kinds
  <2>5. Counted
    BY DEF Init, Counted
  <2>6. m \in 1 .. 3 /\ ros \in 0 .. 2 /\ missed \subseteq ROS
    BY DEF Init
  <2>7. /\ errorFile \in BOOLEAN /\ dexMode \in BOOLEAN /\ dexFlash \in BOOLEAN
        /\ rr \in BOOLEAN /\ refused \in BOOLEAN /\ lostEid5 \in BOOLEAN
    BY DEF Init
  <2>8. /\ pc = "off" /\ op = "swap" /\ told = "none"
        /\ key \in {"none", "good", "bad"}
    BY DEF Init
  <2> QED
    BY <2>1, <2>2, <2>3, <2>4, <2>5, <2>6, <2>7, <2>8 DEF TypeOK
<1>2. TypeOK /\ Counted /\ [Next]_vars => TypeOK' /\ Counted'
  <2> SUFFICES ASSUME TypeOK, Counted, [Next]_vars PROVE TypeOK' /\ Counted'
    OBVIOUS
  <2> USE DEF TypeOK, Counted, flash, search, given
  <2>1. CASE Boot
    <3>1. /\ pc' \in {"off", "menu", "convert", "file", "settle", "rename", "search", "report"}
          /\ dexMode' \in BOOLEAN
          /\ Counted'
      BY <2>1 DEF Boot, IsActive
    <3>2. UNCHANGED <<op, id0, seal, eid5, bank, module, key, errorFile,
                         dexFlash, step, mode, m, ros, rr, told, faults,
                         missed, refused, lostEid5>>
      BY <2>1 DEF Boot, IsActive
    <3> QED
      BY <3>1, <3>2
  <2>2. CASE PlaceKey
    <3>1. key' \in {"none", "good", "bad"}
      BY <2>2 DEF PlaceKey
    <3>2. UNCHANGED <<pc, op, id0, seal, eid5, bank, module, errorFile,
                         dexMode, dexFlash, step, mode, m, ros, rr, told,
                         faults, missed, refused, lostEid5>>
      BY <2>2 DEF PlaceKey
    <3> QED
      BY <3>1, <3>2
  <2>3. CASE TurnOff
    <3>1. /\ pc' \in {"off", "menu", "convert", "file", "settle", "rename", "search", "report"}
          /\ Counted'
      BY <2>3 DEF TurnOff
    <3>2. UNCHANGED <<op, id0, seal, eid5, bank, module, key, errorFile,
                         dexMode, dexFlash, step, mode, m, ros, rr, told,
                         faults, missed, refused, lostEid5>>
      BY <2>3 DEF TurnOff
    <3> QED
      BY <3>1, <3>2
  <2>4. CASE Cut
    <3>1. faults' \in 0 .. MaxFaults
      BY <2>4, TargetAssumption DEF Cut, Fault
    <3>2. /\ pc' \in {"off", "menu", "convert", "file", "settle", "rename", "search", "report"}
          /\ Counted'
      BY <2>4 DEF Cut
    <3>3. UNCHANGED <<op, id0, seal, eid5, bank, module, key, errorFile,
                         dexMode, dexFlash, step, mode, m, ros, rr, told,
                         missed, refused, lostEid5>>
      BY <2>4 DEF Cut, Fault
    <3> QED
      BY <3>1, <3>2, <3>3
  <2>5. CASE SwapKernel
    <3>1. dexFlash' \in BOOLEAN
      BY <2>5 DEF SwapKernel, Begin, GetEid, Ok, Fault
    <3>2. faults' \in 0 .. MaxFaults
      BY <2>5, TargetAssumption DEF SwapKernel, Begin, GetEid, Ok, Fault
    <3>3. pc' \in {"off", "menu", "convert", "file", "settle", "rename", "search", "report"}
      BY <2>5 DEF SwapKernel, Begin, GetEid, Ok, Fault
    <3>4. op' \in {"swap", "convert", "file"}
      BY <2>5 DEF SwapKernel, Begin, GetEid, Ok, Fault
    <3>5. told' \in {"none", "changed", "failed", "refused"}
      BY <2>5 DEF SwapKernel, Begin, GetEid, Ok, Fault
    <3>6. missed' \subseteq ROS
      BY <2>5 DEF SwapKernel, Begin, GetEid, Ok, Fault
    <3>7. refused' \in BOOLEAN
      BY <2>5 DEF SwapKernel, Begin, GetEid, Ok, Fault
    <3>8. mode' \in Kinds
      BY <2>5 DEF SwapKernel, Begin, GetEid, Ok, Fault, Kinds
    <3>9. m' \in 1 .. 3
      BY <2>5 DEF SwapKernel, Begin, GetEid, Ok, Fault
    <3>10. ros' \in 0 .. 2
      BY <2>5 DEF SwapKernel, Begin, GetEid, Ok, Fault
    <3>11. rr' \in BOOLEAN
      BY <2>5 DEF SwapKernel, Begin, GetEid, Ok, Fault
    <3>12. Counted'
      BY <2>5 DEF SwapKernel, Begin, GetEid, Ok, Fault
    <3>13. UNCHANGED <<id0, seal, eid5, bank, module, key, errorFile,
                         dexMode, step, lostEid5>>
      BY <2>5 DEF SwapKernel, Begin, GetEid, Ok, Fault
    <3> QED
      BY <3>1, <3>2, <3>3, <3>4, <3>5, <3>6, <3>7, <3>8, <3>9, <3>10, <3>11, <3>12, <3>13
  <2>6. CASE Convert
    <3>1. /\ pc' \in {"off", "menu", "convert", "file", "settle", "rename", "search", "report"}
          /\ op' \in {"swap", "convert", "file"}
          /\ told' \in {"none", "changed", "failed", "refused"}
          /\ missed' \subseteq ROS
          /\ refused' \in BOOLEAN
          /\ Counted'
      BY <2>6 DEF Convert, Begin
    <3>2. UNCHANGED <<id0, seal, eid5, bank, module, key, errorFile,
                         dexMode, dexFlash, step, mode, m, ros, rr, faults,
                         lostEid5>>
      BY <2>6 DEF Convert, Begin
    <3> QED
      BY <3>1, <3>2
  <2>7. CASE UseFile
    <3>1. dexFlash' \in BOOLEAN
      BY <2>7 DEF UseFile, Begin, GetEid, Ok, Fault
    <3>2. faults' \in 0 .. MaxFaults
      BY <2>7, TargetAssumption DEF UseFile, Begin, GetEid, Ok, Fault
    <3>3. /\ pc' \in {"off", "menu", "convert", "file", "settle", "rename", "search", "report"}
          /\ op' \in {"swap", "convert", "file"}
          /\ told' \in {"none", "changed", "failed", "refused"}
          /\ missed' \subseteq ROS
          /\ refused' \in BOOLEAN
          /\ Counted'
      BY <2>7 DEF UseFile, Begin
    <3>4. UNCHANGED <<id0, seal, eid5, bank, module, key, errorFile,
                         dexMode, step, mode, m, ros, rr, lostEid5>>
      BY <2>7 DEF UseFile, Begin, GetEid, Ok, Fault
    <3> QED
      BY <3>1, <3>2, <3>3, <3>4
  <2>8. CASE Converted
    <3>1. faults' \in 0 .. MaxFaults
      <4>1. PICK lost, failed \in BOOLEAN :
              /\ faults' = faults + Cardinality({f \in {1, 2} : <<lost, failed>>[f]})
              /\ faults' <= MaxFaults
        BY <2>8 DEF Converted
      <4>2. Cardinality({f \in {1, 2} : <<lost, failed>>[f]}) \in Nat
        BY TwoFlags
      <4> QED
        BY <4>1, <4>2, TargetAssumption
    <3>2. /\ pc' \in {"off", "menu", "convert", "file", "settle", "rename", "search", "report"}
          /\ id0' \in Targets \cup {NoId}
          /\ seal' \in Targets \cup {NoId}
          /\ lostEid5' \in BOOLEAN
          /\ Counted'
      BY <2>8, TargetAssumption DEF Converted, TurnedOver, Targets, TurnedOverSeal
    <3>3. UNCHANGED <<op, eid5, bank, module, key, errorFile, dexMode,
                         dexFlash, step, mode, m, ros, rr, told, missed,
                         refused>>
      BY <2>8 DEF Converted
    <3> QED
      BY <3>1, <3>2, <3>3
  <2>9. CASE ConvertRefused
    <3>1. faults' \in 0 .. MaxFaults
      BY <2>9, TargetAssumption DEF ConvertRefused, Ok, Fault
    <3>2. /\ pc' \in {"off", "menu", "convert", "file", "settle", "rename", "search", "report"}
          /\ errorFile' \in BOOLEAN
          /\ refused' \in BOOLEAN
          /\ Counted'
      BY <2>9 DEF ConvertRefused
    <3>3. UNCHANGED <<op, id0, seal, eid5, bank, module, key, dexMode,
                         dexFlash, step, mode, m, ros, rr, told, missed,
                         lostEid5>>
      BY <2>9 DEF ConvertRefused, Ok, Fault
    <3> QED
      BY <3>1, <3>2, <3>3
  <2>10. CASE FileWritten
    <3>1. /\ pc' \in {"off", "menu", "convert", "file", "settle", "rename", "search", "report"}
          /\ id0' \in Targets \cup {NoId}
          /\ seal' \in Targets \cup {NoId}
          /\ Counted'
      BY <2>10, TargetAssumption DEF FileWritten
    <3>2. UNCHANGED <<op, eid5, bank, module, key, errorFile, dexMode,
                         dexFlash, step, mode, m, ros, rr, told, faults,
                         missed, refused, lostEid5>>
      BY <2>10 DEF FileWritten, Ok
    <3> QED
      BY <3>1, <3>2
  <2>11. CASE FileRefused
    <3>1. /\ pc' \in {"off", "menu", "convert", "file", "settle", "rename", "search", "report"}
          /\ Counted'
      BY <2>11 DEF FileRefused
    <3>2. UNCHANGED <<op, id0, seal, eid5, bank, module, key, errorFile,
                         dexMode, dexFlash, step, mode, m, ros, rr, told,
                         faults, missed, refused, lostEid5>>
      BY <2>11 DEF FileRefused, Ok
    <3> QED
      BY <3>1, <3>2
  <2>12. CASE FileFails
    <3>1. faults' \in 0 .. MaxFaults
      BY <2>12, TargetAssumption DEF FileFails, Fault
    <3>2. /\ pc' \in {"off", "menu", "convert", "file", "settle", "rename", "search", "report"}
          /\ id0' \in Targets \cup {NoId}
          /\ seal' \in Targets \cup {NoId}
          /\ Counted'
      BY <2>12, TargetAssumption DEF FileFails
    <3>3. UNCHANGED <<op, eid5, bank, module, key, errorFile, dexMode,
                         dexFlash, step, mode, m, ros, rr, told, missed,
                         refused, lostEid5>>
      BY <2>12 DEF FileFails, Fault
    <3> QED
      BY <3>1, <3>2, <3>3
  <2>13. CASE Settle
    <3>1. dexFlash' \in BOOLEAN
      BY <2>13 DEF Settle, GetEid, Ok, Fault
    <3>2. faults' \in 0 .. MaxFaults
      BY <2>13, TargetAssumption DEF Settle, GetEid, Ok, Fault
    <3>3. /\ pc' \in {"off", "menu", "convert", "file", "settle", "rename", "search", "report"}
          /\ step' \in 0 .. 2 * Plugins
          /\ Counted'
      BY <2>13, TargetAssumption DEF Settle
    <3>4. UNCHANGED <<op, id0, seal, eid5, bank, module, key, errorFile,
                         dexMode, mode, m, ros, rr, told, missed, refused,
                         lostEid5>>
      BY <2>13 DEF Settle, GetEid, Ok, Fault
    <3> QED
      BY <3>1, <3>2, <3>3, <3>4
  <2>14. CASE Rename
    <3>1. module' \in [1 .. Plugins -> [Names -> Kinds \cup {"none"}]]
      <4>1. CASE UNCHANGED module
        BY <4>1
      <4>2. CASE \E k \in Kinds : module' =
                   [module EXCEPT ![PluginOf(step)] = Move(@, From(step, k), To(step, k))]
        <5>1. PICK k \in Kinds : module' =
                   [module EXCEPT ![PluginOf(step)] = Move(@, From(step, k), To(step, k))]
          BY <4>2
        <5>2. \A files \in [Names -> Kinds \cup {"none"}] :
                 Move(files, From(step, k), To(step, k)) \in [Names -> Kinds \cup {"none"}]
          BY DEF Move, From, To, Names, Kinds, Other
        <5> QED
          BY <5>1, <5>2
      <4> QED
        BY <2>14, <4>1, <4>2 DEF Rename, Kinds
    <3>2. faults' \in 0 .. MaxFaults
      BY <2>14, TargetAssumption DEF Rename, Ok, Fault
    <3>3. step' \in 0 .. 2 * Plugins
      BY <2>14, TargetAssumption DEF Rename
    <3>4. UNCHANGED <<pc, op, id0, seal, eid5, bank, key, errorFile,
                         dexMode, dexFlash, mode, m, ros, rr, told, missed,
                         refused, lostEid5>>
      BY <2>14 DEF Rename, Ok, Fault
    <3> QED
      BY <3>1, <3>2, <3>3, <3>4
  <2>15. CASE RenamesDone
    <3>1. /\ pc' \in {"off", "menu", "convert", "file", "settle", "rename", "search", "report"}
          /\ mode' \in Kinds
          /\ m' \in 1 .. 3
          /\ ros' \in 0 .. 2
          /\ rr' \in BOOLEAN
          /\ missed' \subseteq ROS
          /\ Counted'
      BY <2>15 DEF RenamesDone, Kinds
    <3>2. UNCHANGED <<op, id0, seal, eid5, bank, module, key, errorFile,
                         dexMode, dexFlash, step, told, faults, refused,
                         lostEid5>>
      BY <2>15 DEF RenamesDone
    <3> QED
      BY <3>1, <3>2
  <2>16. CASE OpenFails
    <3>1. faults' \in 0 .. MaxFaults
      BY <2>16, TargetAssumption DEF OpenFails, Fault
    <3>2. /\ pc' \in {"off", "menu", "convert", "file", "settle", "rename", "search", "report"}
          /\ missed' \subseteq ROS
          /\ told' \in {"none", "changed", "failed", "refused"}
          /\ Counted'
      BY <2>16 DEF OpenFails
    <3>3. UNCHANGED <<op, id0, seal, eid5, bank, module, key, errorFile,
                         dexMode, dexFlash, step, mode, m, ros, rr, refused,
                         lostEid5>>
      BY <2>16 DEF OpenFails, Fault
    <3> QED
      BY <3>1, <3>2, <3>3
  <2>17. CASE BankUnread
    <3>1. faults' \in 0 .. MaxFaults
      BY <2>17, TargetAssumption DEF BankUnread, NextBank, Fault
    <3>2. m' \in 1 .. 3
      BY <2>17 DEF BankUnread, NextBank, Fault, ROS
    <3>3. rr' \in BOOLEAN
      BY <2>17 DEF BankUnread, NextBank, Fault
    <3>4. missed' \subseteq ROS
      BY <2>17 DEF BankUnread, NextBank, Fault
    <3>5. Counted'
      BY <2>17 DEF BankUnread, NextBank, Fault, ROS
    <3>6. UNCHANGED <<pc, op, id0, seal, eid5, bank, module, key,
                         errorFile, dexMode, dexFlash, step, mode, ros,
                         told, refused, lostEid5>>
      BY <2>17 DEF BankUnread, NextBank, Fault
    <3> QED
      BY <3>1, <3>2, <3>3, <3>4, <3>5, <3>6
  <2>18. CASE BankSkipped
    <3>1. /\ m' \in 1 .. 3
          /\ rr' \in BOOLEAN
          /\ Counted'
      BY <2>18 DEF BankSkipped, NextBank, ROS
    <3>2. UNCHANGED <<pc, op, id0, seal, eid5, bank, module, key,
                         errorFile, dexMode, dexFlash, step, mode, ros,
                         told, faults, missed, refused, lostEid5>>
      BY <2>18 DEF BankSkipped, NextBank, Ok
    <3> QED
      BY <3>1, <3>2
  <2>19. CASE BankRenamed
    <3>1. bank' \in [ROS -> [Kinds -> Letters]]
      <4>1. mode \in Kinds /\ m \in ROS /\ bank[m] \in [Kinds -> Letters]
        BY <2>19 DEF BankRenamed, NextBank
      <4>2. Renamed(bank[m], mode) \in [Kinds -> Letters]
        BY <4>1, RenamedType
      <4> QED
        BY <2>19, <4>2 DEF BankRenamed
    <3>2. ros' \in 0 .. 2
      BY <2>19 DEF BankRenamed, NextBank, ROS
    <3>3. /\ m' \in 1 .. 3
          /\ rr' \in BOOLEAN
          /\ Counted'
      BY <2>19 DEF BankRenamed, NextBank, ROS
    <3>4. UNCHANGED <<pc, op, id0, seal, eid5, module, key, errorFile,
                         dexMode, dexFlash, step, mode, told, faults,
                         missed, refused, lostEid5>>
      BY <2>19 DEF BankRenamed, NextBank, Ok
    <3> QED
      BY <3>1, <3>2, <3>3, <3>4
  <2>20. CASE BankTorn
    <3>1. bank' \in [ROS -> [Kinds -> Letters]]
      <4>1. mode \in Kinds /\ m \in ROS /\ bank[m] \in [Kinds -> Letters]
        BY <2>20 DEF BankTorn, NextBank
      <4>2. Torn(bank[m], Renamed(bank[m], mode)) \subseteq [Kinds -> Letters]
        BY <4>1, RenamedType, TornType
      <4> QED
        BY <2>20, <4>2 DEF BankTorn
    <3>2. faults' \in 0 .. MaxFaults
      BY <2>20, TargetAssumption DEF BankTorn, NextBank, Fault
    <3>3. m' \in 1 .. 3
      BY <2>20 DEF BankTorn, NextBank, Fault, ROS
    <3>4. rr' \in BOOLEAN
      BY <2>20 DEF BankTorn, NextBank, Fault
    <3>5. missed' \subseteq ROS
      BY <2>20 DEF BankTorn, NextBank, Fault
    <3>6. Counted'
      BY <2>20 DEF BankTorn, NextBank, Fault, ROS
    <3>7. UNCHANGED <<pc, op, id0, seal, eid5, module, key, errorFile,
                         dexMode, dexFlash, step, mode, ros, told, refused,
                         lostEid5>>
      BY <2>20 DEF BankTorn, NextBank, Fault
    <3> QED
      BY <3>1, <3>2, <3>3, <3>4, <3>5, <3>6, <3>7
  <2>21. CASE SearchEnds
    <3>1. /\ pc' \in {"off", "menu", "convert", "file", "settle", "rename", "search", "report"}
          /\ told' \in {"none", "changed", "failed", "refused"}
          /\ Counted'
      BY <2>21 DEF SearchEnds
    <3>2. UNCHANGED <<op, id0, seal, eid5, bank, module, key, errorFile,
                         dexMode, dexFlash, step, mode, m, ros, rr, faults,
                         missed, refused, lostEid5>>
      BY <2>21 DEF SearchEnds
    <3> QED
      BY <3>1, <3>2
  <2>22. CASE Report
    <3>1. /\ pc' \in {"off", "menu", "convert", "file", "settle", "rename", "search", "report"}
          /\ told' \in {"none", "changed", "failed", "refused"}
          /\ errorFile' \in BOOLEAN
          /\ Counted'
      BY <2>22 DEF Report
    <3>2. UNCHANGED <<op, id0, seal, eid5, bank, module, key, dexMode,
                         dexFlash, step, mode, m, ros, rr, faults, missed,
                         refused, lostEid5>>
      BY <2>22 DEF Report
    <3> QED
      BY <3>1, <3>2
  <2>23. CASE UNCHANGED vars
    BY <2>23 DEF vars
  <2> QED
    BY <2>1, <2>2, <2>3, <2>4, <2>5, <2>6, <2>7, <2>8, <2>9, <2>10, <2>11, <2>12, <2>13, <2>14, <2>15, <2>16, <2>17, <2>18, <2>19, <2>20, <2>21, <2>22, <2>23 DEF Next
<1> QED
  BY <1>1, <1>2, PTL DEF Spec

\* Type correctness: all variables keep their types, whatever fails.
THEOREM TypeCorrect == Spec => []TypeOK
  BY TypeInvariant, PTL

-----------------------------------------------------------------------------
\* The steps that leave the target alone.
LEMMA TargetFrame ==
  ASSUME [Next]_vars, ~Converted, ~FileWritten, ~FileFails
  PROVE  UNCHANGED <<id0, seal, eid5, lostEid5>>
<1> USE DEF flash, search, given
<1>1. CASE Boot \/ PlaceKey \/ TurnOff \/ Cut
  BY <1>1 DEF Boot, PlaceKey, TurnOff, Cut
<1>2. CASE SwapKernel \/ Convert \/ UseFile
  BY <1>2 DEF SwapKernel, Convert, UseFile, Begin
<1>3. CASE ConvertRefused \/ FileRefused \/ Settle \/ Rename \/ RenamesDone
  BY <1>3 DEF ConvertRefused, FileRefused, Settle, Rename, RenamesDone
<1>4. CASE OpenFails \/ SearchEnds \/ Report
  BY <1>4 DEF OpenFails, SearchEnds, Report
<1>5. CASE BankUnread \/ BankSkipped \/ BankRenamed \/ BankTorn
  BY <1>5 DEF BankUnread, BankSkipped, BankRenamed, BankTorn, NextBank
<1>6. CASE UNCHANGED vars
  BY <1>6 DEF vars
<1> QED
  BY <1>1, <1>2, <1>3, <1>4, <1>5, <1>6 DEF Next

\* EID0's two target IDs stay the same whatever fails, and become 0 only with
\* a failed read of EID5.
THEOREM TargetIsKept == Spec => []TargetKept
<1>1. Init => TargetKept
  BY TargetAssumption DEF Init, TargetKept, Targets
<1>2. TypeOK /\ TargetKept /\ [Next]_vars => TargetKept'
  <2> SUFFICES ASSUME TypeOK, TargetKept, [Next]_vars PROVE TargetKept'
    OBVIOUS
  <2>1. eid5 \in Targets /\ seal = id0 /\ (id0 = NoId => lostEid5)
    BY DEF TypeOK, TargetKept
  <2>2. CASE Converted
    <3>1. PICK lost \in BOOLEAN :
            /\ lostEid5' = (lostEid5 \/ lost)
            /\ \/ /\ id0' = TurnedOver(id0, (IF lost THEN NoId ELSE eid5) = DEX,
                                       IF lost THEN NoId ELSE eid5)
                  /\ seal' = TurnedOverSeal(id0, seal, (IF lost THEN NoId ELSE eid5) = DEX,
                                            IF lost THEN NoId ELSE eid5)
               \/ UNCHANGED <<id0, seal>>
      BY <2>2 DEF Converted
    <3> QED
      BY <2>1, <3>1, TargetAssumption DEF TargetKept, TurnedOver, TurnedOverSeal, Targets
  <2>3. CASE FileWritten \/ FileFails
    BY <2>1, <2>3, TargetAssumption DEF FileWritten, FileFails, TargetKept, Targets
  <2>4. CASE UNCHANGED <<id0, seal, eid5, lostEid5>>
    BY <2>1, <2>4 DEF TargetKept
  <2> QED
    BY <2>2, <2>3, <2>4, TargetFrame
<1> QED
  BY <1>1, <1>2, TypeInvariant, PTL DEF Spec

-----------------------------------------------------------------------------
\* What a look at bank m leaves behind while the search goes on.
LEMMA BankStep ==
  ASSUME TypeOK, KernelInv, NextBank,
         BankUnread \/ BankSkipped \/ BankRenamed \/ BankTorn
  PROVE  /\ \A b \in ROS \ {m} : bank'[b] = bank[b]
         /\ bank'[m] \in Standard \cup {Both, Neither}
         /\ \/ missed' = missed \cup {m} /\ ros' = ros
            \/ missed' = missed /\ ros' = ros
               /\ bank'[m] \in {Active(mode), Foreign, Both, Neither}
            \/ missed' = missed /\ bank'[m] = Active(mode)
         /\ \/ bank' = bank
            \/ bank[m] = Active(Other(mode))
<1> USE DEF NextBank
<1>1. mode \in Kinds /\ m \in ROS /\ bank \in [ROS -> [Kinds -> Letters]]
      /\ bank[m] \in Standard \cup {Both, Neither} /\ mode' = mode
  BY DEF TypeOK, KernelInv
<1>2. CASE BankUnread
  BY <1>1, <1>2 DEF BankUnread
<1>3. CASE BankSkipped
  <2>1. bank[m] \in {Active(mode), Foreign, Both, Neither}
    BY <1>1, <1>3, NotFoundMeansSettled DEF BankSkipped
  <2>2. bank' = bank /\ missed' = missed /\ ros' = ros
    BY <1>3 DEF BankSkipped
  <2> QED
    BY <1>1, <2>1, <2>2
<1>4. CASE BankRenamed
  <2>1. bank[m] = Active(Other(mode)) /\ Renamed(bank[m], mode) = Active(mode)
    BY <1>1, <1>4, FoundMeansOther DEF BankRenamed
  <2>2. bank' = [bank EXCEPT ![m] = Active(mode)] /\ missed' = missed
    BY <1>4, <2>1 DEF BankRenamed
  <2>3. Active(mode) \in Standard
    BY <1>1 DEF Standard, Kinds
  <2> QED
    BY <1>1, <2>1, <2>2, <2>3
<1>5. CASE BankTorn
  <2>1. bank[m] = Active(Other(mode)) /\ Renamed(bank[m], mode) = Active(mode)
    BY <1>1, <1>5, FoundMeansOther DEF BankTorn
  <2>2. PICK b \in Torn(Active(Other(mode)), Active(mode)) : bank' = [bank EXCEPT ![m] = b]
    BY <1>5, <2>1 DEF BankTorn
  <2>3. b \in Standard \cup {Both, Neither}
    BY <1>1, <2>2, TornBanks
  <2>4. missed' = missed \cup {m} /\ ros' = ros
    BY <1>5 DEF BankTorn
  <2> QED
    BY <1>1, <2>1, <2>2, <2>3, <2>4
<1> QED
  BY <1>2, <1>3, <1>4, <1>5

\* The steps that touch neither the banks nor the search through them.
LEMMA SearchFrame ==
  ASSUME [Next]_vars, ~SwapKernel, ~Convert, ~UseFile, ~RenamesDone, ~OpenFails,
         ~BankUnread, ~BankSkipped, ~BankRenamed, ~BankTorn, ~SearchEnds, ~Report
  PROVE  /\ UNCHANGED <<bank, mode, m, ros, rr, missed, told>>
         /\ pc' # "search" \/ pc' = pc
         /\ pc' \in {"off", "menu"} \/ pc \in {"convert", "file", "settle", "rename", "search"}
            \/ UNCHANGED <<pc>>
<1> USE DEF flash, search, given
<1>1. CASE Boot \/ PlaceKey \/ TurnOff \/ Cut
  BY <1>1 DEF Boot, PlaceKey, TurnOff, Cut
<1>2. CASE Converted
  BY <1>2 DEF Converted
<1>3. CASE ConvertRefused
  BY <1>3 DEF ConvertRefused
<1>4. CASE FileWritten \/ FileRefused \/ FileFails
  BY <1>4 DEF FileWritten, FileRefused, FileFails
<1>5. CASE Settle \/ Rename
  BY <1>5 DEF Settle, Rename
<1>6. CASE UNCHANGED vars
  BY <1>6 DEF vars
<1> QED
  BY <1>1, <1>2, <1>3, <1>4, <1>5, <1>6 DEF Next

LEMMA KernelInvariant == Spec => []KernelInv
<1>1. Init => KernelInv
  <2> SUFFICES ASSUME Init PROVE KernelInv
    OBVIOUS
  <2>1. \A b \in ROS : bank[b] \in Standard
    BY DEF Init, Standard, Kinds
  <2> QED
    BY <2>1 DEF Init, KernelInv
<1>2. TypeOK /\ Counted /\ KernelInv /\ [Next]_vars => KernelInv'
  <2> SUFFICES ASSUME TypeOK, Counted, KernelInv, [Next]_vars PROVE KernelInv'
    OBVIOUS
  <2>1. CASE SwapKernel \/ Convert \/ UseFile
    <3>1. bank' = bank /\ told' = "none"
      BY <2>1 DEF SwapKernel, Convert, UseFile, Begin, flash
    <3>2. pc' = "search" => m' = 1 /\ ros' = 0
      BY <2>1 DEF SwapKernel, Convert, UseFile
    <3> QED
      BY <3>1, <3>2 DEF KernelInv, ROS
  <2>2. CASE RenamesDone
    <3>1. bank' = bank /\ told' = told /\ m' = 1 /\ ros' = 0 /\ told = "none"
      BY <2>2 DEF RenamesDone, KernelInv, flash
    <3> QED
      BY <3>1 DEF KernelInv, ROS
  <2>3. CASE OpenFails
    BY <2>3 DEF OpenFails, KernelInv, flash
  <2>4. CASE BankUnread \/ BankSkipped \/ BankRenamed \/ BankTorn
    <3>1. NextBank
      BY <2>4 DEF BankUnread, BankSkipped, BankRenamed, BankTorn
    <3>2. m \in ROS /\ m' = m + 1 /\ mode' = mode /\ pc' = pc /\ pc = "search" /\ told' = told
      BY <3>1 DEF NextBank
    <3>3. told = "none"
      BY <3>2 DEF KernelInv
    <3>4. \A b \in ROS : bank'[b] \in Standard \cup {Both, Neither}
      BY <2>4, <3>1, BankStep DEF KernelInv
    <3>5. \A b \in ROS \ missed' : b < m' => Settled(b, mode)'
      <4> SUFFICES ASSUME NEW b \in ROS, b \notin missed', b < m' PROVE Settled(b, mode)'
        OBVIOUS
      <4>1. CASE b = m
        <5>1. bank'[m] \in {Active(mode), Foreign, Both, Neither}
          BY <2>4, <3>1, <3>2, <4>1, BankStep
        <5> QED
          BY <3>2, <4>1, <5>1 DEF Settled
      <4>2. CASE b # m
        <5>1. b < m /\ b \notin missed /\ bank'[b] = bank[b]
          BY <2>4, <3>1, <3>2, <4>2, BankStep DEF ROS
        <5> QED
          BY <3>2, <5>1 DEF KernelInv, Settled
      <4> QED
        BY <4>1, <4>2
    <3>6. ros' > 0 => \E b \in ROS : b < m' /\ bank'[b] = Active(mode)
      <4>1. CASE bank'[m] = Active(mode)
        BY <3>2, <4>1 DEF ROS
      <4>2. CASE ros' = ros
        <5> SUFFICES ASSUME ros > 0 PROVE \E b \in ROS : b < m' /\ bank'[b] = Active(mode)
          BY <4>2
        <5>1. PICK b \in ROS : b < m /\ bank[b] = Active(mode)
          BY <3>2 DEF KernelInv
        <5>2. bank'[b] = bank[b] /\ b < m'
          BY <2>4, <3>1, <3>2, <5>1, BankStep DEF ROS
        <5> QED
          BY <5>1, <5>2
      <4> QED
        BY <2>4, <3>1, <4>1, <4>2, BankStep
    <3> QED
      BY <3>2, <3>3, <3>4, <3>5, <3>6 DEF KernelInv
  <2>5. CASE SearchEnds
    <3>1. /\ pc = "search" /\ m \notin ROS /\ bank' = bank /\ mode' = mode /\ missed' = missed
          /\ pc' \in {"off", "report"}
          /\ told' = IF ros > 0 THEN "changed" ELSE IF op = "swap" THEN "failed" ELSE told
      BY <2>5 DEF SearchEnds, flash, search
    <3>2. told' = "changed" => ros > 0
      BY <3>1 DEF KernelInv
    <3>3. m = 3
      BY <3>1 DEF TypeOK, ROS
    <3> QED
      BY <3>1, <3>2, <3>3 DEF KernelInv, Settled, ROS
  <2>6. CASE Report
    <3>1. bank' = bank /\ mode' = mode /\ missed' = missed /\ pc' = "menu"
          /\ told' \in {told, "refused"}
      BY <2>6 DEF Report, flash, search
    <3> QED
      BY <3>1 DEF KernelInv, Settled
  <2>7. CASE /\ UNCHANGED <<bank, mode, m, ros, rr, missed, told>>
             /\ pc' # "search" \/ pc' = pc
             /\ pc' \in {"off", "menu"} \/ pc \in {"convert", "file", "settle", "rename", "search"}
                \/ UNCHANGED <<pc>>
    BY <2>7 DEF KernelInv, Settled
  <2> QED
    BY <2>1, <2>2, <2>3, <2>4, <2>5, <2>6, <2>7, SearchFrame
<1> QED
  BY <1>1, <1>2, TypeInvariant, PTL DEF Spec

\* When the change of kernels is reported, every bank that could be read and
\* written has the wanted kernel or was passed over, and some bank has it.
THEOREM KernelReallyChanged == Spec => []KernelChanged
<1>1. TypeOK /\ KernelInv => KernelChanged
  <2> SUFFICES ASSUME TypeOK, KernelInv, told = "changed" PROVE KernelChanged
    BY DEF KernelChanged
  <2>1. mode \in Kinds
    BY DEF TypeOK
  <2>2. \A b \in ROS \ missed : bank[b] \in {Active(mode), Foreign, Both, Neither}
    BY DEF KernelInv, Settled
  <2>3. \E b \in ROS : bank[b] = Active(mode)
    BY DEF KernelInv
  <2> QED
    BY <2>1, <2>2, <2>3, ActiveIsActive, NonstandardNotWhole DEF KernelChanged
<1> QED
  BY <1>1, TypeInvariant, KernelInvariant, PTL

-----------------------------------------------------------------------------
LEMMA BanksDiffer ==
  /\ Both \notin Standard /\ Neither \notin Standard
  /\ Active("dex") # Active("cex") /\ Active("dex") # Foreign
  BY DEF Both, Neither, Standard, Active, Foreign, Kinds, Spare

LEMMA NoFlags ==
  ASSUME NEW a \in BOOLEAN, NEW b \in BOOLEAN,
         Cardinality({f \in {1, 2} : <<a, b>>[f]}) = 0
  PROVE  ~a /\ ~b
<1>1. IsFiniteSet({1})
  BY FS_Singleton
<1>2. IsFiniteSet({1} \cup {2})
  BY <1>1, FS_AddElement
<1>3. IsFiniteSet({f \in {1, 2} : <<a, b>>[f]})
  BY <1>2, FS_Subset
<1>4. {f \in {1, 2} : <<a, b>>[f]} = {}
  BY <1>3, FS_EmptySet
<1> QED
  BY <1>4

\* One rename of plug-in p, put away or taken.
LEMMA MoveAway ==
  ASSUME NEW k \in Kinds, NEW j \in Kinds,
         Movable(Installed(j), "sprx", Other(k))
  PROVE  j = Other(k) /\ Move(Installed(j), "sprx", Other(k)) = HalfMoved(k)
  BY DEF Movable, Installed, Kinds, Names, Other, Move, HalfMoved

LEMMA StayAway ==
  ASSUME NEW k \in Kinds, NEW j \in Kinds,
         ~Movable(Installed(j), "sprx", Other(k))
  PROVE  j = k
  BY DEF Movable, Installed, Kinds, Names, Other

LEMMA MoveBack ==
  ASSUME NEW k \in Kinds
  PROVE  /\ Movable(HalfMoved(k), k, "sprx")
         /\ Move(HalfMoved(k), k, "sprx") = Installed(k)
         /\ ~Movable(Installed(k), k, "sprx")
  BY DEF Movable, Installed, Kinds, Names, Other, Move, HalfMoved

LEMMA Halving ==
  ASSUME NEW s \in Nat
  PROVE  /\ s \div 2 \in Nat
         /\ \/ s % 2 = 0 /\ s = 2 * (s \div 2)
            \/ s % 2 = 1 /\ s = 2 * (s \div 2) + 1
  OBVIOUS

\* A rename that succeeds brings its plug-in one step further.
LEMMA RenameStep ==
  ASSUME TypeOK, QuietPlugins, QuietControl, Rename, faults' = faults
  PROVE  \A p \in 1 .. Plugins : PluginAt(p, step, KindOf(id0))'
<1> DEFINE k == KindOf(id0)
           q == PluginOf(step)
<1>1. /\ pc = "rename" /\ step \in Nat /\ step < 2 * Plugins /\ step' = step + 1
      /\ id0' = id0 /\ k \in Kinds /\ k = (IF dexFlash THEN "dex" ELSE "cex")
      /\ Plugins \in Nat
  <2>1. pc = "rename" /\ step < 2 * Plugins /\ step' = step + 1 /\ id0' = id0
    BY DEF Rename, flash
  <2>2. step \in Nat /\ Plugins \in Nat
    BY TargetAssumption DEF TypeOK
  <2>3. dexFlash <=> id0 = DEX
    BY <2>1, Zenon DEF QuietControl
  <2>4. k \in Kinds /\ k = (IF dexFlash THEN "dex" ELSE "cex")
    BY <2>3 DEF KindOf, Kinds
  <2> QED
    BY <2>1, <2>2, <2>4
<1>2. \A p \in 1 .. Plugins : PluginAt(p, step, k)
  BY <1>1 DEF QuietPlugins
<1>3. /\ q \in 1 .. Plugins
      /\ \/ step % 2 = 0 /\ 2 * q = step + 2
         \/ step % 2 = 1 /\ 2 * q = step + 1
  BY <1>1, Halving DEF PluginOf
<1>4. /\ Movable(module[q], From(step, k), To(step, k)) =>
            module' = [module EXCEPT ![q] = Move(@, From(step, k), To(step, k))]
      /\ ~Movable(module[q], From(step, k), To(step, k)) => module' = module
  <2>1. faults \in Nat
    BY TargetAssumption DEF TypeOK
  <2> QED
    BY <1>1, <2>1 DEF Rename, Fault
<1>5. \A p \in 1 .. Plugins : p # q => module'[p] = module[p]
  BY <1>3, <1>4 DEF TypeOK
<1>6. /\ step % 2 = 0 => module'[q] \in {Installed(k), HalfMoved(k)}
      /\ step % 2 = 1 => module'[q] = Installed(k)
  <2>1. CASE step % 2 = 0
    <3>1. PICK j \in Kinds : module[q] = Installed(j)
      BY <1>1, <1>2, <1>3, <2>1 DEF PluginAt
    <3>2. From(step, k) = "sprx" /\ To(step, k) = Other(k)
      BY <2>1 DEF From, To
    <3>3. CASE Movable(Installed(j), "sprx", Other(k))
      <4>1. module'[q] = HalfMoved(k)
        BY <1>1, <1>3, <1>4, <3>1, <3>2, <3>3, MoveAway DEF TypeOK
      <4> QED
        BY <2>1, <4>1
    <3>4. CASE ~Movable(Installed(j), "sprx", Other(k))
      BY <1>1, <1>4, <2>1, <3>1, <3>2, <3>4, StayAway
    <3> QED
      BY <3>3, <3>4
  <2>2. CASE step % 2 = 1
    <3>1. module[q] \in {Installed(k), HalfMoved(k)}
      BY <1>1, <1>2, <1>3, <2>2 DEF PluginAt
    <3>2. From(step, k) = k /\ To(step, k) = "sprx"
      BY <2>2 DEF From, To
    <3> QED
      BY <1>1, <1>3, <1>4, <2>2, <3>1, <3>2, MoveBack DEF TypeOK
  <2> QED
    BY <1>3, <2>1, <2>2
<1>7. ASSUME NEW p \in 1 .. Plugins
      PROVE  /\ 2 * p <= step + 1 => module'[p] = Installed(k)
             /\ 2 * p = step + 2 => module'[p] \in {Installed(k), HalfMoved(k)}
             /\ 2 * p > step + 2 => \E j \in Kinds : module'[p] = Installed(j)
  <2>1. CASE p = q
    BY <1>1, <1>3, <1>6, <2>1
  <2>2. CASE p # q
    <3>1. 2 * p <= step \/ 2 * p > step + 2
      BY <1>1, <1>3, <2>2
    <3> QED
      BY <1>1, <1>2, <1>5, <2>2, <3>1 DEF PluginAt
  <2> QED
    BY <2>1, <2>2
<1> QED
  <2>1. KindOf(id0)' = k
    BY <1>1 DEF KindOf
  <2> QED
    BY <1>1, <1>7, <2>1 DEF PluginAt

\* The calls that fail are excluded as long as nothing has failed.
LEMMA NothingFailed ==
  ASSUME TypeOK, faults = 0, faults' = 0
  PROVE  ~Fault
  BY DEF Fault

LEMMA QuietStep ==
  ASSUME TypeOK, Counted, Quiet, faults = 0, faults' = 0, [Next]_vars
  PROVE  Quiet'
<1> USE DEF flash, search, given
<1>0. ~Fault
  BY NothingFailed
<1>1. CASE Boot \/ PlaceKey \/ TurnOff
  <2>1. /\ pc \in {"off", "menu"} /\ pc' \in {"off", "menu"}
        /\ UNCHANGED <<op, id0, bank, module, dexFlash, errorFile, told, refused>>
    BY <1>1 DEF Boot, PlaceKey, TurnOff
  <2>2. QuietControl' /\ QuietPlugins'
    BY <2>1 DEF Quiet, QuietControl, QuietPlugins, KindOf
  <2>3. QuietKernels' /\ QuietRefusal'
    BY <2>1 DEF Quiet, QuietKernels, QuietRefusal, KernelsAgree
  <2> QED
    BY <2>2, <2>3 DEF Quiet
<1>2. CASE SwapKernel
  <2>1. /\ pc = "menu" /\ pc' \in {"search", "menu"} /\ op' = "swap" /\ told' = "none"
        /\ ~refused' /\ UNCHANGED <<id0, bank, module, errorFile>>
        /\ m' = 1 /\ ros' = 0 /\ rr'
    BY <1>2 DEF SwapKernel, Begin
  <2>2. pc' = "search" => id0 = DEX
    BY <1>0, <1>2 DEF SwapKernel, GetEid
  <2>3. QuietControl' /\ QuietPlugins'
    BY <2>1 DEF Quiet, QuietControl, QuietPlugins, KindOf
  <2>4. QuietKernels' /\ QuietRefusal'
    BY <2>1, <2>2 DEF Quiet, QuietKernels, QuietRefusal, KernelsAgree
  <2> QED
    BY <2>3, <2>4 DEF Quiet
<1>3. CASE Convert \/ UseFile
  <2>1. /\ pc = "menu" /\ <<pc', op'>> \in {<<"convert", "convert">>, <<"file", "file">>}
        /\ told' = "none" /\ ~refused' /\ UNCHANGED <<id0, bank, module, errorFile>>
    BY <1>3 DEF Convert, UseFile, Begin
  <2>2. QuietControl' /\ QuietPlugins'
    BY <2>1 DEF Quiet, QuietControl, QuietPlugins, KindOf
  <2>3. QuietKernels' /\ QuietRefusal'
    BY <2>1 DEF Quiet, QuietKernels, QuietRefusal, KernelsAgree
  <2> QED
    BY <2>2, <2>3 DEF Quiet
<1>4. CASE Converted
  <2>1. /\ pc = "convert" /\ pc' = "settle"
        /\ UNCHANGED <<op, bank, module, errorFile, told, refused>>
    BY <1>4 DEF Converted
  <2>2. id0' \in Targets
    <3>1. PICK lost \in BOOLEAN, failed \in BOOLEAN :
            /\ faults' = faults + Cardinality({f \in {1, 2} : <<lost, failed>>[f]})
            /\ \/ id0' = TurnedOver(id0, (IF lost THEN NoId ELSE eid5) = DEX,
                                    IF lost THEN NoId ELSE eid5)
               \/ failed
      BY <1>4 DEF Converted
    <3>2. Cardinality({f \in {1, 2} : <<lost, failed>>[f]}) = 0
      BY <3>1, TwoFlags
    <3>3. ~lost /\ ~failed
      BY <3>2, NoFlags
    <3> QED
      BY <3>1, <3>3, TargetAssumption DEF TurnedOver, Targets, TypeOK
  <2>3. QuietControl'
    BY <2>1, <2>2 DEF Quiet, QuietControl
  <2>4. QuietPlugins'
    BY <2>1 DEF Quiet, QuietPlugins, KindOf, Kinds
  <2>5. QuietKernels' /\ QuietRefusal'
    BY <2>1 DEF Quiet, QuietControl, QuietKernels, QuietRefusal
  <2> QED
    BY <2>3, <2>4, <2>5 DEF Quiet
<1>5. CASE ConvertRefused
  <2>1. /\ pc = "convert" /\ pc' = "settle" /\ errorFile' /\ refused'
        /\ UNCHANGED <<op, id0, bank, module, told>>
    BY <1>5 DEF ConvertRefused
  <2>2. QuietControl' /\ QuietPlugins'
    BY <2>1 DEF Quiet, QuietControl, QuietPlugins, KindOf, Kinds
  <2>3. QuietKernels' /\ QuietRefusal'
    BY <2>1 DEF Quiet, QuietControl, QuietKernels, QuietRefusal, KernelsAgree
  <2> QED
    BY <2>2, <2>3 DEF Quiet
<1>6. CASE FileWritten
  <2>1. /\ pc = "file" /\ pc' = "settle" /\ id0' \in Targets
        /\ UNCHANGED <<op, bank, module, errorFile, told, refused>>
    BY <1>6 DEF FileWritten
  <2>2. QuietControl' /\ QuietPlugins'
    BY <2>1 DEF Quiet, QuietControl, QuietPlugins, KindOf, Kinds
  <2>3. QuietKernels' /\ QuietRefusal'
    BY <2>1 DEF Quiet, QuietControl, QuietKernels, QuietRefusal
  <2> QED
    BY <2>2, <2>3 DEF Quiet
<1>7. CASE FileRefused
  <2>1. /\ pc = "file" /\ pc' = "menu"
        /\ UNCHANGED <<op, id0, bank, module, errorFile, told, refused>>
    BY <1>7 DEF FileRefused
  <2>2. QuietControl' /\ QuietPlugins'
    BY <2>1 DEF Quiet, QuietControl, QuietPlugins, KindOf
  <2>3. QuietKernels' /\ QuietRefusal'
    BY <2>1 DEF Quiet, QuietKernels, QuietRefusal, KernelsAgree
  <2> QED
    BY <2>2, <2>3 DEF Quiet
<1>8. CASE Settle
  <2>1. /\ pc = "settle" /\ pc' = "rename" /\ step' = 0
        /\ UNCHANGED <<op, id0, bank, module, errorFile, told, refused>>
    BY <1>8 DEF Settle
  <2>2. dexFlash' = (id0 = DEX)
    BY <1>0, <1>8 DEF Settle, GetEid
  <2>3. QuietControl'
    BY <2>1, <2>2 DEF Quiet, QuietControl
  <2>4. QuietPlugins'
    BY <2>1 DEF Quiet, QuietPlugins, PluginAt, KindOf
  <2>5. QuietKernels' /\ QuietRefusal'
    BY <2>1 DEF Quiet, QuietKernels, QuietRefusal, KernelsAgree
  <2> QED
    BY <2>3, <2>4, <2>5 DEF Quiet
<1>9. CASE Rename
  <2>1. /\ pc = "rename" /\ pc' = "rename"
        /\ UNCHANGED <<op, id0, bank, dexFlash, errorFile, told, refused>>
    BY <1>9 DEF Rename
  <2>2. QuietControl'
    BY <2>1 DEF Quiet, QuietControl
  <2>3. QuietPlugins'
    BY <1>9, <2>1, RenameStep DEF Quiet, QuietPlugins
  <2>4. QuietKernels' /\ QuietRefusal'
    BY <2>1 DEF Quiet, QuietKernels, QuietRefusal, KernelsAgree
  <2> QED
    BY <2>2, <2>3, <2>4 DEF Quiet
<1>10. CASE RenamesDone
  <2>1. /\ pc = "rename" /\ step = 2 * Plugins /\ mode' = "cex" /\ m' = 1 /\ ros' = 0 /\ rr'
        /\ UNCHANGED <<op, id0, bank, module, dexFlash, errorFile, told, refused>>
        /\ pc' = (IF dexFlash THEN "report" ELSE "search")
    BY <1>10 DEF RenamesDone
  <2>2. pc' = (IF id0 = DEX THEN "report" ELSE "search")
    <3>1. dexFlash <=> id0 = DEX
      BY <2>1, Zenon DEF Quiet, QuietControl
    <3> QED
      BY <2>1, <3>1
  <2>3. QuietControl'
    BY <2>1, <2>2 DEF Quiet, QuietControl
  <2>4. QuietPlugins'
    <3>1. \A p \in 1 .. Plugins : 2 * p <= step
      BY <2>1, TargetAssumption
    <3>2. \A p \in 1 .. Plugins : module[p] = Installed(KindOf(id0))
      BY <2>1, <3>1 DEF Quiet, QuietPlugins, PluginAt
    <3> QED
      BY <2>1, <2>2, <3>2 DEF QuietPlugins, KindOf
  <2>5. QuietKernels'
    BY <2>1, <2>2 DEF Quiet, QuietControl, QuietKernels, KernelsAgree, ROS
  <2>6. QuietRefusal'
    BY <2>1, <2>2 DEF Quiet, QuietRefusal
  <2> QED
    BY <2>3, <2>4, <2>5, <2>6 DEF Quiet
<1>11. CASE BankSkipped \/ BankRenamed
  <2>1. /\ pc = "search" /\ pc' = pc /\ m \in ROS /\ m' = m + 1 /\ mode' = mode /\ rr'
        /\ UNCHANGED <<op, id0, module, dexFlash, errorFile, told, refused>>
        /\ mode \in Kinds /\ bank[m] \in Standard
    BY <1>11 DEF BankSkipped, BankRenamed, NextBank, TypeOK, Quiet, QuietKernels
  <2>2. CASE BankSkipped
    <3>1. bank' = bank /\ ros' = ros
      BY <2>2 DEF BankSkipped
    <3>2. bank[m] \in {Active(mode), Foreign}
      BY <2>1, <2>2, NotFoundMeansSettled, BanksDiffer DEF BankSkipped
    <3>3. QuietKernels'
      BY <2>1, <3>1, <3>2 DEF Quiet, QuietKernels, KernelsAgree, ROS
    <3> QED
      BY <2>1, <3>3 DEF Quiet, QuietControl, QuietPlugins, QuietRefusal, KindOf
  <2>3. CASE BankRenamed
    <3>1. bank[m] = Active(Other(mode)) /\ Renamed(bank[m], mode) = Active(mode)
      BY <2>1, <2>3, FoundMeansOther DEF BankRenamed
    <3>2. bank' = [bank EXCEPT ![m] = Active(mode)]
      BY <2>3, <3>1 DEF BankRenamed
    <3>3. ~refused
      <4>1. SUFFICES ASSUME refused PROVE FALSE
        OBVIOUS
      <4>2. KernelsAgree /\ op = "convert"
        BY <2>1, <4>1 DEF Quiet, QuietKernels, QuietRefusal
      <4>3. mode = "cex" /\ id0 # DEX
        BY <2>1, <4>2 DEF Quiet, QuietKernels
      <4>4. bank[m] \in {Active("cex"), Foreign} /\ Other(mode) = "dex"
        BY <2>1, <4>2, <4>3 DEF KernelsAgree, Other
      <4> QED
        BY <3>1, <4>4, BanksDiffer
    <3>4. bank \in [ROS -> [Kinds -> Letters]] /\ Active(mode) \in Standard
      BY <2>1 DEF TypeOK, Standard, Kinds
    <3>5. bank'[m] = Active(mode) /\ \A b \in ROS : b # m => bank'[b] = bank[b]
      BY <2>1, <3>2, <3>4
    <3>6. QuietKernels'
      BY <2>1, <3>3, <3>4, <3>5 DEF Quiet, QuietKernels, ROS
    <3> QED
      BY <2>1, <3>6 DEF Quiet, QuietControl, QuietPlugins, QuietRefusal, KindOf
  <2> QED
    BY <1>11, <2>2, <2>3
<1>12. CASE SearchEnds
  <2>1. /\ pc = "search" /\ m \notin ROS
        /\ UNCHANGED <<op, id0, bank, module, errorFile, refused>>
        /\ told' \in {told, "changed", "failed"}
        /\ pc' = IF ros > 0 /\ rr THEN "off" ELSE "report"
    BY <1>12 DEF SearchEnds
  <2>2. m = 3
    BY <2>1 DEF TypeOK, ROS
  <2>3. refused => pc' = "report"
    BY <2>1 DEF Quiet, QuietKernels
  <2>4. QuietControl' /\ QuietPlugins'
    BY <2>1 DEF Quiet, QuietControl, QuietPlugins, KindOf
  <2>5. QuietKernels'
    BY <2>1, <2>2 DEF Quiet, QuietKernels, KernelsAgree, ROS
  <2>6. QuietRefusal'
    BY <2>1, <2>3 DEF Quiet, QuietRefusal
  <2> QED
    BY <2>4, <2>5, <2>6 DEF Quiet
<1>13. CASE Report
  <2>1. /\ pc = "report" /\ pc' = "menu"
        /\ UNCHANGED <<op, id0, bank, module, refused>>
        /\ op = "convert" /\ errorFile => told' = "refused" /\ ~errorFile'
        /\ ~(op = "convert" /\ errorFile) => told' = told /\ errorFile' = errorFile
    BY <1>13 DEF Report
  <2>2. QuietControl' /\ QuietPlugins'
    BY <2>1 DEF Quiet, QuietControl, QuietPlugins, KindOf
  <2>3. QuietKernels'
    BY <2>1 DEF Quiet, QuietKernels, KernelsAgree
  <2>4. QuietRefusal'
    BY <2>1 DEF Quiet, QuietRefusal
  <2> QED
    BY <2>2, <2>3, <2>4 DEF Quiet
<1>14. CASE Cut \/ FileFails \/ OpenFails \/ BankUnread \/ BankTorn
  BY <1>0, <1>14 DEF Cut, FileFails, OpenFails, BankUnread, BankTorn
<1>15. CASE UNCHANGED vars
  BY <1>15 DEF vars, Quiet, QuietControl, QuietPlugins, QuietKernels, QuietRefusal,
     KindOf, KernelsAgree, PluginAt
<1> QED
  BY <1>1, <1>2, <1>3, <1>4, <1>5, <1>6, <1>7, <1>8, <1>9, <1>10, <1>11, <1>12,
     <1>13, <1>14, <1>15 DEF Next

\* Failures are never forgotten.
LEMMA FaultsStay ==
  ASSUME TypeOK, [Next]_vars, faults' = 0
  PROVE  faults = 0
<1>1. CASE Ok \/ Fault \/ UNCHANGED faults
  BY <1>1 DEF TypeOK, Ok, Fault
<1>2. CASE Converted
  <2>1. PICK lost \in BOOLEAN, failed \in BOOLEAN :
          faults' = faults + Cardinality({f \in {1, 2} : <<lost, failed>>[f]})
    BY <1>2 DEF Converted
  <2>2. Cardinality({f \in {1, 2} : <<lost, failed>>[f]}) \in Nat
    BY TwoFlags
  <2>3. faults \in Nat
    BY TargetAssumption DEF TypeOK
  <2> QED
    BY <2>1, <2>2, <2>3
<1>3. CASE UNCHANGED vars
  BY <1>3 DEF vars
<1>4. CASE Boot \/ PlaceKey \/ TurnOff \/ Cut \/ SwapKernel \/ Convert \/ UseFile
  BY <1>1, <1>4 DEF Boot, PlaceKey, TurnOff, Cut, SwapKernel, Convert, UseFile, GetEid
<1>5. CASE ConvertRefused \/ FileWritten \/ FileRefused \/ FileFails \/ Settle \/ Rename
  BY <1>1, <1>5 DEF ConvertRefused, FileWritten, FileRefused, FileFails, Settle, Rename, GetEid
<1>6. CASE RenamesDone \/ OpenFails \/ SearchEnds \/ Report
  BY <1>1, <1>6 DEF RenamesDone, OpenFails, SearchEnds, Report
<1>7. CASE BankUnread \/ BankSkipped \/ BankRenamed \/ BankTorn
  BY <1>1, <1>7 DEF BankUnread, BankSkipped, BankRenamed, BankTorn
<1> QED
  BY <1>2, <1>3, <1>4, <1>5, <1>6, <1>7 DEF Next

LEMMA QuietInvariant == Spec => []QuietInv
<1>1. Init => QuietInv
  <2> SUFFICES ASSUME Init PROVE Quiet
    BY DEF QuietInv
  <2>1. QuietControl /\ QuietPlugins /\ QuietRefusal
    BY DEF Init, QuietControl, QuietPlugins, QuietRefusal
  <2>2. \A b \in ROS : bank[b] \in Standard
    BY DEF Init, Standard, Kinds
  <2>3. ~IsActive(Active("dex"), "cex")
    BY DEF IsActive, Active, Kinds, Spare
  <2>4. KernelsAgree
    BY <2>2, <2>3 DEF Init, KernelsAgree, Standard
  <2> QED
    BY <2>1, <2>2, <2>4 DEF Init, Quiet, QuietKernels
<1>2. TypeOK /\ Counted /\ QuietInv /\ [Next]_vars => QuietInv'
  BY QuietStep, FaultsStay DEF QuietInv
<1> QED
  BY <1>1, <1>2, TypeInvariant, PTL DEF Spec

\* Unless a call failed or the power was cut, no operation leaves a DEX kernel
\* on a console whose target is CEX.
THEOREM KernelFollowsTarget == Spec => []CexTargetHasCexKernel
<1>1. QuietInv => CexTargetHasCexKernel
  <2>1. IsActive(Active("cex"), "cex") /\ IsActive(Foreign, "cex")
    BY ActiveIsActive, ForeignIsCex DEF Kinds
  <2> QED
    BY <2>1 DEF QuietInv, Quiet, QuietKernels, KernelsAgree, CexTargetHasCexKernel, Idle
<1> QED
  BY <1>1, QuietInvariant, PTL

\* Unless a call failed or the power was cut, the plug-ins are the target's.
THEOREM PluginsAreTheTargets == Spec => []PluginsFollowTarget
<1>1. QuietInv => PluginsFollowTarget
  BY DEF QuietInv, Quiet, QuietPlugins, PluginsFollowTarget, Idle
<1> QED
  BY <1>1, QuietInvariant, PTL

\* Unless a call failed or the power was cut, a conversion is reported refused
\* exactly if it was, and nothing of it is left for the next one.
THEOREM RefusalIsReported == Spec => []RefusalReported
<1>1. QuietInv => RefusalReported
  BY DEF QuietInv, Quiet, QuietRefusal, RefusalReported, Idle
<1> QED
  BY <1>1, QuietInvariant, PTL
-----------------------------------------------------------------------------
(* What the failures have cost: the banks without their one active kernel, *)
(* and the plug-ins without an active file.  The plug-in between its two   *)
(* renames is not counted as lost, its file is on its way.                 *)
LostBanks == {b \in ROS : ~Whole(bank[b])}
LostPlugins == {p \in 1 .. Plugins : module[p]["sprx"] = "none"}
OnTheWay == IF pc = "rename" /\ step % 2 = 1 THEN {PluginOf(step)} ELSE {}

LossInv ==
    /\ \A p \in 1 .. Plugins : module[p] \in {Installed("cex"), Installed("dex"), HalfMoved("cex")}
    /\ Cardinality(LostBanks) + Cardinality(LostPlugins \ OnTheWay) <= faults

LEMMA LostAreFinite ==
  /\ IsFiniteSet(ROS) /\ IsFiniteSet(LostBanks)
  /\ IsFiniteSet(LostPlugins) /\ IsFiniteSet(LostPlugins \ OnTheWay)
<1>1. IsFiniteSet({1}) /\ {1} \cup {2} = ROS
  BY FS_Singleton DEF ROS
<1>2. IsFiniteSet(ROS)
  BY <1>1, FS_AddElement
<1>3. IsFiniteSet(1 .. Plugins)
  BY TargetAssumption, FS_Interval
<1>4. /\ LostBanks \in SUBSET ROS
      /\ LostPlugins \in SUBSET (1 .. Plugins)
      /\ LostPlugins \ OnTheWay \in SUBSET (1 .. Plugins)
  BY DEF LostBanks, LostPlugins
<1>5. IsFiniteSet(LostBanks)
  BY <1>2, <1>4, FS_Subset
<1>6. IsFiniteSet(LostPlugins) /\ IsFiniteSet(LostPlugins \ OnTheWay)
  BY <1>3, <1>4, FS_Subset
<1> QED
  BY <1>2, <1>5, <1>6

\* A set that stays within another has at most as many elements, within the
\* other and one element more at most one more.
LEMMA NoMore ==
  ASSUME NEW S, IsFiniteSet(S), NEW T, T \subseteq S
  PROVE  Cardinality(T) \in Nat /\ Cardinality(S) \in Nat /\ Cardinality(T) <= Cardinality(S)
  BY FS_Subset, FS_CardinalityType

LEMMA OneMore ==
  ASSUME NEW S, IsFiniteSet(S), NEW x, NEW T, T \subseteq S \cup {x}
  PROVE  /\ Cardinality(T) \in Nat /\ Cardinality(S) \in Nat
         /\ Cardinality(T) <= Cardinality(S) + 1
<1>1. /\ IsFiniteSet(S \cup {x})
      /\ Cardinality(S \cup {x}) <= Cardinality(S) + 1
      /\ Cardinality(S) \in Nat
  BY FS_AddElement, FS_CardinalityType
<1>2. Cardinality(T) \in Nat /\ Cardinality(S \cup {x}) \in Nat
      /\ Cardinality(T) <= Cardinality(S \cup {x})
  BY <1>1, NoMore
<1> QED
  BY <1>1, <1>2

\* The steps that neither rename nor stop half-way.
LEMMA LossFrame ==
  ASSUME TypeOK, [Next]_vars, ~Rename, ~Cut, ~BankRenamed, ~BankTorn
  PROVE  /\ UNCHANGED <<bank, module>>
         /\ faults \in Nat /\ faults' \in Nat /\ faults <= faults'
         /\ OnTheWay \subseteq OnTheWay'
<1> USE DEF flash, search, given
<1>0. faults \in Nat
  BY TargetAssumption DEF TypeOK
<1>1. ASSUME Ok \/ Fault \/ UNCHANGED faults
      PROVE  faults' \in Nat /\ faults <= faults'
  BY <1>0, <1>1 DEF Ok, Fault
<1>2. CASE Converted
  <2>1. PICK lost \in BOOLEAN, failed \in BOOLEAN :
          faults' = faults + Cardinality({f \in {1, 2} : <<lost, failed>>[f]})
    BY <1>2 DEF Converted
  <2>2. faults' \in Nat /\ faults <= faults'
    <3>1. Cardinality({f \in {1, 2} : <<lost, failed>>[f]}) \in Nat
      BY TwoFlags
    <3> QED
      BY <1>0, <2>1, <3>1
  <2> QED
    BY <1>0, <1>2, <2>2 DEF Converted, OnTheWay
<1>3. CASE UNCHANGED vars
  BY <1>0, <1>3 DEF vars, OnTheWay, PluginOf
<1>4. CASE Boot \/ PlaceKey \/ TurnOff \/ SwapKernel \/ Convert \/ UseFile
  <2>1. UNCHANGED <<bank, module>> /\ pc \in {"menu", "off"}
    BY <1>4 DEF Boot, PlaceKey, TurnOff, SwapKernel, Convert, UseFile, Begin
  <2>2. Ok \/ Fault \/ UNCHANGED faults
    BY <1>4 DEF Boot, PlaceKey, TurnOff, SwapKernel, Convert, UseFile, GetEid
  <2> QED
    BY <1>0, <1>1, <2>1, <2>2 DEF OnTheWay
<1>5. CASE ConvertRefused \/ FileWritten \/ FileRefused \/ FileFails \/ Settle
  <2>1. UNCHANGED <<bank, module>> /\ pc # "rename"
    BY <1>5 DEF ConvertRefused, FileWritten, FileRefused, FileFails, Settle
  <2>2. Ok \/ Fault
    BY <1>5 DEF ConvertRefused, FileWritten, FileRefused, FileFails, Settle, GetEid
  <2> QED
    BY <1>0, <1>1, <2>1, <2>2 DEF OnTheWay
<1>6. CASE RenamesDone
  <2>1. UNCHANGED <<bank, module, faults>> /\ step = 2 * Plugins
    BY <1>6 DEF RenamesDone
  <2>2. step % 2 = 0
    BY <2>1, TargetAssumption
  <2> QED
    BY <1>0, <2>1, <2>2 DEF OnTheWay
<1>7. CASE OpenFails \/ BankUnread \/ BankSkipped \/ SearchEnds \/ Report
  <2>1. UNCHANGED <<bank, module>> /\ pc # "rename"
    BY <1>7 DEF OpenFails, BankUnread, BankSkipped, NextBank, SearchEnds, Report
  <2>2. Ok \/ Fault \/ UNCHANGED faults
    BY <1>7 DEF OpenFails, BankUnread, BankSkipped, SearchEnds, Report
  <2> QED
    BY <1>0, <1>1, <2>1, <2>2 DEF OnTheWay
<1> QED
  BY <1>2, <1>3, <1>4, <1>5, <1>6, <1>7 DEF Next

\* One rename of a plug-in in any of its states: put away, the file may be on
\* its way; taken, there is an active file unless the call failed.
LEMMA RenameLoses ==
  ASSUME TypeOK, LossInv, Rename
  PROVE  /\ \A p \in 1 .. Plugins :
              module'[p] \in {Installed("cex"), Installed("dex"), HalfMoved("cex")}
         /\ \/ faults' = faults /\ (LostPlugins \ OnTheWay)' \subseteq LostPlugins \ OnTheWay
            \/ /\ faults' = faults + 1
               /\ (LostPlugins \ OnTheWay)'
                     \subseteq (LostPlugins \ OnTheWay) \cup {PluginOf(step)}
<1> DEFINE k == IF dexFlash THEN "dex" ELSE "cex"
           q == PluginOf(step)
           States == {Installed("cex"), Installed("dex"), HalfMoved("cex")}
<1>1. k \in Kinds /\ step \in Nat /\ step < 2 * Plugins /\ step' = step + 1
      /\ pc = "rename" /\ pc' = "rename" /\ Plugins \in Nat
  BY TargetAssumption DEF Rename, TypeOK, Kinds
<1>2. /\ q \in 1 .. Plugins
      /\ step % 2 = 0 => OnTheWay = {} /\ OnTheWay' = {q}
      /\ step % 2 = 1 => OnTheWay = {q} /\ OnTheWay' = {}
  <2>1. step % 2 = 0 => (step + 1) % 2 = 1 /\ (step + 1) \div 2 = step \div 2
    BY <1>1
  <2>2. step % 2 = 1 => (step + 1) % 2 = 0
    BY <1>1
  <2>3. q \in 1 .. Plugins
    BY <1>1, Halving DEF PluginOf
  <2> QED
    BY <1>1, <2>1, <2>2, <2>3 DEF OnTheWay, PluginOf
<1>3. step % 2 = 0 \/ step % 2 = 1
  BY <1>1
<1>4. \A p \in 1 .. Plugins : module[p] \in States
  BY DEF LossInv
<1>5. CASE Fault /\ UNCHANGED module
  <2>1. LostPlugins' = LostPlugins
    BY <1>5 DEF LostPlugins
  <2> QED
    BY <1>2, <1>3, <1>4, <1>5, <2>1 DEF Fault
<1>6. CASE Ok /\ module' = IF Movable(module[q], From(step, k), To(step, k))
                           THEN [module EXCEPT ![q] = Move(@, From(step, k), To(step, k))]
                           ELSE module
  <2>1. \A p \in 1 .. Plugins : p # q => module'[p] = module[p]
    BY <1>2, <1>6 DEF TypeOK
  <2>2. module'[q] = IF Movable(module[q], From(step, k), To(step, k))
                     THEN Move(module[q], From(step, k), To(step, k)) ELSE module[q]
    BY <1>2, <1>6 DEF TypeOK
  <2>3. CASE step % 2 = 0
    <3>1. From(step, k) = "sprx" /\ To(step, k) = Other(k)
      BY <2>3 DEF From, To
    <3>2. module'[q] \in States
      BY <1>1, <1>2, <1>4, <2>2, <3>1
         DEF Installed, HalfMoved, Movable, Move, Kinds, Names, Other
    <3>3. LostPlugins' \ {q} \subseteq LostPlugins
      BY <2>1 DEF LostPlugins
    <3> QED
      BY <1>2, <1>4, <1>6, <2>1, <2>3, <3>2, <3>3 DEF Ok
  <2>4. CASE step % 2 = 1
    <3>1. From(step, k) = k /\ To(step, k) = "sprx"
      BY <2>4 DEF From, To
    <3>2. module'[q] \in {Installed("cex"), Installed("dex")}
      BY <1>1, <1>2, <1>4, <2>2, <3>1
         DEF Installed, HalfMoved, Movable, Move, Kinds, Names, Other
    <3>3. module'[q]["sprx"] # "none"
      BY <3>2 DEF Installed, Names
    <3>4. LostPlugins' \subseteq LostPlugins \ {q}
      BY <2>1, <3>3 DEF LostPlugins
    <3> QED
      BY <1>2, <1>4, <1>6, <2>1, <2>4, <3>2, <3>4 DEF Ok
  <2> QED
    BY <1>3, <2>3, <2>4
<1> QED
  BY <1>5, <1>6 DEF Rename

\* The steps of the search that write a bank.
LEMMA BankLoses ==
  ASSUME TypeOK, KernelInv, BankRenamed \/ BankTorn
  PROVE  /\ UNCHANGED <<module, pc>>  /\ pc = "search"
         /\ \/ faults' = faults /\ LostBanks' \subseteq LostBanks
            \/ faults' = faults + 1 /\ LostBanks' \subseteq LostBanks \cup {m}
<1>0. UNCHANGED <<module, pc>> /\ pc = "search" /\ NextBank
  BY DEF BankRenamed, BankTorn, NextBank
<1>1. /\ mode \in Kinds /\ m \in ROS
      /\ \A b \in ROS \ {m} : bank'[b] = bank[b]
  BY <1>0, BankStep DEF TypeOK, NextBank
<1>2. CASE BankRenamed
  <2>1. bank[m] \in Standard \cup {Both, Neither}
    BY <1>1 DEF KernelInv
  <2>2. Renamed(bank[m], mode) = Active(mode)
    BY <1>1, <1>2, <2>1, FoundMeansOther DEF BankRenamed
  <2>3. bank'[m] = Active(mode)
    BY <1>1, <1>2, <2>2 DEF BankRenamed, TypeOK
  <2>4. Whole(bank'[m])
    BY <1>1, <2>3, ActiveIsActive DEF Whole, IsActive
  <2>5. LostBanks' \subseteq LostBanks
    BY <1>1, <2>4 DEF LostBanks
  <2> QED
    BY <1>0, <1>2, <2>5 DEF BankRenamed, Ok
<1>3. CASE BankTorn
  <2>1. LostBanks' \subseteq LostBanks \cup {m}
    BY <1>1 DEF LostBanks
  <2> QED
    BY <1>0, <1>3, <2>1 DEF BankTorn, Fault
<1> QED
  BY <1>2, <1>3

LEMMA LossInvariant == Spec => []LossInv
<1>1. Init => LossInv
  <2> SUFFICES ASSUME Init PROVE LossInv
    OBVIOUS
  <2>1. \A b \in ROS : Whole(bank[b])
    BY ActiveIsActive, ForeignIsCex DEF Init, Whole, IsActive, Kinds
  <2>2. \A p \in 1 .. Plugins :
          module[p] \in {Installed("cex"), Installed("dex")} /\ module[p]["sprx"] # "none"
    BY DEF Init, KindOf, Installed, Names
  <2>3. LostBanks = {} /\ LostPlugins \ OnTheWay = {}
    BY <2>1, <2>2 DEF LostBanks, LostPlugins
  <2>4. Cardinality(LostBanks) + Cardinality(LostPlugins \ OnTheWay) = 0
    BY <2>3, FS_EmptySet
  <2> QED
    BY <2>2, <2>4 DEF Init, LossInv
<1>2. TypeOK /\ KernelInv /\ LossInv /\ [Next]_vars => LossInv'
  <2> SUFFICES ASSUME TypeOK, KernelInv, LossInv, [Next]_vars PROVE LossInv'
    OBVIOUS
  <2> DEFINE B == LostBanks
             P == LostPlugins \ OnTheWay
  <2>0. faults \in Nat /\ IsFiniteSet(B) /\ IsFiniteSet(P)
        /\ Cardinality(B) + Cardinality(P) <= faults
    BY LostAreFinite, TargetAssumption DEF TypeOK, LossInv
  <2>1. CASE Rename
    <3>1. B' = B
      BY <2>1 DEF Rename, LostBanks, flash
    <3>2. \/ faults' = faults /\ P' \subseteq P
          \/ faults' = faults + 1 /\ P' \subseteq P \cup {PluginOf(step)}
      BY <2>1, RenameLoses
    <3>3. Cardinality(B') + Cardinality(P') <= faults'
      <4>1. Cardinality(B) \in Nat /\ Cardinality(P) \in Nat /\ B' = B
        BY <2>0, <3>1, FS_CardinalityType
      <4>2. \/ faults' = faults /\ Cardinality(P') <= Cardinality(P)
            \/ faults' = faults + 1 /\ Cardinality(P') <= Cardinality(P) + 1
        BY <2>0, <3>2, NoMore, OneMore
      <4>3. Cardinality(P') \in Nat
        BY <2>0, <3>2, NoMore, OneMore
      <4> HIDE DEF B, P
      <4> QED
        BY <2>0, <4>1, <4>2, <4>3
    <3> QED
      BY <2>1, <3>3, RenameLoses DEF LossInv
  <2>2. CASE BankRenamed \/ BankTorn
    <3>1. P' = P
      BY <2>2, BankLoses DEF LostPlugins, OnTheWay
    <3>2. \/ faults' = faults /\ B' \subseteq B
          \/ faults' = faults + 1 /\ B' \subseteq B \cup {m}
      BY <2>2, BankLoses
    <3>3. Cardinality(B') + Cardinality(P') <= faults'
      <4>1. Cardinality(B) \in Nat /\ Cardinality(P) \in Nat /\ P' = P
        BY <2>0, <3>1, FS_CardinalityType
      <4>2. \/ faults' = faults /\ Cardinality(B') <= Cardinality(B)
            \/ faults' = faults + 1 /\ Cardinality(B') <= Cardinality(B) + 1
        BY <2>0, <3>2, NoMore, OneMore
      <4>3. Cardinality(B') \in Nat
        BY <2>0, <3>2, NoMore, OneMore
      <4> HIDE DEF B, P
      <4> QED
        BY <2>0, <4>1, <4>2, <4>3
    <3> QED
      BY <2>2, <3>3, BankLoses DEF LossInv
  <2>3. CASE Cut
    <3>1. UNCHANGED <<bank, module>> /\ faults' = faults + 1
      BY <2>3 DEF Cut, Fault, flash
    <3>2. B' = B /\ P' \subseteq P \cup {PluginOf(step)}
      BY <3>1 DEF LostBanks, LostPlugins, OnTheWay
    <3>3. Cardinality(B') + Cardinality(P') <= faults'
      <4>1. /\ Cardinality(B) \in Nat /\ Cardinality(P) \in Nat /\ B' = B
            /\ Cardinality(P') \in Nat /\ Cardinality(P') <= Cardinality(P) + 1
        BY <2>0, <3>2, FS_CardinalityType, OneMore
      <4> HIDE DEF B, P
      <4> QED
        BY <2>0, <3>1, <4>1
    <3> QED
      BY <3>1, <3>3 DEF LossInv
  <2>4. CASE ~Rename /\ ~Cut /\ ~BankRenamed /\ ~BankTorn
    <3>1. /\ UNCHANGED <<bank, module>> /\ faults' \in Nat /\ faults <= faults'
          /\ OnTheWay \subseteq OnTheWay'
      BY <2>4, LossFrame
    <3>2. B' = B /\ P' \subseteq P
      BY <3>1 DEF LostBanks, LostPlugins
    <3>3. Cardinality(B') + Cardinality(P') <= faults'
      <4>1. /\ Cardinality(B) \in Nat /\ Cardinality(P) \in Nat /\ B' = B
            /\ Cardinality(P') \in Nat /\ Cardinality(P') <= Cardinality(P)
        BY <2>0, <3>2, FS_CardinalityType, NoMore
      <4> HIDE DEF B, P
      <4> QED
        BY <2>0, <3>1, <4>1
    <3> QED
      BY <3>1, <3>3 DEF LossInv
  <2> QED
    BY <2>1, <2>2, <2>3, <2>4
<1> QED
  BY <1>1, <1>2, TypeInvariant, KernelInvariant, PTL DEF Spec

\* For any number of plug-ins and failures, every failed call or power cut
\* costs at most one bank its active kernel or one plug-in its active file.
THEOREM OneLossEach == Spec => []OneLossPerFault
<1>1. TypeOK /\ LossInv => OneLossPerFault
  <2> SUFFICES ASSUME TypeOK, LossInv PROVE OneLossPerFault
    OBVIOUS
  <2> DEFINE B == LostBanks
             P == LostPlugins \ OnTheWay
             L == LostPlugins
  <2>1. faults \in Nat /\ IsFiniteSet(B) /\ IsFiniteSet(P)
        /\ Cardinality(B) + Cardinality(P) <= faults
    BY LostAreFinite, TargetAssumption DEF TypeOK, LossInv
  <2>2. L \subseteq P \cup OnTheWay
    OBVIOUS
  <2>3. Cardinality(B) + Cardinality(L)
          <= faults + (IF pc = "rename" /\ step % 2 = 1 THEN 1 ELSE 0)
    <3>1. CASE pc = "rename" /\ step % 2 = 1
      <4>1. L \subseteq P \cup {PluginOf(step)}
        BY <2>2, <3>1 DEF OnTheWay
      <4>2. /\ Cardinality(B) \in Nat /\ Cardinality(P) \in Nat
            /\ Cardinality(L) \in Nat /\ Cardinality(L) <= Cardinality(P) + 1
        BY <2>1, <4>1, FS_CardinalityType, OneMore
      <4> HIDE DEF B, P, L
      <4> QED
        BY <2>1, <3>1, <4>2
    <3>2. CASE ~(pc = "rename" /\ step % 2 = 1)
      <4>1. L \subseteq P
        BY <2>2, <3>2 DEF OnTheWay
      <4>2. /\ Cardinality(B) \in Nat /\ Cardinality(P) \in Nat
            /\ Cardinality(L) \in Nat /\ Cardinality(L) <= Cardinality(P)
        BY <2>1, <4>1, FS_CardinalityType, NoMore
      <4> HIDE DEF B, P, L
      <4> QED
        BY <2>1, <3>2, <4>2
    <3> QED
      BY <3>1, <3>2
  <2> QED
    BY <2>3 DEF OneLossPerFault, LostBanks, LostPlugins
<1> QED
  BY <1>1, TypeInvariant, LossInvariant, PTL
=============================================================================
