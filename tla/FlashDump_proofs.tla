-------------------------- MODULE FlashDump_proofs --------------------------
(* Theorems about FlashDump for every size of the flash, of a step and number
   of retries.  The inductive invariant says what read_flash() relies on
   without a check: while it runs, the sector it reads next is the number of
   sectors written, and the step it asks for ends inside the flash.         *)
EXTENDS FlashDump, SequenceTheorems, TLAPS

(* The first n sectors of the flash. *)
First(n) == [ i \in 1 .. n |-> i ]

(* Before a read, the file holds the sectors before it. *)
Aligned ==
  at \in {"read", "write"} =>
    /\ sector = written
    /\ step2 \in 1 .. Step
    /\ sector + step2 <= Sectors

(* Of what was asked for, something came, and at most that. *)
Answered == at = "write" => readlen \in 1 .. step2

(* A step is not begun once the attempts are used up. *)
Tries == at \in {"read", "write"} => retry <= Retries

(* The file while it is open, and what a dump leaves. *)
Contents ==
  /\ at # "menu" => saved = First(written)
  /\ at = "menu" => \/ saved = NoFile
                    \/ saved = First(Sectors)
                    \/ saved = <<>> /\ ~nor

IInv == TypeOK /\ Aligned /\ Answered /\ Tries /\ Contents

-----------------------------------------------------------------------------
(* First(n) is a sequence of length n. *)
LEMMA FirstIsSeq ==
  ASSUME NEW n \in Nat
  PROVE  First(n) \in Seq(Nat) /\ Len(First(n)) = n
  <1>1. First(n) \in [1 .. n -> Nat]
    BY DEF First
  <1> QED
    BY <1>1

(* Writing m sectors that were read at n, after the first n, gives the first
   n + m.                                                                   *)
LEMMA FirstGrows ==
  ASSUME NEW n \in Nat, NEW m \in Nat
  PROVE  First(n) \o [ i \in 1 .. m |-> n + i ] = First(n + m)
  <1> DEFINE more == [ i \in 1 .. m |-> n + i ]
             both == First(n) \o more
  <1>0. \A i \in 1 .. m : more[i] = n + i
    OBVIOUS
  <1>1. more \in Seq(Nat) /\ Len(more) = m
    <2>1. more \in [1 .. m -> Nat]
      OBVIOUS
    <2> QED
      BY <2>1
  <1>2. First(n) \in Seq(Nat) /\ Len(First(n)) = n
    BY FirstIsSeq
  <1>3. First(n + m) \in Seq(Nat) /\ Len(First(n + m)) = n + m
    BY FirstIsSeq
  <1> HIDE DEF more
  <1>4. /\ both \in Seq(Nat)
        /\ Len(both) = n + m
        /\ \A i \in 1 .. n + m :
             both[i] = IF i <= n THEN First(n)[i] ELSE more[i - n]
    <2>1. /\ both \in Seq(Nat)
          /\ Len(both) = Len(First(n)) + Len(more)
          /\ \A i \in 1 .. Len(First(n)) + Len(more) :
               both[i] = IF i <= Len(First(n)) THEN First(n)[i]
                                               ELSE more[i - Len(First(n))]
      BY <1>1, <1>2, ConcatProperties, Zenon
    <2> HIDE DEF both
    <2> QED
      BY <1>1, <1>2, <2>1
  <1>5. ASSUME NEW i \in 1 .. n + m
        PROVE  both[i] = First(n + m)[i]
    <2>1. First(n + m)[i] = i
      BY DEF First
    <2>2. CASE i <= n
      BY <1>4, <2>1, <2>2 DEF First
    <2>3. CASE ~(i <= n)
      <3>1. i - n \in 1 .. m
        BY <2>3
      <3>2. more[i - n] = i
        BY <1>0, <3>1
      <3> QED
        BY <1>4, <2>1, <2>3, <3>2
    <2> QED
      BY <2>2, <2>3
  <1> HIDE DEF both
  <1>6. both = First(n + m)
    BY <1>3, <1>4, <1>5, SeqEqual, Zenon
  <1> QED
    BY <1>6 DEF both, more

(* No file of the model is mistaken for none. *)
LEMMA FirstIsFile ==
  ASSUME NEW n \in Nat
  PROVE  First(n) # NoFile
  <1>1. CASE n = 0
    <2>1. Len(First(0)) = 0 /\ Len(NoFile) = 1
      BY FirstIsSeq DEF NoFile
    <2> QED
      BY <1>1, <2>1
  <1>2. CASE n > 0
    <2>1. First(n)[1] = 1 /\ NoFile[1] = 0
      BY <1>2 DEF First, NoFile
    <2> QED
      BY <2>1
  <1> QED
    BY <1>1, <1>2

(* The step at s ends inside the flash, and is empty at its end only. *)
LEMMA ClipFits ==
  ASSUME NEW s \in 0 .. Sectors
  PROVE  /\ Clip(s) \in 0 .. Step
         /\ s + Clip(s) <= Sectors
         /\ s < Sectors => Clip(s) # 0
  BY FlashDumpAssumption DEF Clip

(* A halved step is a step, and not a longer one. *)
LEMMA HalfFits ==
  ASSUME NEW n \in Nat \ {0}
  PROVE  Half(n) \in 1 .. n
  BY DEF Half

-----------------------------------------------------------------------------
LEMMA InitInv == Init => IInv
  <1> SUFFICES ASSUME Init PROVE IInv
    OBVIOUS
  <1>1. nor \in BOOLEAN /\ rom \in BOOLEAN
    BY Zenon DEF Init
  <1>2. TypeOK
    <2>1. /\ at = "menu" /\ said = "none" /\ sector = 0 /\ step2 = 0 /\ retry = 1
          /\ readlen = 0 /\ written = 0 /\ dumps = 0
      BY DEF Init
    <2> QED
      BY <1>1, <2>1, FlashDumpAssumption DEF TypeOK
  <1> QED
    BY <1>2 DEF Init, IInv, Aligned, Answered, Tries, Contents

LEMMA DumpFlashInv ==
  ASSUME IInv, NEW space \in BOOLEAN, NEW device \in BOOLEAN,
         NEW opened \in BOOLEAN, DumpFlash(space, device, opened)
  PROVE  IInv'
  <1> USE FlashDumpAssumption
  <1>1. at = "menu" /\ dumps' \in 0 .. MaxDumps /\ rom' = FALSE /\ nor' = nor
    BY DEF DumpFlash, IInv, TypeOK
  <1>2. CASE space /\ device /\ opened
    <2>1. /\ at' = "read" /\ sector' = 0 /\ step2' = Clip(0) /\ retry' = 1
          /\ readlen' = 0 /\ written' = 0 /\ saved' = <<>> /\ said' = said
      BY <1>2 DEF DumpFlash
    <2>2. Clip(0) \in 1 .. Step /\ 0 + Clip(0) <= Sectors
      BY ClipFits
    <2>3. saved' = First(written')
      BY <2>1 DEF First
    <2>4. TypeOK'
      <3>1. nor' \in BOOLEAN /\ rom' \in BOOLEAN
        BY <1>1, Zenon DEF IInv, TypeOK
      <3>2. said' \in {"none", "space", "cannot", "saved"}
        BY <2>1 DEF IInv, TypeOK
      <3> QED
        BY <1>1, <2>1, <2>2, <3>1, <3>2 DEF TypeOK
    <2>5. Aligned' /\ Answered' /\ Tries' /\ Contents'
      BY <2>1, <2>2, <2>3 DEF Aligned, Answered, Tries, Contents
    <2> QED
      BY <2>4, <2>5 DEF IInv
  <1>3. CASE ~(space /\ device /\ opened)
    <2>1. saved' = NoFile /\ said' \in {"space", "cannot", said}
      BY <1>3 DEF DumpFlash
    <2>2. UNCHANGED <<at, sector, step2, retry, readlen, written>>
      BY <1>3 DEF DumpFlash
    <2> QED
      BY <1>1, <2>1, <2>2
      DEF IInv, TypeOK, Aligned, Answered, Tries, Contents
  <1> QED
    BY <1>2, <1>3

LEMMA ReadGivesInv ==
  ASSUME IInv, NEW n \in 0 .. step2, ReadGives(n)
  PROVE  IInv'
  BY FlashDumpAssumption
  DEF ReadGives, IInv, TypeOK, Aligned, Answered, Tries, Contents

LEMMA ReadFailsInv ==
  ASSUME IInv, NEW triangle \in BOOLEAN, ReadFails(triangle)
  PROVE  IInv'
  <1> USE FlashDumpAssumption
  <1>1. Half(step2) \in 1 .. step2
    BY HalfFits DEF ReadFails, IInv, TypeOK, Aligned
  <1>2. at = "read" /\ at' \in {"read", "close"} /\ step2' = Half(step2)
    BY DEF ReadFails
  <1>3. at' = "read" => retry # Retries
    BY DEF ReadFails
  <1>4. /\ retry' = retry + 1 /\ readlen' = 0
        /\ UNCHANGED <<nor, sector, written, saved, rom, said, dumps>>
    BY DEF ReadFails
  <1> QED
    BY <1>1, <1>2, <1>3, <1>4
    DEF IInv, TypeOK, Aligned, Answered, Tries, Contents

LEMMA WriteInv ==
  ASSUME IInv, NEW ok \in BOOLEAN, Write(ok)
  PROVE  IInv'
  <1> USE FlashDumpAssumption
  <1>1. at = "write" /\ UNCHANGED <<nor, readlen, rom, said, dumps>>
    BY DEF Write
  <1>2. /\ sector = written /\ step2 \in 1 .. Step /\ sector + step2 <= Sectors
        /\ readlen \in 1 .. step2 /\ written \in Nat /\ saved = First(written)
    BY <1>1 DEF IInv, TypeOK, Aligned, Answered, Contents
  <1>3. CASE ok
    <2>1. /\ saved' = saved \o [ i \in 1 .. readlen |-> sector + i ]
          /\ written' = written + readlen /\ retry' = 1
      BY <1>3 DEF Write
    <2>2. saved' = First(written')
      <3>1. First(written) \o [ i \in 1 .. readlen |-> written + i ]
              = First(written + readlen)
        <4>1. written \in Nat /\ readlen \in Nat
          BY <1>2
        <4> QED
          BY <4>1, FirstGrows, Zenon
      <3> QED
        BY <1>2, <2>1, <3>1
    <2>3. CASE written' # Sectors /\ readlen = step2
      <3>1. /\ sector' = sector + step2 /\ step2' = Clip(sector + step2)
            /\ at' = IF Clip(sector + step2) # 0 THEN "read" ELSE "close"
        BY <1>3, <2>3 DEF Write
      <3>2. sector + step2 \in 0 .. Sectors
        BY <1>2
      <3>3. sector' = written'
        BY <1>2, <2>1, <2>3, <3>1
      <3>4. step2' \in 0 .. Step /\ sector' + step2' <= Sectors
        BY <3>1, <3>2, ClipFits
      <3>5. /\ written' \in 0 .. Sectors /\ retry' \in 1 .. Retries
            /\ at' \in {"read", "close"} /\ (at' = "read" => step2' # 0)
        BY <1>2, <2>1, <3>1
      <3>6. TypeOK'
        BY <1>1, <3>2, <3>3, <3>4, <3>5 DEF IInv, TypeOK
      <3>7. Aligned'
        <4>1. ASSUME step2' # 0 PROVE step2' \in 1 .. Step
          BY <3>4, <4>1
        <4> QED
          BY <3>3, <3>4, <3>5, <4>1, Zenon DEF Aligned
      <3>8. Answered' /\ Contents'
        BY <2>2, <3>5 DEF Answered, Contents
      <3>9. Tries'
        BY <3>5 DEF Tries
      <3> QED
        BY <3>6, <3>7, <3>8, <3>9 DEF IInv
    <2>4. CASE ~(written' # Sectors /\ readlen = step2)
      <3>1. at' = "close" /\ UNCHANGED <<sector, step2>>
        BY <1>3, <2>4 DEF Write
      <3>2. written' \in 0 .. Sectors /\ retry' \in 1 .. Retries
        BY <1>2, <2>1
      <3> QED
        BY <1>1, <2>2, <3>1, <3>2
        DEF IInv, TypeOK, Aligned, Answered, Tries, Contents
    <2> QED
      BY <2>3, <2>4
  <1>4. CASE ~ok
    <2>1. at' = "close" /\ UNCHANGED <<saved, written, sector, step2, retry>>
      BY <1>4 DEF Write
    <2> QED
      BY <1>1, <2>1 DEF IInv, TypeOK, Aligned, Answered, Tries, Contents
  <1> QED
    BY <1>3, <1>4

LEMMA CloseInv ==
  ASSUME IInv, Close
  PROVE  IInv'
  <1>1. at = "close" /\ at' = "menu" /\ saved = First(written)
    BY DEF Close, IInv, Contents
  <1>2. UNCHANGED <<nor, sector, step2, retry, readlen, written, dumps>>
    BY DEF Close
  <1>3. rom' = ~nor /\ said' = "saved"
    BY DEF Close
  <1>4. Contents'
    <2> DEFINE kept == IF written = Sectors THEN saved ELSE NoFile
    <2>1. saved' = IF ~nor /\ kept = NoFile THEN <<>> ELSE kept
      BY DEF Close
    <2>2. kept \in {NoFile, First(Sectors)}
      BY <1>1
    <2> HIDE DEF kept
    <2> QED
      BY <1>1, <1>2, <2>1, <2>2 DEF Contents
  <1>5. TypeOK'
    BY <1>1, <1>2, <1>3 DEF IInv, TypeOK
  <1> QED
    BY <1>1, <1>4, <1>5 DEF IInv, Aligned, Answered, Tries

LEMMA StepInv == IInv /\ [Next]_vars => IInv'
  <1> SUFFICES ASSUME IInv, [Next]_vars PROVE IInv'
    OBVIOUS
  <1>1. ASSUME NEW space \in BOOLEAN, NEW device \in BOOLEAN,
               NEW opened \in BOOLEAN, DumpFlash(space, device, opened)
        PROVE  IInv'
    BY <1>1, DumpFlashInv
  <1>2. ASSUME NEW n \in 0 .. step2, ReadGives(n) PROVE IInv'
    BY <1>2, ReadGivesInv
  <1>3. ASSUME NEW b \in BOOLEAN, ReadFails(b) PROVE IInv'
    BY <1>3, ReadFailsInv
  <1>4. ASSUME NEW b \in BOOLEAN, Write(b) PROVE IInv'
    BY <1>4, WriteInv
  <1>5. CASE Close
    BY <1>5, CloseInv
  <1>6. CASE UNCHANGED vars
    BY <1>6 DEF vars, IInv, TypeOK, Aligned, Answered, Tries, Contents
  <1> QED
    BY <1>1, <1>2, <1>3, <1>4, <1>5, <1>6 DEF Next

(* The invariant implies the property: a file holds the first sectors of the
   flash, and after the dump all of them or, on NAND, none.                 *)
LEMMA InvImpliesOrder == IInv => DumpInOrder
  <1> SUFFICES ASSUME IInv, File PROVE
        /\ saved = [ i \in 1 .. Len(saved) |-> i ]
        /\ at = "menu" => Len(saved) = Sectors \/ (saved = <<>> /\ ~nor)
    BY DEF DumpInOrder
  <1>1. written \in Nat /\ Sectors \in Nat
    BY FlashDumpAssumption DEF IInv, TypeOK
  <1>2. First(0) = <<>>
    BY DEF First
  <1>3. PICK n \in Nat : saved = First(n)
    BY <1>1, <1>2 DEF IInv, Contents, File
  <1>4. Len(saved) = n
    BY <1>3, FirstIsSeq
  <1>5. saved = [ i \in 1 .. Len(saved) |-> i ]
    BY <1>3, <1>4 DEF First
  <1>6. ASSUME at = "menu", saved = First(Sectors)
        PROVE  Len(saved) = Sectors
    BY <1>1, <1>6, FirstIsSeq
  <1> QED
    BY <1>5, <1>6 DEF IInv, Contents, File

-----------------------------------------------------------------------------
(* Every dump keeps sector and file together, whatever the reads do. *)
THEOREM DumpInvariant == Spec => []IInv
  <1> QED
    BY InitInv, StepInv, PTL DEF Spec

(* The counters of read_flash() stay in their ranges. *)
THEOREM TypeCorrect == Spec => []TypeOK
  <1>1. IInv => TypeOK
    BY DEF IInv
  <1> QED
    BY <1>1, DumpInvariant, PTL

(* A dump has the sectors of the flash in order, and one that is kept is whole
   or a NAND file made of nothing but the system ROM, for any number of
   sectors, any step and any pattern of failing and short reads.            *)
THEOREM DumpsAreInOrder == Spec => []DumpInOrder
  <1> QED
    BY InvImpliesOrder, DumpInvariant, PTL
=============================================================================
