-------------------------- MODULE MCToolbox_proofs --------------------------
(* The theorems about the composition of the menu's operations: a step is one
   part's own, and the other parts' variables stay.  Those about FlashDump and
   OtherOs are carried over from their modules; those about Lv1Patches,
   SystemModes and SystemFiles are proved here, where the assumptions on their
   constants are ones that TLC evaluates.                                   *)
EXTENDS MCToolbox, FiniteSetTheorems, SequenceTheorems, TLAPS

DumpProof == INSTANCE FlashDump_proofs
OtherProof == INSTANCE OtherOs_proofs

(* The instance that the composition is made of and the one that the theorems
   are about have the same actions.                                         *)
LEMMA SameDump ==
  /\ Dump!Init => DumpProof!Init
  /\ Dump!Next => DumpProof!Next
  /\ DumpProof!DumpInOrder => Dump!DumpInOrder
  <1>1. Dump!Init => DumpProof!Init
    BY Zenon DEF Dump!Init, DumpProof!Init, Dump!NoFile, DumpProof!NoFile
  <1>2. DumpProof!DumpInOrder => Dump!DumpInOrder
    BY Zenon DEF Dump!DumpInOrder, DumpProof!DumpInOrder, Dump!File,
      DumpProof!File, Dump!NoFile, DumpProof!NoFile
  <1>3. ASSUME NEW space, NEW device, NEW opened, Dump!DumpFlash(space, device, opened)
        PROVE  DumpProof!DumpFlash(space, device, opened)
    BY <1>3, Zenon DEF Dump!DumpFlash, DumpProof!DumpFlash, Dump!Clip,
      DumpProof!Clip, Dump!NoFile, DumpProof!NoFile
  <1>4. ASSUME NEW n, Dump!ReadGives(n)
        PROVE  DumpProof!ReadGives(n)
    BY <1>4, Zenon DEF Dump!ReadGives, DumpProof!ReadGives
  <1>5. ASSUME NEW b, Dump!ReadFails(b)
        PROVE  DumpProof!ReadFails(b)
    BY <1>5, Zenon DEF Dump!ReadFails, DumpProof!ReadFails, Dump!Half,
      DumpProof!Half
  <1>6. ASSUME NEW b, Dump!Write(b)
        PROVE  DumpProof!Write(b)
    BY <1>6, Zenon DEF Dump!Write, DumpProof!Write, Dump!Clip, DumpProof!Clip
  <1>7. ASSUME Dump!Close
        PROVE  DumpProof!Close
    BY <1>7, Zenon DEF Dump!Close, DumpProof!Close, Dump!NoFile,
      DumpProof!NoFile
  <1>8. Dump!Next => DumpProof!Next
    BY <1>3, <1>4, <1>5, <1>6, <1>7, Zenon DEF Dump!Next, DumpProof!Next
  <1> QED
    BY <1>1, <1>2, <1>8

LEMMA SameOther ==
  /\ Other!Init => OtherProof!Init
  /\ Other!Next => OtherProof!Next
  /\ OtherProof!OtherOsSafe => Other!OtherOsSafe
  <1>1. Other!Init => OtherProof!Init
    BY Zenon DEF Other!Init, OtherProof!Init, Other!NoHeader,
      OtherProof!NoHeader, Other!Idle, OtherProof!Idle
  <1>2. OtherProof!OtherOsSafe => Other!OtherOsSafe
    BY Zenon DEF Other!OtherOsSafe, OtherProof!OtherOsSafe, Other!NoSurprise,
      OtherProof!NoSurprise, Other!InstalledIsWhole,
      OtherProof!InstalledIsWhole, Other!InRegion, OtherProof!InRegion,
      Other!Whole, OtherProof!Whole, Other!NoHeader, OtherProof!NoHeader,
      Other!Idle, OtherProof!Idle, Other!HeaderSectors,
      OtherProof!HeaderSectors
  <1>3. ASSUME NEW as, NEW ok, Other!Resize(as, ok)
        PROVE  OtherProof!Resize(as, ok)
    BY <1>3, Zenon DEF Other!Resize, OtherProof!Resize, Other!Operation,
      OtherProof!Operation, Other!Idling, OtherProof!Idling, Other!Idle,
      OtherProof!Idle, Other!Fault, OtherProof!Fault
  <1>4. ASSUME NEW ok, Other!InstallHeader(ok)
        PROVE  OtherProof!InstallHeader(ok)
    BY <1>4, Zenon DEF Other!InstallHeader, OtherProof!InstallHeader,
      Other!Operation, OtherProof!Operation, Other!Idling, OtherProof!Idling,
      Other!Idle, OtherProof!Idle, Other!Fault, OtherProof!Fault,
      Other!HeaderSectors, OtherProof!HeaderSectors
  <1>5. ASSUME NEW read, NEW ok, Other!InstallPiece(read, ok)
        PROVE  OtherProof!InstallPiece(read, ok)
    BY <1>5, Zenon DEF Other!InstallPiece, OtherProof!InstallPiece,
      Other!Idle, OtherProof!Idle, Other!Fault, OtherProof!Fault,
      Other!Smaller, OtherProof!Smaller
  <1>6. ASSUME Other!InstallEnd
        PROVE  OtherProof!InstallEnd
    BY <1>6, Zenon DEF Other!InstallEnd, OtherProof!InstallEnd, Other!Idle,
      OtherProof!Idle
  <1>7. ASSUME NEW v, NEW agreed, NEW bad, Other!BootOtherOS(v, agreed, bad)
        PROVE  OtherProof!BootOtherOS(v, agreed, bad)
    BY <1>7, Zenon DEF Other!BootOtherOS, OtherProof!BootOtherOS,
      Other!Operation, OtherProof!Operation, Other!Idling, OtherProof!Idling,
      Other!Idle, OtherProof!Idle, Other!Fault, OtherProof!Fault, Other!Start,
      OtherProof!Start, Other!Resized, OtherProof!Resized, Other!NoHeader,
      OtherProof!NoHeader, Other!Whole, OtherProof!Whole, Other!HeaderSectors,
      OtherProof!HeaderSectors
  <1>8. ASSUME NEW bad, Other!SetGameOsFlag(bad)
        PROVE  OtherProof!SetGameOsFlag(bad)
    BY <1>8, Zenon DEF Other!SetGameOsFlag, OtherProof!SetGameOsFlag,
      Other!Operation, OtherProof!Operation, Other!Idling, OtherProof!Idling,
      Other!Idle, OtherProof!Idle, Other!Fault, OtherProof!Fault, Other!Start,
      OtherProof!Start, Other!Resized, OtherProof!Resized, Other!NoHeader,
      OtherProof!NoHeader, Other!Whole, OtherProof!Whole, Other!HeaderSectors,
      OtherProof!HeaderSectors
  <1>9. ASSUME Other!Restart
        PROVE  OtherProof!Restart
    BY <1>9, Zenon DEF Other!Restart, OtherProof!Restart, Other!Idling,
      OtherProof!Idling, Other!Idle, OtherProof!Idle, Other!Start,
      OtherProof!Start, Other!Resized, OtherProof!Resized, Other!NoHeader,
      OtherProof!NoHeader, Other!Whole, OtherProof!Whole, Other!HeaderSectors,
      OtherProof!HeaderSectors
  <1>10. ASSUME Other!Cut
        PROVE  OtherProof!Cut
    BY <1>10, Zenon DEF Other!Cut, OtherProof!Cut, Other!Idle,
      OtherProof!Idle, Other!Fault, OtherProof!Fault, Other!Start,
      OtherProof!Start, Other!Resized, OtherProof!Resized, Other!NoHeader,
      OtherProof!NoHeader, Other!Whole, OtherProof!Whole, Other!HeaderSectors,
      OtherProof!HeaderSectors
  <1>11. ASSUME Other!OtherOsEnds
        PROVE  OtherProof!OtherOsEnds
    BY <1>11, Zenon DEF Other!OtherOsEnds, OtherProof!OtherOsEnds
  <1>12. ASSUME NEW n, Other!NewFile(n)
        PROVE  OtherProof!NewFile(n)
    BY <1>12, Zenon DEF Other!NewFile, OtherProof!NewFile, Other!Idling,
      OtherProof!Idling, Other!Idle, OtherProof!Idle
  <1>13. Other!Next => OtherProof!Next
    BY <1>3, <1>4, <1>5, <1>6, <1>7, <1>8, <1>9, <1>10, <1>11, <1>12, Zenon
      DEF Other!Next, OtherProof!Next, Other!Bad, OtherProof!Bad
  <1> QED
    BY <1>1, <1>2, <1>13

-----------------------------------------------------------------------------
(* Lv1Patches: its tables, and what can be told from the words in memory. *)
(* The tables are one and the same in the composition and in its part. *)
LEMMA SameTables ==
  /\ \A v, k, o : Lv1!OptionWords(v, k, o) = OptionWords(v, k, o)
  /\ \A v, k : Lv1!Test(v, k) = Test(v, k)
  /\ \A v : Lv1!ProtectionWords(v) = ProtectionWords(v)
  /\ \A v, k, o : Lv1!Misread(v, k, o) = Misread(v, k, o)
  /\ Lv1!Options = Options
  /\ Lv1!Kernels = Kernels
<1>1. \A v, k, o : Lv1!OptionWords(v, k, o) = OptionWords(v, k, o)
  BY SMT DEF Lv1!OptionWords, OptionWords, Lv1!HasTable, HasTable,
     Lv1!UmWords, UmWords, Lv1!DmWords, DmWords, Lv1!Words, Words, Lv1!LparWords, LparWords,
     Lv1!Core355, Core355, Lv1!Core421, Core421, Lv1!Core430, Core430, Lv1!Core431, Core431,
     Lv1!Core440, Core440, Lv1!Core450, Core450, Lv1!Core453, Core453, Lv1!Core455, Core455,
     Lv1!Core460, Core460, Lv1!Core465, Core465,
     Lv1!Upper355, Upper355, Lv1!Upper421, Upper421, Lv1!Upper430, Upper430, Lv1!Upper431, Upper431,
     Lv1!Upper440, Upper440, Lv1!Upper450, Upper450, Lv1!Upper453, Upper453, Lv1!Upper455, Upper455,
     Lv1!Upper460, Upper460, Lv1!Upper465, Upper465
<1>2. \A v, k : Lv1!Test(v, k) = Test(v, k)
  BY SMT DEF Lv1!Test, Test, Lv1!Words, Words,
     Lv1!Test355, Test355, Lv1!Test421, Test421, Lv1!Test430, Test430, Lv1!Test431, Test431,
     Lv1!Test440, Test440, Lv1!Test450, Test450, Lv1!Test453, Test453, Lv1!Test455, Test455,
     Lv1!Test460, Test460, Lv1!Test465, Test465
<1>3. \A v : Lv1!ProtectionWords(v) = ProtectionWords(v)
  BY SMT DEF Lv1!ProtectionWords, ProtectionWords, Lv1!ProtectionStart,
    ProtectionStart
<1>4. \A v, k, o : Lv1!Misread(v, k, o) = Misread(v, k, o)
  BY SMT DEF Lv1!Misread, Misread, Lv1!HasTable, HasTable
<1>5. Lv1!Options = Options
  BY SMT DEF Lv1!Options, Options
<1>6. Lv1!Kernels = Kernels
  BY SMT DEF Lv1!Kernels, Kernels, Lv1!Versions, Versions
<1> QED BY <1>1, <1>2, <1>3, <1>4, <1>5, <1>6

(* Without a table nothing is written. *)
LEMMA NoTable ==
  ASSUME NEW v, NEW k, NEW o, ~HasTable(v)
  PROVE  OptionWords(v, k, o) = {}
  BY SMT DEF OptionWords

(* lv1_um and lv1_dm have their words in functions of their own. *)
LEMMA UmDmWords ==
  ASSUME NEW v, NEW k, HasTable(v)
  PROVE  /\ OptionWords(v, k, "lv1_um") = UmWords(v)
         /\ OptionWords(v, k, "lv1_dm") = DmWords(v)
  <1>1. OptionWords(v, k, "lv1_um") = UmWords(v)
    BY SMT DEF OptionWords
  <1>2. OptionWords(v, k, "lv1_dm") = DmWords(v)
    <2>1. "lv1_um" # "lv1_dm"
      OBVIOUS
    <2> QED
      BY <2>1, SMT DEF OptionWords
  <1> QED
    BY <1>1, <1>2

(* The words of option o for target t on a console with firmware v; whether
   they are the same for both targets.                                      *)
Own(v, n, o, t) == OptionWords(v, [dex |-> t, nor |-> n], o)

Same(v, n, o) == \A t, u \in BOOLEAN : Own(v, n, o, t) = Own(v, n, o, u)

(* The memory m holds the words of the options in c, and besides them only
   hashes and, on 4.31, what lv1_um left.                                   *)
Held(v, n, m, c) ==
  /\ \A o \in Options, t \in BOOLEAN :
       <<o, t>> \in c /\ ~(v = 431 /\ o = "lv1_um") => Own(v, n, o, t) \subseteq m
  /\ \A x \in m :
       \/ x \in ProtectionWords(v)
       \/ v = 431 /\ x \in UmWords(v)
       \/ \E o \in Options, t \in BOOLEAN : <<o, t>> \in c /\ x \in Own(v, n, o, t)

(* c names options, and both targets of one that is alike for them. *)
Paired(v, n, c) ==
  /\ c \subseteq Options \X BOOLEAN
  /\ \A o \in Options : Same(v, n, o) =>
       \A t, u \in BOOLEAN : <<o, t>> \in c => <<o, u>> \in c

(* What is remembered of a choice of o for target t. *)
KeysFor(v, n, o, t) ==
  IF Same(v, n, o) THEN {o} \X BOOLEAN ELSE {<<o, t>>}

(* Alike for the two targets in one case is alike in all. *)
LEMMA BothTargets ==
  ASSUME NEW v, NEW n, NEW o, NEW t \in BOOLEAN, NEW u \in BOOLEAN,
         Own(v, n, o, t) = Own(v, n, o, u)
  PROVE  t = u \/ Same(v, n, o)
  BY DEF Same

(* A word belongs to one option alone, and not to the hashes. *)
LEMMA WordsApart ==
  ASSUME NEW v \in Versions \cup {0}, NEW n \in BOOLEAN, NEW o \in Options,
         NEW t \in BOOLEAN,
         NEW x \in Own(v, n, o, t)
  PROVE  /\ HasTable(v) /\ v \in Versions
         /\ x \notin ProtectionWords(v)
         /\ \A p \in Options, u \in BOOLEAN :
              x \in Own(v, n, p, u) => o = p /\ Own(v, n, o, t) = Own(v, n, p, u)
  <1>1. HasTable(v) /\ v \in Versions
    BY NoTable DEF Own, HasTable
  <1>2. [dex |-> t, nor |-> n] \in Consoles
    BY DEF Consoles
  <1>3. Apart(v, [dex |-> t, nor |-> n], o)
    BY <1>1, <1>2, TablesAssumption
  <1> QED
    BY <1>1, <1>3 DEF Apart, Own

(* Switching options on, as apply_settings() does it. *)
LEMMA SwitchOn ==
  ASSUME NEW v, NEW n \in BOOLEAN, NEW t \in BOOLEAN, NEW S \in SUBSET Options,
         NEW m, NEW c, Held(v, n, m, c), Paired(v, n, c), NEW M, NEW C,
         \A x : x \in M <=> x \in m \/ \E o \in S : x \in Own(v, n, o, t),
         \A key : key \in C
                    <=> key \in c \/ \E o \in S : key \in KeysFor(v, n, o, t)
  PROVE  Held(v, n, M, C) /\ Paired(v, n, C)
  <1>0. \A o \in Options : \A key \in KeysFor(v, n, o, t) :
          key \in Options \X BOOLEAN /\ key[1] = o
    <2> SUFFICES ASSUME NEW o \in Options, NEW key \in KeysFor(v, n, o, t)
                 PROVE  key \in Options \X BOOLEAN /\ key[1] = o
      OBVIOUS
    <2>1. CASE Same(v, n, o)
      BY <2>1 DEF KeysFor
    <2>2. CASE ~Same(v, n, o)
      BY <2>2 DEF KeysFor
    <2> QED
      BY <2>1, <2>2
  <1>1. \A o \in Options, u \in BOOLEAN :
          <<o, u>> \in C
            <=> <<o, u>> \in c \/ (o \in S /\ <<o, u>> \in KeysFor(v, n, o, t))
    BY <1>0
  <1>2. \A o \in Options, u \in BOOLEAN :
          <<o, u>> \in KeysFor(v, n, o, t)
            <=> u = t \/ Same(v, n, o)
    BY DEF KeysFor
  <1>3. \A o \in Options, u \in BOOLEAN :
          <<o, u>> \in KeysFor(v, n, o, t) => Own(v, n, o, u) = Own(v, n, o, t)
    BY <1>2 DEF Same
  <1>4. ASSUME NEW o \in Options, NEW u \in BOOLEAN, <<o, u>> \in C,
               ~(v = 431 /\ o = "lv1_um")
        PROVE  Own(v, n, o, u) \subseteq M
    BY <1>1, <1>3, <1>4 DEF Held
  <1>5. ASSUME NEW x \in M
        PROVE  \/ x \in ProtectionWords(v)
               \/ v = 431 /\ x \in UmWords(v)
               \/ \E o \in Options, u \in BOOLEAN :
                    <<o, u>> \in C /\ x \in Own(v, n, o, u)
    <2>1. CASE x \in m
      BY <2>1 DEF Held
    <2>2. CASE \E o \in S : x \in Own(v, n, o, t)
      BY <2>2, <1>1, <1>2
    <2> QED
      BY <1>5, <2>1, <2>2
  <1>6. C \subseteq Options \X BOOLEAN
    BY <1>0 DEF Paired
  <1>7. Paired(v, n, C)
    BY <1>1, <1>2, <1>6 DEF Paired
  <1>8. Held(v, n, M, C)
    BY <1>4, <1>5 DEF Held
  <1> QED
    BY <1>7, <1>8

(* Switching one off. *)
LEMMA SwitchOff ==
  ASSUME NEW v \in Versions \cup {0}, NEW n \in BOOLEAN, NEW t \in BOOLEAN,
         NEW o \in Options, NEW m, NEW c, Held(v, n, m, c), Paired(v, n, c),
         NEW M, M = m \ Own(v, n, o, t), NEW C, C = c \ KeysFor(v, n, o, t)
  PROVE  Held(v, n, M, C) /\ Paired(v, n, C)
  <1>1. \A p \in Options, u \in BOOLEAN :
          <<p, u>> \in C
            <=> <<p, u>> \in c
                /\ ~(p = o /\ (u = t \/ Same(v, n, o)))
    BY DEF KeysFor
  <1>2. ASSUME NEW p \in Options, NEW u \in BOOLEAN, <<p, u>> \in C,
               ~(v = 431 /\ p = "lv1_um")
        PROVE  Own(v, n, p, u) \subseteq M
    <2> SUFFICES ASSUME NEW x \in Own(v, n, p, u), x \in Own(v, n, o, t)
                 PROVE  FALSE
      BY <1>1, <1>2 DEF Held
    <2>1. o = p /\ Own(v, n, o, t) = Own(v, n, p, u)
      BY WordsApart
    <2> QED
      BY <1>1, <1>2, <2>1, BothTargets
  <1>3. ASSUME NEW x \in M
        PROVE  \/ x \in ProtectionWords(v)
               \/ v = 431 /\ x \in UmWords(v)
               \/ \E p \in Options, u \in BOOLEAN :
                    <<p, u>> \in C /\ x \in Own(v, n, p, u)
    <2>1. ASSUME NEW p \in Options, NEW u \in BOOLEAN, <<p, u>> \in c,
                 x \in Own(v, n, p, u)
          PROVE  <<p, u>> \in C
      BY <1>1, <1>3, <2>1 DEF Same
    <2> QED
      BY <1>3, <2>1 DEF Held
  <1>4. Paired(v, n, C)
    <2>1. C \subseteq Options \X BOOLEAN
      BY DEF Paired
    <2> QED
      BY <1>1, <2>1 DEF Paired
  <1>5. Held(v, n, M, C)
    BY <1>2, <1>3 DEF Held
  <1> QED
    BY <1>4, <1>5

(* The test of o misreads it; the test of o finds it in m. *)
Unclear(v, n, o, t) == Misread(v, [dex |-> t, nor |-> n], o)

Tested(v, n, o, t, m) ==
  \E alt \in Test(v, [dex |-> t, nor |-> n])[o] : alt \subseteq m

(* What check_settings() finds is what was chosen. *)
LEMMA TestTells ==
  ASSUME NEW v \in Versions, HasTable(v), NEW n \in BOOLEAN, NEW t \in BOOLEAN,
         NEW o \in Options, NEW m, NEW c,
         Held(v, n, m, c), Paired(v, n, c),
         ~Unclear(v, n, o, t)
  PROVE  Tested(v, n, o, t, m) <=> <<o, t>> \in c
  <1> DEFINE k == [dex |-> t, nor |-> n]
  <1>1. k \in Consoles
    BY DEF Consoles
  <1>2. Told(v, k, o)
    BY <1>1, TablesAssumption DEF Unclear
  <1>3. ~(v = 431 /\ o = "lv1_um")
    BY DEF Misread, Unclear
  <1>4. ASSUME <<o, t>> \in c PROVE Tested(v, n, o, t, m)
    BY <1>2, <1>3, <1>4 DEF Told, Tested, Held, Own
  <1>5. ASSUME Tested(v, n, o, t, m) PROVE <<o, t>> \in c
    <2>1. PICK alt \in Test(v, k)[o] : alt \subseteq m
      BY <1>5 DEF Tested
    <2>2. PICK x \in alt : Mark(v, k, o, x)
      BY <1>2, <2>1 DEF Told
    <2>3. x \in m /\ x \notin ProtectionWords(v)
      BY <2>1, <2>2 DEF Mark
    <2>4. \A p \in Options, u \in BOOLEAN :
            x \in Own(v, n, p, u) => o = p /\ Own(v, n, o, t) = Own(v, n, p, u)
      BY <2>2 DEF Mark, Own
    <2>5. ~(v = 431 /\ x \in UmWords(v))
      <3>1. UmWords(v) = Own(v, n, "lv1_um", t) /\ "lv1_um" \in Options
        BY UmDmWords DEF Own, Options
      <3> QED
        BY <1>3, <2>4, <3>1
    <2>6. PICK p \in Options, u \in BOOLEAN : <<p, u>> \in c /\ x \in Own(v, n, p, u)
      BY <2>3, <2>5 DEF Held
    <2>7. o = p /\ Own(v, n, o, t) = Own(v, n, o, u)
      BY <2>4, <2>6
    <2> QED
      BY <2>6, <2>7, BothTargets DEF Paired
  <1> QED
    BY <1>4, <1>5

(* An option that is alike for both targets is there wholly or not at all. *)
LEMMA AllOrNone ==
  ASSUME NEW v \in Versions, HasTable(v), NEW n \in BOOLEAN, NEW t \in BOOLEAN,
         NEW o \in Options, NEW m, NEW c,
         Held(v, n, m, c), Paired(v, n, c),
         ~Unclear(v, n, o, t),
         Same(v, n, o)
  PROVE  /\ Tested(v, n, o, t, m) => Own(v, n, o, t) \subseteq m
         /\ ~Tested(v, n, o, t, m) => Own(v, n, o, t) \cap m = {}
  <1>1. Tested(v, n, o, t, m) <=> <<o, t>> \in c
    BY TestTells
  <1>2. ASSUME NEW x \in m, x \in Own(v, n, o, t) PROVE <<o, t>> \in c
    <2>1. /\ x \notin ProtectionWords(v)
          /\ \A p \in Options, u \in BOOLEAN :
               x \in Own(v, n, p, u) => o = p /\ Own(v, n, o, t) = Own(v, n, p, u)
      BY <1>2, WordsApart
    <2>2. ~(v = 431 /\ x \in UmWords(v))
      <3>1. UmWords(v) = Own(v, n, "lv1_um", t) /\ "lv1_um" \in Options
        BY UmDmWords DEF Own, Options
      <3>2. ~(v = 431 /\ o = "lv1_um")
        BY DEF Misread, Unclear
      <3> QED
        BY <2>1, <3>1, <3>2
    <2>3. PICK p \in Options, u \in BOOLEAN : <<p, u>> \in c /\ x \in Own(v, n, p, u)
      BY <1>2, <2>1, <2>2 DEF Held
    <2> QED
      BY <2>1, <2>3 DEF Paired
  <1>3. ~(v = 431 /\ o = "lv1_um")
    BY DEF Misread, Unclear
  <1> QED
    BY <1>1, <1>2, <1>3 DEF Held

(* The rest of what they are made of. *)
LEMMA MoreTables ==
  /\ \A v : Lv1!UmWords(v) = UmWords(v)
  /\ \A v : Lv1!DmWords(v) = DmWords(v)
  /\ \A v : Lv1!HasTable(v) = HasTable(v)
  /\ Lv1!Versions = Versions
<1>1. \A v : Lv1!UmWords(v) = UmWords(v)
  BY SMT DEF Lv1!UmWords, UmWords
<1>2. \A v : Lv1!DmWords(v) = DmWords(v)
  BY SMT DEF Lv1!DmWords, DmWords
<1>3. \A v : Lv1!HasTable(v) = HasTable(v)
  BY SMT DEF Lv1!HasTable, HasTable
<1>4. Lv1!Versions = Versions
  BY SMT DEF Lv1!Versions, Versions
<1> QED BY <1>1, <1>2, <1>3, <1>4

(* The memory, the chosen options and the last reading. *)
Ver == found.ver
Nor == console.nor

Read(m, t) == [ o \in Options |-> Tested(Ver, Nor, o, t, m) ]

(* check_settings(): a reading of the tables, or the old values. *)
LEMMA ReadingIs ==
  ASSUME NEW m, NEW old
  PROVE  Lv1!Reading(m, old) = IF HasTable(Ver) THEN Read(m, target) ELSE old
  <1>1. CASE HasTable(Ver)
    <2> DEFINE t == Test(Ver, [dex |-> target, nor |-> console.nor])
    <2>1. Lv1!Reading(m, old) = [ o \in Options |-> \E alt \in t[o] : alt \subseteq m ]
      BY <1>1, SameTables, MoreTables, Zenon DEF Lv1!Reading, Lv1!fw, Ver,
        Lv1!Console
    <2>2. [ o \in Options |-> \E alt \in t[o] : alt \subseteq m ] = Read(m, target)
      BY Zenon DEF Read, Tested, Nor
    <2> QED
      BY <1>1, <2>1, <2>2
  <1>2. CASE ~HasTable(Ver)
    BY <1>2, SameTables, MoreTables, Zenon DEF Lv1!Reading, Lv1!fw, Ver
  <1> QED
    BY <1>1, <1>2

(* The words of an option on the console as it is found. *)
LEMMA WIs ==
  ASSUME NEW t, NEW o PROVE Lv1!W(t, o) = Own(Ver, Nor, o, t)
  BY SameTables, Zenon DEF Lv1!W, Own, Ver, Nor, Lv1!fw, Lv1!Console

LEMMA SameAs ==
  ASSUME NEW o PROVE (Lv1!W(TRUE, o) = Lv1!W(FALSE, o)) <=> Same(Ver, Nor, o)
  <1>1. \A t : Lv1!W(t, o) = Own(Ver, Nor, o, t)
    BY WIs
  <1>2. ASSUME Same(Ver, Nor, o) PROVE Lv1!W(TRUE, o) = Lv1!W(FALSE, o)
    BY <1>1, <1>2, Zenon DEF Same
  <1>3. ASSUME Lv1!W(TRUE, o) = Lv1!W(FALSE, o) PROVE Same(Ver, Nor, o)
    BY <1>1, <1>3, Zenon DEF Same
  <1> QED
    BY <1>2, <1>3

(* What is remembered of a choice. *)
LEMMA KeysIs ==
  ASSUME NEW o PROVE Lv1!Keys(o) = KeysFor(Ver, Nor, o, target)
  BY WIs, SameAs, Zenon DEF Lv1!Keys, KeysFor

(* change_lv1_um(u) and change_lv1_dm(d), where there is a table. *)
UmDmOf(m, u, d) ==
  (m \ (UmWords(Ver) \cup DmWords(Ver)))
    \cup (IF u THEN UmWords(Ver) ELSE {}) \cup (IF d THEN DmWords(Ver) ELSE {})

(* change_lv1_um() and change_lv1_dm() without a table do nothing. *)
LEMMA UmDmIs ==
  ASSUME NEW m, NEW u, NEW d
  PROVE  /\ HasTable(Ver) => Lv1!UmDm(m, u, d) = UmDmOf(m, u, d)
         /\ ~HasTable(Ver) => Lv1!UmDm(m, u, d) = m
  <1>1. Lv1!UmWords(Ver) = UmWords(Ver) /\ Lv1!DmWords(Ver) = DmWords(Ver)
        /\ Lv1!HasTable(Ver) = HasTable(Ver)
    BY MoreTables
  <1>2. CASE HasTable(Ver)
    BY <1>1, <1>2 DEF Lv1!UmDm, Lv1!fw, Ver, UmDmOf
  <1>3. CASE ~HasTable(Ver)
    BY <1>1, <1>3 DEF Lv1!UmDm, Lv1!fw, Ver
  <1> QED
    BY <1>2, <1>3

(* On 4.31 lv1_um is never seen. *)
LEMMA NeverSeen ==
  ASSUME Ver = 431, Nor \in BOOLEAN, NEW m, NEW c, NEW t \in BOOLEAN,
         Held(Ver, Nor, m, c)
  PROVE  ~Tested(Ver, Nor, "lv1_um", t, m)
  <1> SUFFICES ASSUME Tested(Ver, Nor, "lv1_um", t, m) PROVE FALSE
    OBVIOUS
  <1> DEFINE k == [dex |-> t, nor |-> Nor]
  <1>0. Ver \in Versions /\ HasTable(Ver) /\ "lv1_um" \in Options /\ k \in Consoles
    BY DEF Versions, HasTable, Options, Consoles
  <1>1. PICK alt \in Test(Ver, k)["lv1_um"] : alt \subseteq m
    BY DEF Tested
  <1>2. Unseen(Ver, k, "lv1_um")
    BY <1>0, TablesAssumption
  <1>3. PICK x \in alt : x \notin ProtectionWords(Ver)
           /\ \A u \in BOOLEAN, p \in Options : x \notin Own(Ver, Nor, p, u)
    BY <1>1, <1>2 DEF Unseen, Own
  <1>4. x \in m /\ x \notin UmWords(Ver)
    BY <1>0, <1>1, <1>3, UmDmWords DEF Own
  <1>5. PICK p \in Options, u \in BOOLEAN : <<p, u>> \in c /\ x \in Own(Ver, Nor, p, u)
    BY <1>3, <1>4 DEF Held
  <1> QED
    BY <1>3, <1>5

(* Closing the EEPROM. *)
LEMMA Closing ==
  ASSUME Ver \in Versions \cup {0}, Nor \in BOOLEAN, NEW m, NEW c,
         NEW t \in BOOLEAN,
         Held(Ver, Nor, m, c), Paired(Ver, Nor, c), NEW r,
         HasTable(Ver) => r = Read(m, t)
  PROVE  /\ Held(Ver, Nor, Lv1!Restored(m, r), c)
         /\ ProtectionWords(Ver) \subseteq m
             => ProtectionWords(Ver) \subseteq Lv1!Restored(m, r)
  <1> DEFINE M == Lv1!Restored(m, r)
             um == UmWords(Ver)
             dm == DmWords(Ver)
  <1>1. CASE ~HasTable(Ver)
    <2>1. M = m
      BY <1>1, UmDmIs DEF Lv1!Restored
    <2> QED
      BY <2>1
  <1>2. CASE HasTable(Ver)
    <2>0. Ver \in Versions /\ "lv1_um" \in Options /\ "lv1_dm" \in Options
      BY <1>2 DEF HasTable, Options
    <2>1. \A u \in BOOLEAN : Own(Ver, Nor, "lv1_um", u) = um /\ Own(Ver, Nor, "lv1_dm", u) = dm
      BY <1>2, UmDmWords DEF Own
    <2>2. M = IF r["lv1_um"] /\ r["lv1_dm"] THEN m
              ELSE UmDmOf(m, r["lv1_um"], r["lv1_dm"])
      BY <1>2, UmDmIs DEF Lv1!Restored
    <2>3. /\ r["lv1_um"] = Tested(Ver, Nor, "lv1_um", t, m)
          /\ r["lv1_dm"] = Tested(Ver, Nor, "lv1_dm", t, m)
      BY <1>2, <2>0 DEF Read
    <2>4. /\ r["lv1_dm"] => dm \subseteq m
          /\ ~r["lv1_dm"] => dm \cap m = {}
      <3>1. ~Unclear(Ver, Nor, "lv1_dm", t)
        BY <1>2 DEF Misread, Unclear
      <3>2. Same(Ver, Nor, "lv1_dm")
        BY <2>1 DEF Same
      <3>3. /\ Tested(Ver, Nor, "lv1_dm", t, m) => Own(Ver, Nor, "lv1_dm", t) \subseteq m
            /\ ~Tested(Ver, Nor, "lv1_dm", t, m) => Own(Ver, Nor, "lv1_dm", t) \cap m = {}
        BY <1>2, <2>0, <3>1, <3>2, AllOrNone
      <3> QED
        BY <2>1, <2>3, <3>3
    <2>5. CASE Ver # 431
      <3>1. ~Unclear(Ver, Nor, "lv1_um", t)
        BY <1>2, <2>5 DEF Misread, Unclear
      <3>2. Same(Ver, Nor, "lv1_um")
        BY <2>1 DEF Same
      <3>5. /\ Tested(Ver, Nor, "lv1_um", t, m) => Own(Ver, Nor, "lv1_um", t) \subseteq m
            /\ ~Tested(Ver, Nor, "lv1_um", t, m) => Own(Ver, Nor, "lv1_um", t) \cap m = {}
        BY <1>2, <2>0, <3>1, <3>2, AllOrNone
      <3>3. /\ r["lv1_um"] => um \subseteq m
            /\ ~r["lv1_um"] => um \cap m = {}
        BY <2>1, <2>3, <3>5
      <3>4. M = m
        BY <2>2, <2>4, <3>3 DEF UmDmOf
      <3> QED
        BY <3>4
    <2>6. CASE Ver = 431
      <3>1. ~Tested(Ver, Nor, "lv1_um", t, m)
        BY <2>6, <2>0, NeverSeen
      <3>2. M = m \ um
        <4>1. ~r["lv1_um"]
          BY <2>3, <3>1
        <4>2. um \cap dm = {}
          <5> SUFFICES ASSUME NEW x \in um, x \in dm PROVE FALSE
            OBVIOUS
          <5>1. x \in Own(Ver, Nor, "lv1_um", t) /\ x \in Own(Ver, Nor, "lv1_dm", t)
            BY <2>1
          <5>2. "lv1_um" = "lv1_dm"
            BY <2>0, <5>1, WordsApart
          <5> QED
            BY <5>2
        <4>3. M = UmDmOf(m, FALSE, r["lv1_dm"])
          BY <2>2, <2>3, <4>1, Zenon DEF UmDmOf
        <4> QED
          BY <2>4, <4>2, <4>3 DEF UmDmOf
      <3>3. ASSUME NEW o \in Options, NEW u \in BOOLEAN, <<o, u>> \in c, o # "lv1_um"
            PROVE  Own(Ver, Nor, o, u) \subseteq M
        <4>1. Own(Ver, Nor, o, u) \subseteq m
          BY <3>3 DEF Held
        <4>2. \A x \in Own(Ver, Nor, o, u) : x \notin um
          BY <2>0, <2>1, <3>3, WordsApart
        <4> QED
          BY <3>2, <4>1, <4>2
      <3>4. Held(Ver, Nor, M, c)
        <4>1. M \subseteq m
          BY <3>2
        <4> HIDE DEF M
        <4> QED
          BY <2>6, <3>3, <4>1 DEF Held
      <3>5. \A x \in ProtectionWords(Ver) : x \notin um
        BY <2>0, <2>1, WordsApart
      <3> QED
        BY <3>2, <3>4, <3>5
    <2> QED
      BY <2>5, <2>6
  <1> QED
    BY <1>1, <1>2

(* Opening it. *)
LEMMA Opening ==
  ASSUME Ver \in Versions, HasTable(Ver), Nor \in BOOLEAN, NEW m, NEW c,
         NEW t \in BOOLEAN,
         Held(Ver, Nor, m, c), Paired(Ver, Nor, c), NEW r, r = Read(m, t)
  PROVE  Lv1!Access(Lv1!Opened(m, r))
  <1> DEFINE um == UmWords(Ver)
             dm == DmWords(Ver)
  <1>0. "lv1_um" \in Options /\ "lv1_dm" \in Options
    BY DEF Options
  <1>1. \A u \in BOOLEAN : Own(Ver, Nor, "lv1_um", u) = um /\ Own(Ver, Nor, "lv1_dm", u) = dm
    BY UmDmWords DEF Own
  <1>2. /\ r["lv1_um"] = Tested(Ver, Nor, "lv1_um", t, m)
        /\ r["lv1_dm"] = Tested(Ver, Nor, "lv1_dm", t, m)
    BY <1>0 DEF Read
  <1>3. um \cup dm \subseteq Lv1!Opened(m, r)
    <2>1. CASE ~(r["lv1_um"] /\ r["lv1_dm"])
      <3>1. Lv1!Opened(m, r) = UmDmOf(m, TRUE, TRUE)
        BY <2>1, UmDmIs, Zenon DEF Lv1!Opened
      <3> QED
        BY <3>1 DEF UmDmOf
    <2>2. CASE r["lv1_um"] /\ r["lv1_dm"]
      <3>1. Ver # 431
        BY <1>2, <2>2, NeverSeen
      <3>2. /\ ~Unclear(Ver, Nor, "lv1_um", t)
            /\ ~Unclear(Ver, Nor, "lv1_dm", t)
        BY <3>1 DEF Misread, Unclear
      <3>3. /\ Own(Ver, Nor, "lv1_um", t) \subseteq m
            /\ Own(Ver, Nor, "lv1_dm", t) \subseteq m
        <4>1. \A o \in {"lv1_um", "lv1_dm"} :
                Same(Ver, Nor, o) /\ Tested(Ver, Nor, o, t, m)
          BY <1>1, <1>2, <2>2 DEF Same
        <4> QED
          BY <1>0, <3>2, <4>1, AllOrNone
      <3> QED
        BY <1>1, <2>2, <3>3 DEF Lv1!Opened
    <2> QED
      BY <2>1, <2>2
  <1> QED
    BY <1>3, MoreTables DEF Lv1!Access, Lv1!fw, Ver

(* The types of a reading. *)
LEMMA TestedIsBoolean ==
  ASSUME NEW v, NEW n, NEW o, NEW t, NEW m
  PROVE  Tested(v, n, o, t, m) \in BOOLEAN
  BY Zenon DEF Tested

LEMMA ReadType == ASSUME NEW m, NEW t PROVE Read(m, t) \in [Options -> BOOLEAN]
  BY TestedIsBoolean, Zenon DEF Read

(* The kernel found is one with a version, or none. *)
LEMMA Versioned ==
  ASSUME Lv1!TypeOK
  PROVE  /\ Ver \in Versions \cup {0} /\ Nor \in BOOLEAN /\ target \in BOOLEAN
         /\ found \in Kernels \cup {[ver |-> 0, dex |-> FALSE]}
  <1>1. /\ console \in [kernel : Running, nor : BOOLEAN, text : {0} \cup Versions]
        /\ target \in BOOLEAN
        /\ found = Lv1!Detected(console.kernel, console.text)
    BY SameTables, MoreTables DEF Lv1!TypeOK
  <1>2. console.kernel \in Kernels /\ console.text \in {0} \cup Versions
        /\ console.nor \in BOOLEAN
    BY <1>1, Lv1Assumption
  <1>3. found = console.kernel \/ found = [ver |-> console.text, dex |-> FALSE]
    BY <1>1 DEF Lv1!Detected
  <1>4. found \in Kernels \cup {[ver |-> 0, dex |-> FALSE]}
    <2>1. ASSUME NEW v \in Versions PROVE [ver |-> v, dex |-> FALSE] \in Kernels
      BY DEF Kernels
    <2>2. CASE console.text = 0
      BY <1>2, <1>3, <2>2
    <2>3. CASE console.text \in Versions
      BY <1>2, <1>3, <2>1, <2>3
    <2> QED
      BY <1>2, <2>2, <2>3
  <1> QED
    BY <1>1, <1>2, <1>4 DEF Ver, Nor, Kernels

(* Writing the hashes of the hypervisor leaves the options alone. *)
LEMMA HeldOpen ==
  ASSUME NEW v, NEW n, NEW m, NEW c, Held(v, n, m, c)
  PROVE  Held(v, n, m \cup ProtectionWords(v), c)
  BY DEF Held

(* Rebuilding the columns: the EEPROM is opened, read and closed, and what is
   left is what was there. *)
LEMMA ColumnsKeep ==
  ASSUME Ver \in Versions \cup {0}, Nor \in BOOLEAN, target \in BOOLEAN,
         NEW m, NEW old, NEW values, NEW ok,
         Held(Ver, Nor, m, chosen), Paired(Ver, Nor, chosen),
         Lv1!Columns(m, old, values, ok)
  PROVE  /\ Held(Ver, Nor, mem', chosen)
         /\ ProtectionWords(Ver) \subseteq m => ProtectionWords(Ver) \subseteq mem'
         /\ HasTable(Ver) => lv1' = Read(mem', target)
         /\ readAt' = target
         /\ HasTable(Ver) /\ ok =>
             \A f \in Lv1!Flags : shown'[f] = (Lv1!Offered(f) /\ values[f])
         /\ old \in [Options -> BOOLEAN] => lv1' \in [Options -> BOOLEAN]
         /\ values \in [Lv1!Flags -> BOOLEAN] => shown' \in [Lv1!Flags -> BOOLEAN]
  <1> DEFINE r == Lv1!Reading(m, old)
             after == Lv1!Restored(m, r)
  <1>1. /\ mem' = after
        /\ lv1' = Lv1!Reading(after, r)
        /\ readAt' = target
        /\ shown' = Lv1!Shown(Lv1!Opened(m, r), values, ok)
    BY DEF Lv1!Columns
  <1>2. r = IF HasTable(Ver) THEN Read(m, target) ELSE old
    BY ReadingIs
  <1>3. lv1' = IF HasTable(Ver) THEN Read(mem', target) ELSE r
    BY <1>1, ReadingIs
  <1> HIDE DEF r
  <1>4. HasTable(Ver) => r = Read(m, target)
    BY <1>2
  <1>5. /\ Held(Ver, Nor, after, chosen)
        /\ ProtectionWords(Ver) \subseteq m => ProtectionWords(Ver) \subseteq after
    BY <1>4, Closing
  <1>6. HasTable(Ver) => Lv1!Access(Lv1!Opened(m, r))
    <2> SUFFICES ASSUME HasTable(Ver) PROVE Lv1!Access(Lv1!Opened(m, r))
      OBVIOUS
    <2>1. Ver \in Versions
      BY DEF HasTable
    <2> QED
      BY <1>4, <2>1, Opening
  <1>7. old \in [Options -> BOOLEAN] => lv1' \in [Options -> BOOLEAN]
    BY <1>2, <1>3, ReadType
  <1>8. HasTable(Ver) /\ ok =>
          \A f \in Lv1!Flags : shown'[f] = (Lv1!Offered(f) /\ values[f])
    BY <1>1, <1>6, Zenon DEF Lv1!Shown, Lv1!ReadFlag
  <1>9. shown' \in [Lv1!Flags -> BOOLEAN]
    BY <1>1, Zenon DEF Lv1!Shown
  <1> QED
    BY <1>1, <1>3, <1>5, <1>7, <1>8, <1>9

(* The inductive invariant.  Between two choices LV1's memory and the options
   chosen belong together (Held, Paired), which no single step of the program
   looks at, and the variables lv1_* are a reading of that memory for the
   target they were read for.                                               *)
LvInv ==
  /\ Lv1!TypeOK
  /\ Held(Ver, Nor, mem, chosen)
  /\ Paired(Ver, Nor, chosen)
  /\ ~HasTable(Ver) => chosen = {}
  /\ phase = "menu" /\ Ver # 355 => ProtectionWords(Ver) \subseteq mem
  /\ phase = "menu" /\ HasTable(Ver) => lv1 = Read(mem, readAt)
  /\ faults = 0 => token = flag["util_qa"]
  /\ faults = 0 /\ phase = "menu" /\ HasTable(Ver) =>
       \A f \in Lv1!Flags : Lv1!Offered(f) => shown[f] = flag[f]

(* Options forced together, as boot_otherOS() and a firmware do it. *)
LEMMA ManyOn ==
  ASSUME Ver \in Versions \cup {0}, Nor \in BOOLEAN, target \in BOOLEAN,
         NEW S \in SUBSET Options, NEW m, NEW c, Held(Ver, Nor, m, c), Paired(Ver, Nor, c),
         NEW M, M = m \cup UNION { Lv1!W(target, o) : o \in S },
         NEW C, C = IF HasTable(Ver) THEN c \cup Lv1!KeysOf(S) ELSE c
  PROVE  Held(Ver, Nor, M, C) /\ Paired(Ver, Nor, C)
  <1>1. \A x : x \in M <=> x \in m \/ \E o \in S : x \in Own(Ver, Nor, o, target)
    <2>1. \A x : x \in M <=> x \in m \/ \E o \in S : x \in Lv1!W(target, o)
      OBVIOUS
    <2> QED
      BY <2>1, WIs
  <1>2. \A key : key \in Lv1!KeysOf(S)
                   <=> \E o \in S : key \in KeysFor(Ver, Nor, o, target)
    <2>1. \A key : key \in Lv1!KeysOf(S) <=> \E o \in S : key \in Lv1!Keys(o)
      BY DEF Lv1!KeysOf
    <2> QED
      BY <2>1, KeysIs
  <1>3. CASE HasTable(Ver)
    <2>1. \A key : key \in C
                     <=> key \in c \/ \E o \in S : key \in KeysFor(Ver, Nor, o, target)
      BY <1>2, <1>3
    <2> QED
      BY <1>1, <2>1, SwitchOn
  <1>4. CASE ~HasTable(Ver)
    <2>1. \A o \in S : Own(Ver, Nor, o, target) = {}
      BY <1>4, NoTable DEF Own
    <2>2. M = m /\ C = c
      BY <1>1, <1>4, <2>1
    <2> QED
      BY <2>2
  <1> QED
    BY <1>3, <1>4

(* The invariant holds at first. *)
LEMMA LvInit == Lv1!Init => LvInv
  <1> SUFFICES ASSUME Lv1!Init PROVE LvInv
    OBVIOUS
  <1>1. PICK k \in Running : console \in [kernel : {k}, nor : BOOLEAN, text : {0, k.ver}]
    BY DEF Lv1!Init
  <1>2. k \in Kernels /\ k.ver \in Versions /\ k.dex \in BOOLEAN
    BY Lv1Assumption DEF Kernels
  <1>3. PICK s \in Shipped :
          /\ mem = UNION { Lv1!W(target, o) : o \in s }
          /\ chosen = IF HasTable(Ver) THEN Lv1!KeysOf(s) ELSE {}
    BY MoreTables DEF Lv1!Init, Lv1!fw, Ver
  <1>4. target \in BOOLEAN
    BY <1>1, <1>2 DEF Lv1!Init
  <1>5. Ver \in Versions \cup {0} /\ Nor \in BOOLEAN
    <2>1. console.kernel = k /\ console.text \in {0, k.ver} /\ console.nor \in BOOLEAN
      BY <1>1
    <2>2. found = k \/ found = [ver |-> console.text, dex |-> FALSE]
      BY <2>1 DEF Lv1!Init, Lv1!Detected
    <2> QED
      BY <1>2, <2>1, <2>2 DEF Ver, Nor
  <1>6. Held(Ver, Nor, mem, chosen) /\ Paired(Ver, Nor, chosen)
    <2>1. Held(Ver, Nor, {}, {}) /\ Paired(Ver, Nor, {})
      BY DEF Held, Paired
    <2>2. s \in SUBSET Options
      BY Lv1Assumption
    <2>3. /\ mem = {} \cup UNION { Lv1!W(target, o) : o \in s }
          /\ chosen = IF HasTable(Ver) THEN {} \cup Lv1!KeysOf(s) ELSE {}
      BY <1>3
    <2> QED
      BY <1>4, <1>5, <2>1, <2>2, <2>3, ManyOn
  <1>7. Lv1!TypeOK
    <2>1. console \in [kernel : Running, nor : BOOLEAN, text : {0} \cup Lv1!Versions]
      BY <1>1, <1>2, MoreTables
    <2>2. readAt \in BOOLEAN /\ token \in BOOLEAN /\ phase \in {"off", "menu"}
      BY <1>4 DEF Lv1!Init
    <2>3. /\ lv1 \in [Lv1!Options -> BOOLEAN]
          /\ flag \in [Lv1!Flags -> BOOLEAN] /\ shown \in [Lv1!Flags -> BOOLEAN]
      BY DEF Lv1!Init
    <2>4. chosen \subseteq Lv1!Options \X BOOLEAN
      BY <1>6, SameTables DEF Paired
    <2>5. changes \in 0 .. MaxChanges /\ faults \in 0 .. MaxFaults
      BY Lv1Assumption, OtherOsAssumption DEF Lv1!Init
    <2>6. /\ found = Lv1!Detected(console.kernel, console.text)
          /\ syscalls \in Lv1!Kernels \cup {Lv1!NoAddresses}
      BY DEF Lv1!Init
    <2> QED
      BY <1>4, <2>1, <2>2, <2>3, <2>4, <2>5, <2>6 DEF Lv1!TypeOK
  <1>8. /\ ~HasTable(Ver) => chosen = {}
        /\ phase # "menu" /\ token = FALSE /\ flag["util_qa"] = FALSE
    BY <1>3 DEF Lv1!Init, Lv1!Flags
  <1> QED
    BY <1>6, <1>7, <1>8 DEF LvInv

(* What a step has to show when the kernel and the console stay. *)
LEMMA LvStep ==
  ASSUME LvInv, UNCHANGED <<console, found>>,
         Lv1!TypeOK',
         Held(Ver, Nor, mem', chosen'), Paired(Ver, Nor, chosen'),
         ~HasTable(Ver) => chosen' = {},
         phase' = "menu" /\ Ver # 355 => ProtectionWords(Ver) \subseteq mem',
         phase' = "menu" /\ HasTable(Ver) => lv1' = Read(mem', readAt'),
         faults' = 0 => token' = flag'["util_qa"],
         faults' = 0 /\ phase' = "menu" /\ HasTable(Ver) =>
           \A f \in Lv1!Flags : Lv1!Offered(f) => shown'[f] = flag'[f]
  PROVE  LvInv'
  <1>1. Ver' = Ver /\ Nor' = Nor
    BY DEF Ver, Nor
  <1>2. \A f : Lv1!Offered(f)' <=> Lv1!Offered(f)
    BY Zenon DEF Lv1!Offered, Lv1!HasTable, Lv1!fw
  <1>3. Read(mem, readAt)' = Read(mem', readAt')
    BY <1>1, Zenon DEF Read
  <1> QED
    BY <1>1, <1>2, <1>3 DEF LvInv

(* And what it has to show of the types. *)
LEMMA LvTypes ==
  ASSUME Lv1!TypeOK, UNCHANGED <<console, found>>,
         target' \in BOOLEAN, readAt' \in BOOLEAN, token' \in BOOLEAN,
         phase' \in {"off", "menu"},
         syscalls' \in Kernels \cup {Lv1!NoAddresses},
         lv1' \in [Options -> BOOLEAN],
         Paired(Ver, Nor, chosen'),
         flag' \in [Lv1!Flags -> BOOLEAN], shown' \in [Lv1!Flags -> BOOLEAN],
         changes' \in 0 .. MaxChanges, faults' \in 0 .. MaxFaults
  PROVE  Lv1!TypeOK'
  <1>1. /\ console' \in [kernel : Running, nor : BOOLEAN, text : {0} \cup Lv1!Versions]
        /\ found' = Lv1!Detected(console'.kernel, console'.text)
    BY DEF Lv1!TypeOK
  <1>2. /\ lv1' \in [Lv1!Options -> BOOLEAN] /\ chosen' \subseteq Lv1!Options \X BOOLEAN
        /\ syscalls' \in Lv1!Kernels \cup {Lv1!NoAddresses}
    BY SameTables DEF Paired
  <1> QED
    BY <1>1, <1>2 DEF Lv1!TypeOK

(* One lemma for each action. *)
LEMMA StartKeeps ==
  ASSUME LvInv, NEW mapped \in BOOLEAN, Lv1!Start(mapped)
  PROVE  LvInv'
  <1> USE DEF Lv1!Start
  <1> DEFINE m == IF mapped THEN mem \cup Lv1!ProtectionWords(Lv1!fw) ELSE mem
  <1>1. /\ Ver \in Versions \cup {0} /\ Nor \in BOOLEAN /\ target \in BOOLEAN
        /\ found \in Kernels \cup {[ver |-> 0, dex |-> FALSE]}
    BY Versioned DEF LvInv
  <1>2. Held(Ver, Nor, m, chosen) /\ Paired(Ver, Nor, chosen)
    BY HeldOpen, SameTables DEF LvInv, Lv1!fw, Ver
  <1>3. Lv1!Columns(m, lv1, flag, TRUE)
    OBVIOUS
  <1>4. /\ lv1 \in [Options -> BOOLEAN] /\ flag \in [Lv1!Flags -> BOOLEAN]
        /\ readAt \in BOOLEAN /\ token \in BOOLEAN
        /\ changes \in 0 .. MaxChanges /\ faults \in 0 .. MaxFaults
    BY SameTables DEF LvInv, Lv1!TypeOK
  <1>5. Ver # 355 => ProtectionWords(Ver) \subseteq m
    BY SameTables DEF Lv1!fw, Ver
  <1> HIDE DEF m
  <1>6. /\ Held(Ver, Nor, mem', chosen)
        /\ ProtectionWords(Ver) \subseteq m => ProtectionWords(Ver) \subseteq mem'
        /\ HasTable(Ver) => lv1' = Read(mem', target)
        /\ readAt' = target
        /\ HasTable(Ver) => \A f \in Lv1!Flags : shown'[f] = (Lv1!Offered(f) /\ flag[f])
        /\ lv1' \in [Options -> BOOLEAN]
        /\ shown' \in [Lv1!Flags -> BOOLEAN]
    BY <1>1, <1>2, <1>3, <1>4, ColumnsKeep
  <1>7. syscalls' \in Kernels \cup {Lv1!NoAddresses}
    BY <1>1 DEF Kernels, Versions, Lv1!SyscallAddresses, Lv1!NoAddresses
  <1>8. Lv1!TypeOK'
    BY <1>1, <1>2, <1>4, <1>6, <1>7, LvTypes DEF LvInv
  <1>9. faults = 0 /\ HasTable(Ver) =>
           \A f \in Lv1!Flags : Lv1!Offered(f) => shown'[f] = flag[f]
    BY <1>4, <1>6
  <1> QED
    BY <1>2, <1>5, <1>6, <1>8, <1>9, LvStep DEF LvInv

(* A single option switched on. *)
LEMMA SwitchOneOn ==
  ASSUME NEW v, NEW n \in BOOLEAN, NEW t \in BOOLEAN, NEW o \in Options,
         NEW m, NEW c, Held(v, n, m, c), Paired(v, n, c)
  PROVE  /\ Held(v, n, m \cup Own(v, n, o, t), c \cup KeysFor(v, n, o, t))
         /\ Paired(v, n, c \cup KeysFor(v, n, o, t))
  <1>1. PICK S \in SUBSET Options : \A p : p \in S <=> p = o
    <2>1. {o} \in SUBSET Options
      OBVIOUS
    <2> QED
      BY <2>1
  <1>2. PICK M : M = m \cup Own(v, n, o, t)
    OBVIOUS
  <1>3. PICK C : C = c \cup KeysFor(v, n, o, t)
    OBVIOUS
  <1>4. \A x : x \in M <=> x \in m \/ \E p \in S : x \in Own(v, n, p, t)
    BY <1>1, <1>2
  <1>5. \A key : key \in C <=> key \in c \/ \E p \in S : key \in KeysFor(v, n, p, t)
    BY <1>1, <1>3
  <1>6. Held(v, n, M, C) /\ Paired(v, n, C)
    BY <1>4, <1>5, SwitchOn
  <1> QED
    BY <1>2, <1>3, <1>6

LEMMA ChooseKeeps ==
  ASSUME LvInv, NEW o \in Lv1!Options, NEW v \in BOOLEAN, Lv1!Choose(o, v)
  PROVE  LvInv'
  <1> USE DEF Lv1!Choose
  <1>1. /\ Ver \in Versions \cup {0} /\ Nor \in BOOLEAN /\ target \in BOOLEAN
        /\ o \in Options
    BY Versioned, SameTables DEF LvInv
  <1>2. mem' = IF v THEN mem \cup Own(Ver, Nor, o, target)
               ELSE mem \ Own(Ver, Nor, o, target)
    BY WIs
  <1>3. chosen' = IF v /\ HasTable(Ver) THEN chosen \cup KeysFor(Ver, Nor, o, target)
                  ELSE chosen \ KeysFor(Ver, Nor, o, target)
    BY KeysIs, MoreTables DEF Lv1!fw, Ver
  <1>4. Held(Ver, Nor, mem', chosen') /\ Paired(Ver, Nor, chosen')
    <2>0. Held(Ver, Nor, mem, chosen) /\ Paired(Ver, Nor, chosen)
      BY DEF LvInv
    <2>1. CASE HasTable(Ver) /\ v
      <3>1. mem' = mem \cup Own(Ver, Nor, o, target)
        BY <1>2, <2>1
      <3>2. chosen' = chosen \cup KeysFor(Ver, Nor, o, target)
        BY <1>3, <2>1
      <3> QED
        BY <1>1, <2>0, <3>1, <3>2, SwitchOneOn
    <2>2. CASE HasTable(Ver) /\ ~v
      <3>1. mem' = mem \ Own(Ver, Nor, o, target)
        BY <1>2, <2>2
      <3>2. chosen' = chosen \ KeysFor(Ver, Nor, o, target)
        BY <1>3, <2>2
      <3> QED
        BY <1>1, <2>0, <3>1, <3>2, SwitchOff
    <2>3. CASE ~HasTable(Ver)
      <3>1. Own(Ver, Nor, o, target) = {}
        BY <2>3, NoTable DEF Own
      <3>2. mem' = mem /\ chosen' = chosen
        BY <1>2, <1>3, <2>3, <3>1 DEF LvInv
      <3> QED
        BY <3>2 DEF LvInv
    <2> QED
      BY <2>1, <2>2, <2>3
  <1>5. ~HasTable(Ver) => chosen' = {}
    BY <1>3 DEF LvInv
  <1>6. Ver # 355 => ProtectionWords(Ver) \subseteq mem'
    <2>1. \A x \in Own(Ver, Nor, o, target) : x \notin ProtectionWords(Ver)
      BY <1>1, WordsApart
    <2> QED
      BY <1>2, <2>1 DEF LvInv
  <1>7. lv1' = IF HasTable(Ver) THEN Read(mem', target) ELSE [lv1 EXCEPT ![o] = v]
    <2>1. lv1' = Lv1!Reading(mem', [lv1 EXCEPT ![o] = v])
      OBVIOUS
    <2> QED
      BY <2>1, ReadingIs
  <1>8. lv1' \in [Options -> BOOLEAN]
    <2>1. lv1 \in [Options -> BOOLEAN]
      BY SameTables DEF LvInv, Lv1!TypeOK
    <2>2. [lv1 EXCEPT ![o] = v] \in [Options -> BOOLEAN]
      BY <2>1
    <2>3. CASE HasTable(Ver)
      <3>1. lv1' = Read(mem', target)
        BY <1>7, <2>3
      <3>2. Read(mem', target) \in [Options -> BOOLEAN]
        BY ReadType
      <3> QED
        BY <3>1, <3>2
    <2>4. CASE ~HasTable(Ver)
      <3>1. lv1' = [lv1 EXCEPT ![o] = v]
        BY <1>7, <2>4
      <3> QED
        BY <2>2, <3>1
    <2> QED
      BY <2>3, <2>4
  <1>9. Lv1!TypeOK'
    <2>1. /\ readAt' \in BOOLEAN /\ token' \in BOOLEAN /\ phase' \in {"off", "menu"}
          /\ syscalls' \in Kernels \cup {Lv1!NoAddresses}
          /\ flag' \in [Lv1!Flags -> BOOLEAN] /\ shown' \in [Lv1!Flags -> BOOLEAN]
          /\ changes' \in 0 .. MaxChanges /\ faults' \in 0 .. MaxFaults
      BY <1>1, SameTables, Lv1Assumption DEF LvInv, Lv1!TypeOK
    <2> QED
      BY <1>1, <1>4, <1>8, <2>1, LvTypes DEF LvInv
  <1> QED
    BY <1>4, <1>5, <1>6, <1>7, <1>9, LvStep DEF LvInv

LEMMA RetargetKeeps == LvInv /\ Lv1!Retarget => LvInv'
  <1> SUFFICES ASSUME LvInv, Lv1!Retarget PROVE LvInv'
    OBVIOUS
  <1> USE DEF Lv1!Retarget
  <1>1. Lv1!TypeOK'
    <2>1. /\ target' \in BOOLEAN /\ readAt' \in BOOLEAN /\ token' \in BOOLEAN
          /\ phase' \in {"off", "menu"}
          /\ syscalls' \in Kernels \cup {Lv1!NoAddresses}
          /\ lv1' \in [Options -> BOOLEAN]
          /\ flag' \in [Lv1!Flags -> BOOLEAN] /\ shown' \in [Lv1!Flags -> BOOLEAN]
          /\ changes' \in 0 .. MaxChanges /\ faults' \in 0 .. MaxFaults
      BY SameTables, Lv1Assumption DEF LvInv, Lv1!TypeOK
    <2> QED
      BY <2>1, LvTypes DEF LvInv
  <1> QED
    BY <1>1, LvStep DEF LvInv

LEMMA ExitKeeps == ASSUME LvInv, NEW lv2 \in BOOLEAN, Lv1!Exit(lv2) PROVE LvInv'
  <1> USE DEF Lv1!Exit
  <1>1. Lv1!TypeOK'
    <2>1. /\ target' \in BOOLEAN /\ readAt' \in BOOLEAN /\ token' \in BOOLEAN
          /\ phase' \in {"off", "menu"}
          /\ syscalls' \in Kernels \cup {Lv1!NoAddresses}
          /\ lv1' \in [Options -> BOOLEAN]
          /\ flag' \in [Lv1!Flags -> BOOLEAN] /\ shown' \in [Lv1!Flags -> BOOLEAN]
          /\ changes' \in 0 .. MaxChanges /\ faults' \in 0 .. MaxFaults
      BY SameTables DEF LvInv, Lv1!TypeOK
    <2> QED
      BY <2>1, LvTypes DEF LvInv
  <1> QED
    BY <1>1, LvStep DEF LvInv

LEMMA UtilitiesKeeps == LvInv /\ Lv1!Utilities => LvInv'
  <1> SUFFICES ASSUME LvInv, Lv1!Utilities PROVE LvInv'
    OBVIOUS
  <1> USE DEF Lv1!Utilities
  <1>1. Ver \in Versions \cup {0} /\ Nor \in BOOLEAN /\ target \in BOOLEAN
    BY Versioned DEF LvInv
  <1>2. Held(Ver, Nor, mem, chosen) /\ Paired(Ver, Nor, chosen)
    BY DEF LvInv
  <1>3. Lv1!Columns(mem, lv1, flag, TRUE)
    OBVIOUS
  <1>4. /\ lv1 \in [Options -> BOOLEAN] /\ flag \in [Lv1!Flags -> BOOLEAN]
        /\ readAt \in BOOLEAN /\ token \in BOOLEAN
        /\ syscalls \in Kernels \cup {Lv1!NoAddresses}
        /\ changes \in 0 .. MaxChanges /\ faults \in 0 .. MaxFaults
    BY SameTables DEF LvInv, Lv1!TypeOK
  <1>5. /\ Held(Ver, Nor, mem', chosen)
        /\ ProtectionWords(Ver) \subseteq mem => ProtectionWords(Ver) \subseteq mem'
        /\ HasTable(Ver) => lv1' = Read(mem', target)
        /\ readAt' = target
        /\ HasTable(Ver) => \A f \in Lv1!Flags : shown'[f] = (Lv1!Offered(f) /\ flag[f])
        /\ lv1' \in [Options -> BOOLEAN]
        /\ shown' \in [Lv1!Flags -> BOOLEAN]
    BY <1>1, <1>2, <1>3, <1>4, ColumnsKeep
  <1>6. Lv1!TypeOK'
    BY <1>1, <1>2, <1>4, <1>5, LvTypes DEF LvInv
  <1>7. faults = 0 /\ HasTable(Ver) =>
           \A f \in Lv1!Flags : Lv1!Offered(f) => shown'[f] = flag[f]
    BY <1>4, <1>5
  <1> QED
    BY <1>2, <1>5, <1>6, <1>7, LvStep DEF LvInv

LEMMA BootKeeps ==
  ASSUME LvInv, NEW restarts \in BOOLEAN, Lv1!BootOtherOS(restarts) PROVE LvInv'
  <1> USE DEF Lv1!BootOtherOS
  <1>1. Ver \in Versions \cup {0} /\ Nor \in BOOLEAN /\ target \in BOOLEAN
    BY Versioned DEF LvInv
  <1>2. PICK S \in SUBSET Options : S = Lv1!ForcedOptions
    BY SameTables DEF Lv1!ForcedOptions
  <1>3. /\ mem' = mem \cup UNION { Lv1!W(target, o) : o \in S }
        /\ chosen' = IF HasTable(Ver) THEN chosen \cup Lv1!KeysOf(S) ELSE chosen
    BY <1>2, MoreTables DEF Lv1!fw, Ver
  <1>4. Held(Ver, Nor, mem', chosen') /\ Paired(Ver, Nor, chosen')
    <2>1. Held(Ver, Nor, mem, chosen) /\ Paired(Ver, Nor, chosen)
      BY DEF LvInv
    <2> QED
      BY <1>1, <1>3, <2>1, ManyOn
  <1>5. mem \subseteq mem'
    BY <1>3
  <1>6. lv1' = IF HasTable(Ver) THEN Read(mem', target) ELSE lv1
    BY ReadingIs
  <1>7. lv1' \in [Options -> BOOLEAN]
    <2>1. lv1 \in [Options -> BOOLEAN]
      BY SameTables DEF LvInv, Lv1!TypeOK
    <2>2. Read(mem', target) \in [Options -> BOOLEAN]
      BY ReadType
    <2> QED
      BY <1>6, <2>1, <2>2
  <1>8. Lv1!TypeOK'
    <2>1. /\ readAt' \in BOOLEAN /\ token' \in BOOLEAN /\ phase' \in {"off", "menu"}
          /\ syscalls' \in Kernels \cup {Lv1!NoAddresses}
          /\ flag' \in [Lv1!Flags -> BOOLEAN] /\ shown' \in [Lv1!Flags -> BOOLEAN]
          /\ changes' \in 0 .. MaxChanges /\ faults' \in 0 .. MaxFaults
      BY <1>1, SameTables, Lv1Assumption DEF LvInv, Lv1!TypeOK
    <2> QED
      BY <1>1, <1>4, <1>7, <2>1, LvTypes DEF LvInv
  <1>9. ~HasTable(Ver) => chosen' = {}
    BY <1>3 DEF LvInv
  <1> QED
    BY <1>4, <1>5, <1>6, <1>8, <1>9, LvStep DEF LvInv

(* Counting faults. *)
LEMMA SameCardinality == \A S : Lv1!Cardinality(S) = Cardinality(S)
  BY DEF Lv1!Cardinality, Cardinality

LEMMA NoFaults ==
  ASSUME NEW bad \in SUBSET {"read", "token", "write", "show"}
  PROVE  /\ Cardinality(bad) \in Nat
         /\ Cardinality(bad) = 0 <=> bad = {}
  <1>1. IsFiniteSet({"read", "token", "write", "show"})
    <2>1. IsFiniteSet({"read"})
      BY FS_Singleton
    <2>2. IsFiniteSet({"token"})
      BY FS_Singleton
    <2>3. IsFiniteSet({"write"})
      BY FS_Singleton
    <2>4. IsFiniteSet({"show"})
      BY FS_Singleton
    <2>5. IsFiniteSet({"read"} \cup {"token"})
      BY <2>1, <2>2, FS_Union
    <2>6. IsFiniteSet({"write"} \cup {"show"})
      BY <2>3, <2>4, FS_Union
    <2>7. IsFiniteSet(({"read"} \cup {"token"}) \cup ({"write"} \cup {"show"}))
      BY <2>5, <2>6, FS_Union
    <2>8. ({"read"} \cup {"token"}) \cup ({"write"} \cup {"show"})
            = {"read", "token", "write", "show"}
      OBVIOUS
    <2> QED
      BY <2>7, <2>8
  <1>2. IsFiniteSet(bad)
    BY <1>1, FS_Subset
  <1> QED
    BY <1>2, FS_CardinalityType, FS_EmptySet

(* The flag and the token after toggle_*_flag(). *)
LEMMA ToggledKeeps ==
  ASSUME Lv1!TypeOK, NEW f \in Lv1!Flags,
         NEW bad \in SUBSET {"read", "token", "write", "show"}, Lv1!Toggled(f, bad)
  PROVE  /\ flag' \in [Lv1!Flags -> BOOLEAN] /\ token' \in BOOLEAN
         /\ bad = {} /\ token = flag["util_qa"] => token' = flag'["util_qa"]
  <1> DEFINE set == ~Lv1!ReadFlag(f, flag[f], "read" \notin bad)
             stopped == f = "util_qa" /\ "token" \in bad
  <1>1. flag \in [Lv1!Flags -> BOOLEAN] /\ token \in BOOLEAN
    BY DEF Lv1!TypeOK
  <1>2. set \in BOOLEAN
    OBVIOUS
  <1>3. /\ flag' = IF stopped \/ "write" \in bad THEN flag ELSE [flag EXCEPT ![f] = set]
        /\ token' = IF f = "util_qa" /\ ~stopped THEN set ELSE token
    BY DEF Lv1!Toggled
  <1> HIDE DEF set
  <1>4. flag' \in [Lv1!Flags -> BOOLEAN] /\ token' \in BOOLEAN
    BY <1>1, <1>2, <1>3
  <1>5. ASSUME bad = {}, token = flag["util_qa"] PROVE token' = flag'["util_qa"]
    <2>1. ~stopped /\ "write" \notin bad
      BY <1>5
    <2>2. "util_qa" \in Lv1!Flags
      BY DEF Lv1!Flags
    <2>3. CASE f = "util_qa"
      BY <1>1, <1>2, <1>3, <2>1, <2>2, <2>3
    <2>4. CASE f # "util_qa"
      BY <1>1, <1>3, <1>5, <2>1, <2>2, <2>4
    <2> QED
      BY <2>3, <2>4
  <1> QED
    BY <1>4, <1>5

LEMMA ToggleKeeps ==
  ASSUME LvInv, NEW f \in Lv1!Flags,
         NEW bad \in SUBSET {"read", "token", "write", "show"}, Lv1!ToggleFlag(f, bad)
  PROVE  LvInv'
  <1> USE DEF Lv1!ToggleFlag
  <1>1. Ver \in Versions \cup {0} /\ Nor \in BOOLEAN /\ target \in BOOLEAN
    BY Versioned DEF LvInv
  <1>2. /\ Held(Ver, Nor, mem, chosen) /\ Paired(Ver, Nor, chosen)
        /\ HasTable(Ver) => lv1 = Read(mem, readAt)
    BY DEF LvInv
  <1>3. /\ lv1 \in [Options -> BOOLEAN] /\ flag \in [Lv1!Flags -> BOOLEAN]
        /\ readAt \in BOOLEAN /\ token \in BOOLEAN
        /\ syscalls \in Kernels \cup {Lv1!NoAddresses}
        /\ changes \in 0 .. MaxChanges /\ faults \in 0 .. MaxFaults
    BY SameTables DEF LvInv, Lv1!TypeOK
  <1>4. PICK m : m = Lv1!Restored(mem, lv1)
    OBVIOUS
  <1>5. /\ Held(Ver, Nor, m, chosen)
        /\ ProtectionWords(Ver) \subseteq mem => ProtectionWords(Ver) \subseteq m
    BY <1>1, <1>2, <1>3, <1>4, Closing
  <1>6. PICK ok \in BOOLEAN : (ok <=> "show" \notin bad) /\ Lv1!Columns(m, lv1, flag', ok)
    <2>1. ("show" \notin bad) \in BOOLEAN
      OBVIOUS
    <2>2. Lv1!Columns(m, lv1, flag', "show" \notin bad)
      BY <1>4
    <2> QED
      BY <2>1, <2>2
  <1>7. /\ Held(Ver, Nor, mem', chosen)
        /\ ProtectionWords(Ver) \subseteq m => ProtectionWords(Ver) \subseteq mem'
        /\ HasTable(Ver) => lv1' = Read(mem', target)
        /\ readAt' = target
        /\ HasTable(Ver) /\ ok =>
             \A g \in Lv1!Flags : shown'[g] = (Lv1!Offered(g) /\ flag'[g])
        /\ lv1' \in [Options -> BOOLEAN]
        /\ flag' \in [Lv1!Flags -> BOOLEAN] => shown' \in [Lv1!Flags -> BOOLEAN]
    BY <1>1, <1>2, <1>3, <1>5, <1>6, ColumnsKeep
  <1>8. /\ flag' \in [Lv1!Flags -> BOOLEAN] /\ token' \in BOOLEAN
        /\ bad = {} /\ token = flag["util_qa"] => token' = flag'["util_qa"]
    <2>1. CASE Lv1!Toggled(f, bad)
      BY <2>1, ToggledKeeps DEF LvInv
    <2>2. CASE flag' = flag /\ token' = token
      BY <1>3, <2>2
    <2> QED
      BY <2>1, <2>2
  <1>9. /\ changes' \in 0 .. MaxChanges /\ faults' \in 0 .. MaxFaults
        /\ faults' = 0 => faults = 0 /\ bad = {}
    <2>1. /\ changes < MaxChanges /\ changes' = changes + 1
          /\ faults + Cardinality(bad) <= MaxFaults
          /\ faults' = faults + Cardinality(bad)
      BY SameCardinality
    <2>2. /\ Cardinality(bad) \in Nat
          /\ Cardinality(bad) = 0 => bad = {}
      BY NoFaults
    <2>3. PICK n \in Nat : n = Cardinality(bad)
      BY <2>2
    <2> QED
      BY <1>3, <2>1, <2>2, <2>3, Lv1Assumption, OtherOsAssumption
  <1>10. Lv1!TypeOK'
    BY <1>1, <1>2, <1>3, <1>7, <1>8, <1>9, LvTypes DEF LvInv
  <1>12. faults' = 0 => token' = flag'["util_qa"]
    BY <1>8, <1>9 DEF LvInv
  <1>13. faults' = 0 /\ HasTable(Ver) =>
           \A g \in Lv1!Flags : Lv1!Offered(g) => shown'[g] = flag'[g]
    BY <1>6, <1>7, <1>8, <1>9
  <1>14. Ver # 355 => ProtectionWords(Ver) \subseteq mem'
    BY <1>5, <1>7 DEF LvInv
  <1> QED
    BY <1>2, <1>7, <1>10, <1>12, <1>13, <1>14, LvStep DEF LvInv

LEMMA LvNext == LvInv /\ Lv1!Next => LvInv'
  <1> SUFFICES ASSUME LvInv, Lv1!Next PROVE LvInv'
    OBVIOUS
  <1>1. CASE \E mapped \in BOOLEAN : Lv1!Start(mapped)
    BY <1>1, StartKeeps
  <1>2. CASE \E o \in Lv1!Options, v \in BOOLEAN : Lv1!Choose(o, v)
    BY <1>2, ChooseKeeps
  <1>3. CASE \E f \in Lv1!Flags, bad \in SUBSET {"read", "token", "write", "show"} :
               Lv1!ToggleFlag(f, bad)
    BY <1>3, ToggleKeeps
  <1>4. CASE Lv1!Utilities
    BY <1>4, UtilitiesKeeps
  <1>5. CASE \E restarts \in BOOLEAN : Lv1!BootOtherOS(restarts)
    BY <1>5, BootKeeps
  <1>6. CASE Lv1!Retarget
    BY <1>6, RetargetKeeps
  <1>7. CASE \E lv2 \in BOOLEAN : Lv1!Exit(lv2)
    BY <1>7, ExitKeeps
  <1> QED
    BY <1>1, <1>2, <1>3, <1>4, <1>5, <1>6, <1>7 DEF Lv1!Next

(* What follows from the invariant. *)
LEMMA LvInvTells == LvInv => Lv1!SettingsTellThePatches
  <1> SUFFICES ASSUME LvInv, phase = "menu", NEW o \in Lv1!Options,
                      ~Lv1!Misread(Lv1!fw, Lv1!Console(readAt), o)
               PROVE  lv1[o] = (<<o, readAt>> \in chosen)
    BY DEF Lv1!SettingsTellThePatches
  <1>1. /\ Ver \in Versions \cup {0} /\ Nor \in BOOLEAN /\ o \in Options
        /\ readAt \in BOOLEAN
    BY Versioned, SameTables DEF LvInv, Lv1!TypeOK
  <1>2. ~Unclear(Ver, Nor, o, readAt)
    <2>1. Lv1!Console(readAt) = [dex |-> readAt, nor |-> Nor]
      BY DEF Lv1!Console, Nor
    <2> QED
      BY <2>1, SameTables DEF Unclear, Lv1!fw, Ver
  <1>3. HasTable(Ver)
    BY <1>2 DEF Unclear, Misread
  <1>4. Ver \in Versions
    BY <1>1, <1>3 DEF HasTable
  <1>5. lv1[o] = Tested(Ver, Nor, o, readAt, mem)
    BY <1>1, <1>3 DEF LvInv, Read
  <1>6. Tested(Ver, Nor, o, readAt, mem) <=> <<o, readAt>> \in chosen
    BY <1>1, <1>2, <1>3, <1>4, TestTells DEF LvInv
  <1>7. Tested(Ver, Nor, o, readAt, mem) \in BOOLEAN
    BY TestedIsBoolean
  <1> QED
    BY <1>5, <1>6, <1>7

LEMMA LvInvHolds == LvInv => Lv1!OnlyChosenPatches
  <1> SUFFICES ASSUME LvInv PROVE Lv1!OnlyChosenPatches
    OBVIOUS
  <1> DEFINE left == { key \in chosen : ~(Lv1!fw = 431 /\ key[1] = "lv1_um") }
             wanted == UNION { Lv1!W(key[2], key[1]) : key \in left }
             um431 == IF Lv1!fw = 431 THEN Lv1!UmWords(Lv1!fw) ELSE {}
  <1>1. /\ Held(Ver, Nor, mem, chosen)
        /\ chosen \subseteq Options \X BOOLEAN
        /\ phase = "menu" /\ Ver # 355 => ProtectionWords(Ver) \subseteq mem
    BY DEF LvInv, Paired
  <1>2. Lv1!fw = Ver
    BY DEF Lv1!fw, Ver
  <1>3. \A x : x \in wanted <=> \E key \in left : x \in Own(Ver, Nor, key[1], key[2])
    <2>1. \A x : x \in wanted <=> \E key \in left : x \in Lv1!W(key[2], key[1])
      OBVIOUS
    <2> QED
      BY <2>1, WIs
  <1>4. wanted \subseteq mem
    <2> SUFFICES ASSUME NEW key \in left, NEW x \in Own(Ver, Nor, key[1], key[2])
                 PROVE  x \in mem
      BY <1>3
    <2>1. PICK o \in Options, t \in BOOLEAN : key = <<o, t>>
      BY <1>1
    <2>2. <<o, t>> \in chosen /\ ~(Ver = 431 /\ o = "lv1_um")
      BY <1>2, <2>1
    <2> QED
      BY <1>1, <2>1, <2>2 DEF Held
  <1>5. mem \subseteq wanted \cup um431 \cup ProtectionWords(Ver)
    <2> SUFFICES ASSUME NEW x \in mem, x \notin um431, x \notin ProtectionWords(Ver)
                 PROVE  x \in wanted
      OBVIOUS
    <2>1. ~(Ver = 431 /\ x \in UmWords(Ver))
      BY <1>2, MoreTables
    <2>2. PICK o \in Options, t \in BOOLEAN : <<o, t>> \in chosen /\ x \in Own(Ver, Nor, o, t)
      BY <1>1, <2>1 DEF Held
    <2>3. ~(Ver = 431 /\ o = "lv1_um")
      <3> SUFFICES ASSUME Ver = 431, o = "lv1_um" PROVE FALSE
        OBVIOUS
      <3>1. HasTable(Ver)
        BY DEF HasTable
      <3>2. x \in UmWords(Ver)
        BY <2>2, <3>1, UmDmWords DEF Own
      <3> QED
        BY <2>1, <3>2
    <2>4. <<o, t>> \in left
      BY <1>2, <2>2, <2>3
    <2>5. \E key \in left : x \in Own(Ver, Nor, key[1], key[2])
      BY <2>2, <2>4
    <2> QED
      BY <1>3, <2>5
  <1> HIDE DEF left, wanted, um431
  <1>6. /\ wanted \subseteq mem
        /\ mem \subseteq wanted \cup um431 \cup Lv1!ProtectionWords(Lv1!fw)
        /\ phase = "menu" /\ Lv1!fw # 355 => Lv1!ProtectionWords(Lv1!fw) \subseteq mem
    BY <1>1, <1>2, <1>4, <1>5, SameTables
  <1> QED
    BY <1>6 DEF Lv1!OnlyChosenPatches, left, wanted, um431

LEMMA LvInvShows == LvInv => Lv1!FlagsAreShown
  BY MoreTables DEF LvInv, Lv1!FlagsAreShown, Lv1!fw, Ver

-----------------------------------------------------------------------------
(* SystemFiles.  Its operations are lists of calls: the invariant says for
   each of the lists, and for each of its rests, what the files hold then.  A
   call at a time: first what a call does, then the rests of a copy of three
   emulators, then the rests of every operation.                            *)

(* The calls of two steps of three, one after the other. *)
LEMMA ThreeAndThree ==
  ASSUME NEW S, NEW s \in Seq(S), NEW t \in Seq(S), NEW u \in Seq(S),
         Len(s) = 3, Len(t) = 3, Len(u) = 6,
         s[1] = u[1], s[2] = u[2], s[3] = u[3],
         t[1] = u[4], t[2] = u[5], t[3] = u[6]
  PROVE  s \o t = u
  <1>1. /\ s \o t \in Seq(S)
        /\ Len(s \o t) = 6
        /\ \A i \in 1 .. 6 : (s \o t)[i] = IF i <= 3 THEN s[i] ELSE t[i - 3]
    <2>1. /\ s \o t \in Seq(S)
          /\ Len(s \o t) = Len(s) + Len(t)
          /\ \A i \in 1 .. Len(s) + Len(t) : (s \o t)[i] =
                     IF i <= Len(s) THEN s[i] ELSE t[i - Len(s)]
      BY ConcatProperties
    <2> QED
      BY <2>1
  <1>2. \A i \in 1 .. 6 : (s \o t)[i] = u[i]
    <2> SUFFICES ASSUME NEW i \in 1 .. 6 PROVE (s \o t)[i] = u[i]
      OBVIOUS
    <2>1. i = 1 \/ i = 2 \/ i = 3 \/ i = 4 \/ i = 5 \/ i = 6
      OBVIOUS
    <2> QED
      BY <1>1, <2>1
  <1> QED
    BY <1>1, <1>2, SeqEqual

LEMMA SixCalls ==
  ASSUME NEW a, NEW b, NEW c, NEW d, NEW e, NEW f
  PROVE  <<a, b, c>> \o <<d, e, f>> = <<a, b, c, d, e, f>>
  <1>1. /\ <<a, b, c>> \in Seq({a, b, c, d, e, f})
        /\ <<d, e, f>> \in Seq({a, b, c, d, e, f})
        /\ <<a, b, c, d, e, f>> \in Seq({a, b, c, d, e, f})
    OBVIOUS
  <1>2. PICK S : /\ <<a, b, c>> \in Seq(S) /\ <<d, e, f>> \in Seq(S)
                 /\ <<a, b, c, d, e, f>> \in Seq(S)
    BY <1>1
  <1>3. PICK s : s = <<a, b, c>>
    OBVIOUS
  <1>4. PICK t : t = <<d, e, f>>
    OBVIOUS
  <1>7. PICK u : u = <<a, b, c, d, e, f>>
    OBVIOUS
  <1>8. s \in Seq(S) /\ t \in Seq(S) /\ u \in Seq(S)
    BY <1>2, <1>3, <1>4, <1>7
  <1>5. /\ Len(s) = 3 /\ Len(t) = 3 /\ Len(u) = 6
        /\ s[1] = u[1] /\ s[2] = u[2] /\ s[3] = u[3]
        /\ t[1] = u[4] /\ t[2] = u[5] /\ t[3] = u[6]
    BY <1>3, <1>4, <1>7
  <1>6. s \o t = u
    BY <1>5, <1>8, ThreeAndThree
  <1> QED
    BY <1>3, <1>4, <1>6, <1>7

Contents == {"absent", "cobra", "orig", "old", "lv2", "empty", "short"}
Taken(x) == IF x = "absent" THEN "empty" ELSE x

(* What a call does besides its effect on the files. *)
NextCall ==
  /\ phase = "run" /\ job # <<>> /\ job' = Tail(job)
  /\ UNCHANGED <<then, swap, redirected, refused, phase, replaces, choices>>

LEMMA CopyCall ==
  ASSUME Files!TypeOK, NEW ok \in BOOLEAN, Files!Call(ok),
         NEW a \in Files!Names, NEW b \in Files!Names, Head(job) = Files!Copy(a, b)
  PROVE  /\ NextCall
         /\ files' \in [Files!Names -> Contents]
         /\ \A n \in Files!Names : n # b => files'[n] = files[n]
         /\ \/ faults' = faults /\ files'[b] = Taken(files[a])
            \/ faults < MaxFaults /\ faults' = faults + 1 /\ files'[b] \in {"absent", "short"}
  <1> DEFINE c == Head(job)
  <1>1. c.kind = "copy" /\ c.from = a /\ c.to = b
    BY DEF Files!Copy
  <1>2. files \in [Files!Names -> Contents]
    BY DEF Files!TypeOK, Contents, Files!Absent
  <1>3. Files!Possible(files, c, replaces)
    BY <1>1 DEF Files!Possible
  <1>4. Files!Effect(files, c) = [files EXCEPT ![b] = Taken(files[a])]
    BY <1>1 DEF Files!Effect, Taken, Files!Exists, Files!Absent
  <1>5. Files!Failures(files, c) = {[files EXCEPT ![b] = "absent"], [files EXCEPT ![b] = "short"]}
    BY <1>1 DEF Files!Failures, Files!Absent
  <1>6. NextCall
    BY DEF Files!Call, NextCall
  <1>7. \/ faults' = faults /\ files' = [files EXCEPT ![b] = Taken(files[a])]
        \/ /\ faults < MaxFaults /\ faults' = faults + 1
           /\ files' \in {[files EXCEPT ![b] = "absent"], [files EXCEPT ![b] = "short"]}
    BY <1>3, <1>4, <1>5 DEF Files!Call
  <1>8. Taken(files[a]) \in Contents
    BY <1>2 DEF Taken, Contents
  <1>9. CASE faults' = faults /\ files' = [files EXCEPT ![b] = Taken(files[a])]
    BY <1>2, <1>6, <1>8, <1>9
  <1>10. CASE /\ faults < MaxFaults /\ faults' = faults + 1
              /\ files' \in {[files EXCEPT ![b] = "absent"], [files EXCEPT ![b] = "short"]}
    BY <1>2, <1>6, <1>10 DEF Contents
  <1> QED
    BY <1>7, <1>9, <1>10

LEMMA UnlinkCall ==
  ASSUME Files!TypeOK, NEW ok \in BOOLEAN, Files!Call(ok),
         NEW a \in Files!Names, Head(job) = Files!Unlink(a)
  PROVE  /\ NextCall
         /\ files' \in [Files!Names -> Contents]
         /\ \A n \in Files!Names : n # a => files'[n] = files[n]
         /\ \/ faults' = faults /\ files'[a] = "absent"
            \/ faults < MaxFaults /\ faults' = faults + 1 /\ files'[a] = files[a]
  <1> DEFINE c == Head(job)
  <1>1. c.kind = "unlink" /\ c.from = a /\ c.to = a
    BY DEF Files!Unlink
  <1>2. files \in [Files!Names -> Contents]
    BY DEF Files!TypeOK, Contents, Files!Absent
  <1>3. Files!Possible(files, c, replaces) <=> files[a] # "absent"
    BY <1>1 DEF Files!Possible, Files!Exists, Files!Absent
  <1>4. Files!Effect(files, c) = [files EXCEPT ![a] = "absent"]
    BY <1>1 DEF Files!Effect, Files!Absent
  <1>5. Files!Failures(files, c) = {files}
    BY <1>1 DEF Files!Failures
  <1>6. NextCall
    BY DEF Files!Call, NextCall
  <1>7. \/ faults' = faults /\ files' = [files EXCEPT ![a] = "absent"]
        \/ faults' = faults /\ files[a] = "absent" /\ files' = files
        \/ faults < MaxFaults /\ faults' = faults + 1 /\ files' = files
    BY <1>3, <1>4, <1>5 DEF Files!Call
  <1>8. CASE faults' = faults /\ files' = [files EXCEPT ![a] = "absent"]
    BY <1>2, <1>6, <1>8 DEF Contents
  <1>9. CASE files' = files
    BY <1>2, <1>6, <1>7, <1>9
  <1> QED
    BY <1>7, <1>8, <1>9

LEMMA RenameCall ==
  ASSUME Files!TypeOK, NEW ok \in BOOLEAN, Files!Call(ok),
         NEW a \in Files!Names, NEW b \in Files!Names, a # b, Head(job) = Files!Ren(a, b)
  PROVE  /\ NextCall
         /\ files' \in [Files!Names -> Contents]
         /\ \A n \in Files!Names : n # a /\ n # b => files'[n] = files[n]
         /\ \/ /\ faults' = faults /\ files[a] # "absent"
               /\ files'[b] = files[a] /\ files'[a] = "absent"
            \/ /\ faults' = faults /\ files' = files
               /\ files[a] = "absent" \/ files[b] # "absent"
            \/ faults < MaxFaults /\ faults' = faults + 1 /\ files' = files
  <1> DEFINE c == Head(job)
  <1>1. c.kind = "rename" /\ c.from = a /\ c.to = b
    BY DEF Files!Ren
  <1>2. files \in [Files!Names -> Contents]
    BY DEF Files!TypeOK, Contents, Files!Absent
  <1>3. Files!Possible(files, c, replaces) <=>
          files[a] # "absent" /\ (replaces \/ files[b] = "absent")
    BY <1>1 DEF Files!Possible, Files!Exists, Files!Absent
  <1>4. Files!Effect(files, c) = [files EXCEPT ![b] = files[a], ![a] = "absent"]
    BY <1>1 DEF Files!Effect, Files!Absent
  <1>5. Files!Failures(files, c) = {files}
    BY <1>1 DEF Files!Failures
  <1>6. NextCall
    BY DEF Files!Call, NextCall
  <1>7. \/ /\ faults' = faults /\ files[a] # "absent"
           /\ files' = [files EXCEPT ![b] = files[a], ![a] = "absent"]
        \/ /\ faults' = faults /\ files' = files
           /\ files[a] = "absent" \/ files[b] # "absent"
        \/ faults < MaxFaults /\ faults' = faults + 1 /\ files' = files
    BY <1>3, <1>4, <1>5 DEF Files!Call
  <1>8. CASE /\ faults' = faults /\ files[a] # "absent"
             /\ files' = [files EXCEPT ![b] = files[a], ![a] = "absent"]
    BY <1>2, <1>6, <1>8 DEF Contents
  <1>9. CASE files' = files
    BY <1>2, <1>6, <1>7, <1>9
  <1> QED
    BY <1>7, <1>8, <1>9

Places == {Files!Flash, Files!Hdd, Files!Backup, Files!Usb}
EmuKinds == {"net", "gx", "ps2"}
OtherNames == {"reg", "reg.bak", "reg.usb", "kernel", "kernel.new"}

LEMMA PlaceNames ==
  /\ Files!Emulators = EmuKinds
  /\ OtherNames \subseteq Files!Names
  /\ \A P \in Places, e \in EmuKinds : P[e] \in Files!Names /\ P[e] \notin OtherNames
  <1>1. Files!Emulators = EmuKinds
    BY DEF Files!Emulators, EmuKinds
  <1>2. OtherNames \subseteq Files!Names
    BY DEF Files!Names, OtherNames
  <1>3. ASSUME NEW P \in Places, NEW e \in EmuKinds PROVE P[e] \in Files!Names
    BY <1>1, <1>3 DEF Files!Names, Places
  <1>4. ASSUME NEW P \in Places, NEW e \in EmuKinds PROVE P[e] \notin OtherNames
    BY <1>4 DEF Places, EmuKinds, OtherNames, Files!Flash, Files!Hdd, Files!Backup, Files!Usb
  <1> QED
    BY <1>1, <1>2, <1>3, <1>4

LEMMA PlacesApart ==
  ASSUME NEW P \in Places, NEW Q \in Places, NEW e \in EmuKinds, NEW d \in EmuKinds, P[e] = Q[d]
  PROVE  P = Q /\ e = d
  <1> USE DEF EmuKinds
  <1>1. CASE P = Files!Flash
    BY <1>1 DEF Places, Files!Flash, Files!Hdd, Files!Backup, Files!Usb
  <1>2. CASE P = Files!Hdd
    BY <1>2 DEF Places, Files!Flash, Files!Hdd, Files!Backup, Files!Usb
  <1>3. CASE P = Files!Backup
    BY <1>3 DEF Places, Files!Flash, Files!Hdd, Files!Backup, Files!Usb
  <1>4. CASE P = Files!Usb
    BY <1>4 DEF Places, Files!Flash, Files!Hdd, Files!Backup, Files!Usb
  <1> QED
    BY <1>1, <1>2, <1>3, <1>4 DEF Places

LEMMA FourPlaces ==
  /\ Files!Flash # Files!Hdd /\ Files!Flash # Files!Backup /\ Files!Flash # Files!Usb
  /\ Files!Hdd # Files!Backup /\ Files!Hdd # Files!Usb /\ Files!Backup # Files!Usb
  <1>1. /\ Files!Flash["net"] = "net.flash" /\ Files!Hdd["net"] = "net.hdd"
        /\ Files!Backup["net"] = "net.cobra" /\ Files!Usb["net"] = "net.usb"
    BY DEF Files!Flash, Files!Hdd, Files!Backup, Files!Usb
  <1> QED
    BY <1>1

(* The calls left of a copy of the emulators from P to Q: k of them. *)
Left(P, Q, k) ==
  IF k = 6 THEN <<Files!Unlink(Q["net"]), Files!Unlink(Q["gx"]), Files!Unlink(Q["ps2"]),
                  Files!Copy(P["net"], Q["net"]), Files!Copy(P["ps2"], Q["ps2"]),
                  Files!Copy(P["gx"], Q["gx"])>>
  ELSE IF k = 5 THEN <<Files!Unlink(Q["gx"]), Files!Unlink(Q["ps2"]),
                  Files!Copy(P["net"], Q["net"]), Files!Copy(P["ps2"], Q["ps2"]),
                  Files!Copy(P["gx"], Q["gx"])>>
  ELSE IF k = 4 THEN <<Files!Unlink(Q["ps2"]),
                  Files!Copy(P["net"], Q["net"]), Files!Copy(P["ps2"], Q["ps2"]),
                  Files!Copy(P["gx"], Q["gx"])>>
  ELSE IF k = 3 THEN <<Files!Copy(P["net"], Q["net"]), Files!Copy(P["ps2"], Q["ps2"]),
                  Files!Copy(P["gx"], Q["gx"])>>
  ELSE IF k = 2 THEN <<Files!Copy(P["ps2"], Q["ps2"]), Files!Copy(P["gx"], Q["gx"])>>
  ELSE IF k = 1 THEN <<Files!Copy(P["gx"], Q["gx"])>>
  ELSE <<>>

(* Those that have been copied then. *)
CopiedWith(k) ==
  IF k = 0 THEN EmuKinds ELSE IF k = 1 THEN {"net", "ps2"}
  ELSE IF k = 2 THEN {"net"} ELSE {}

LEMMA LeftIs ==
  ASSUME NEW P, NEW Q
  PROVE  /\ Files!UnlinkAll(Q) \o Files!CopyAll(P, Q) = Left(P, Q, 6)
         /\ Files!CopyAll(P, Q) = Left(P, Q, 3)
         /\ Left(P, Q, 0) = <<>>
  <1>1. Left(P, Q, 0) = <<>>
    BY DEF Left
  <1>2. Files!CopyAll(P, Q) = Left(P, Q, 3)
    BY DEF Left, Files!CopyAll
  <1>3. Files!UnlinkAll(Q) \o Files!CopyAll(P, Q) = Left(P, Q, 6)
    <2>1. Files!UnlinkAll(Q)
            = <<Files!Unlink(Q["net"]), Files!Unlink(Q["gx"]), Files!Unlink(Q["ps2"])>>
      BY DEF Files!UnlinkAll
    <2>2. Files!CopyAll(P, Q)
            = <<Files!Copy(P["net"], Q["net"]), Files!Copy(P["ps2"], Q["ps2"]),
                Files!Copy(P["gx"], Q["gx"])>>
      BY DEF Files!CopyAll
    <2>3. <<Files!Unlink(Q["net"]), Files!Unlink(Q["gx"]), Files!Unlink(Q["ps2"])>>
            \o <<Files!Copy(P["net"], Q["net"]), Files!Copy(P["ps2"], Q["ps2"]),
                 Files!Copy(P["gx"], Q["gx"])>>
            = <<Files!Unlink(Q["net"]), Files!Unlink(Q["gx"]), Files!Unlink(Q["ps2"]),
                Files!Copy(P["net"], Q["net"]), Files!Copy(P["ps2"], Q["ps2"]),
                Files!Copy(P["gx"], Q["gx"])>>
      BY SixCalls
    <2>4. Left(P, Q, 6)
            = <<Files!Unlink(Q["net"]), Files!Unlink(Q["gx"]), Files!Unlink(Q["ps2"]),
                Files!Copy(P["net"], Q["net"]), Files!Copy(P["ps2"], Q["ps2"]),
                Files!Copy(P["gx"], Q["gx"])>>
      BY DEF Left
    <2> QED
      BY <2>1, <2>2, <2>3, <2>4, Zenon
  <1> QED
    BY <1>1, <1>2, <1>3

LEMMA LeftStep ==
  ASSUME NEW P, NEW Q, NEW k \in 1 .. 6
  PROVE  /\ Left(P, Q, k) # <<>>
         /\ Tail(Left(P, Q, k)) = Left(P, Q, k - 1)
         /\ Head(Left(P, Q, k)) =
              IF k = 6 THEN Files!Unlink(Q["net"]) ELSE IF k = 5 THEN Files!Unlink(Q["gx"])
              ELSE IF k = 4 THEN Files!Unlink(Q["ps2"])
              ELSE IF k = 3 THEN Files!Copy(P["net"], Q["net"])
              ELSE IF k = 2 THEN Files!Copy(P["ps2"], Q["ps2"])
              ELSE Files!Copy(P["gx"], Q["gx"])
  <1>1. CASE k = 6
    BY <1>1 DEF Left
  <1>2. CASE k = 5
    BY <1>2 DEF Left
  <1>3. CASE k = 4
    BY <1>3 DEF Left
  <1>4. CASE k = 3
    BY <1>4 DEF Left
  <1>5. CASE k = 2
    BY <1>5 DEF Left
  <1>6. CASE k = 1
    BY <1>6 DEF Left
  <1> QED
    BY <1>1, <1>2, <1>3, <1>4, <1>5, <1>6

LEMMA WhenCopied ==
  /\ CopiedWith(6) = {} /\ CopiedWith(5) = {} /\ CopiedWith(4) = {} /\ CopiedWith(3) = {}
  /\ CopiedWith(2) = {"net"} /\ CopiedWith(1) = {"net", "ps2"} /\ CopiedWith(0) = EmuKinds
  BY DEF CopiedWith

(* One call of such a copy. *)
LEMMA LeftCall ==
  ASSUME Files!TypeOK, NEW ok \in BOOLEAN, Files!Call(ok),
         NEW P \in Places, NEW Q \in Places, P # Q, NEW k \in 1 .. 6, job = Left(P, Q, k)
  PROVE  /\ NextCall /\ job' = Left(P, Q, k - 1)
         /\ files' \in [Files!Names -> Contents]
         /\ \A n \in Files!Names : (\A e \in EmuKinds : n # Q[e]) => files'[n] = files[n]
         /\ faults' = faults \/ (faults < MaxFaults /\ faults' = faults + 1)
         /\ faults' = faults /\ (\A e \in CopiedWith(k) : files[Q[e]] = Taken(files[P[e]]))
              => \A e \in CopiedWith(k - 1) : files'[Q[e]] = Taken(files'[P[e]])
  <1>1. "net" \in EmuKinds /\ "gx" \in EmuKinds /\ "ps2" \in EmuKinds
    BY DEF EmuKinds
  <1>2. \A e \in EmuKinds : P[e] \in Files!Names /\ Q[e] \in Files!Names
    BY PlaceNames
  <1>3. \A e, d \in EmuKinds : P[e] # Q[d] /\ (Q[e] = Q[d] => e = d)
    BY PlacesApart
  <1>4. job' = Left(P, Q, k - 1)
    BY LeftStep DEF Files!Call
  <1>5. ASSUME NEW d \in EmuKinds, Head(job) = Files!Unlink(Q[d]), k \in {4, 5, 6}
        PROVE  /\ NextCall
               /\ files' \in [Files!Names -> Contents]
               /\ \A n \in Files!Names : (\A e \in EmuKinds : n # Q[e]) => files'[n] = files[n]
               /\ faults' = faults \/ (faults < MaxFaults /\ faults' = faults + 1)
               /\ CopiedWith(k - 1) = {}
    <2>1. CopiedWith(k - 1) = {}
      BY <1>5, WhenCopied
    <2>2. /\ NextCall
          /\ files' \in [Files!Names -> Contents]
          /\ \A n \in Files!Names : n # Q[d] => files'[n] = files[n]
          /\ faults' = faults \/ (faults < MaxFaults /\ faults' = faults + 1)
      BY <1>2, <1>5, UnlinkCall
    <2> QED
      BY <2>1, <2>2
  <1>6. ASSUME NEW d \in EmuKinds, Head(job) = Files!Copy(P[d], Q[d]),
               CopiedWith(k - 1) = CopiedWith(k) \cup {d}, CopiedWith(k) \subseteq EmuKinds, d \notin CopiedWith(k)
        PROVE  /\ NextCall
               /\ files' \in [Files!Names -> Contents]
               /\ \A n \in Files!Names : (\A e \in EmuKinds : n # Q[e]) => files'[n] = files[n]
               /\ faults' = faults \/ (faults < MaxFaults /\ faults' = faults + 1)
               /\ faults' = faults /\ (\A e \in CopiedWith(k) : files[Q[e]] = Taken(files[P[e]]))
                    => \A e \in CopiedWith(k - 1) : files'[Q[e]] = Taken(files'[P[e]])
    <2>2. /\ NextCall
          /\ files' \in [Files!Names -> Contents]
          /\ \A n \in Files!Names : n # Q[d] => files'[n] = files[n]
          /\ \/ faults' = faults /\ files'[Q[d]] = Taken(files[P[d]])
             \/ faults < MaxFaults /\ faults' = faults + 1 /\ files'[Q[d]] \in {"absent", "short"}
      BY <1>2, <1>6, CopyCall
    <2>3. faults \in Nat
      BY OtherOsAssumption DEF Files!TypeOK
    <2>4. \A e \in EmuKinds : files'[P[e]] = files[P[e]]
      BY <1>2, <1>3, <1>6, <2>2
    <2>5. ASSUME faults' = faults, \A e \in CopiedWith(k) : files[Q[e]] = Taken(files[P[e]]),
                 NEW e \in CopiedWith(k - 1)
          PROVE  files'[Q[e]] = Taken(files'[P[e]])
      <3>1. CASE e = d
        <4>1. files'[Q[d]] = Taken(files[P[d]])
          BY <2>2, <2>3, <2>5
        <4> QED
          BY <1>6, <2>4, <3>1, <4>1
      <3>2. CASE e \in CopiedWith(k)
        <4>1. files'[Q[e]] = files[Q[e]]
          BY <1>2, <1>3, <1>6, <2>2, <3>2
        <4>2. files'[P[e]] = files[P[e]]
          BY <1>6, <2>4, <3>2
        <4> QED
          BY <2>5, <3>2, <4>1, <4>2
      <3> QED
        BY <1>6, <2>5, <3>1, <3>2
    <2> QED
      BY <2>2, <2>5
  <1>7. CASE k \in {4, 5, 6}
    <2>1. \E d \in EmuKinds : Head(job) = Files!Unlink(Q[d])
      BY <1>1, <1>7, LeftStep
    <2> QED
      BY <1>4, <1>5, <1>7, <2>1
  <1>8. CASE k \in {1, 2, 3}
    <2>1. PICK d \in EmuKinds :
            /\ Head(job) = Files!Copy(P[d], Q[d])
            /\ CopiedWith(k - 1) = CopiedWith(k) \cup {d} /\ CopiedWith(k) \subseteq EmuKinds /\ d \notin CopiedWith(k)
      <3>1. CASE k = 3
        <4>1. Head(job) = Files!Copy(P["net"], Q["net"])
          BY <3>1, LeftStep
        <4>2. CopiedWith(k) = {} /\ CopiedWith(k - 1) = {"net"}
          BY <3>1, WhenCopied
        <4> QED
          BY <1>1, <4>1, <4>2
      <3>2. CASE k = 2
        <4>1. Head(job) = Files!Copy(P["ps2"], Q["ps2"])
          BY <3>2, LeftStep
        <4>2. CopiedWith(k) = {"net"} /\ CopiedWith(k - 1) = {"net", "ps2"}
          BY <3>2, WhenCopied
        <4> QED
          BY <1>1, <4>1, <4>2
      <3>3. CASE k = 1
        <4>1. Head(job) = Files!Copy(P["gx"], Q["gx"])
          BY <3>3, LeftStep
        <4>2. CopiedWith(k) = {"net", "ps2"} /\ CopiedWith(k - 1) = EmuKinds
          BY <3>3, WhenCopied
        <4> QED
          BY <1>1, <4>1, <4>2 DEF EmuKinds
      <3> QED
        BY <1>8, <3>1, <3>2, <3>3
    <2> QED
      BY <1>4, <1>6, <2>1
  <1> QED
    BY <1>7, <1>8

(* What one of the files that is read at one place is, and when. *)
RegKinds == {"absent", "old", "short"}

RegQuiet ==
  faults <= 1 =>
    /\ files["reg.usb"] = "short" \/ files["reg"] = "old" \/ files["reg.bak"] = "old"
    /\ faults = 0 => files["reg"] = "old" /\ files["reg.usb"] # "short"

RegTyped ==
  files["reg"] \in RegKinds /\ files["reg.bak"] \in RegKinds /\ files["reg.usb"] \in RegKinds

Cobra(P) == \A e \in EmuKinds : files[P[e]] = "cobra"
FromUsb(P) == \A e \in EmuKinds : files[P[e]] = Taken(files[Files!Usb[e]])
UsbThere == files[Files!Usb["net"]] # "absent"
HddOk == files[Files!Hdd["net"]] # "absent" => FromUsb(Files!Hdd) /\ UsbThere
FlashOk == Cobra(Files!Flash) \/ (Cobra(Files!Backup) /\ FromUsb(Files!Flash) /\ UsbThere)
BackupOk == files[Files!Backup["net"]] # "absent" => Cobra(Files!Backup)
Taking(P, Q, k) == \A e \in CopiedWith(k) : files[Q[e]] = Taken(files[P[e]])

EmuTyped == faults = 0 => \A e \in EmuKinds : files[Files!Usb[e]] \in {"absent", "orig"}
EmuQuiet == faults = 0 => FlashOk /\ HddOk /\ BackupOk
SwapTold == faults = 0 => (swap = 1 <=> files[Files!Flash["net"]] = "cobra")

LoadTyped ==
  faults = 0 => files["kernel"] \in {"absent", "lv2"} /\ files["kernel.new"] \in {"absent", "lv2"}
LoadQuiet == faults = 0 /\ redirected /\ ~refused => files["kernel"] = "lv2"
NewThere == faults = 0 => files["kernel.new"] = "lv2"

(* The places of the operations. *)
Idle ==
  /\ job = <<>> /\ RegQuiet /\ EmuQuiet
  /\ then \in {"menu", "space", "installed"} => SwapTold
  /\ then \in {"source", "swap"} => (faults = 0 => Cobra(Files!Backup))
  /\ then = "space" => NewThere
  /\ then = "installed" => (faults = 0 => files["kernel"] = "lv2")
  /\ then # "space" => LoadQuiet

RestoreLeft(k) ==
  IF k = 4 THEN <<Files!Unlink("reg.bak"), Files!Ren("reg", "reg.bak"), Files!Unlink("reg"),
                Files!Copy("reg.usb", "reg")>>
  ELSE IF k = 3 THEN <<Files!Ren("reg", "reg.bak"), Files!Unlink("reg"), Files!Copy("reg.usb", "reg")>>
  ELSE IF k = 2 THEN <<Files!Unlink("reg"), Files!Copy("reg.usb", "reg")>>
  ELSE IF k = 1 THEN <<Files!Copy("reg.usb", "reg")>> ELSE <<>>

Restoring(k) ==
  /\ job = RestoreLeft(k) /\ then = "restored" /\ EmuQuiet /\ LoadQuiet
  /\ files["reg.usb"] # "absent"
  /\ faults = 0 => /\ files["reg.usb"] = "old"
                   /\ k >= 3 => files["reg"] = "old"
                   /\ k = 3 => files["reg.bak"] = "absent"
                   /\ k <= 2 => files["reg.bak"] = "old"

BackupLeft(k) ==
  IF k = 2 THEN <<Files!Unlink("reg.usb"), Files!Copy("reg", "reg.usb")>>
  ELSE IF k = 1 THEN <<Files!Copy("reg", "reg.usb")>> ELSE <<>>

BackingUp(k) ==
  /\ job = BackupLeft(k) /\ then = "done" /\ EmuQuiet /\ LoadQuiet
  /\ files["reg"] # "absent"
  /\ faults = 0 => files["reg"] = "old" /\ files["reg.usb"] # "short"

PuttingBack ==
  /\ job = <<Files!Ren("reg.bak", "reg")>> /\ then = "done" /\ EmuQuiet /\ LoadQuiet
  /\ RegQuiet /\ files["reg"] = "absent"

Clearing ==
  /\ job = <<Files!Unlink("kernel")>> /\ then = "space" /\ EmuQuiet /\ RegQuiet
  /\ SwapTold /\ NewThere

Installing ==
  /\ job = <<Files!Copy("kernel.new", "kernel")>> /\ then = "installed"
  /\ EmuQuiet /\ RegQuiet /\ SwapTold /\ NewThere

Storing(k) ==
  /\ job = Left(Files!Flash, Files!Backup, k) /\ then = "source" /\ RegQuiet /\ LoadQuiet
  /\ faults = 0 => Cobra(Files!Flash) /\ HddOk /\ Taking(Files!Flash, Files!Backup, k)

Fetching(k) ==
  /\ job = Left(Files!Usb, Files!Hdd, k) /\ then = "swap" /\ RegQuiet /\ LoadQuiet
  /\ faults = 0 => /\ UsbThere /\ Cobra(Files!Backup) /\ FlashOk
                   /\ Taking(Files!Usb, Files!Hdd, k)

Swapping(P, k) ==
  /\ job = Left(P, Files!Flash, k) /\ then = "done" /\ RegQuiet /\ LoadQuiet
  /\ faults = 0 => /\ UsbThere /\ Cobra(Files!Backup) /\ FromUsb(Files!Hdd)
                   /\ Taking(P, Files!Flash, k)

LEMMA CountedFaults == Files!TypeOK => faults \in Nat
  BY OtherOsAssumption DEF Files!TypeOK

(* Facts about files that a step leaves alone stay. *)
LEMMA RegStays ==
  ASSUME Files!TypeOK, faults' = faults \/ faults' = faults + 1,
         files'["reg"] = files["reg"], files'["reg.bak"] = files["reg.bak"],
         files'["reg.usb"] = files["reg.usb"]
  PROVE  (RegTyped => RegTyped') /\ (RegQuiet => RegQuiet')
  <1>1. faults \in Nat
    BY CountedFaults
  <1> QED
    BY <1>1 DEF RegTyped, RegQuiet

LEMMA EmuStays ==
  ASSUME Files!TypeOK, faults' = faults \/ faults' = faults + 1,
         \A P \in Places, e \in EmuKinds : files'[P[e]] = files[P[e]]
  PROVE  /\ EmuTyped => EmuTyped'
         /\ EmuQuiet => EmuQuiet'
         /\ swap' = swap /\ SwapTold => SwapTold'
         /\ \A P \in Places : Cobra(P) => Cobra(P)'
  <1>1. faults \in Nat
    BY CountedFaults
  <1>2. "net" \in EmuKinds
    BY DEF EmuKinds
  <1>3. /\ Files!Flash \in Places /\ Files!Hdd \in Places
        /\ Files!Backup \in Places /\ Files!Usb \in Places
    BY DEF Places
  <1>4. /\ \A e \in EmuKinds : /\ files'[Files!Flash[e]] = files[Files!Flash[e]]
                             /\ files'[Files!Hdd[e]] = files[Files!Hdd[e]]
                             /\ files'[Files!Backup[e]] = files[Files!Backup[e]]
                             /\ files'[Files!Usb[e]] = files[Files!Usb[e]]
    BY <1>3
  <1>5. ASSUME NEW P \in Places PROVE (Cobra(P) => Cobra(P)') /\ (FromUsb(P) => FromUsb(P)')
    BY <1>3 DEF Cobra, FromUsb
  <1>6. (FlashOk => FlashOk') /\ (HddOk => HddOk') /\ (BackupOk => BackupOk')
    BY <1>2, <1>3, <1>4, <1>5 DEF FlashOk, HddOk, BackupOk, UsbThere
  <1>7. EmuTyped => EmuTyped'
    BY <1>1, <1>4 DEF EmuTyped
  <1>8. EmuQuiet => EmuQuiet'
    BY <1>1, <1>6 DEF EmuQuiet
  <1>9. swap' = swap /\ SwapTold => SwapTold'
    BY <1>1, <1>2, <1>4 DEF SwapTold
  <1> QED
    BY <1>5, <1>7, <1>8, <1>9

LEMMA LoadStays ==
  ASSUME Files!TypeOK, faults' = faults \/ faults' = faults + 1,
         files'["kernel"] = files["kernel"], files'["kernel.new"] = files["kernel.new"]
  PROVE  /\ LoadTyped => LoadTyped'
         /\ UNCHANGED <<redirected, refused>> /\ LoadQuiet => LoadQuiet'
         /\ NewThere => NewThere'
  <1>1. faults \in Nat
    BY CountedFaults
  <1> QED
    BY <1>1 DEF LoadTyped, LoadQuiet, NewThere

(* A call that touches the registry's names alone. *)
LEMMA OnlyRegistry ==
  ASSUME Files!TypeOK, faults' = faults \/ (faults < MaxFaults /\ faults' = faults + 1), NextCall,
         \A n \in Files!Names : n \notin {"reg", "reg.bak", "reg.usb"} => files'[n] = files[n]
  PROVE  /\ EmuTyped => EmuTyped'
         /\ EmuQuiet => EmuQuiet'
         /\ LoadTyped => LoadTyped'
         /\ LoadQuiet => LoadQuiet'
  <1>1. \A P \in Places, e \in EmuKinds : files'[P[e]] = files[P[e]]
    BY PlaceNames DEF OtherNames
  <1>2. files'["kernel"] = files["kernel"] /\ files'["kernel.new"] = files["kernel.new"]
    BY PlaceNames DEF OtherNames
  <1>3. UNCHANGED <<redirected, refused, swap>>
    BY DEF NextCall
  <1>4. (EmuTyped => EmuTyped') /\ (EmuQuiet => EmuQuiet')
    BY <1>1, EmuStays
  <1>5. (LoadTyped => LoadTyped') /\ (LoadQuiet => LoadQuiet')
    BY <1>2, <1>3, LoadStays
  <1> QED
    BY <1>4, <1>5

(* A call of the restoring of the registry. *)
LEMMA RestoreCall ==
  ASSUME Files!TypeOK, RegTyped, EmuTyped, LoadTyped,
         NEW ok \in BOOLEAN, Files!Call(ok), NEW k \in 1 .. 4, Restoring(k)
  PROVE  /\ NextCall /\ files' \in [Files!Names -> Contents]
         /\ faults' = faults \/ (faults < MaxFaults /\ faults' = faults + 1)
         /\ RegTyped' /\ EmuTyped' /\ LoadTyped'
         /\ Idle' \/ \E j \in 1 .. 4 : Restoring(j)'
  <1> DEFINE F == faults' = faults \/ (faults < MaxFaults /\ faults' = faults + 1)
  <1> DEFINE r == files["reg"]
             b == files["reg.bak"]
             u == files["reg.usb"]
             r2 == files'["reg"]
             b2 == files'["reg.bak"]
             u2 == files'["reg.usb"]
  <1>1. {"reg", "reg.bak", "reg.usb"} \subseteq Files!Names
    BY PlaceNames DEF OtherNames
  <1>2. faults \in Nat
    BY CountedFaults
  <1>3. /\ NextCall /\ files' \in [Files!Names -> Contents] /\ F
        /\ \A n \in Files!Names : n \notin {"reg", "reg.bak", "reg.usb"} => files'[n] = files[n]
        /\ r2 \in RegKinds /\ b2 \in RegKinds /\ u2 = u
        /\ k = 4 => /\ r2 = r /\ job' = RestoreLeft(3)
                    /\ faults' = 0 => b2 = "absent"
        /\ k = 3 => /\ job' = RestoreLeft(2)
                    /\ faults' = 0 => b2 = "old"
        /\ k = 2 => b2 = b /\ job' = RestoreLeft(1)
        /\ k = 1 => /\ b2 = b /\ job' = <<>>
                    /\ faults' = faults => r2 = u
    <2>1. CASE k = 4
      <3>1. /\ Head(job) = Files!Unlink("reg.bak")
            /\ Tail(job) = RestoreLeft(3)
        BY <2>1 DEF Restoring, RestoreLeft
      <3>2. /\ NextCall /\ files' \in [Files!Names -> Contents]
            /\ \A n \in Files!Names : n # "reg.bak" => files'[n] = files[n]
            /\ \/ faults' = faults /\ b2 = "absent"
               \/ faults < MaxFaults /\ faults' = faults + 1 /\ b2 = b
        BY <1>1, <3>1, UnlinkCall
      <3> QED
        BY <1>1, <1>2, <2>1, <3>1, <3>2 DEF NextCall, RegTyped, RegKinds
    <2>2. CASE k = 3
      <3>1. /\ Head(job) = Files!Ren("reg", "reg.bak")
            /\ Tail(job) = RestoreLeft(2)
        BY <2>2 DEF Restoring, RestoreLeft
      <3>2. /\ NextCall /\ files' \in [Files!Names -> Contents]
            /\ \A n \in Files!Names : n # "reg" /\ n # "reg.bak" => files'[n] = files[n]
            /\ \/ /\ faults' = faults /\ r # "absent"
                  /\ b2 = r /\ r2 = "absent"
               \/ /\ faults' = faults /\ files' = files
                  /\ r = "absent" \/ b # "absent"
               \/ faults < MaxFaults /\ faults' = faults + 1 /\ files' = files
        BY <1>1, <3>1, RenameCall
      <3>3. faults = 0 => r = "old" /\ b = "absent"
        BY <2>2 DEF Restoring
      <3> QED
        BY <1>1, <1>2, <2>2, <3>1, <3>2, <3>3 DEF NextCall, RegTyped, RegKinds
    <2>3. CASE k = 2
      <3>1. /\ Head(job) = Files!Unlink("reg")
            /\ Tail(job) = RestoreLeft(1)
        BY <2>3 DEF Restoring, RestoreLeft
      <3>2. /\ NextCall /\ files' \in [Files!Names -> Contents]
            /\ \A n \in Files!Names : n # "reg" => files'[n] = files[n]
            /\ \/ faults' = faults /\ r2 = "absent"
               \/ faults < MaxFaults /\ faults' = faults + 1 /\ r2 = r
        BY <1>1, <3>1, UnlinkCall
      <3> QED
        BY <1>1, <1>2, <2>3, <3>1, <3>2 DEF NextCall, RegTyped, RegKinds
    <2>4. CASE k = 1
      <3>1. /\ Head(job) = Files!Copy("reg.usb", "reg")
            /\ Tail(job) = <<>>
        BY <2>4 DEF Restoring, RestoreLeft
      <3>2. /\ NextCall /\ files' \in [Files!Names -> Contents]
            /\ \A n \in Files!Names : n # "reg" => files'[n] = files[n]
            /\ \/ faults' = faults /\ r2 = Taken(u)
               \/ faults < MaxFaults /\ faults' = faults + 1 /\ r2 \in {"absent", "short"}
        BY <1>1, <3>1, CopyCall
      <3>3. Taken(u) = u
        BY DEF Restoring, Taken
      <3> QED
        BY <1>1, <1>2, <2>4, <3>1, <3>2, <3>3 DEF NextCall, RegTyped, RegKinds
    <2> QED
      BY <2>1, <2>2, <2>3, <2>4
  <1>4. EmuTyped' /\ EmuQuiet' /\ LoadTyped' /\ LoadQuiet'
    BY <1>3, OnlyRegistry DEF Restoring
  <1>5. RegTyped' /\ then' = "restored"
    BY <1>3 DEF RegTyped, Restoring, NextCall
  <1>6. ASSUME k > 1 PROVE Restoring(k - 1)'
    <2>1. job' = RestoreLeft(k - 1)
      BY <1>3, <1>6
    <2>2. u2 # "absent"
      BY <1>3 DEF Restoring
    <2>3. ASSUME faults' = 0
          PROVE  /\ u2 = "old"
                 /\ k - 1 >= 3 => r2 = "old"
                 /\ k - 1 = 3 => b2 = "absent"
                 /\ k - 1 <= 2 => b2 = "old"
      BY <1>2, <1>3, <1>6, <2>3 DEF Restoring
    <2> QED
      BY <1>4, <1>5, <2>1, <2>2, <2>3 DEF Restoring
  <1>7. ASSUME k = 1 PROVE Idle'
    <2>1. RegQuiet'
      <3>1. ASSUME faults' <= 1
            PROVE  /\ u2 = "short" \/ r2 = "old" \/ b2 = "old"
                   /\ faults' = 0 => r2 = "old" /\ u2 # "short"
        <4>1. CASE faults = 0
          BY <1>3, <1>7, <4>1 DEF Restoring
        <4>2. CASE faults # 0
          <5>1. faults' = faults
            BY <1>2, <1>3, <3>1, <4>2
          <5>2. u \in {"old", "short"}
            BY DEF RegTyped, RegKinds, Restoring
          <5> QED
            BY <1>3, <1>7, <4>2, <5>1, <5>2
        <4> QED
          BY <4>1, <4>2
      <3> QED
        BY <3>1 DEF RegQuiet
    <2> QED
      BY <1>3, <1>4, <1>5, <1>7, <2>1 DEF Idle
  <1> QED
    BY <1>3, <1>4, <1>5, <1>6, <1>7

(* A call of the backup of the registry. *)
LEMMA BackupCall ==
  ASSUME Files!TypeOK, RegTyped, EmuTyped, LoadTyped,
         NEW ok \in BOOLEAN, Files!Call(ok), NEW k \in 1 .. 2, BackingUp(k)
  PROVE  /\ NextCall /\ files' \in [Files!Names -> Contents]
         /\ faults' = faults \/ (faults < MaxFaults /\ faults' = faults + 1)
         /\ RegTyped' /\ EmuTyped' /\ LoadTyped'
         /\ Idle' \/ \E j \in 1 .. 2 : BackingUp(j)'
  <1> DEFINE F == faults' = faults \/ (faults < MaxFaults /\ faults' = faults + 1)
  <1> DEFINE r == files["reg"]
             u == files["reg.usb"]
             r2 == files'["reg"]
             b2 == files'["reg.bak"]
             u2 == files'["reg.usb"]
  <1>1. {"reg", "reg.bak", "reg.usb"} \subseteq Files!Names
    BY PlaceNames DEF OtherNames
  <1>2. faults \in Nat
    BY CountedFaults
  <1>3. /\ NextCall /\ files' \in [Files!Names -> Contents] /\ F
        /\ \A n \in Files!Names : n \notin {"reg", "reg.bak", "reg.usb"} => files'[n] = files[n]
        /\ r2 = r /\ b2 = files["reg.bak"] /\ u2 \in RegKinds
        /\ k = 2 => job' = BackupLeft(1) /\ (u2 = u \/ u2 = "absent")
        /\ k = 1 => job' = <<>> /\ (faults' = faults => u2 = r)
    <2>1. CASE k = 2
      <3>1. Head(job) = Files!Unlink("reg.usb") /\ Tail(job) = BackupLeft(1)
        BY <2>1 DEF BackingUp, BackupLeft
      <3>2. /\ NextCall /\ files' \in [Files!Names -> Contents]
            /\ \A n \in Files!Names : n # "reg.usb" => files'[n] = files[n]
            /\ \/ faults' = faults /\ u2 = "absent"
               \/ faults < MaxFaults /\ faults' = faults + 1 /\ u2 = u
        BY <1>1, <3>1, UnlinkCall
      <3> QED
        BY <1>1, <1>2, <2>1, <3>1, <3>2 DEF NextCall, RegTyped, RegKinds
    <2>2. CASE k = 1
      <3>1. Head(job) = Files!Copy("reg", "reg.usb") /\ Tail(job) = <<>>
        BY <2>2 DEF BackingUp, BackupLeft
      <3>2. /\ NextCall /\ files' \in [Files!Names -> Contents]
            /\ \A n \in Files!Names : n # "reg.usb" => files'[n] = files[n]
            /\ \/ faults' = faults /\ u2 = Taken(r)
               \/ faults < MaxFaults /\ faults' = faults + 1 /\ u2 \in {"absent", "short"}
        BY <1>1, <3>1, CopyCall
      <3>3. Taken(r) = r
        BY DEF BackingUp, Taken
      <3> QED
        BY <1>1, <1>2, <2>2, <3>1, <3>2, <3>3 DEF NextCall, RegTyped, RegKinds
    <2> QED
      BY <2>1, <2>2
  <1>4. EmuTyped' /\ EmuQuiet' /\ LoadTyped' /\ LoadQuiet'
    BY <1>3, OnlyRegistry DEF BackingUp
  <1>5. RegTyped' /\ then' = "done"
    BY <1>3 DEF RegTyped, BackingUp, NextCall
  <1>6. ASSUME k = 2 PROVE BackingUp(1)'
    <2>1. ASSUME faults' = 0 PROVE r2 = "old" /\ u2 # "short"
      BY <1>2, <1>3, <1>6, <2>1 DEF BackingUp
    <2> QED
      BY <1>3, <1>4, <1>5, <1>6, <2>1 DEF BackingUp
  <1>7. ASSUME k = 1 PROVE Idle'
    <2>1. RegQuiet'
      <3>1. ASSUME faults' <= 1
            PROVE  /\ u2 = "short" \/ r2 = "old" \/ b2 = "old"
                   /\ faults' = 0 => r2 = "old" /\ u2 # "short"
        <4>1. CASE faults = 0
          BY <1>3, <1>7, <4>1 DEF BackingUp
        <4>2. CASE faults # 0
          <5>1. faults' = faults
            BY <1>2, <1>3, <3>1, <4>2
          <5>2. r \in {"old", "short"}
            BY DEF RegTyped, RegKinds, BackingUp
          <5> QED
            BY <1>3, <1>7, <4>2, <5>1, <5>2
        <4> QED
          BY <4>1, <4>2
      <3> QED
        BY <3>1 DEF RegQuiet
    <2> QED
      BY <1>3, <1>4, <1>5, <1>7, <2>1 DEF Idle
  <1> QED
    BY <1>3, <1>4, <1>5, <1>6, <1>7

(* The old registry is put back. *)
LEMMA PutBackCall ==
  ASSUME Files!TypeOK, RegTyped, EmuTyped, LoadTyped,
         NEW ok \in BOOLEAN, Files!Call(ok), PuttingBack
  PROVE  /\ NextCall /\ files' \in [Files!Names -> Contents]
         /\ faults' = faults \/ (faults < MaxFaults /\ faults' = faults + 1)
         /\ RegTyped' /\ EmuTyped' /\ LoadTyped' /\ Idle'
  <1> DEFINE r == files["reg"]
             b == files["reg.bak"]
             u == files["reg.usb"]
             r2 == files'["reg"]
             b2 == files'["reg.bak"]
             u2 == files'["reg.usb"]
  <1>1. {"reg", "reg.bak", "reg.usb"} \subseteq Files!Names
    BY PlaceNames DEF OtherNames
  <1>2. faults \in Nat
    BY CountedFaults
  <1>3. Head(job) = Files!Ren("reg.bak", "reg") /\ Tail(job) = <<>>
    BY DEF PuttingBack
  <1>4. /\ NextCall /\ files' \in [Files!Names -> Contents]
        /\ \A n \in Files!Names : n # "reg.bak" /\ n # "reg" => files'[n] = files[n]
        /\ \/ /\ faults' = faults /\ b # "absent"
              /\ r2 = b /\ b2 = "absent"
           \/ /\ faults' = faults /\ files' = files
              /\ b = "absent" \/ r # "absent"
           \/ faults < MaxFaults /\ faults' = faults + 1 /\ files' = files
    BY <1>1, <1>3, RenameCall
  <1>5. EmuTyped' /\ EmuQuiet' /\ LoadTyped' /\ LoadQuiet'
    BY <1>4, OnlyRegistry DEF PuttingBack
  <1>6. RegTyped' /\ then' = "done" /\ job' = <<>>
    BY <1>1, <1>3, <1>4 DEF RegTyped, RegKinds, PuttingBack, NextCall
  <1>7. RegQuiet'
    <2>1. r = "absent"
      BY DEF PuttingBack
    <2>2. u2 = u
      BY <1>1, <1>4
    <2>3. faults # 0
      BY <2>1 DEF PuttingBack, RegQuiet
    <2>4. ASSUME faults' <= 1
          PROVE  u2 = "short" \/ r2 = "old" \/ b2 = "old"
      <3>1. faults' = faults
        BY <1>2, <1>4, <2>3, <2>4
      <3>2. u = "short" \/ b = "old"
        BY <2>1, <2>4, <3>1 DEF PuttingBack, RegQuiet
      <3>3. CASE r2 = b
        BY <2>2, <3>2, <3>3
      <3>4. CASE files' = files
        BY <2>2, <3>2, <3>4
      <3> QED
        BY <1>2, <1>4, <3>1, <3>3, <3>4
    <2>5. faults' # 0
      BY <1>2, <1>4, <2>3
    <2> QED
      BY <2>4, <2>5 DEF RegQuiet
  <1> QED
    BY <1>4, <1>5, <1>6, <1>7 DEF Idle

(* A call that touches the kernel alone. *)
LEMMA OnlyKernel ==
  ASSUME Files!TypeOK, faults' = faults \/ (faults < MaxFaults /\ faults' = faults + 1), NextCall,
         \A n \in Files!Names : n # "kernel" => files'[n] = files[n]
  PROVE  /\ RegTyped => RegTyped'
         /\ RegQuiet => RegQuiet'
         /\ EmuTyped => EmuTyped'
         /\ EmuQuiet => EmuQuiet'
         /\ SwapTold => SwapTold'
         /\ NewThere => NewThere'
  <1>1. \A P \in Places, e \in EmuKinds : files'[P[e]] = files[P[e]]
    BY PlaceNames DEF OtherNames
  <1>2. /\ files'["reg"] = files["reg"] /\ files'["reg.bak"] = files["reg.bak"]
        /\ files'["reg.usb"] = files["reg.usb"] /\ files'["kernel.new"] = files["kernel.new"]
    BY PlaceNames DEF OtherNames
  <1>3. swap' = swap
    BY DEF NextCall
  <1>4. (EmuTyped => EmuTyped') /\ (EmuQuiet => EmuQuiet') /\ (SwapTold => SwapTold')
    BY <1>1, <1>3, EmuStays
  <1>5. (RegTyped => RegTyped') /\ (RegQuiet => RegQuiet')
    BY <1>2, RegStays
  <1>6. NewThere => NewThere'
    BY <1>2, CountedFaults DEF NewThere
  <1> QED
    BY <1>4, <1>5, <1>6

(* The kernel is removed. *)
LEMMA ClearCall ==
  ASSUME Files!TypeOK, RegTyped, EmuTyped, LoadTyped,
         NEW ok \in BOOLEAN, Files!Call(ok), Clearing
  PROVE  /\ NextCall /\ files' \in [Files!Names -> Contents]
         /\ faults' = faults \/ (faults < MaxFaults /\ faults' = faults + 1)
         /\ RegTyped' /\ EmuTyped' /\ LoadTyped' /\ Idle'
  <1>1. "kernel" \in Files!Names /\ "kernel.new" \in Files!Names
    BY PlaceNames DEF OtherNames
  <1>2. faults \in Nat
    BY CountedFaults
  <1>3. Head(job) = Files!Unlink("kernel") /\ Tail(job) = <<>>
    BY DEF Clearing
  <1>4. /\ NextCall /\ files' \in [Files!Names -> Contents]
        /\ \A n \in Files!Names : n # "kernel" => files'[n] = files[n]
        /\ \/ faults' = faults /\ files'["kernel"] = "absent"
           \/ faults < MaxFaults /\ faults' = faults + 1 /\ files'["kernel"] = files["kernel"]
    BY <1>1, <1>3, UnlinkCall
  <1>5. RegTyped' /\ EmuTyped' /\ RegQuiet' /\ EmuQuiet' /\ SwapTold' /\ NewThere'
    BY <1>4, OnlyKernel DEF Clearing
  <1>6. LoadTyped'
    BY <1>1, <1>2, <1>4 DEF LoadTyped
  <1>7. then' = "space" /\ job' = <<>>
    BY <1>3, <1>4 DEF Clearing, NextCall
  <1> QED
    BY <1>4, <1>5, <1>6, <1>7 DEF Idle

(* The new kernel is copied to its place. *)
LEMMA InstallCall ==
  ASSUME Files!TypeOK, RegTyped, EmuTyped, LoadTyped,
         NEW ok \in BOOLEAN, Files!Call(ok), Installing
  PROVE  /\ NextCall /\ files' \in [Files!Names -> Contents]
         /\ faults' = faults \/ (faults < MaxFaults /\ faults' = faults + 1)
         /\ RegTyped' /\ EmuTyped' /\ LoadTyped' /\ Idle'
  <1>1. "kernel" \in Files!Names /\ "kernel.new" \in Files!Names
    BY PlaceNames DEF OtherNames
  <1>2. faults \in Nat
    BY CountedFaults
  <1>3. Head(job) = Files!Copy("kernel.new", "kernel") /\ Tail(job) = <<>>
    BY DEF Installing
  <1>4. /\ NextCall /\ files' \in [Files!Names -> Contents]
        /\ \A n \in Files!Names : n # "kernel" => files'[n] = files[n]
        /\ \/ faults' = faults /\ files'["kernel"] = Taken(files["kernel.new"])
           \/ /\ faults < MaxFaults /\ faults' = faults + 1
              /\ files'["kernel"] \in {"absent", "short"}
    BY <1>1, <1>3, CopyCall
  <1>5. RegTyped' /\ EmuTyped' /\ RegQuiet' /\ EmuQuiet' /\ SwapTold' /\ NewThere'
    BY <1>4, OnlyKernel DEF Installing
  <1>6. faults' = 0 => files'["kernel"] = "lv2" /\ files'["kernel.new"] = "lv2"
    BY <1>1, <1>2, <1>4 DEF Installing, NewThere, Taken
  <1>7. then' = "installed" /\ job' = <<>>
    BY <1>3, <1>4 DEF Installing, NextCall
  <1>8. LoadTyped' /\ LoadQuiet'
    BY <1>6 DEF LoadTyped, LoadQuiet
  <1> QED
    BY <1>4, <1>5, <1>6, <1>7, <1>8 DEF Idle

(* A call that touches the emulators of one place alone. *)
LEMMA OnlyPlace ==
  ASSUME Files!TypeOK, faults' = faults \/ (faults < MaxFaults /\ faults' = faults + 1), NextCall,
         NEW Q \in Places,
         \A n \in Files!Names : (\A e \in EmuKinds : n # Q[e]) => files'[n] = files[n]
  PROVE  /\ RegTyped => RegTyped'
         /\ RegQuiet => RegQuiet'
         /\ LoadTyped => LoadTyped'
         /\ LoadQuiet => LoadQuiet'
         /\ \A P \in Places, e \in EmuKinds : P # Q => files'[P[e]] = files[P[e]]
  <1>1. \A n \in OtherNames : files'[n] = files[n]
    BY PlaceNames
  <1>2. ASSUME NEW P \in Places, NEW e \in EmuKinds, P # Q PROVE files'[P[e]] = files[P[e]]
    <2>1. \A d \in EmuKinds : P[e] # Q[d]
      BY <1>2, PlacesApart
    <2> QED
      BY <2>1, PlaceNames
  <1>3. UNCHANGED <<redirected, refused, swap>>
    BY DEF NextCall
  <1>4. (RegTyped => RegTyped') /\ (RegQuiet => RegQuiet')
    BY <1>1, RegStays DEF OtherNames
  <1>5. (LoadTyped => LoadTyped') /\ (LoadQuiet => LoadQuiet')
    BY <1>1, <1>3, LoadStays DEF OtherNames
  <1> QED
    BY <1>2, <1>4, <1>5

LEMMA PlacesAre ==
  /\ Files!Flash \in Places /\ Files!Hdd \in Places
  /\ Files!Backup \in Places /\ Files!Usb \in Places
  BY DEF Places

(* A call of the storing of COBRA's emulators. *)
LEMMA StoreCall ==
  ASSUME Files!TypeOK, RegTyped, EmuTyped, LoadTyped,
         NEW ok \in BOOLEAN, Files!Call(ok), NEW k \in 1 .. 3, Storing(k)
  PROVE  /\ NextCall /\ files' \in [Files!Names -> Contents]
         /\ faults' = faults \/ (faults < MaxFaults /\ faults' = faults + 1)
         /\ RegTyped' /\ EmuTyped' /\ LoadTyped'
         /\ Idle' \/ \E j \in 1 .. 3 : Storing(j)'
  <1> DEFINE P == Files!Flash
             Q == Files!Backup
  <1>1. k \in 1 .. 6 /\ P \in Places /\ Q \in Places /\ P # Q /\ job = Left(P, Q, k)
    BY PlacesAre, FourPlaces DEF Storing
  <1>2. /\ NextCall /\ job' = Left(P, Q, k - 1)
        /\ files' \in [Files!Names -> Contents]
        /\ \A n \in Files!Names : (\A e \in EmuKinds : n # Q[e]) => files'[n] = files[n]
        /\ faults' = faults \/ (faults < MaxFaults /\ faults' = faults + 1)
        /\ faults' = faults /\ (\A e \in CopiedWith(k) : files[Q[e]] = Taken(files[P[e]]))
             => \A e \in CopiedWith(k - 1) : files'[Q[e]] = Taken(files'[P[e]])
    BY <1>1, LeftCall
  <1>3. faults \in Nat
    BY CountedFaults
  <1>4. /\ RegTyped' /\ RegQuiet' /\ LoadTyped' /\ LoadQuiet'
        /\ \A R \in Places, e \in EmuKinds : R # Q => files'[R[e]] = files[R[e]]
    BY <1>1, <1>2, OnlyPlace DEF Storing
  <1>5. \A e \in EmuKinds : /\ files'[Files!Flash[e]] = files[Files!Flash[e]]
                          /\ files'[Files!Hdd[e]] = files[Files!Hdd[e]]
                          /\ files'[Files!Usb[e]] = files[Files!Usb[e]]
    BY <1>4, PlacesAre, FourPlaces
  <1>6. "net" \in EmuKinds
    BY DEF EmuKinds
  <1>7. EmuTyped'
    BY <1>2, <1>3, <1>5 DEF EmuTyped
  <1>8. ASSUME faults' = 0
        PROVE  Cobra(Files!Flash)' /\ HddOk' /\ Taking(P, Q, k - 1)'
    <2>1. faults = 0 /\ faults' = faults
      BY <1>2, <1>3, <1>8
    <2>2. Cobra(Files!Flash) /\ HddOk /\ Taking(P, Q, k)
      BY <2>1 DEF Storing
    <2>3. Cobra(Files!Flash)' /\ HddOk'
      BY <1>5, <1>6, <2>2 DEF Cobra, HddOk, FromUsb, UsbThere
    <2>4. Taking(P, Q, k - 1)'
      BY <1>2, <2>1, <2>2 DEF Taking
    <2> QED
      BY <2>3, <2>4
  <1>9. then' = "source"
    BY <1>2 DEF Storing, NextCall
  <1>10. ASSUME k > 1 PROVE Storing(k - 1)'
    BY <1>2, <1>4, <1>8, <1>9, <1>10 DEF Storing
  <1>11. ASSUME k = 1 PROVE Idle'
    <2>1. job' = <<>>
      BY <1>2, <1>11, LeftIs
    <2>2. ASSUME faults' = 0 PROVE Cobra(Files!Backup)'
      <3>1. Cobra(Files!Flash)' /\ Taking(P, Q, 0)'
        BY <1>8, <1>11, <2>2
      <3>2. \A e \in EmuKinds : files'[Q[e]] = Taken(files'[P[e]])
        BY <3>1, WhenCopied DEF Taking
      <3>3. \A e \in EmuKinds : files'[P[e]] = "cobra"
        BY <3>1 DEF Cobra
      <3> QED
        BY <3>2, <3>3 DEF Cobra, Taken
    <2>3. EmuQuiet'
      BY <1>8, <2>2 DEF EmuQuiet, FlashOk, BackupOk
    <2> QED
      BY <1>4, <1>9, <2>1, <2>2, <2>3 DEF Idle
  <1> QED
    BY <1>2, <1>4, <1>7, <1>10, <1>11

(* A call of the fetching of the emulators from the USB device. *)
LEMMA FetchCall ==
  ASSUME Files!TypeOK, RegTyped, EmuTyped, LoadTyped,
         NEW ok \in BOOLEAN, Files!Call(ok), NEW k \in 1 .. 6, Fetching(k)
  PROVE  /\ NextCall /\ files' \in [Files!Names -> Contents]
         /\ faults' = faults \/ (faults < MaxFaults /\ faults' = faults + 1)
         /\ RegTyped' /\ EmuTyped' /\ LoadTyped'
         /\ Idle' \/ \E j \in 1 .. 6 : Fetching(j)'
  <1> DEFINE P == Files!Usb
             Q == Files!Hdd
  <1>1. P \in Places /\ Q \in Places /\ P # Q /\ job = Left(P, Q, k)
    BY PlacesAre, FourPlaces DEF Fetching
  <1>2. /\ NextCall /\ job' = Left(P, Q, k - 1)
        /\ files' \in [Files!Names -> Contents]
        /\ \A n \in Files!Names : (\A e \in EmuKinds : n # Q[e]) => files'[n] = files[n]
        /\ faults' = faults \/ (faults < MaxFaults /\ faults' = faults + 1)
        /\ faults' = faults /\ (\A e \in CopiedWith(k) : files[Q[e]] = Taken(files[P[e]]))
             => \A e \in CopiedWith(k - 1) : files'[Q[e]] = Taken(files'[P[e]])
    BY <1>1, LeftCall
  <1>3. faults \in Nat
    BY CountedFaults
  <1>4. /\ RegTyped' /\ RegQuiet' /\ LoadTyped' /\ LoadQuiet'
        /\ \A R \in Places, e \in EmuKinds : R # Q => files'[R[e]] = files[R[e]]
    BY <1>1, <1>2, OnlyPlace DEF Fetching
  <1>5. \A e \in EmuKinds : /\ files'[Files!Flash[e]] = files[Files!Flash[e]]
                          /\ files'[Files!Backup[e]] = files[Files!Backup[e]]
                          /\ files'[Files!Usb[e]] = files[Files!Usb[e]]
    BY <1>4, PlacesAre, FourPlaces
  <1>6. "net" \in EmuKinds
    BY DEF EmuKinds
  <1>7. EmuTyped'
    BY <1>2, <1>3, <1>5 DEF EmuTyped
  <1>8. ASSUME faults' = 0
        PROVE  UsbThere' /\ Cobra(Files!Backup)' /\ FlashOk' /\ Taking(P, Q, k - 1)'
    <2>1. faults = 0 /\ faults' = faults
      BY <1>2, <1>3, <1>8
    <2>2. UsbThere /\ Cobra(Files!Backup) /\ FlashOk /\ Taking(P, Q, k)
      BY <2>1 DEF Fetching
    <2>3. UsbThere' /\ Cobra(Files!Backup)'
      BY <1>5, <1>6, <2>2 DEF Cobra, UsbThere
    <2>4. FlashOk'
      <3>1. (Cobra(Files!Flash) => Cobra(Files!Flash)')
            /\ (FromUsb(Files!Flash) => FromUsb(Files!Flash)')
        BY <1>5 DEF Cobra, FromUsb
      <3> QED
        BY <2>2, <2>3, <3>1 DEF FlashOk
    <2>5. Taking(P, Q, k - 1)'
      BY <1>2, <2>1, <2>2 DEF Taking
    <2> QED
      BY <2>3, <2>4, <2>5
  <1>9. then' = "swap"
    BY <1>2 DEF Fetching, NextCall
  <1>10. ASSUME k > 1 PROVE Fetching(k - 1)'
    BY <1>2, <1>4, <1>8, <1>9, <1>10 DEF Fetching
  <1>11. ASSUME k = 1 PROVE Idle'
    <2>1. job' = <<>>
      BY <1>2, <1>11, LeftIs
    <2>2. ASSUME faults' = 0 PROVE FromUsb(Files!Hdd)'
      <3>1. Taking(P, Q, 0)'
        BY <1>8, <1>11, <2>2
      <3> QED
        BY <3>1, WhenCopied DEF Taking, FromUsb
    <2>3. EmuQuiet'
      BY <1>8, <2>2 DEF EmuQuiet, HddOk, BackupOk
    <2> QED
      BY <1>4, <1>8, <1>9, <2>1, <2>3 DEF Idle
  <1> QED
    BY <1>2, <1>4, <1>7, <1>10, <1>11

(* A call of the replacing of the emulators in the flash. *)
LEMMA SwapCall ==
  ASSUME Files!TypeOK, RegTyped, EmuTyped, LoadTyped,
         NEW ok \in BOOLEAN, Files!Call(ok), NEW P \in {Files!Hdd, Files!Backup},
         NEW k \in 1 .. 6, Swapping(P, k)
  PROVE  /\ NextCall /\ files' \in [Files!Names -> Contents]
         /\ faults' = faults \/ (faults < MaxFaults /\ faults' = faults + 1)
         /\ RegTyped' /\ EmuTyped' /\ LoadTyped'
         /\ Idle' \/ \E j \in 1 .. 6 : Swapping(P, j)'
  <1> DEFINE Q == Files!Flash
  <1>1. P \in Places /\ Q \in Places /\ P # Q /\ job = Left(P, Q, k)
    BY PlacesAre, FourPlaces DEF Swapping
  <1>2. /\ NextCall /\ job' = Left(P, Q, k - 1)
        /\ files' \in [Files!Names -> Contents]
        /\ \A n \in Files!Names : (\A e \in EmuKinds : n # Q[e]) => files'[n] = files[n]
        /\ faults' = faults \/ (faults < MaxFaults /\ faults' = faults + 1)
        /\ faults' = faults /\ (\A e \in CopiedWith(k) : files[Q[e]] = Taken(files[P[e]]))
             => \A e \in CopiedWith(k - 1) : files'[Q[e]] = Taken(files'[P[e]])
    BY <1>1, LeftCall
  <1>3. faults \in Nat
    BY CountedFaults
  <1>4. /\ RegTyped' /\ RegQuiet' /\ LoadTyped' /\ LoadQuiet'
        /\ \A R \in Places, e \in EmuKinds : R # Q => files'[R[e]] = files[R[e]]
    BY <1>1, <1>2, OnlyPlace DEF Swapping
  <1>5. \A e \in EmuKinds : /\ files'[Files!Hdd[e]] = files[Files!Hdd[e]]
                          /\ files'[Files!Backup[e]] = files[Files!Backup[e]]
                          /\ files'[Files!Usb[e]] = files[Files!Usb[e]]
    BY <1>4, PlacesAre, FourPlaces
  <1>6. "net" \in EmuKinds
    BY DEF EmuKinds
  <1>7. EmuTyped'
    BY <1>2, <1>3, <1>5 DEF EmuTyped
  <1>8. ASSUME faults' = 0
        PROVE  UsbThere' /\ Cobra(Files!Backup)' /\ FromUsb(Files!Hdd)' /\ Taking(P, Q, k - 1)'
    <2>1. faults = 0 /\ faults' = faults
      BY <1>2, <1>3, <1>8
    <2>2. UsbThere /\ Cobra(Files!Backup) /\ FromUsb(Files!Hdd) /\ Taking(P, Q, k)
      BY <2>1 DEF Swapping
    <2>3. UsbThere' /\ Cobra(Files!Backup)' /\ FromUsb(Files!Hdd)'
      BY <1>5, <1>6, <2>2 DEF Cobra, UsbThere, FromUsb
    <2>4. Taking(P, Q, k - 1)'
      BY <1>2, <2>1, <2>2 DEF Taking
    <2> QED
      BY <2>3, <2>4
  <1>9. then' = "done"
    BY <1>2 DEF Swapping, NextCall
  <1>10. ASSUME k > 1 PROVE Swapping(P, k - 1)'
    BY <1>2, <1>4, <1>8, <1>9, <1>10 DEF Swapping
  <1>11. ASSUME k = 1 PROVE Idle'
    <2>1. job' = <<>>
      BY <1>2, <1>11, LeftIs
    <2>2. ASSUME faults' = 0 PROVE FlashOk'
      <3>1. Taking(P, Q, 0)'
        BY <1>8, <1>11, <2>2
      <3>2. \A e \in EmuKinds : files'[Q[e]] = Taken(files'[P[e]])
        BY <3>1, WhenCopied DEF Taking
      <3>3. CASE P = Files!Backup
        <4>1. Cobra(Files!Flash)'
          BY <1>8, <2>2, <3>2, <3>3 DEF Cobra, Taken
        <4> QED
          BY <4>1 DEF FlashOk
      <3>4. CASE P = Files!Hdd
        <4>1. FromUsb(Files!Flash)'
          BY <1>8, <2>2, <3>2, <3>4 DEF FromUsb, Taken
        <4> QED
          BY <1>8, <2>2, <4>1 DEF FlashOk
      <3> QED
        BY <3>3, <3>4
    <2>3. EmuQuiet'
      BY <1>8, <2>2 DEF EmuQuiet, HddOk, BackupOk
    <2> QED
      BY <1>4, <1>9, <2>1, <2>3 DEF Idle
  <1> QED
    BY <1>2, <1>4, <1>7, <1>10, <1>11

Stage ==
  \/ Idle \/ PuttingBack \/ Clearing \/ Installing
  \/ \E k \in 1 .. 4 : Restoring(k)
  \/ \E k \in 1 .. 2 : BackingUp(k)
  \/ \E k \in 1 .. 3 : Storing(k)
  \/ \E k \in 1 .. 6 : Fetching(k)
  \/ \E P \in {Files!Hdd, Files!Backup}, k \in 1 .. 6 : Swapping(P, k)

FilesTyped == Files!TypeOK /\ RegTyped /\ EmuTyped /\ LoadTyped

FilesInv == FilesTyped /\ Stage

(* Only an operation has calls left, and none of the menu's. *)
LEMMA BusyStage ==
  /\ \A k \in 1 .. 4 : Restoring(k) => job # <<>> /\ then # "menu"
  /\ \A k \in 1 .. 2 : BackingUp(k) => job # <<>> /\ then # "menu"
  /\ \A k \in 1 .. 3 : Storing(k) => job # <<>> /\ then # "menu"
  /\ \A k \in 1 .. 6 : Fetching(k) => job # <<>> /\ then # "menu"
  /\ \A P \in {Files!Hdd, Files!Backup}, k \in 1 .. 6 :
        Swapping(P, k) => job # <<>> /\ then # "menu"
  /\ PuttingBack \/ Clearing \/ Installing => job # <<>> /\ then # "menu"
  <1>1. ASSUME NEW k \in 1 .. 4, Restoring(k) PROVE job # <<>> /\ then # "menu"
    <2>1. then # "menu" /\ job = RestoreLeft(k)
      BY <1>1 DEF Restoring
    <2>2. RestoreLeft(k) # <<>>
      BY DEF RestoreLeft
    <2> QED
      BY <2>1, <2>2
  <1>2. ASSUME NEW k \in 1 .. 2, BackingUp(k) PROVE job # <<>> /\ then # "menu"
    <2>1. then # "menu" /\ job = BackupLeft(k)
      BY <1>2 DEF BackingUp
    <2>2. BackupLeft(k) # <<>>
      BY DEF BackupLeft
    <2> QED
      BY <2>1, <2>2
  <1>3. ASSUME NEW k \in 1 .. 3, Storing(k) PROVE job # <<>> /\ then # "menu"
    <2>1. k \in 1 .. 6
      OBVIOUS
    <2> QED
      BY <1>3, <2>1, LeftStep DEF Storing
  <1>4. ASSUME NEW k \in 1 .. 6, Fetching(k) PROVE job # <<>> /\ then # "menu"
    BY <1>4, LeftStep DEF Fetching
  <1>5. ASSUME NEW P \in {Files!Hdd, Files!Backup}, NEW k \in 1 .. 6, Swapping(P, k)
        PROVE  job # <<>> /\ then # "menu"
    BY <1>5, LeftStep DEF Swapping
  <1>6. ASSUME PuttingBack \/ Clearing \/ Installing PROVE job # <<>> /\ then # "menu"
    <2>1. CASE PuttingBack
      BY <2>1 DEF PuttingBack
    <2>2. CASE Clearing
      BY <2>2 DEF Clearing
    <2>3. CASE Installing
      BY <2>3 DEF Installing
    <2> QED
      BY <1>6, <2>1, <2>2, <2>3
  <1> QED
    BY <1>1, <1>2, <1>3, <1>4, <1>5, <1>6

LEMMA IdleStage == Stage /\ (job = <<>> \/ then = "menu") => Idle
  BY BusyStage DEF Stage

LEMMA CallKept ==
  ASSUME FilesInv, NEW ok \in BOOLEAN, Files!Call(ok)
  PROVE  FilesInv'
  <1>1. Files!TypeOK /\ RegTyped /\ EmuTyped /\ LoadTyped /\ Stage
    BY DEF FilesInv, FilesTyped
  <1>2. job # <<>>
    BY DEF Files!Call
  <1>3. /\ NextCall /\ files' \in [Files!Names -> Contents]
        /\ faults' = faults \/ (faults < MaxFaults /\ faults' = faults + 1)
        /\ RegTyped' /\ EmuTyped' /\ LoadTyped' /\ Stage'
    <2>1. CASE PuttingBack
      BY <1>1, <2>1, PutBackCall DEF Stage
    <2>2. CASE Clearing
      BY <1>1, <2>2, ClearCall DEF Stage
    <2>3. CASE Installing
      BY <1>1, <2>3, InstallCall DEF Stage
    <2>4. ASSUME NEW k \in 1 .. 4, Restoring(k)
          PROVE  /\ NextCall /\ files' \in [Files!Names -> Contents]
                 /\ faults' = faults \/ (faults < MaxFaults /\ faults' = faults + 1)
                 /\ RegTyped' /\ EmuTyped' /\ LoadTyped' /\ Stage'
      BY <1>1, <2>4, RestoreCall DEF Stage
    <2>5. ASSUME NEW k \in 1 .. 2, BackingUp(k)
          PROVE  /\ NextCall /\ files' \in [Files!Names -> Contents]
                 /\ faults' = faults \/ (faults < MaxFaults /\ faults' = faults + 1)
                 /\ RegTyped' /\ EmuTyped' /\ LoadTyped' /\ Stage'
      BY <1>1, <2>5, BackupCall DEF Stage
    <2>6. ASSUME NEW k \in 1 .. 3, Storing(k)
          PROVE  /\ NextCall /\ files' \in [Files!Names -> Contents]
                 /\ faults' = faults \/ (faults < MaxFaults /\ faults' = faults + 1)
                 /\ RegTyped' /\ EmuTyped' /\ LoadTyped' /\ Stage'
      BY <1>1, <2>6, StoreCall DEF Stage
    <2>7. ASSUME NEW k \in 1 .. 6, Fetching(k)
          PROVE  /\ NextCall /\ files' \in [Files!Names -> Contents]
                 /\ faults' = faults \/ (faults < MaxFaults /\ faults' = faults + 1)
                 /\ RegTyped' /\ EmuTyped' /\ LoadTyped' /\ Stage'
      BY <1>1, <2>7, FetchCall DEF Stage
    <2>8. ASSUME NEW P \in {Files!Hdd, Files!Backup}, NEW k \in 1 .. 6, Swapping(P, k)
          PROVE  /\ NextCall /\ files' \in [Files!Names -> Contents]
                 /\ faults' = faults \/ (faults < MaxFaults /\ faults' = faults + 1)
                 /\ RegTyped' /\ EmuTyped' /\ LoadTyped' /\ Stage'
      BY <1>1, <2>8, SwapCall DEF Stage
    <2>9. ~Idle
      BY <1>2 DEF Idle
    <2> QED
      BY <1>1, <2>1, <2>2, <2>3, <2>4, <2>5, <2>6, <2>7, <2>8, <2>9 DEF Stage
  <1>4. Files!TypeOK'
    <2>1. faults' \in 0 .. MaxFaults
      BY <1>1, <1>3, OtherOsAssumption DEF Files!TypeOK
    <2> QED
      BY <1>1, <1>3, <2>1 DEF Files!TypeOK, NextCall, Contents, Files!Absent
  <1> QED
    BY <1>3, <1>4 DEF FilesInv, FilesTyped

(* What is said of the files alone stays when they do. *)
LEMMA SameFiles ==
  ASSUME files' = files, faults' = faults
  PROVE  /\ RegTyped => RegTyped'
         /\ RegQuiet => RegQuiet'
         /\ EmuTyped => EmuTyped'
         /\ EmuQuiet => EmuQuiet'
         /\ LoadTyped => LoadTyped'
         /\ NewThere => NewThere'
         /\ Cobra(Files!Backup) => Cobra(Files!Backup)'
         /\ swap' = swap /\ SwapTold => SwapTold'
         /\ UNCHANGED <<redirected, refused>> /\ LoadQuiet => LoadQuiet'
  <1>1. (RegTyped => RegTyped') /\ (RegQuiet => RegQuiet')
    BY DEF RegTyped, RegQuiet
  <1>2. (EmuTyped => EmuTyped') /\ (Cobra(Files!Backup) => Cobra(Files!Backup)')
    BY DEF EmuTyped, Cobra
  <1>3. EmuQuiet => EmuQuiet'
    BY DEF EmuQuiet, FlashOk, HddOk, BackupOk, Cobra, FromUsb, UsbThere
  <1>4. (LoadTyped => LoadTyped') /\ (NewThere => NewThere')
    BY DEF LoadTyped, NewThere
  <1>5. swap' = swap /\ SwapTold => SwapTold'
    BY DEF SwapTold
  <1>6. UNCHANGED <<redirected, refused>> /\ LoadQuiet => LoadQuiet'
    BY DEF LoadQuiet
  <1> QED
    BY <1>1, <1>2, <1>3, <1>4, <1>5, <1>6

(* What check_settings() reads of the emulator. *)
LEMMA SwapReads ==
  ASSUME files' = files, faults' = faults, EmuQuiet, swap' \in Files!SwapRead(files)
  PROVE  SwapTold' /\ swap' \in {0, 1}
  <1>1. swap' \in {0, 1}
    BY DEF Files!SwapRead
  <1>2. ASSUME faults = 0 PROVE swap' = 1 <=> files[Files!Flash["net"]] = "cobra"
    <2>1. FlashOk
      BY <1>2 DEF EmuQuiet
    <2>2. files[Files!Flash["net"]] # "absent"
      BY <2>1 DEF FlashOk, Cobra, FromUsb, Taken, EmuKinds
    <2> QED
      BY <2>2 DEF Files!SwapRead, Files!Exists, Files!Absent
  <1> QED
    BY <1>1, <1>2 DEF SwapTold

(* An operation begins: nothing was under way. *)
LEMMA BeginStage ==
  ASSUME FilesInv, NEW calls, NEW next, Files!Begin(calls, next), files' = files, faults' = faults
  PROVE  /\ Idle /\ then = "menu" /\ faults \in Nat
         /\ job' = calls /\ then' = next
         /\ choices' \in 0 .. MaxChoices
         /\ RegTyped' /\ EmuTyped' /\ LoadTyped' /\ RegQuiet' /\ EmuQuiet'
         /\ swap' = swap => SwapTold'
         /\ UNCHANGED <<redirected, refused>> => LoadQuiet'
  <1>1. /\ then = "menu" /\ job' = calls /\ then' = next
        /\ choices < MaxChoices /\ choices' = choices + 1
    BY DEF Files!Begin
  <1>2. Idle /\ faults \in Nat
    BY <1>1, IdleStage, CountedFaults DEF FilesInv, FilesTyped
  <1>3. choices' \in 0 .. MaxChoices
    BY <1>1, OtherOsAssumption DEF FilesInv, FilesTyped, Files!TypeOK
  <1>4. RegTyped /\ EmuTyped /\ LoadTyped /\ RegQuiet /\ EmuQuiet /\ SwapTold /\ LoadQuiet
    BY <1>1, <1>2 DEF FilesInv, FilesTyped, Idle
  <1> QED
    BY <1>1, <1>2, <1>3, <1>4, SameFiles

LEMMA BackupRegistryKept == FilesInv /\ Files!BackupRegistry => FilesInv'
  <1> SUFFICES ASSUME FilesInv, Files!BackupRegistry PROVE FilesInv'
    OBVIOUS
  <1>1. /\ files["reg"] # "absent" /\ Files!Begin(Files!RegBackup, "done")
        /\ UNCHANGED <<files, swap, redirected, refused, phase, replaces, faults>>
    BY DEF Files!BackupRegistry, Files!Exists, Files!Absent
  <1>2. /\ Idle /\ then = "menu" /\ faults \in Nat
        /\ job' = Files!RegBackup /\ then' = "done" /\ choices' \in 0 .. MaxChoices
        /\ RegTyped' /\ EmuTyped' /\ LoadTyped' /\ EmuQuiet' /\ LoadQuiet'
    BY <1>1, BeginStage
  <1>3. Files!TypeOK'
    BY <1>1, <1>2 DEF FilesInv, FilesTyped, Files!TypeOK
  <1>4. Files!RegBackup = BackupLeft(2)
    BY DEF Files!RegBackup, BackupLeft
  <1>5. BackingUp(2)'
    BY <1>1, <1>2, <1>4 DEF BackingUp, Idle, RegQuiet
  <1>6. 2 \in 1 .. 2
    OBVIOUS
  <1> QED
    BY <1>2, <1>3, <1>5, <1>6 DEF FilesInv, FilesTyped, Stage

LEMMA RestoreRegistryKept == FilesInv /\ Files!RestoreRegistry => FilesInv'
  <1> SUFFICES ASSUME FilesInv, Files!RestoreRegistry PROVE FilesInv'
    OBVIOUS
  <1>1. /\ files["reg.usb"] # "absent" /\ Files!Begin(Files!RegRestore, "restored")
        /\ UNCHANGED <<files, swap, redirected, refused, phase, replaces, faults>>
    BY DEF Files!RestoreRegistry, Files!Exists, Files!Absent
  <1>2. /\ Idle /\ then = "menu" /\ faults \in Nat
        /\ job' = Files!RegRestore /\ then' = "restored" /\ choices' \in 0 .. MaxChoices
        /\ RegTyped' /\ EmuTyped' /\ LoadTyped' /\ EmuQuiet' /\ LoadQuiet'
    BY <1>1, BeginStage
  <1>3. Files!TypeOK'
    BY <1>1, <1>2 DEF FilesInv, FilesTyped, Files!TypeOK
  <1>4. Files!RegRestore = RestoreLeft(4)
    BY DEF Files!RegRestore, RestoreLeft
  <1>5. faults = 0 => files["reg"] = "old" /\ files["reg.usb"] = "old"
    BY <1>1, <1>2 DEF Idle, RegQuiet, FilesInv, FilesTyped, RegTyped, RegKinds
  <1>6. Restoring(4)'
    BY <1>1, <1>2, <1>4, <1>5 DEF Restoring
  <1>7. 4 \in 1 .. 4
    OBVIOUS
  <1> QED
    BY <1>2, <1>3, <1>6, <1>7 DEF FilesInv, FilesTyped, Stage

LEMMA LoadKernelKept ==
  ASSUME FilesInv, NEW k \in {"kernel", "kernel.new"}, Files!LoadKernel(k)
  PROVE  FilesInv'
  <1>1. /\ files[k] # "absent"
        /\ UNCHANGED <<files, swap, redirected, refused, phase, replaces, faults>>
    BY DEF Files!LoadKernel, Files!Exists, Files!Absent
  <1>2. CASE k = "kernel"
    <2>1. Files!Begin(<<>>, "installed")
      BY <1>2 DEF Files!LoadKernel
    <2>2. /\ Idle /\ faults \in Nat
          /\ job' = <<>> /\ then' = "installed" /\ choices' \in 0 .. MaxChoices
          /\ RegTyped' /\ EmuTyped' /\ LoadTyped' /\ RegQuiet' /\ EmuQuiet'
          /\ SwapTold' /\ LoadQuiet'
      BY <1>1, <2>1, BeginStage
    <2>3. faults = 0 => files["kernel"] = "lv2"
      BY <1>1, <1>2 DEF FilesInv, FilesTyped, LoadTyped
    <2>4. Idle'
      BY <1>1, <2>2, <2>3 DEF Idle
    <2>5. Files!TypeOK'
      BY <1>1, <2>2 DEF FilesInv, FilesTyped, Files!TypeOK
    <2> QED
      BY <2>2, <2>4, <2>5 DEF FilesInv, FilesTyped, Stage
  <1>3. CASE k = "kernel.new"
    <2>1. Files!Begin(<<Files!Unlink("kernel")>>, "space")
      BY <1>3 DEF Files!LoadKernel
    <2>2. /\ Idle /\ faults \in Nat
          /\ job' = <<Files!Unlink("kernel")>> /\ then' = "space" /\ choices' \in 0 .. MaxChoices
          /\ RegTyped' /\ EmuTyped' /\ LoadTyped' /\ RegQuiet' /\ EmuQuiet' /\ SwapTold'
      BY <1>1, <2>1, BeginStage
    <2>3. faults = 0 => files["kernel.new"] = "lv2"
      BY <1>1, <1>3 DEF FilesInv, FilesTyped, LoadTyped
    <2>4. Clearing'
      BY <1>1, <2>2, <2>3 DEF Clearing, NewThere
    <2>5. Files!TypeOK'
      BY <1>1, <2>2 DEF FilesInv, FilesTyped, Files!TypeOK
    <2> QED
      BY <2>2, <2>4, <2>5 DEF FilesInv, FilesTyped, Stage
  <1> QED
    BY <1>2, <1>3

LEMMA SwapEmulatorsKept == FilesInv /\ Files!SwapEmulators => FilesInv'
  <1> SUFFICES ASSUME FilesInv, Files!SwapEmulators PROVE FilesInv'
    OBVIOUS
  <1> DEFINE stored == files[Files!Backup["net"]] # "absent"
  <1>1. /\ swap' = 1 - swap
        /\ UNCHANGED <<files, redirected, refused, phase, replaces, faults>>
    BY DEF Files!SwapEmulators
  <1>2. swap' \in {0, 1}
    BY <1>1 DEF FilesInv, FilesTyped, Files!TypeOK
  <1>3. CASE stored
    <2>1. Files!Begin(<<>>, "source")
      BY <1>3 DEF Files!SwapEmulators, Files!Exists, Files!Absent
    <2>2. /\ Idle /\ faults \in Nat
          /\ job' = <<>> /\ then' = "source" /\ choices' \in 0 .. MaxChoices
          /\ RegTyped' /\ EmuTyped' /\ LoadTyped' /\ RegQuiet' /\ EmuQuiet' /\ LoadQuiet'
      BY <1>1, <2>1, BeginStage
    <2>3. faults = 0 => Cobra(Files!Backup)
      BY <1>3, <2>2 DEF Idle, EmuQuiet, BackupOk
    <2>4. faults' = 0 => Cobra(Files!Backup)'
      BY <1>1, <2>3, SameFiles
    <2>5. Idle'
      BY <2>2, <2>4 DEF Idle
    <2>6. Files!TypeOK'
      BY <1>1, <1>2, <2>2 DEF FilesInv, FilesTyped, Files!TypeOK
    <2> QED
      BY <2>2, <2>5, <2>6 DEF FilesInv, FilesTyped, Stage
  <1>4. CASE ~stored
    <2>1. Files!Begin(Files!CopyAll(Files!Flash, Files!Backup), "source")
      BY <1>4 DEF Files!SwapEmulators, Files!Exists, Files!Absent
    <2>2. /\ Idle /\ faults \in Nat
          /\ job' = Files!CopyAll(Files!Flash, Files!Backup)
          /\ then' = "source" /\ choices' \in 0 .. MaxChoices
          /\ RegTyped' /\ EmuTyped' /\ LoadTyped' /\ RegQuiet' /\ EmuQuiet' /\ LoadQuiet'
      BY <1>1, <2>1, BeginStage
    <2>3. ASSUME faults' = 0
          PROVE  Cobra(Files!Flash)' /\ HddOk' /\ Taking(Files!Flash, Files!Backup, 3)'
      <3>1. FlashOk' /\ HddOk'
        BY <2>2, <2>3 DEF EmuQuiet
      <3>2. ~Cobra(Files!Backup)'
        BY <1>1, <1>4 DEF Cobra, EmuKinds
      <3>3. Taking(Files!Flash, Files!Backup, 3)'
        BY WhenCopied DEF Taking
      <3> QED
        BY <3>1, <3>2, <3>3 DEF FlashOk
    <2>4. job' = Left(Files!Flash, Files!Backup, 3)
      BY <2>2, LeftIs
    <2>5. Storing(3)'
      BY <2>2, <2>3, <2>4 DEF Storing
    <2>6. Files!TypeOK'
      BY <1>1, <1>2, <2>2 DEF FilesInv, FilesTyped, Files!TypeOK
    <2>7. 3 \in 1 .. 3
      OBVIOUS
    <2> QED
      BY <2>2, <2>5, <2>6, <2>7 DEF FilesInv, FilesTyped, Stage
  <1> QED
    BY <1>3, <1>4

(* An operation goes on from a place: its calls are made. *)
LEMMA GoOn ==
  ASSUME FilesInv, job = <<>>, UNCHANGED <<files, faults>>
  PROVE  /\ Idle /\ faults \in Nat
         /\ RegTyped' /\ EmuTyped' /\ LoadTyped' /\ RegQuiet' /\ EmuQuiet'
         /\ Cobra(Files!Backup) => Cobra(Files!Backup)'
         /\ NewThere => NewThere'
         /\ swap' = swap /\ SwapTold => SwapTold'
         /\ UNCHANGED <<redirected, refused>> /\ LoadQuiet => LoadQuiet'
  <1>1. Idle /\ faults \in Nat
    BY IdleStage, CountedFaults DEF FilesInv, FilesTyped
  <1>2. RegTyped /\ EmuTyped /\ LoadTyped /\ RegQuiet /\ EmuQuiet
    BY <1>1 DEF FilesInv, FilesTyped, Idle
  <1> QED
    BY <1>1, <1>2, SameFiles

LEMMA RestoredKept == FilesInv /\ Files!Restored => FilesInv'
  <1> SUFFICES ASSUME FilesInv, Files!Restored PROVE FilesInv'
    OBVIOUS
  <1>1. /\ job = <<>> /\ then = "restored" /\ then' = "done"
        /\ job' = IF files["reg"] # "absent" THEN <<>> ELSE Files!RegBack
        /\ UNCHANGED <<files, swap, redirected, refused, phase, replaces, choices, faults>>
    BY DEF Files!Restored, Files!At, Files!Goes, Files!Exists, Files!Absent
  <1>2. /\ Idle /\ RegTyped' /\ EmuTyped' /\ LoadTyped' /\ RegQuiet' /\ EmuQuiet'
    BY <1>1, GoOn
  <1>3. LoadQuiet'
    BY <1>1, <1>2, GoOn DEF Idle
  <1>4. Files!TypeOK'
    BY <1>1 DEF FilesInv, FilesTyped, Files!TypeOK
  <1>5. CASE files["reg"] # "absent"
    <2>1. Idle'
      BY <1>1, <1>2, <1>3, <1>5 DEF Idle
    <2> QED
      BY <1>2, <1>4, <2>1 DEF FilesInv, FilesTyped, Stage
  <1>6. CASE files["reg"] = "absent"
    <2>1. PuttingBack'
      BY <1>1, <1>2, <1>3, <1>6 DEF PuttingBack, Files!RegBack
    <2> QED
      BY <1>2, <1>4, <2>1 DEF FilesInv, FilesTyped, Stage
  <1> QED
    BY <1>5, <1>6

LEMMA SpaceKept ==
  ASSUME FilesInv, NEW fits \in BOOLEAN, Files!Space(fits)
  PROVE  FilesInv'
  <1>1. /\ job = <<>> /\ then = "space" /\ refused' = (refused \/ ~fits)
        /\ UNCHANGED <<files, swap, redirected, phase, replaces, choices, faults>>
    BY DEF Files!Space, Files!At
  <1>2. /\ Idle /\ RegTyped' /\ EmuTyped' /\ LoadTyped' /\ RegQuiet' /\ EmuQuiet'
        /\ SwapTold' /\ NewThere'
    <2>1. Idle
      BY <1>1, GoOn
    <2>2. SwapTold /\ NewThere
      BY <1>1, <2>1 DEF Idle
    <2> QED
      BY <1>1, <2>2, GoOn
  <1>3. refused' \in BOOLEAN
    BY <1>1 DEF FilesInv, FilesTyped, Files!TypeOK
  <1>4. CASE fits
    <2>1. job' = <<Files!Copy("kernel.new", "kernel")>> /\ then' = "installed"
      BY <1>4 DEF Files!Space, Files!Goes
    <2>2. Installing'
      BY <1>2, <2>1 DEF Installing
    <2>3. Files!TypeOK'
      BY <1>1, <1>3, <2>1 DEF FilesInv, FilesTyped, Files!TypeOK
    <2> QED
      BY <1>2, <2>2, <2>3 DEF FilesInv, FilesTyped, Stage
  <1>5. CASE ~fits
    <2>1. job' = <<>> /\ then' = "done"
      BY <1>5 DEF Files!Space, Files!Goes
    <2>2. LoadQuiet'
      BY <1>1, <1>5 DEF LoadQuiet
    <2>3. Idle'
      BY <1>2, <2>1, <2>2 DEF Idle
    <2>4. Files!TypeOK'
      BY <1>1, <1>3, <2>1 DEF FilesInv, FilesTyped, Files!TypeOK
    <2> QED
      BY <1>2, <2>3, <2>4 DEF FilesInv, FilesTyped, Stage
  <1> QED
    BY <1>4, <1>5

LEMMA InstallKept ==
  ASSUME FilesInv, NEW restarts \in BOOLEAN, Files!Install(restarts)
  PROVE  FilesInv'
  <1>1. /\ job = <<>> /\ job' = <<>> /\ then = "installed" /\ then' \in {"menu", "done"}
        /\ phase' \in {phase, "reset"}
        /\ redirected' \in {redirected, redirected \/ files["kernel"] # "absent"}
        /\ faults' = faults \/ (faults < MaxFaults /\ faults' = faults + 1)
        /\ UNCHANGED <<files, swap, refused, replaces, choices>>
    BY DEF Files!Install, Files!At, Files!Goes, Files!Exists, Files!Absent
  <1>2. Files!TypeOK /\ RegTyped /\ EmuTyped /\ LoadTyped /\ Idle
    BY <1>1, IdleStage DEF FilesInv, FilesTyped
  <1>3. /\ RegQuiet /\ EmuQuiet /\ SwapTold
        /\ faults = 0 => files["kernel"] = "lv2"
    BY <1>1, <1>2 DEF Idle
  <1>4. faults \in Nat
    BY <1>2, CountedFaults
  <1>5. RegTyped' /\ EmuTyped' /\ LoadTyped' /\ RegQuiet' /\ EmuQuiet' /\ SwapTold'
    <2>1. RegTyped' /\ RegQuiet'
      BY <1>1, <1>2, <1>3, RegStays
    <2>2. EmuTyped' /\ EmuQuiet' /\ SwapTold'
      BY <1>1, <1>2, <1>3, EmuStays
    <2>3. LoadTyped'
      BY <1>1, <1>2, LoadStays
    <2> QED
      BY <2>1, <2>2, <2>3
  <1>6. LoadQuiet'
    BY <1>1, <1>3, <1>4 DEF LoadQuiet
  <1>7. Idle'
    BY <1>1, <1>5, <1>6 DEF Idle
  <1>8. Files!TypeOK'
    <2>1. redirected' \in BOOLEAN
      BY <1>1, <1>2, Zenon DEF Files!TypeOK
    <2>2. faults' \in 0 .. MaxFaults
      BY <1>1, <1>2, OtherOsAssumption DEF Files!TypeOK
    <2> QED
      BY <1>1, <1>2, <2>1, <2>2 DEF Files!TypeOK
  <1> QED
    BY <1>5, <1>7, <1>8 DEF FilesInv, FilesTyped, Stage

LEMMA SourceKept ==
  ASSUME FilesInv, NEW agreed \in BOOLEAN, Files!Source(agreed)
  PROVE  FilesInv'
  <1>1. /\ job = <<>> /\ then = "source"
        /\ agreed => UsbThere
        /\ \/ job' = <<>> /\ then' = "done"
           \/ job' = <<>> /\ then' = "swap"
           \/ /\ job' = Files!UnlinkAll(Files!Hdd) \o Files!CopyAll(Files!Usb, Files!Hdd)
              /\ then' = "swap" /\ agreed
        /\ UNCHANGED <<files, swap, redirected, refused, phase, replaces, choices, faults>>
    BY DEF Files!Source, Files!At, Files!Goes, Files!Exists, Files!Absent, UsbThere
  <1>2. /\ Idle /\ RegTyped' /\ EmuTyped' /\ LoadTyped' /\ RegQuiet' /\ EmuQuiet'
    BY <1>1, GoOn
  <1>3. LoadQuiet' /\ (faults' = 0 => Cobra(Files!Backup)')
    BY <1>1, <1>2, GoOn DEF Idle
  <1>4. Files!TypeOK'
    BY <1>1 DEF FilesInv, FilesTyped, Files!TypeOK
  <1>5. CASE job' = <<>> /\ (then' = "done" \/ then' = "swap")
    <2>1. Idle'
      BY <1>2, <1>3, <1>5 DEF Idle
    <2> QED
      BY <1>2, <1>4, <2>1 DEF FilesInv, FilesTyped, Stage
  <1>6. CASE /\ job' = Files!UnlinkAll(Files!Hdd) \o Files!CopyAll(Files!Usb, Files!Hdd)
             /\ then' = "swap" /\ agreed
    <2>1. job' = Left(Files!Usb, Files!Hdd, 6)
      BY <1>6, LeftIs
    <2>2. UsbThere'
      BY <1>1, <1>6 DEF UsbThere
    <2>3. faults' = 0 => FlashOk'
      BY <1>2 DEF EmuQuiet
    <2>4. Taking(Files!Usb, Files!Hdd, 6)'
      BY WhenCopied DEF Taking
    <2>5. Fetching(6)'
      BY <1>2, <1>3, <1>6, <2>1, <2>2, <2>3, <2>4 DEF Fetching
    <2>6. 6 \in 1 .. 6
      OBVIOUS
    <2> QED
      BY <1>2, <1>4, <2>5, <2>6 DEF FilesInv, FilesTyped, Stage
  <1> QED
    BY <1>1, <1>5, <1>6

LEMMA SwapKept == FilesInv /\ Files!Swap => FilesInv'
  <1> SUFFICES ASSUME FilesInv, Files!Swap PROVE FilesInv'
    OBVIOUS
  <1> DEFINE Calls(P) == Files!UnlinkAll(Files!Flash) \o Files!CopyAll(P, Files!Flash)
             there == files[Files!Hdd["net"]] # "absent"
  <1>1. /\ job = <<>> /\ then = "swap" /\ then' = "done"
        /\ ~there => job' = <<>>
        /\ there => \E P \in {Files!Hdd, Files!Backup} : job' = Calls(P)
        /\ UNCHANGED <<files, swap, redirected, refused, phase, replaces, choices, faults>>
    BY DEF Files!Swap, Files!At, Files!Goes, Files!Exists, Files!Absent
  <1>2. /\ Idle /\ RegTyped' /\ EmuTyped' /\ LoadTyped' /\ RegQuiet' /\ EmuQuiet'
    BY <1>1, GoOn
  <1>3. LoadQuiet' /\ (faults' = 0 => Cobra(Files!Backup)')
    BY <1>1, <1>2, GoOn DEF Idle
  <1>4. Files!TypeOK'
    BY <1>1 DEF FilesInv, FilesTyped, Files!TypeOK
  <1>5. CASE ~there
    <2>1. Idle'
      BY <1>1, <1>2, <1>3, <1>5 DEF Idle
    <2> QED
      BY <1>2, <1>4, <2>1 DEF FilesInv, FilesTyped, Stage
  <1>6. CASE there
    <2>1. PICK P \in {Files!Hdd, Files!Backup} : job' = Calls(P)
      BY <1>1, <1>6
    <2>2. job' = Left(P, Files!Flash, 6)
      BY <2>1, LeftIs
    <2>3. faults' = 0 => UsbThere' /\ FromUsb(Files!Hdd)'
      BY <1>1, <1>2, <1>6 DEF EmuQuiet, HddOk
    <2>4. Taking(P, Files!Flash, 6)'
      BY WhenCopied DEF Taking
    <2>5. Swapping(P, 6)'
      BY <1>1, <1>2, <1>3, <2>2, <2>3, <2>4 DEF Swapping
    <2>6. 6 \in 1 .. 6
      OBVIOUS
    <2> QED
      BY <1>2, <1>4, <2>5, <2>6 DEF FilesInv, FilesTyped, Stage
  <1> QED
    BY <1>5, <1>6

LEMMA FinishKept == FilesInv /\ Files!Finish => FilesInv'
  <1> SUFFICES ASSUME FilesInv, Files!Finish PROVE FilesInv'
    OBVIOUS
  <1>1. /\ job = <<>> /\ job' = <<>> /\ then = "done" /\ then' = "menu"
        /\ swap' \in Files!SwapRead(files)
        /\ UNCHANGED <<files, redirected, refused, phase, replaces, choices, faults>>
    BY DEF Files!Finish, Files!At, Files!Goes
  <1>2. /\ Idle /\ RegTyped' /\ EmuTyped' /\ LoadTyped' /\ RegQuiet' /\ EmuQuiet'
    BY <1>1, GoOn
  <1>3. LoadQuiet'
    BY <1>1, <1>2, GoOn DEF Idle
  <1>4. SwapTold' /\ swap' \in {0, 1}
    BY <1>1, <1>2, SwapReads DEF Idle
  <1>5. Idle'
    BY <1>1, <1>2, <1>3, <1>4 DEF Idle
  <1>6. Files!TypeOK'
    BY <1>1, <1>4 DEF FilesInv, FilesTyped, Files!TypeOK
  <1> QED
    BY <1>2, <1>5, <1>6 DEF FilesInv, FilesTyped, Stage

(* Where the next call of a copy of the emulators goes. *)
LEMMA LeftTarget ==
  ASSUME NEW P, NEW Q \in Places, NEW k \in 1 .. 6, job = Left(P, Q, k)
  PROVE  Head(job).to \notin {"reg", "reg.bak", "reg.usb"}
  <1>1. \E d \in EmuKinds : Head(job).to = Q[d]
    <2>1. CASE k = 6
      BY <2>1, LeftStep DEF EmuKinds, Files!Unlink
    <2>2. CASE k = 5
      BY <2>2, LeftStep DEF EmuKinds, Files!Unlink
    <2>3. CASE k = 4
      BY <2>3, LeftStep DEF EmuKinds, Files!Unlink
    <2>4. CASE k = 3
      BY <2>4, LeftStep DEF EmuKinds, Files!Copy
    <2>5. CASE k = 2
      BY <2>5, LeftStep DEF EmuKinds, Files!Copy
    <2>6. CASE k = 1
      BY <2>6, LeftStep DEF EmuKinds, Files!Copy
    <2> QED
      BY <2>1, <2>2, <2>3, <2>4, <2>5, <2>6
  <1> QED
    BY <1>1, PlaceNames DEF OtherNames

(* The registry when a call is cut short. *)
LEMMA CutRegistry ==
  ASSUME FilesInv, Files!Cut
  PROVE  RegTyped' /\ RegQuiet'
  <1> DEFINE c == Head(job)
             r == files["reg"]
             b == files["reg.bak"]
             u == files["reg.usb"]
             r2 == files'["reg"]
             b2 == files'["reg.bak"]
             u2 == files'["reg.usb"]
  <1>1. /\ job # <<>> /\ faults' = faults + 1
        /\ \/ files' = files
           \/ c.kind = "copy" /\ files' = [files EXCEPT ![c.to] = "short"]
    BY DEF Files!Cut
  <1>2. faults \in Nat /\ files \in [Files!Names -> Contents]
    BY CountedFaults DEF FilesInv, FilesTyped, Files!TypeOK, Contents, Files!Absent
  <1>3. {"reg", "reg.bak", "reg.usb"} \subseteq Files!Names
    BY PlaceNames DEF OtherNames
  <1>4. RegTyped
    BY DEF FilesInv, FilesTyped
  <1>5. RegTyped'
    <2>1. \A n \in {"reg", "reg.bak", "reg.usb"} : files'[n] = files[n] \/ files'[n] = "short"
      BY <1>1, <1>2, <1>3
    <2> QED
      BY <1>4, <2>1 DEF RegTyped, RegKinds
  <1>6. ASSUME faults = 0 PROVE u2 = "short" \/ r2 = "old" \/ b2 = "old"
    <2>1. ASSUME r = "old", c.to # "reg" \/ c.kind # "copy" PROVE r2 = "old"
      BY <1>1, <1>2, <1>3, <2>1
    <2>2. ASSUME b = "old", c.to # "reg.bak" \/ c.kind # "copy" PROVE b2 = "old"
      BY <1>1, <1>2, <1>3, <2>2
    <2>3. RegQuiet => r = "old"
      BY <1>6 DEF RegQuiet
    <2>4. CASE PuttingBack
      BY <2>3, <2>4 DEF PuttingBack
    <2>5. CASE Clearing
      <3>1. c.to = "kernel"
        BY <2>5 DEF Clearing, Files!Unlink
      <3> QED
        BY <2>1, <2>3, <2>5, <3>1 DEF Clearing
    <2>6. CASE Installing
      <3>1. c.to = "kernel"
        BY <2>6 DEF Installing, Files!Copy
      <3> QED
        BY <2>1, <2>3, <2>6, <3>1 DEF Installing
    <2>7. ASSUME NEW k \in 1 .. 4, Restoring(k) PROVE r2 = "old" \/ b2 = "old"
      <3>1. job = RestoreLeft(k)
        BY <2>7 DEF Restoring
      <3>2. CASE k \in {3, 4}
        <4>1. c.kind # "copy"
          BY <3>1, <3>2 DEF RestoreLeft, Files!Unlink, Files!Ren
        <4> QED
          BY <1>6, <2>1, <2>7, <3>2, <4>1 DEF Restoring
      <3>3. CASE k \in {1, 2}
        <4>1. c.to = "reg"
          BY <3>1, <3>3 DEF RestoreLeft, Files!Unlink, Files!Copy
        <4> QED
          BY <1>6, <2>2, <2>7, <3>3, <4>1 DEF Restoring
      <3> QED
        BY <3>2, <3>3
    <2>8. ASSUME NEW k \in 1 .. 2, BackingUp(k) PROVE r2 = "old"
      <3>1. c.to = "reg.usb"
        BY <2>8 DEF BackingUp, BackupLeft, Files!Unlink, Files!Copy
      <3> QED
        BY <1>6, <2>1, <2>8, <3>1 DEF BackingUp
    <2>9. ASSUME NEW k \in 1 .. 3, Storing(k) PROVE r2 = "old"
      <3>1. k \in 1 .. 6 /\ job = Left(Files!Flash, Files!Backup, k) /\ RegQuiet
        BY <2>9 DEF Storing
      <3>2. c.to # "reg"
        BY <3>1, LeftTarget, PlacesAre
      <3> QED
        BY <2>1, <2>3, <3>1, <3>2
    <2>10. ASSUME NEW k \in 1 .. 6, Fetching(k) PROVE r2 = "old"
      <3>1. job = Left(Files!Usb, Files!Hdd, k) /\ RegQuiet
        BY <2>10 DEF Fetching
      <3>2. c.to # "reg"
        BY <3>1, LeftTarget, PlacesAre
      <3> QED
        BY <2>1, <2>3, <3>1, <3>2
    <2>11. ASSUME NEW P \in {Files!Hdd, Files!Backup}, NEW k \in 1 .. 6, Swapping(P, k)
           PROVE  r2 = "old"
      <3>1. job = Left(P, Files!Flash, k) /\ RegQuiet
        BY <2>11 DEF Swapping
      <3>2. c.to # "reg"
        BY <3>1, LeftTarget, PlacesAre
      <3> QED
        BY <2>1, <2>3, <3>1, <3>2
    <2>12. ~Idle
      BY <1>1 DEF Idle
    <2>13. Stage
      BY DEF FilesInv
    <2> QED
      BY <2>4, <2>5, <2>6, <2>7, <2>8, <2>9, <2>10, <2>11, <2>12, <2>13 DEF Stage
  <1>7. RegQuiet'
    BY <1>1, <1>2, <1>6 DEF RegQuiet
  <1> QED
    BY <1>5, <1>7

LEMMA CutKept == FilesInv /\ Files!Cut => FilesInv'
  <1> SUFFICES ASSUME FilesInv, Files!Cut PROVE FilesInv'
    OBVIOUS
  <1>1. /\ faults < MaxFaults /\ faults' = faults + 1
        /\ job' = <<>> /\ then' = "menu"
        /\ redirected' = FALSE /\ swap' \in Files!SwapRead(files')
        /\ UNCHANGED <<refused, phase, replaces, choices>>
        /\ files' = files \/ files' = [files EXCEPT ![Head(job).to] = "short"]
    BY DEF Files!Cut, Files!Goes
  <1>2. Files!TypeOK /\ faults \in Nat
    BY CountedFaults DEF FilesInv, FilesTyped
  <1>3. RegTyped' /\ RegQuiet'
    BY CutRegistry
  <1>4. faults' # 0
    BY <1>1, <1>2
  <1>5. EmuTyped' /\ LoadTyped' /\ EmuQuiet' /\ SwapTold' /\ LoadQuiet'
    BY <1>4 DEF EmuTyped, LoadTyped, EmuQuiet, SwapTold, LoadQuiet
  <1>6. Idle'
    BY <1>1, <1>3, <1>5 DEF Idle
  <1>7. Files!TypeOK'
    <2>1. swap' \in {0, 1}
      BY <1>1 DEF Files!SwapRead
    <2>2. faults' \in 0 .. MaxFaults
      BY <1>1, <1>2, OtherOsAssumption DEF Files!TypeOK
    <2>3. files' \in [Files!Names ->
                        {Files!Absent, "cobra", "orig", "old", "lv2", "empty", "short"}]
      BY <1>1, <1>2 DEF Files!TypeOK
    <2> QED
      BY <1>1, <1>2, <2>1, <2>2, <2>3 DEF Files!TypeOK
  <1> QED
    BY <1>3, <1>5, <1>6, <1>7 DEF FilesInv, FilesTyped, Stage

(* A step that leaves the files and the calls alone. *)
LEMMA StageStays ==
  ASSUME FilesInv, UNCHANGED <<files, job, then, redirected, refused, faults>>,
         swap' = swap \/ swap' \in Files!SwapRead(files)
  PROVE  RegTyped' /\ EmuTyped' /\ LoadTyped' /\ Stage'
  <1>1. EmuQuiet /\ SwapTold => SwapTold'
    BY SameFiles, SwapReads
  <1>2. /\ RegTyped' /\ EmuTyped' /\ LoadTyped'
        /\ RegQuiet => RegQuiet'
        /\ EmuQuiet => EmuQuiet'
        /\ NewThere => NewThere'
        /\ LoadQuiet => LoadQuiet'
        /\ Cobra(Files!Backup) => Cobra(Files!Backup)'
    BY SameFiles DEF FilesInv, FilesTyped
  <1>3. Stage'
    <2>1. CASE Idle
      <3>1. Idle'
        BY <1>1, <1>2, <2>1 DEF Idle
      <3> QED
        BY <3>1 DEF Stage
    <2>2. CASE PuttingBack
      <3>1. PuttingBack'
        BY <1>1, <1>2, <2>2 DEF PuttingBack
      <3> QED
        BY <3>1 DEF Stage
    <2>3. CASE Clearing
      <3>1. Clearing'
        BY <1>1, <1>2, <2>3 DEF Clearing
      <3> QED
        BY <3>1 DEF Stage
    <2>4. CASE Installing
      <3>1. Installing'
        BY <1>1, <1>2, <2>4 DEF Installing
      <3> QED
        BY <3>1 DEF Stage
    <2>5. ASSUME NEW k \in 1 .. 4, Restoring(k) PROVE Stage'
      <3>1. Restoring(k)'
        BY <1>1, <1>2, <2>5 DEF Restoring
      <3> QED
        BY <3>1 DEF Stage
    <2>6. ASSUME NEW k \in 1 .. 2, BackingUp(k) PROVE Stage'
      <3>1. BackingUp(k)'
        BY <1>1, <1>2, <2>6 DEF BackingUp
      <3> QED
        BY <3>1 DEF Stage
    <2>7. ASSUME NEW k \in 1 .. 3, Storing(k) PROVE Stage'
      <3>1. Storing(k)'
        BY <1>1, <1>2, <2>7 DEF Storing, Cobra, HddOk, FromUsb, UsbThere, Taking
      <3> QED
        BY <3>1 DEF Stage
    <2>8. ASSUME NEW k \in 1 .. 6, Fetching(k) PROVE Stage'
      <3>1. Fetching(k)'
        BY <1>1, <1>2, <2>8 DEF Fetching, FlashOk, Cobra, FromUsb, UsbThere, Taking
      <3> QED
        BY <3>1 DEF Stage
    <2>9. ASSUME NEW P \in {Files!Hdd, Files!Backup}, NEW k \in 1 .. 6, Swapping(P, k)
          PROVE  Stage'
      <3>1. Swapping(P, k)'
        BY <1>1, <1>2, <2>9 DEF Swapping, Cobra, FromUsb, UsbThere, Taking
      <3> QED
        BY <3>1 DEF Stage
    <2> QED
      BY <2>1, <2>2, <2>3, <2>4, <2>5, <2>6, <2>7, <2>8, <2>9 DEF FilesInv, Stage
  <1> QED
    BY <1>2, <1>3

LEMMA RestartKept == FilesInv /\ Files!Restart => FilesInv'
  <1> SUFFICES ASSUME FilesInv, Files!Restart PROVE FilesInv'
    OBVIOUS
  <1>1. /\ phase' = "run" /\ swap' \in Files!SwapRead(files)
        /\ UNCHANGED <<files, job, then, redirected, refused, replaces, choices, faults>>
    BY DEF Files!Restart
  <1>2. RegTyped' /\ EmuTyped' /\ LoadTyped' /\ Stage'
    BY <1>1, StageStays
  <1>3. Files!TypeOK'
    <2>1. swap' \in {0, 1}
      BY <1>1 DEF Files!SwapRead
    <2> QED
      BY <1>1, <2>1 DEF FilesInv, FilesTyped, Files!TypeOK
  <1> QED
    BY <1>2, <1>3 DEF FilesInv, FilesTyped

LEMMA RebootKept ==
  ASSUME FilesInv, NEW soft \in BOOLEAN, Files!Reboot(soft)
  PROVE  FilesInv'
  <1>1. /\ then = "menu" /\ redirected' = (redirected /\ soft)
        /\ phase' \in {"reset", "run"} /\ swap' \in Files!SwapRead(files)
        /\ UNCHANGED <<files, job, then, refused, replaces, choices, faults>>
    BY DEF Files!Reboot
  <1>2. Idle
    BY <1>1, IdleStage DEF FilesInv
  <1>3. /\ RegTyped' /\ EmuTyped' /\ LoadTyped' /\ RegQuiet' /\ EmuQuiet' /\ SwapTold'
    BY <1>1, <1>2, SameFiles, SwapReads DEF FilesInv, FilesTyped, Idle
  <1>4. LoadQuiet'
    BY <1>1, <1>2 DEF Idle, LoadQuiet
  <1>5. Idle'
    BY <1>1, <1>2, <1>3, <1>4 DEF Idle
  <1>6. Files!TypeOK'
    <2>1. swap' \in {0, 1}
      BY <1>1 DEF Files!SwapRead
    <2> QED
      BY <1>1, <2>1 DEF FilesInv, FilesTyped, Files!TypeOK
  <1> QED
    BY <1>3, <1>5, <1>6 DEF FilesInv, FilesTyped, Stage

LEMMA FilesStutter == FilesInv /\ UNCHANGED Files!vars => FilesInv'
  <1> SUFFICES ASSUME FilesInv, UNCHANGED Files!vars PROVE FilesInv'
    OBVIOUS
  <1>1. UNCHANGED <<files, job, then, swap, redirected, refused, phase, replaces, choices, faults>>
    BY DEF Files!vars
  <1>2. RegTyped' /\ EmuTyped' /\ LoadTyped' /\ Stage'
    BY <1>1, StageStays
  <1>3. Files!TypeOK'
    BY <1>1 DEF FilesInv, FilesTyped, Files!TypeOK
  <1> QED
    BY <1>2, <1>3 DEF FilesInv, FilesTyped

LEMMA FilesStarts == Files!Init => FilesInv
  <1> SUFFICES ASSUME Files!Init PROVE FilesInv
    OBVIOUS
  <1>1. PICK onUsb \in SUBSET Files!Emulators, kernel \in {Files!Absent, "lv2"} :
          files = [ n \in Files!Names |->
                   CASE n \in { Files!Flash[e] : e \in Files!Emulators } -> "cobra"
                     [] n \in { Files!Usb[e] : e \in onUsb } -> "orig"
                     [] n = "reg" -> "old"
                     [] n = "kernel.new" -> kernel
                     [] OTHER -> Files!Absent ]
    BY DEF Files!Init
  <1>2. /\ job = <<>> /\ then = "menu" /\ swap = 1 /\ redirected = FALSE /\ refused = FALSE
        /\ phase = "run" /\ replaces \in BOOLEAN /\ choices = 0 /\ faults = 0
    BY DEF Files!Init
  <1>3. \A P \in Places, e \in EmuKinds : P[e] \in Files!Names /\ P[e] \notin OtherNames
    BY PlaceNames
  <1>10. PICK A, B : /\ A = { Files!Flash[e] : e \in Files!Emulators }
                     /\ B = { Files!Usb[e] : e \in onUsb }
                     /\ files = [ n \in Files!Names |->
                          CASE n \in A -> "cobra" [] n \in B -> "orig" [] n = "reg" -> "old"
                            [] n = "kernel.new" -> kernel [] OTHER -> Files!Absent ]
    BY <1>1
  <1>11. ASSUME NEW n \in Files!Names
         PROVE  files[n] = IF n \in A THEN "cobra" ELSE IF n \in B THEN "orig"
                           ELSE IF n = "reg" THEN "old" ELSE IF n = "kernel.new" THEN kernel
                           ELSE "absent"
    <2>1. files[n] = CASE n \in A -> "cobra" [] n \in B -> "orig" [] n = "reg" -> "old"
                       [] n = "kernel.new" -> kernel [] OTHER -> "absent"
      BY <1>10, Zenon DEF Files!Absent
    <2>2. ~(n \in A /\ n \in B) /\ (n = "reg" \/ n = "kernel.new" => n \notin A /\ n \notin B)
      <3>1. n \in A => \E e \in EmuKinds : n = Files!Flash[e]
        BY <1>10, PlaceNames
      <3>2. n \in B => \E e \in EmuKinds : n = Files!Usb[e]
        BY <1>10, PlaceNames
      <3> QED
        BY <1>3, <3>1, <3>2, PlacesAre, PlacesApart, FourPlaces DEF OtherNames
    <2> HIDE <1>10
    <2>3. CASE n \in A
      BY <2>1, <2>2, <2>3
    <2>4. CASE n \in B
      BY <2>1, <2>2, <2>4
    <2>5. CASE n \notin A /\ n \notin B
      BY <2>1, <2>5
    <2> QED
      BY <2>2, <2>3, <2>4, <2>5
  <1>4. ASSUME NEW P \in Places, NEW e \in EmuKinds
        PROVE  /\ P = Files!Flash => files[P[e]] = "cobra"
               /\ P = Files!Usb => files[P[e]] \in {"absent", "orig"}
               /\ P = Files!Hdd \/ P = Files!Backup => files[P[e]] = "absent"
    <2>1. P[e] \in A <=> P = Files!Flash
      BY <1>10, PlacesAre, PlaceNames, PlacesApart
    <2>2. P[e] \in B => P = Files!Usb
      BY <1>10, PlacesAre, PlaceNames, PlacesApart
    <2>3. P[e] # "reg" /\ P[e] # "kernel.new" /\ P[e] \in Files!Names
      BY <1>3 DEF OtherNames
    <2>4. files[P[e]] = IF P[e] \in A THEN "cobra" ELSE IF P[e] \in B THEN "orig" ELSE "absent"
      BY <1>11, <2>3
    <2> QED
      BY <2>1, <2>2, <2>4, FourPlaces
  <1>5. /\ files["reg"] = "old" /\ files["reg.bak"] = "absent" /\ files["reg.usb"] = "absent"
        /\ files["kernel"] = "absent" /\ files["kernel.new"] \in {"absent", "lv2"}
    <2>1. OtherNames \subseteq Files!Names
      BY PlaceNames
    <2>2. ASSUME NEW n \in OtherNames PROVE n \notin A /\ n \notin B
      BY <1>3, <1>10, PlacesAre, PlaceNames
    <2>3. ASSUME NEW n \in OtherNames
          PROVE  files[n] = IF n = "reg" THEN "old" ELSE IF n = "kernel.new" THEN kernel ELSE "absent"
      BY <1>11, <2>1, <2>2
    <2> QED
      BY <2>3 DEF OtherNames, Files!Absent
  <1>6. Cobra(Files!Flash) /\ HddOk /\ BackupOk /\ "net" \in EmuKinds
    BY <1>4, PlacesAre DEF Cobra, HddOk, BackupOk, EmuKinds
  <1>7. RegTyped /\ EmuTyped /\ LoadTyped
    BY <1>4, <1>5, PlacesAre DEF RegTyped, RegKinds, EmuTyped, LoadTyped
  <1>8. Idle
    BY <1>2, <1>5, <1>6 DEF Idle, RegQuiet, EmuQuiet, FlashOk, SwapTold, Cobra, LoadQuiet
  <1>9. Files!TypeOK
    <2>1. files \in [Files!Names -> {Files!Absent, "cobra", "orig", "old", "lv2", "empty", "short"}]
      BY <1>1
    <2>2. choices \in 0 .. MaxChoices /\ faults \in 0 .. MaxFaults
      BY <1>2, OtherOsAssumption
    <2> QED
      BY <1>2, <2>1, <2>2 DEF Files!TypeOK
  <1> QED
    BY <1>7, <1>8, <1>9 DEF FilesInv, FilesTyped, Stage

LEMMA FilesNext == FilesInv /\ [Files!Next]_Files!vars => FilesInv'
  <1> SUFFICES ASSUME FilesInv, [Files!Next]_Files!vars PROVE FilesInv'
    OBVIOUS
  <1>1. ASSUME NEW k \in {"kernel", "kernel.new"}, Files!LoadKernel(k) PROVE FilesInv'
    BY <1>1, LoadKernelKept
  <1>2. ASSUME NEW ok \in BOOLEAN, Files!Call(ok) PROVE FilesInv'
    BY <1>2, CallKept
  <1>3. ASSUME NEW yes \in BOOLEAN,
               Files!Space(yes) \/ Files!Install(yes) \/ Files!Source(yes) \/ Files!Reboot(yes)
        PROVE  FilesInv'
    BY <1>3, SpaceKept, InstallKept, SourceKept, RebootKept
  <1> QED
    BY <1>1, <1>2, <1>3, BackupRegistryKept, RestoreRegistryKept, SwapEmulatorsKept,
       RestoredKept, SwapKept, FinishKept, CutKept, RestartKept, FilesStutter
       DEF Files!Next

(* What the invariant says in the menu. *)
LEMMA FilesSaid == FilesInv => Files!FilesKept
  <1> SUFFICES ASSUME FilesInv PROVE Files!FilesKept
    OBVIOUS
  <1>1. then = "menu" => Idle
    BY IdleStage DEF FilesInv
  <1>2. faults \in Nat /\ swap \in {0, 1}
    BY CountedFaults DEF FilesInv, FilesTyped, Files!TypeOK
  <1>3. Files!RegistryKept
    BY <1>1, <1>2 DEF Files!RegistryKept, Idle, RegQuiet
  <1>4. Files!KernelThere
    BY <1>1, <1>2 DEF Files!KernelThere, Idle, LoadQuiet
  <1>5. Files!EmulatorsAgree
    <2> SUFFICES ASSUME faults = 0, then = "menu", NEW e \in EmuKinds
                 PROVE  /\ swap = 1 => files[Files!Flash[e]] = "cobra"
                        /\ swap = 0 => files[Files!Backup[e]] = "cobra"
                        /\ swap = 0 /\ files[Files!Usb[e]] # "absent"
                             => files[Files!Flash[e]] = "orig"
      BY PlaceNames DEF Files!EmulatorsAgree, Files!Exists, Files!Absent
    <2>1. FlashOk /\ SwapTold
      BY <1>1 DEF Idle, EmuQuiet
    <2>2. \A d \in EmuKinds : files[Files!Usb[d]] \in {"absent", "orig"}
      BY DEF FilesInv, FilesTyped, EmuTyped
    <2>3. "net" \in EmuKinds
      BY DEF EmuKinds
    <2>4. CASE Cobra(Files!Flash)
      <3>1. swap = 1
        BY <1>2, <2>1, <2>3, <2>4 DEF SwapTold, Cobra
      <3> QED
        BY <2>4, <3>1 DEF Cobra
    <2>5. CASE Cobra(Files!Backup) /\ FromUsb(Files!Flash) /\ UsbThere
      <3>1. swap = 0
        BY <1>2, <2>1, <2>2, <2>3, <2>5 DEF SwapTold, FromUsb, UsbThere, Taken
      <3>2. files[Files!Usb[e]] # "absent" => files[Files!Flash[e]] = "orig"
        BY <2>2, <2>5 DEF FromUsb, Taken
      <3> QED
        BY <2>5, <3>1, <3>2 DEF Cobra
    <2> QED
      BY <2>1, <2>4, <2>5 DEF FlashOk
  <1> QED
    BY <1>3, <1>4, <1>5 DEF Files!FilesKept

-----------------------------------------------------------------------------
(* SystemModes.  A switch is a list of renames.  ModesTyped says what holds
   after any number of failures and cuts: of COBRA's files each is there under
   one of its two names, and a switch of COBRA has brought the ones that it is
   through with to its side.  Undisturbed says of each list and each of its
   rests where the files of its mode are, the other modes' files being at rest,
   as long as nothing has failed.                                            *)

(* A file of three names: as x under its own, or as y, the other away. *)
Slot(n, s, t, x, y, p) ==
  /\ files[n] = IF p = 0 THEN x ELSE IF p = 1 THEN "absent" ELSE y
  /\ files[s] = IF p = 0 THEN "absent" ELSE x
  /\ files[t] = IF p = 2 THEN "absent" ELSE y

(* A file of two names. *)
Two(a, b, p) == (files[a] # "absent" <=> p = 0) /\ (files[b] # "absent" <=> p = 2)

(* The files of each mode at rest. *)
Spare(x) ==
  IF x = "debug" THEN files["vsh.cexsp"] = "retail" /\ files["vsh.dexsp"] = "absent"
  ELSE files["vsh.dexsp"] = "debug" /\ files["vsh.cexsp"] = "absent"

Vsh(x, p) == Slot("vsh", "vsh.swp", "vsh.nrm", x, "normal", p)
Index(p) == Slot("index", "index.swp", "index.nrm", "rebug", "normal", p)
Version(p) == Slot("version", "version.swp", "version.nrm", "rebug", "normal", p)
Sysconf(p) == ~replaces => Slot("sysconf", "sysconf.dex", "sysconf.cex", "dex", "cex", p)
Net(p) == Slot("net", "net.cfw", "net.org", "cfw", "org", p)
Tool2(p) == Slot("tool2", "tool2.cfw", "tool2.org", "cfw", "org", p)

System(x, p, q, r) == Vsh(x, p) /\ Index(q) /\ Version(r) /\ Spare(x)
Cfw(a, b, p, q) == Two("xai", "xai.bak", a) /\ Two("rco", "rco.bak", b) /\ Net(p) /\ Tool2(q)
Cobra2(p, q) == /\ Two("stage2.cex", "stage2.cex.bak", p)
                /\ Two("stage2.dex", "stage2.dex.bak", q)
Web(p) == Two("webftp", "webftp.bak", p)

Ends == {0, 2}
Boots == {"debug", "retail"}

SysRest == \E x \in Boots, p \in Ends : System(x, p, p, p)
MenuRest == \E p \in Ends : Sysconf(p)
CobraRest == \E p \in Ends : Cobra2(p, p)
WebRest == \E p \in Ends : Web(p)
CfwRest == \E p \in Ends : Cfw(p, p, p, p)

SysNames == {"vsh", "vsh.swp", "vsh.nrm", "vsh.cexsp", "vsh.dexsp",
             "index", "index.swp", "index.nrm", "version", "version.swp", "version.nrm"}
MenuNames == {"sysconf", "sysconf.cex", "sysconf.dex"}
CobraNames == {"stage2.cex", "stage2.cex.bak", "stage2.dex", "stage2.dex.bak"}
WebNames == {"webftp", "webftp.bak"}
CfwNames == {"xai", "xai.bak", "rco", "rco.bak",
             "net", "net.org", "net.cfw", "tool2", "tool2.org", "tool2.cfw"}

(* check_settings() has read the modes from the names. *)
ModeTold ==
  /\ mode.rebug = IF files["vsh.swp"] # "absent" THEN 0 ELSE 1
  /\ mode.xmb = IF files["vsh.swp"] = "absent" /\ files["vsh.dexsp"] # "absent" THEN 0 ELSE 1
  /\ mode.menu = IF files["sysconf.cex"] # "absent" THEN 1 ELSE 0
  /\ mode.cobra = IF files["stage2.cex"] # "absent" THEN 1 ELSE 0
  /\ mode.webman = IF files["webftp"] # "absent" THEN 1 ELSE 0
  /\ mode.cfw = IF files["net.org"] # "absent" THEN 1 ELSE 0

MayMove(a, b) == Head(job) = Modes!Ren(a, b) \/ (chain /\ Head(job) = Modes!AndRen(a, b))

(* A call that nothing disturbs and that the names allow. *)
LEMMA MoveCall ==
  ASSUME Modes!TypeOK, NEW ok \in BOOLEAN, Modes!Call(ok), faults' = 0,
         NEW a \in Modes!Names, NEW b \in Modes!Names, a # b, MayMove(a, b),
         files[a] # "absent", files[b] = "absent"
  PROVE  /\ files'[b] = files[a] /\ files'[a] = "absent"
         /\ \A n \in Modes!Names : n # a /\ n # b => files'[n] = files[n]
         /\ job' = Tail(job) /\ chain' = TRUE /\ faults = 0
         /\ UNCHANGED <<mode, choice, phase, replaces, choices>>
  <1> DEFINE c == Head(job)
  <1>1. c.kind = "rename" /\ c.from = a /\ c.to = b /\ (c.chained => chain)
    BY DEF MayMove, Modes!Ren, Modes!AndRen
  <1>2. faults \in Nat
    BY OtherOsAssumption DEF Modes!TypeOK
  <1>3. ok /\ faults = 0
    BY <1>2 DEF Modes!Call
  <1>4. Modes!Possible(files, c, replaces)
    BY <1>1 DEF Modes!Possible, Modes!Exists, Modes!Absent
  <1>5. Modes!Effect(files, c) = [files EXCEPT ![b] = files[a], ![a] = "absent"]
    BY <1>1 DEF Modes!Effect, Modes!Absent
  <1>6. files' = Modes!Effect(files, c) /\ chain' = TRUE
    BY <1>1, <1>3, <1>4 DEF Modes!Call
  <1>7. DOMAIN files = Modes!Names
    BY DEF Modes!TypeOK
  <1> QED
    BY <1>3, <1>5, <1>6, <1>7 DEF Modes!Call

(* Such calls on a file of three names, and of two. *)
Moves3(n, s, t, p, q) ==
  \/ p = 0 /\ q = 1 /\ MayMove(n, s)
  \/ p = 1 /\ q = 2 /\ MayMove(t, n)
  \/ p = 2 /\ q = 1 /\ MayMove(n, t)
  \/ p = 1 /\ q = 0 /\ MayMove(s, n)

(* The next call on a file of three names: it makes the move that is due, or
   it is one that is not possible.                                           *)
LEMMA SlotCall ==
  ASSUME Modes!TypeOK, NEW ok \in BOOLEAN, Modes!Call(ok), faults' = 0,
         NEW n \in Modes!Names, NEW s \in Modes!Names, NEW t \in Modes!Names,
         n # s, n # t, s # t, NEW x, NEW y, x # "absent", y # "absent",
         NEW p \in 0 .. 2, NEW q \in 0 .. 2, Moves3(n, s, t, p, q), Slot(n, s, t, x, y, p)
  PROVE  /\ Slot(n, s, t, x, y, q)'
         /\ \A m \in Modes!Names : m # n /\ m # s /\ m # t => files'[m] = files[m]
         /\ job' = Tail(job) /\ chain' = TRUE /\ faults = 0
         /\ UNCHANGED <<mode, choice, phase, replaces, choices>>
  <1> DEFINE Done(a, b) ==
        /\ files'[b] = files[a] /\ files'[a] = "absent"
        /\ \A m \in Modes!Names : m # a /\ m # b => files'[m] = files[m]
        /\ job' = Tail(job) /\ chain' = TRUE /\ faults = 0
        /\ UNCHANGED <<mode, choice, phase, replaces, choices>>
  <1>1. CASE p = 0 /\ q = 1 /\ MayMove(n, s)
    <2>1. Done(n, s)
      BY <1>1, MoveCall DEF Slot
    <2> QED
      BY <1>1, <2>1 DEF Slot
  <1>2. CASE p = 1 /\ q = 2 /\ MayMove(t, n)
    <2>2. files[t] # "absent" /\ files[n] = "absent"
      BY <1>2 DEF Slot
    <2>1. Done(t, n)
      BY <1>2, <2>2, MoveCall
    <2> QED
      BY <1>2, <2>1 DEF Slot
  <1>3. CASE p = 2 /\ q = 1 /\ MayMove(n, t)
    <2>2. files[n] # "absent" /\ files[t] = "absent"
      BY <1>3 DEF Slot
    <2>1. Done(n, t)
      BY <1>3, <2>2, MoveCall
    <2> QED
      BY <1>3, <2>1 DEF Slot
  <1>4. CASE p = 1 /\ q = 0 /\ MayMove(s, n)
    <2>2. files[s] # "absent" /\ files[n] = "absent"
      BY <1>4 DEF Slot
    <2>1. Done(s, n)
      BY <1>4, <2>2, MoveCall
    <2> QED
      BY <1>4, <2>1 DEF Slot
  <1> QED
    BY <1>1, <1>2, <1>3, <1>4 DEF Moves3

(* The same for a file of two names. *)
LEMMA TwoCall ==
  ASSUME Modes!TypeOK, NEW ok \in BOOLEAN, Modes!Call(ok), faults' = 0,
         NEW a \in Modes!Names, NEW b \in Modes!Names, a # b,
         NEW p \in 0 .. 2, NEW q \in 0 .. 2, (p = 0 /\ q = 2 /\ MayMove(a, b)) \/ (p = 2 /\ q = 0 /\ MayMove(b, a)),
         Two(a, b, p)
  PROVE  /\ Two(a, b, q)'
         /\ \A m \in Modes!Names : m # a /\ m # b => files'[m] = files[m]
         /\ job' = Tail(job) /\ chain' = TRUE /\ faults = 0
         /\ UNCHANGED <<mode, choice, phase, replaces, choices>>
  <1> DEFINE Done(c, d) ==
        /\ files'[d] = files[c] /\ files'[c] = "absent"
        /\ \A m \in Modes!Names : m # c /\ m # d => files'[m] = files[m]
        /\ job' = Tail(job) /\ chain' = TRUE /\ faults = 0
        /\ UNCHANGED <<mode, choice, phase, replaces, choices>>
  <1>1. CASE p = 0 /\ q = 2 /\ MayMove(a, b)
    <2>2. files[a] # "absent" /\ files[b] = "absent"
      BY <1>1 DEF Two
    <2>1. Done(a, b)
      BY <1>1, <2>2, MoveCall
    <2> QED
      BY <1>1, <2>1 DEF Two
  <1>2. CASE p = 2 /\ q = 0 /\ MayMove(b, a)
    <2>2. files[b] # "absent" /\ files[a] = "absent"
      BY <1>2 DEF Two
    <2>1. Done(b, a)
      BY <1>2, <2>2, MoveCall
    <2> QED
      BY <1>2, <2>1 DEF Two
  <1> QED
    BY <1>1, <1>2

(* Files that a step leaves alone stay as they were. *)
LEMMA RestsStay ==
  ASSUME replaces' = replaces
  PROVE  /\ (\A n \in SysNames : files'[n] = files[n]) => (SysRest => SysRest')
         /\ (\A n \in MenuNames : files'[n] = files[n]) => (MenuRest => MenuRest')
         /\ (\A n \in CobraNames : files'[n] = files[n]) => (CobraRest => CobraRest')
         /\ (\A n \in WebNames : files'[n] = files[n]) => (WebRest => WebRest')
         /\ (\A n \in CfwNames : files'[n] = files[n]) => (CfwRest => CfwRest')
  <1>1. (\A n \in SysNames : files'[n] = files[n]) => (SysRest => SysRest')
    <2> SUFFICES ASSUME \A n \in SysNames : files'[n] = files[n],
                        NEW x \in Boots, NEW p \in Ends, System(x, p, p, p)
                 PROVE  System(x, p, p, p)'
      BY DEF SysRest
    <2> QED
      BY DEF SysNames, System, Vsh, Index, Version, Spare, Slot
  <1>2. (\A n \in MenuNames : files'[n] = files[n]) => (MenuRest => MenuRest')
    BY DEF MenuNames, MenuRest, Sysconf, Slot
  <1>3. (\A n \in CobraNames : files'[n] = files[n]) => (CobraRest => CobraRest')
    BY DEF CobraNames, CobraRest, Cobra2, Two
  <1>4. (\A n \in WebNames : files'[n] = files[n]) => (WebRest => WebRest')
    BY DEF WebNames, WebRest, Web, Two
  <1>5. (\A n \in CfwNames : files'[n] = files[n]) => (CfwRest => CfwRest')
    <2> SUFFICES ASSUME \A n \in CfwNames : files'[n] = files[n],
                        NEW p \in Ends, Cfw(p, p, p, p)
                 PROVE  Cfw(p, p, p, p)'
      BY DEF CfwRest
    <2> QED
      BY DEF CfwNames, Cfw, Two, Net, Tool2, Slot
  <1> QED
    BY <1>1, <1>2, <1>3, <1>4, <1>5

(* What a call does besides its effect on the files. *)
OneCall ==
  /\ job' = Tail(job) /\ chain' = TRUE /\ faults = 0
  /\ UNCHANGED <<mode, choice, phase, replaces, choices>>

(* The names fall into five groups, one for each mode's files. *)
LEMMA ModeNamesAre ==
  /\ SysNames \subseteq Modes!Names /\ MenuNames \subseteq Modes!Names
  /\ CobraNames \subseteq Modes!Names /\ WebNames \subseteq Modes!Names
  /\ CfwNames \subseteq Modes!Names
  BY DEF Modes!Names, SysNames, MenuNames, CobraNames, WebNames, CfwNames

LEMMA GroupsApart ==
  /\ \A n \in SysNames : n \notin MenuNames /\ n \notin CobraNames /\ n \notin WebNames /\ n \notin CfwNames
  /\ \A n \in MenuNames : n \notin CobraNames /\ n \notin WebNames /\ n \notin CfwNames
  /\ \A n \in CobraNames : n \notin WebNames /\ n \notin CfwNames
  /\ \A n \in WebNames : n \notin CfwNames
  <1>1. \A n \in SysNames : n \notin MenuNames /\ n \notin CobraNames /\ n \notin WebNames /\ n \notin CfwNames
    BY DEF SysNames, MenuNames, CobraNames, WebNames, CfwNames
  <1>2. /\ \A n \in MenuNames : n \notin CobraNames /\ n \notin WebNames /\ n \notin CfwNames
        /\ \A n \in CobraNames : n \notin WebNames /\ n \notin CfwNames
        /\ \A n \in WebNames : n \notin CfwNames
    BY DEF MenuNames, CobraNames, WebNames, CfwNames
  <1> QED
    BY <1>1, <1>2

(* A call on the files of the system mode. *)
LEMMA SystemCall ==
  ASSUME Modes!TypeOK, NEW ok \in BOOLEAN, Modes!Call(ok), faults' = 0,
         NEW x \in Boots, NEW p \in 0 .. 2, NEW q \in 0 .. 2, NEW r \in 0 .. 2,
         NEW p2 \in 0 .. 2, NEW q2 \in 0 .. 2, NEW r2 \in 0 .. 2, System(x, p, q, r),
         \/ Moves3("vsh", "vsh.swp", "vsh.nrm", p, p2) /\ q2 = q /\ r2 = r
         \/ Moves3("index", "index.swp", "index.nrm", q, q2) /\ p2 = p /\ r2 = r
         \/ Moves3("version", "version.swp", "version.nrm", r, r2) /\ p2 = p /\ q2 = q
  PROVE  /\ System(x, p2, q2, r2)' /\ OneCall
         /\ \A n \in Modes!Names : n \notin SysNames => files'[n] = files[n]
  <1>1. x # "absent"
    BY DEF Boots
  <1>2. /\ {"vsh", "vsh.swp", "vsh.nrm", "index", "index.swp", "index.nrm",
            "version", "version.swp", "version.nrm", "vsh.cexsp", "vsh.dexsp"} \subseteq Modes!Names
        /\ {"vsh", "vsh.swp", "vsh.nrm", "index", "index.swp", "index.nrm",
            "version", "version.swp", "version.nrm"} \subseteq SysNames
    BY DEF Modes!Names, SysNames
  <1>3. CASE Moves3("vsh", "vsh.swp", "vsh.nrm", p, p2) /\ q2 = q /\ r2 = r
    <2>1. Slot("vsh", "vsh.swp", "vsh.nrm", x, "normal", p)
      BY DEF System, Vsh
    <2>2. /\ Slot("vsh", "vsh.swp", "vsh.nrm", x, "normal", p2)'
          /\ \A m \in Modes!Names : m # "vsh" /\ m # "vsh.swp" /\ m # "vsh.nrm" => files'[m] = files[m]
          /\ OneCall
      BY <1>1, <1>2, <1>3, <2>1, SlotCall DEF OneCall
    <2>3. System(x, p2, q2, r2)'
      BY <1>2, <1>3, <2>2 DEF System, Vsh, Index, Version, Slot, Spare
    <2> QED
      BY <1>2, <2>2, <2>3
  <1>4. CASE Moves3("index", "index.swp", "index.nrm", q, q2) /\ p2 = p /\ r2 = r
    <2>1. Slot("index", "index.swp", "index.nrm", "rebug", "normal", q)
      BY DEF System, Index
    <2>2. /\ Slot("index", "index.swp", "index.nrm", "rebug", "normal", q2)'
          /\ \A m \in Modes!Names :
               m # "index" /\ m # "index.swp" /\ m # "index.nrm" => files'[m] = files[m]
          /\ OneCall
      BY <1>2, <1>4, <2>1, SlotCall DEF OneCall
    <2>3. System(x, p2, q2, r2)'
      BY <1>2, <1>4, <2>2 DEF System, Vsh, Index, Version, Slot, Spare
    <2> QED
      BY <1>2, <2>2, <2>3
  <1>5. CASE Moves3("version", "version.swp", "version.nrm", r, r2) /\ p2 = p /\ q2 = q
    <2>1. Slot("version", "version.swp", "version.nrm", "rebug", "normal", r)
      BY DEF System, Version
    <2>2. /\ Slot("version", "version.swp", "version.nrm", "rebug", "normal", r2)'
          /\ \A m \in Modes!Names :
               m # "version" /\ m # "version.swp" /\ m # "version.nrm" => files'[m] = files[m]
          /\ OneCall
      BY <1>2, <1>5, <2>1, SlotCall DEF OneCall
    <2>3. System(x, p2, q2, r2)'
      BY <1>2, <1>5, <2>2 DEF System, Vsh, Index, Version, Slot, Spare
    <2> QED
      BY <1>2, <2>2, <2>3
  <1> QED
    BY <1>3, <1>4, <1>5

(* The other modes' files stay, when a call touches one mode's alone. *)
LEMMA OthersStay ==
  ASSUME NEW S, \A n \in Modes!Names : n \notin S => files'[n] = files[n],
         replaces' = replaces
  PROVE  /\ S = SysNames => /\ MenuRest => MenuRest'
                            /\ CobraRest => CobraRest'
                            /\ WebRest => WebRest'
                            /\ CfwRest => CfwRest'
         /\ S = MenuNames => /\ SysRest => SysRest'
                             /\ CobraRest => CobraRest'
                             /\ WebRest => WebRest'
                             /\ CfwRest => CfwRest'
         /\ S = SysNames \cup MenuNames => /\ CobraRest => CobraRest'
                                           /\ WebRest => WebRest'
                                           /\ CfwRest => CfwRest'
         /\ S = CobraNames => /\ SysRest => SysRest'
                              /\ MenuRest => MenuRest'
                              /\ WebRest => WebRest'
                              /\ CfwRest => CfwRest'
         /\ S = WebNames => /\ SysRest => SysRest'
                            /\ MenuRest => MenuRest'
                            /\ CobraRest => CobraRest'
                            /\ CfwRest => CfwRest'
         /\ S = CfwNames => /\ SysRest => SysRest'
                            /\ MenuRest => MenuRest'
                            /\ CobraRest => CobraRest'
                            /\ WebRest => WebRest'
  <1>1. ASSUME NEW T, T \subseteq Modes!Names, \A n \in T : n \notin S
        PROVE  \A n \in T : files'[n] = files[n]
    BY <1>1
  <1>2. CASE S = SysNames
    BY <1>1, <1>2, ModeNamesAre, GroupsApart, RestsStay
  <1>3. CASE S = MenuNames
    BY <1>1, <1>3, ModeNamesAre, GroupsApart, RestsStay
  <1>4. CASE S = SysNames \cup MenuNames
    BY <1>1, <1>4, ModeNamesAre, GroupsApart, RestsStay
  <1>5. CASE S = CobraNames
    BY <1>1, <1>5, ModeNamesAre, GroupsApart, RestsStay
  <1>6. CASE S = WebNames
    BY <1>1, <1>6, ModeNamesAre, GroupsApart, RestsStay
  <1>7. CASE S = CfwNames
    BY <1>1, <1>7, ModeNamesAre, GroupsApart, RestsStay
  <1> QED
    BY <1>2, <1>3, <1>4, <1>5, <1>6, <1>7

(* How far a file of three names is when k calls are left; its two are made
   with h and h - 1 left.                                                   *)
Off(k, h) == IF k >= h THEN 0 ELSE IF k = h - 1 THEN 1 ELSE 2
On(k, h) == IF k >= h THEN 2 ELSE IF k = h - 1 THEN 1 ELSE 0

(* A file on its way is in one of three states, and moves one at a time. *)
LEMMA OffOn ==
  ASSUME NEW k \in Int, NEW h \in Int
  PROVE  /\ k >= h => Off(k, h) = 0 /\ On(k, h) = 2
         /\ k = h - 1 => Off(k, h) = 1 /\ On(k, h) = 1
         /\ k < h - 1 => Off(k, h) = 2 /\ On(k, h) = 0
         /\ Off(k, h) \in 0 .. 2 /\ On(k, h) \in 0 .. 2
  BY DEF Off, On

(* To the normal mode. *)
RebugOffCalls(k) ==
  IF k = 6 THEN <<Modes!Ren("vsh", "vsh.swp"), Modes!AndRen("vsh.nrm", "vsh"),
                  Modes!Ren("index", "index.swp"), Modes!AndRen("index.nrm", "index"),
                  Modes!Ren("version", "version.swp"), Modes!AndRen("version.nrm", "version")>>
  ELSE IF k = 5 THEN <<Modes!AndRen("vsh.nrm", "vsh"), Modes!Ren("index", "index.swp"),
                       Modes!AndRen("index.nrm", "index"), Modes!Ren("version", "version.swp"),
                       Modes!AndRen("version.nrm", "version")>>
  ELSE IF k = 4 THEN <<Modes!Ren("index", "index.swp"), Modes!AndRen("index.nrm", "index"),
                       Modes!Ren("version", "version.swp"),
                       Modes!AndRen("version.nrm", "version")>>
  ELSE IF k = 3 THEN <<Modes!AndRen("index.nrm", "index"), Modes!Ren("version", "version.swp"),
                       Modes!AndRen("version.nrm", "version")>>
  ELSE IF k = 2 THEN <<Modes!Ren("version", "version.swp"),
                       Modes!AndRen("version.nrm", "version")>>
  ELSE IF k = 1 THEN <<Modes!AndRen("version.nrm", "version")>>
  ELSE <<>>

RebugOff(x, k) ==
  /\ choice # Modes!None /\ job = RebugOffCalls(k)
  /\ System(x, Off(k, 6), Off(k, 4), Off(k, 2))
  /\ k \in {1, 3, 5} => chain
  /\ MenuRest /\ CobraRest /\ WebRest /\ CfwRest

(* A call of that list, when nothing disturbs it: one less is left. *)
LEMMA RebugOffCall ==
  ASSUME Modes!TypeOK, NEW ok \in BOOLEAN, Modes!Call(ok), faults' = 0,
         NEW x \in Boots, NEW k \in 1 .. 6, RebugOff(x, k)
  PROVE  RebugOff(x, k - 1)'
  <1>1. /\ job = RebugOffCalls(k) /\ System(x, Off(k, 6), Off(k, 4), Off(k, 2))
        /\ k \in {1, 3, 5} => chain
        /\ choice # Modes!None /\ MenuRest /\ CobraRest /\ WebRest /\ CfwRest
    BY DEF RebugOff
  <1>2. Tail(RebugOffCalls(k)) = RebugOffCalls(k - 1)
    <2>1. CASE k \in {5, 6}
      BY <2>1 DEF RebugOffCalls
    <2>2. CASE k \in {3, 4}
      BY <2>2 DEF RebugOffCalls
    <2>3. CASE k \in {1, 2}
      BY <2>3 DEF RebugOffCalls
    <2> QED
      BY <2>1, <2>2, <2>3
  <1>3. \/ /\ Moves3("vsh", "vsh.swp", "vsh.nrm", Off(k, 6), Off(k - 1, 6))
           /\ Off(k - 1, 4) = Off(k, 4) /\ Off(k - 1, 2) = Off(k, 2)
        \/ /\ Moves3("index", "index.swp", "index.nrm", Off(k, 4), Off(k - 1, 4))
           /\ Off(k - 1, 6) = Off(k, 6) /\ Off(k - 1, 2) = Off(k, 2)
        \/ /\ Moves3("version", "version.swp", "version.nrm", Off(k, 2), Off(k - 1, 2))
           /\ Off(k - 1, 6) = Off(k, 6) /\ Off(k - 1, 4) = Off(k, 4)
    <2>1. CASE k = 6
      <3>1. MayMove("vsh", "vsh.swp")
        BY <1>1, <2>1 DEF MayMove, RebugOffCalls
      <3> QED
        BY <2>1, <3>1, OffOn DEF Moves3
    <2>2. CASE k = 5
      <3>1. MayMove("vsh.nrm", "vsh")
        BY <1>1, <2>2 DEF MayMove, RebugOffCalls
      <3> QED
        BY <2>2, <3>1, OffOn DEF Moves3
    <2>3. CASE k = 4
      <3>1. MayMove("index", "index.swp")
        BY <1>1, <2>3 DEF MayMove, RebugOffCalls
      <3> QED
        BY <2>3, <3>1, OffOn DEF Moves3
    <2>4. CASE k = 3
      <3>1. MayMove("index.nrm", "index")
        BY <1>1, <2>4 DEF MayMove, RebugOffCalls
      <3> QED
        BY <2>4, <3>1, OffOn DEF Moves3
    <2>5. CASE k = 2
      <3>1. MayMove("version", "version.swp")
        BY <1>1, <2>5 DEF MayMove, RebugOffCalls
      <3> QED
        BY <2>5, <3>1, OffOn DEF Moves3
    <2>6. CASE k = 1
      <3>1. MayMove("version.nrm", "version")
        BY <1>1, <2>6 DEF MayMove, RebugOffCalls
      <3> QED
        BY <2>6, <3>1, OffOn DEF Moves3
    <2> QED
      BY <2>1, <2>2, <2>3, <2>4, <2>5, <2>6
  <1>4. /\ System(x, Off(k - 1, 6), Off(k - 1, 4), Off(k - 1, 2))' /\ OneCall
        /\ \A n \in Modes!Names : n \notin SysNames => files'[n] = files[n]
    BY <1>1, <1>3, OffOn, SystemCall
  <1>5. MenuRest' /\ CobraRest' /\ WebRest' /\ CfwRest'
    BY <1>1, <1>4, OthersStay DEF OneCall
  <1> QED
    BY <1>1, <1>2, <1>4, <1>5 DEF RebugOff, OneCall

(* A call, whether it succeeds or not. *)
LEMMA AnyCall ==
  ASSUME DOMAIN files = Modes!Names, NEW ok \in BOOLEAN, Modes!Call(ok),
         NEW a \in Modes!Names, NEW b \in Modes!Names,
         Head(job) = Modes!Ren(a, b) \/ Head(job) = Modes!AndRen(a, b)
  PROVE  /\ DOMAIN files' = Modes!Names
         /\ \A n \in Modes!Names : n # a /\ n # b => files'[n] = files[n]
         /\ job' = Tail(job) /\ UNCHANGED <<mode, choice, phase, replaces, choices>>
         /\ \/ files' = files
            \/ files[a] # "absent" /\ (a # b => files'[b] = files[a] /\ files'[a] = "absent")
  <1> DEFINE c == Head(job)
  <1>1. c.kind = "rename" /\ c.from = a /\ c.to = b
    BY DEF Modes!Ren, Modes!AndRen
  <1>2. Modes!Effect(files, c) = [files EXCEPT ![b] = files[a], ![a] = "absent"]
    BY <1>1 DEF Modes!Effect, Modes!Absent
  <1>3. files' = files \/ (Modes!Possible(files, c, replaces) /\ files' = Modes!Effect(files, c))
    BY DEF Modes!Call
  <1>4. Modes!Possible(files, c, replaces) => files[a] # "absent"
    BY <1>1 DEF Modes!Possible, Modes!Exists, Modes!Absent
  <1> QED
    BY <1>2, <1>3, <1>4 DEF Modes!Call

(* A call on the menu's file; what a rename over another file does is not
   followed.                                                                *)
LEMMA SysconfCall ==
  ASSUME Modes!TypeOK, NEW ok \in BOOLEAN, Modes!Call(ok), faults' = 0,
         NEW a \in MenuNames, NEW b \in MenuNames,
         Head(job) = Modes!Ren(a, b) \/ Head(job) = Modes!AndRen(a, b),
         NEW p \in 0 .. 2, NEW q \in 0 .. 2, Sysconf(p),
         ~replaces => Moves3("sysconf", "sysconf.dex", "sysconf.cex", p, q)
  PROVE  /\ Sysconf(q)' /\ (~replaces => chain')
         /\ \A n \in Modes!Names : n \notin MenuNames => files'[n] = files[n]
         /\ job' = Tail(job) /\ faults = 0 /\ UNCHANGED <<mode, choice, phase, replaces, choices>>
  <1>1. /\ a \in Modes!Names /\ b \in Modes!Names /\ DOMAIN files = Modes!Names
        /\ "sysconf" \in Modes!Names /\ "sysconf.dex" \in Modes!Names
        /\ "sysconf.cex" \in Modes!Names
    BY ModeNamesAre DEF Modes!TypeOK, MenuNames
  <1>2. /\ \A n \in Modes!Names : n # a /\ n # b => files'[n] = files[n]
        /\ job' = Tail(job) /\ UNCHANGED <<mode, choice, phase, replaces, choices>>
    BY <1>1, AnyCall
  <1>3. ASSUME ~replaces PROVE Sysconf(q)' /\ chain' = TRUE
    BY <1>1, <1>3, SlotCall DEF Sysconf
  <1>4. faults = 0
    BY OtherOsAssumption DEF Modes!TypeOK, Modes!Call
  <1>5. Sysconf(q)'
    BY <1>2, <1>3 DEF Sysconf
  <1> QED
    BY <1>2, <1>3, <1>4, <1>5

(* From the normal mode, on the way to which the DEX menu gives way. *)
RebugOnCalls(k) ==
  IF k = 8 THEN <<Modes!Ren("sysconf", "sysconf.dex"), Modes!AndRen("sysconf.cex", "sysconf"),
                  Modes!Ren("vsh", "vsh.nrm"), Modes!AndRen("vsh.swp", "vsh"),
                  Modes!Ren("index", "index.nrm"), Modes!AndRen("index.swp", "index"),
                  Modes!Ren("version", "version.nrm"), Modes!AndRen("version.swp", "version")>>
  ELSE IF k = 7 THEN <<Modes!AndRen("sysconf.cex", "sysconf"), Modes!Ren("vsh", "vsh.nrm"),
                       Modes!AndRen("vsh.swp", "vsh"), Modes!Ren("index", "index.nrm"),
                       Modes!AndRen("index.swp", "index"), Modes!Ren("version", "version.nrm"),
                       Modes!AndRen("version.swp", "version")>>
  ELSE IF k = 6 THEN <<Modes!Ren("vsh", "vsh.nrm"), Modes!AndRen("vsh.swp", "vsh"),
                       Modes!Ren("index", "index.nrm"), Modes!AndRen("index.swp", "index"),
                       Modes!Ren("version", "version.nrm"),
                       Modes!AndRen("version.swp", "version")>>
  ELSE IF k = 5 THEN <<Modes!AndRen("vsh.swp", "vsh"), Modes!Ren("index", "index.nrm"),
                       Modes!AndRen("index.swp", "index"), Modes!Ren("version", "version.nrm"),
                       Modes!AndRen("version.swp", "version")>>
  ELSE IF k = 4 THEN <<Modes!Ren("index", "index.nrm"), Modes!AndRen("index.swp", "index"),
                       Modes!Ren("version", "version.nrm"),
                       Modes!AndRen("version.swp", "version")>>
  ELSE IF k = 3 THEN <<Modes!AndRen("index.swp", "index"), Modes!Ren("version", "version.nrm"),
                       Modes!AndRen("version.swp", "version")>>
  ELSE IF k = 2 THEN <<Modes!Ren("version", "version.nrm"),
                       Modes!AndRen("version.swp", "version")>>
  ELSE IF k = 1 THEN <<Modes!AndRen("version.swp", "version")>>
  ELSE <<>>

RebugOn(x, k) ==
  /\ choice # Modes!None /\ job = RebugOnCalls(k)
  /\ System(x, On(k, 6), On(k, 4), On(k, 2))
  /\ k \in {1, 3, 5} => chain
  /\ k = 7 /\ ~replaces => chain
  /\ k \in {7, 8} => Sysconf(Off(k, 8))
  /\ k \in 0 .. 6 => MenuRest
  /\ CobraRest /\ WebRest /\ CfwRest

(* A call of that list, when nothing disturbs it: one less is left. *)
LEMMA RebugOnCall ==
  ASSUME Modes!TypeOK, NEW ok \in BOOLEAN, Modes!Call(ok), faults' = 0,
         NEW x \in Boots, NEW k \in 1 .. 8, RebugOn(x, k)
  PROVE  RebugOn(x, k - 1)'
  <1>1. /\ job = RebugOnCalls(k) /\ System(x, On(k, 6), On(k, 4), On(k, 2))
        /\ k \in {1, 3, 5} => chain
        /\ choice # Modes!None /\ CobraRest /\ WebRest /\ CfwRest
    BY DEF RebugOn
  <1>2. Tail(RebugOnCalls(k)) = RebugOnCalls(k - 1)
    <2>1. CASE k \in {7, 8}
      BY <2>1 DEF RebugOnCalls
    <2>2. CASE k \in {5, 6}
      BY <2>2 DEF RebugOnCalls
    <2>3. CASE k \in {3, 4}
      BY <2>3 DEF RebugOnCalls
    <2>4. CASE k \in {1, 2}
      BY <2>4 DEF RebugOnCalls
    <2> QED
      BY <2>1, <2>2, <2>3, <2>4
  <1>3. CASE k \in {7, 8}
    <2>1. \E a, b \in MenuNames :
            /\ Head(job) = Modes!Ren(a, b) \/ Head(job) = Modes!AndRen(a, b)
            /\ ~replaces => Moves3("sysconf", "sysconf.dex", "sysconf.cex", Off(k, 8), Off(k - 1, 8))
      <3>1. CASE k = 8
        <4>1. Head(job) = Modes!Ren("sysconf", "sysconf.dex")
          BY <1>1, <3>1 DEF RebugOnCalls
        <4>2. Moves3("sysconf", "sysconf.dex", "sysconf.cex", Off(k, 8), Off(k - 1, 8))
          BY <3>1, <4>1, OffOn DEF Moves3, MayMove
        <4> QED
          BY <4>1, <4>2 DEF MenuNames
      <3>2. CASE k = 7
        <4>1. Head(job) = Modes!AndRen("sysconf.cex", "sysconf")
          BY <1>1, <3>2 DEF RebugOnCalls
        <4>2. ~replaces => Moves3("sysconf", "sysconf.dex", "sysconf.cex", Off(k, 8), Off(k - 1, 8))
          BY <3>2, <4>1, OffOn DEF Moves3, MayMove, RebugOn
        <4> QED
          BY <4>1, <4>2 DEF MenuNames
      <3> QED
        BY <1>3, <3>1, <3>2
    <2>2. /\ Sysconf(Off(k - 1, 8))' /\ (~replaces => chain')
          /\ \A n \in Modes!Names : n \notin MenuNames => files'[n] = files[n]
          /\ job' = Tail(job) /\ UNCHANGED <<mode, choice, phase, replaces, choices>>
      <3>1. Sysconf(Off(k, 8)) /\ Off(k, 8) \in 0 .. 2 /\ Off(k - 1, 8) \in 0 .. 2
        BY <1>3, OffOn DEF RebugOn
      <3> QED
        BY <2>1, <3>1, SysconfCall
    <2>3. CobraRest' /\ WebRest' /\ CfwRest'
      BY <1>1, <2>2, OthersStay
    <2>4. \A n \in SysNames : files'[n] = files[n]
      BY <2>2, ModeNamesAre, GroupsApart
    <2>5. System(x, On(k - 1, 6), On(k - 1, 4), On(k - 1, 2))'
      <3>1. On(k, 6) = 2 /\ On(k, 4) = 2 /\ On(k, 2) = 2
            /\ On(k - 1, 6) = 2 /\ On(k - 1, 4) = 2 /\ On(k - 1, 2) = 2
        BY <1>3, OffOn
      <3> QED
        BY <1>1, <2>4, <3>1 DEF System, Vsh, Index, Version, Slot, Spare, SysNames
    <2>6. k - 1 \in 0 .. 6 => MenuRest'
      <3>1. k - 1 \in 0 .. 6 => Off(k - 1, 8) = 2
        BY <1>3, OffOn
      <3> QED
        BY <2>2, <3>1 DEF MenuRest, Ends
    <2> QED
      BY <1>1, <1>2, <1>3, <2>2, <2>3, <2>5, <2>6 DEF RebugOn
  <1>4. CASE k \in 1 .. 6
    <2>1. \/ /\ Moves3("vsh", "vsh.swp", "vsh.nrm", On(k, 6), On(k - 1, 6))
             /\ On(k - 1, 4) = On(k, 4) /\ On(k - 1, 2) = On(k, 2)
          \/ /\ Moves3("index", "index.swp", "index.nrm", On(k, 4), On(k - 1, 4))
             /\ On(k - 1, 6) = On(k, 6) /\ On(k - 1, 2) = On(k, 2)
          \/ /\ Moves3("version", "version.swp", "version.nrm", On(k, 2), On(k - 1, 2))
             /\ On(k - 1, 6) = On(k, 6) /\ On(k - 1, 4) = On(k, 4)
      <3>1. CASE k = 6
        <4>1. MayMove("vsh", "vsh.nrm")
          BY <1>1, <3>1 DEF MayMove, RebugOnCalls
        <4> QED
          BY <3>1, <4>1, OffOn DEF Moves3
      <3>2. CASE k = 5
        <4>1. MayMove("vsh.swp", "vsh")
          BY <1>1, <3>2 DEF MayMove, RebugOnCalls
        <4> QED
          BY <3>2, <4>1, OffOn DEF Moves3
      <3>3. CASE k = 4
        <4>1. MayMove("index", "index.nrm")
          BY <1>1, <3>3 DEF MayMove, RebugOnCalls
        <4> QED
          BY <3>3, <4>1, OffOn DEF Moves3
      <3>4. CASE k = 3
        <4>1. MayMove("index.swp", "index")
          BY <1>1, <3>4 DEF MayMove, RebugOnCalls
        <4> QED
          BY <3>4, <4>1, OffOn DEF Moves3
      <3>5. CASE k = 2
        <4>1. MayMove("version", "version.nrm")
          BY <1>1, <3>5 DEF MayMove, RebugOnCalls
        <4> QED
          BY <3>5, <4>1, OffOn DEF Moves3
      <3>6. CASE k = 1
        <4>1. MayMove("version.swp", "version")
          BY <1>1, <3>6 DEF MayMove, RebugOnCalls
        <4> QED
          BY <3>6, <4>1, OffOn DEF Moves3
      <3> QED
        BY <1>4, <3>1, <3>2, <3>3, <3>4, <3>5, <3>6
    <2>2. /\ System(x, On(k - 1, 6), On(k - 1, 4), On(k - 1, 2))' /\ OneCall
          /\ \A n \in Modes!Names : n \notin SysNames => files'[n] = files[n]
      BY <1>1, <2>1, OffOn, SystemCall
    <2>3. MenuRest' /\ CobraRest' /\ WebRest' /\ CfwRest'
      BY <1>1, <1>4, <2>2, OthersStay DEF OneCall, RebugOn
    <2> QED
      BY <1>1, <1>2, <1>4, <2>2, <2>3 DEF RebugOn, OneCall
  <1> QED
    BY <1>3, <1>4

(* The XMB's file, in REBUG mode. *)
Xmb(p) ==
  /\ Slot("vsh", "vsh.dexsp", "vsh.cexsp", "debug", "retail", p)
  /\ files["vsh.swp"] = "absent" /\ files["vsh.nrm"] = "normal"
  /\ Index(0) /\ Version(0)

(* The XMB's files at rest are the system's in REBUG mode. *)
LEMMA XmbIsSystem ==
  /\ System("debug", 0, 0, 0) <=> Xmb(0)
  /\ System("retail", 0, 0, 0) <=> Xmb(2)
  BY DEF System, Xmb, Vsh, Spare, Slot

(* A call on the XMB's files. *)
LEMMA XmbCall ==
  ASSUME Modes!TypeOK, NEW ok \in BOOLEAN, Modes!Call(ok), faults' = 0,
         NEW p \in 0 .. 2, NEW q \in 0 .. 2,
         Moves3("vsh", "vsh.dexsp", "vsh.cexsp", p, q), Xmb(p)
  PROVE  /\ Xmb(q)' /\ OneCall
         /\ \A n \in Modes!Names : n \notin SysNames => files'[n] = files[n]
  <1>1. /\ {"vsh", "vsh.dexsp", "vsh.cexsp", "vsh.swp", "vsh.nrm", "index", "index.swp", "index.nrm",
            "version", "version.swp", "version.nrm"} \subseteq Modes!Names
        /\ {"vsh", "vsh.dexsp", "vsh.cexsp"} \subseteq SysNames
    BY DEF Modes!Names, SysNames
  <1>2. Slot("vsh", "vsh.dexsp", "vsh.cexsp", "debug", "retail", p)
    BY DEF Xmb
  <1>3. /\ Slot("vsh", "vsh.dexsp", "vsh.cexsp", "debug", "retail", q)'
        /\ \A m \in Modes!Names :
             m # "vsh" /\ m # "vsh.dexsp" /\ m # "vsh.cexsp" => files'[m] = files[m]
        /\ OneCall
    BY <1>1, <1>2, SlotCall DEF OneCall
  <1>4. Xmb(q)'
    BY <1>1, <1>3 DEF Xmb, Index, Version, Slot
  <1> QED
    BY <1>1, <1>3, <1>4

(* To the retail XMB and back. *)
XmbOffCalls(k) ==
  IF k = 2 THEN <<Modes!Ren("vsh", "vsh.dexsp"), Modes!AndRen("vsh.cexsp", "vsh")>>
  ELSE IF k = 1 THEN <<Modes!AndRen("vsh.cexsp", "vsh")>>
  ELSE <<>>
XmbOnCalls(k) ==
  IF k = 2 THEN <<Modes!Ren("vsh", "vsh.cexsp"), Modes!AndRen("vsh.dexsp", "vsh")>>
  ELSE IF k = 1 THEN <<Modes!AndRen("vsh.dexsp", "vsh")>>
  ELSE <<>>

XmbOff(k) ==
  /\ choice # Modes!None /\ job = XmbOffCalls(k) /\ Xmb(Off(k, 2)) /\ (k = 1 => chain)
  /\ MenuRest /\ CobraRest /\ WebRest /\ CfwRest

XmbOn(k) ==
  /\ choice # Modes!None /\ job = XmbOnCalls(k) /\ Xmb(On(k, 2)) /\ (k = 1 => chain)
  /\ MenuRest /\ CobraRest /\ WebRest /\ CfwRest

(* A call of each list, when nothing disturbs it: one less is left. *)
LEMMA XmbOffCall ==
  ASSUME Modes!TypeOK, NEW ok \in BOOLEAN, Modes!Call(ok), faults' = 0,
         NEW k \in 1 .. 2, XmbOff(k)
  PROVE  XmbOff(k - 1)'
  <1>1. /\ job = XmbOffCalls(k) /\ Xmb(Off(k, 2)) /\ (k = 1 => chain)
        /\ choice # Modes!None /\ MenuRest /\ CobraRest /\ WebRest /\ CfwRest
    BY DEF XmbOff
  <1>2. Tail(XmbOffCalls(k)) = XmbOffCalls(k - 1)
    BY DEF XmbOffCalls
  <1>3. Moves3("vsh", "vsh.dexsp", "vsh.cexsp", Off(k, 2), Off(k - 1, 2))
    <2>1. CASE k = 2
      <3>1. MayMove("vsh", "vsh.dexsp")
        BY <1>1, <2>1 DEF MayMove, XmbOffCalls
      <3> QED
        BY <2>1, <3>1, OffOn DEF Moves3
    <2>2. CASE k = 1
      <3>1. MayMove("vsh.cexsp", "vsh")
        BY <1>1, <2>2 DEF MayMove, XmbOffCalls
      <3> QED
        BY <2>2, <3>1, OffOn DEF Moves3
    <2> QED
      BY <2>1, <2>2
  <1>4. /\ Xmb(Off(k - 1, 2))' /\ OneCall
        /\ \A n \in Modes!Names : n \notin SysNames => files'[n] = files[n]
    BY <1>1, <1>3, OffOn, XmbCall
  <1>5. MenuRest' /\ CobraRest' /\ WebRest' /\ CfwRest'
    BY <1>1, <1>4, OthersStay DEF OneCall
  <1> QED
    BY <1>1, <1>2, <1>4, <1>5 DEF XmbOff, OneCall

LEMMA XmbOnCall ==
  ASSUME Modes!TypeOK, NEW ok \in BOOLEAN, Modes!Call(ok), faults' = 0,
         NEW k \in 1 .. 2, XmbOn(k)
  PROVE  XmbOn(k - 1)'
  <1>1. /\ job = XmbOnCalls(k) /\ Xmb(On(k, 2)) /\ (k = 1 => chain)
        /\ choice # Modes!None /\ MenuRest /\ CobraRest /\ WebRest /\ CfwRest
    BY DEF XmbOn
  <1>2. Tail(XmbOnCalls(k)) = XmbOnCalls(k - 1)
    BY DEF XmbOnCalls
  <1>3. Moves3("vsh", "vsh.dexsp", "vsh.cexsp", On(k, 2), On(k - 1, 2))
    <2>1. CASE k = 2
      <3>1. MayMove("vsh", "vsh.cexsp")
        BY <1>1, <2>1 DEF MayMove, XmbOnCalls
      <3> QED
        BY <2>1, <3>1, OffOn DEF Moves3
    <2>2. CASE k = 1
      <3>1. MayMove("vsh.dexsp", "vsh")
        BY <1>1, <2>2 DEF MayMove, XmbOnCalls
      <3> QED
        BY <2>2, <3>1, OffOn DEF Moves3
    <2> QED
      BY <2>1, <2>2
  <1>4. /\ Xmb(On(k - 1, 2))' /\ OneCall
        /\ \A n \in Modes!Names : n \notin SysNames => files'[n] = files[n]
    BY <1>1, <1>3, OffOn, XmbCall
  <1>5. MenuRest' /\ CobraRest' /\ WebRest' /\ CfwRest'
    BY <1>1, <1>4, OthersStay DEF OneCall
  <1> QED
    BY <1>1, <1>2, <1>4, <1>5 DEF XmbOn, OneCall

(* A call that the names or a failure before it forbid. *)
LEMMA BlockedCall ==
  ASSUME Modes!TypeOK, NEW ok \in BOOLEAN, Modes!Call(ok), faults' = 0,
         NEW a, NEW b, Head(job) = Modes!AndRen(a, b),
         ~chain \/ (~replaces /\ files[b] # "absent")
  PROVE  files' = files /\ chain' = FALSE
  <1> DEFINE c == Head(job)
  <1>1. c.kind = "rename" /\ c.to = b /\ c.chained = TRUE
    BY DEF Modes!AndRen
  <1>2. chain => ~Modes!Possible(files, c, replaces)
    BY <1>1 DEF Modes!Possible, Modes!Exists, Modes!Absent
  <1> QED
    BY <1>1, <1>2 DEF Modes!Call

(* To the retail XMB, where the code means to take the menu along: it is the
   CEX menu already, and the calls are in vain unless rename() replaces.      *)
XmbLongCalls(k) ==
  IF k = 4 THEN <<Modes!Ren("vsh", "vsh.dexsp"), Modes!AndRen("vsh.cexsp", "vsh"),
                  Modes!AndRen("sysconf", "sysconf.dex"),
                  Modes!AndRen("sysconf.cex", "sysconf")>>
  ELSE IF k = 3 THEN <<Modes!AndRen("vsh.cexsp", "vsh"), Modes!AndRen("sysconf", "sysconf.dex"),
                       Modes!AndRen("sysconf.cex", "sysconf")>>
  ELSE IF k = 2 THEN <<Modes!AndRen("sysconf", "sysconf.dex"),
                       Modes!AndRen("sysconf.cex", "sysconf")>>
  ELSE IF k = 1 THEN <<Modes!AndRen("sysconf.cex", "sysconf")>>
  ELSE <<>>

XmbLong(k) ==
  /\ choice # Modes!None /\ job = XmbLongCalls(k)
  /\ Xmb(Off(k, 4)) /\ Sysconf(2)
  /\ k = 3 => chain
  /\ k = 1 /\ ~replaces => ~chain
  /\ CobraRest /\ WebRest /\ CfwRest

(* A call of that list: the last two are made in vain. *)
LEMMA XmbLongCall ==
  ASSUME Modes!TypeOK, NEW ok \in BOOLEAN, Modes!Call(ok), faults' = 0,
         NEW k \in 1 .. 4, XmbLong(k)
  PROVE  XmbLong(k - 1)'
  <1>1. /\ job = XmbLongCalls(k) /\ Xmb(Off(k, 4)) /\ Sysconf(2)
        /\ k = 3 => chain
        /\ k = 1 /\ ~replaces => ~chain
        /\ choice # Modes!None /\ CobraRest /\ WebRest /\ CfwRest
    BY DEF XmbLong
  <1>2. Tail(XmbLongCalls(k)) = XmbLongCalls(k - 1)
    <2>1. CASE k \in {3, 4}
      BY <2>1 DEF XmbLongCalls
    <2>2. CASE k \in {1, 2}
      BY <2>2 DEF XmbLongCalls
    <2> QED
      BY <2>1, <2>2
  <1>3. CASE k \in {3, 4}
    <2>1. Moves3("vsh", "vsh.dexsp", "vsh.cexsp", Off(k, 4), Off(k - 1, 4))
      <3>1. CASE k = 4
        <4>1. MayMove("vsh", "vsh.dexsp")
          BY <1>1, <3>1 DEF MayMove, XmbLongCalls
        <4> QED
          BY <3>1, <4>1, OffOn DEF Moves3
      <3>2. CASE k = 3
        <4>1. MayMove("vsh.cexsp", "vsh")
          BY <1>1, <3>2 DEF MayMove, XmbLongCalls
        <4> QED
          BY <3>2, <4>1, OffOn DEF Moves3
      <3> QED
        BY <1>3, <3>1, <3>2
    <2>2. /\ Xmb(Off(k - 1, 4))' /\ OneCall
          /\ \A n \in Modes!Names : n \notin SysNames => files'[n] = files[n]
      BY <1>1, <2>1, OffOn, XmbCall
    <2>3. CobraRest' /\ WebRest' /\ CfwRest'
      BY <1>1, <2>2, OthersStay DEF OneCall
    <2>4. \A n \in MenuNames : files'[n] = files[n]
      BY <2>2, ModeNamesAre, GroupsApart
    <2>5. Sysconf(2)'
      BY <1>1, <2>2, <2>4 DEF Sysconf, Slot, MenuNames, OneCall
    <2> QED
      BY <1>1, <1>2, <1>3, <2>2, <2>3, <2>5 DEF XmbLong, OneCall
  <1>4. CASE k \in {1, 2}
    <2>1. \E a, b \in MenuNames :
             /\ Head(job) = Modes!AndRen(a, b)
             /\ k = 2 => b = "sysconf.dex"
      <3>1. CASE k = 2
        <4>1. Head(job) = Modes!AndRen("sysconf", "sysconf.dex")
          BY <1>1, <3>1 DEF XmbLongCalls
        <4> QED
          BY <4>1 DEF MenuNames
      <3>2. CASE k = 1
        <4>1. Head(job) = Modes!AndRen("sysconf.cex", "sysconf")
          BY <1>1, <3>2 DEF XmbLongCalls
        <4> QED
          BY <3>2, <4>1 DEF MenuNames
      <3> QED
        BY <1>4, <3>1, <3>2
    <2>2. PICK a \in MenuNames, b \in MenuNames :
             /\ Head(job) = Modes!AndRen(a, b)
             /\ k = 2 => b = "sysconf.dex"
      BY <2>1
    <2>3. ASSUME ~replaces PROVE files' = files /\ chain' = FALSE
      <3>1. k = 2 => files[b] # "absent"
        BY <1>1, <2>2, <2>3 DEF Sysconf, Slot
      <3> QED
        BY <1>1, <1>4, <2>2, <2>3, <3>1, BlockedCall
    <2>4. /\ \A n \in Modes!Names : n \notin MenuNames => files'[n] = files[n]
          /\ job' = Tail(job) /\ UNCHANGED <<mode, choice, phase, replaces, choices>>
      <3>1. a \in Modes!Names /\ b \in Modes!Names /\ DOMAIN files = Modes!Names
        BY ModeNamesAre DEF Modes!TypeOK
      <3>2. /\ \A n \in Modes!Names : n # a /\ n # b => files'[n] = files[n]
            /\ job' = Tail(job) /\ UNCHANGED <<mode, choice, phase, replaces, choices>>
        BY <2>2, <3>1, AnyCall
      <3> QED
        BY <3>2
    <2>5. CobraRest' /\ WebRest' /\ CfwRest'
      BY <1>1, <2>4, OthersStay
    <2>6. \A n \in SysNames : files'[n] = files[n]
      BY <2>4, ModeNamesAre, GroupsApart
    <2>7. Xmb(Off(k - 1, 4))'
      <3>1. Off(k, 4) = 2 /\ Off(k - 1, 4) = 2
        BY <1>4, OffOn
      <3> QED
        BY <1>1, <2>6, <3>1 DEF Xmb, Index, Version, Slot, SysNames
    <2>8. Sysconf(2)'
      BY <1>1, <2>3, <2>4 DEF Sysconf, Slot
    <2>9. k - 1 # 3
      BY <1>4
    <2>10. replaces' = replaces
      BY <2>4
    <2>11. ~replaces' => ~chain'
      BY <2>3, <2>10, Zenon
    <2> QED
      BY <1>1, <1>2, <2>4, <2>5, <2>7, <2>8, <2>9, <2>11 DEF XmbLong
  <1> QED
    BY <1>3, <1>4

(* The menu alone. *)
MenuOffCalls(k) ==
  IF k = 2 THEN <<Modes!Ren("sysconf", "sysconf.dex"), Modes!AndRen("sysconf.cex", "sysconf")>>
  ELSE IF k = 1 THEN <<Modes!AndRen("sysconf.cex", "sysconf")>>
  ELSE <<>>
MenuOnCalls(k) ==
  IF k = 2 THEN <<Modes!Ren("sysconf", "sysconf.cex"), Modes!AndRen("sysconf.dex", "sysconf")>>
  ELSE IF k = 1 THEN <<Modes!AndRen("sysconf.dex", "sysconf")>>
  ELSE <<>>

MenuOff(k) ==
  /\ choice # Modes!None /\ job = MenuOffCalls(k)
  /\ Sysconf(Off(k, 2)) /\ (k = 1 /\ ~replaces => chain)
  /\ SysRest /\ CobraRest /\ WebRest /\ CfwRest

MenuOn(k) ==
  /\ choice # Modes!None /\ job = MenuOnCalls(k)
  /\ Sysconf(On(k, 2)) /\ (k = 1 /\ ~replaces => chain)
  /\ SysRest /\ CobraRest /\ WebRest /\ CfwRest

(* A call of each list, when nothing disturbs it: one less is left. *)
LEMMA MenuOffCall ==
  ASSUME Modes!TypeOK, NEW ok \in BOOLEAN, Modes!Call(ok), faults' = 0,
         NEW k \in 1 .. 2, MenuOff(k)
  PROVE  MenuOff(k - 1)'
  <1>1. /\ job = MenuOffCalls(k) /\ Sysconf(Off(k, 2)) /\ (k = 1 /\ ~replaces => chain)
        /\ choice # Modes!None /\ SysRest /\ CobraRest /\ WebRest /\ CfwRest
    BY DEF MenuOff
  <1>2. Tail(MenuOffCalls(k)) = MenuOffCalls(k - 1)
    BY DEF MenuOffCalls
  <1>3. \E a, b \in MenuNames :
          /\ Head(job) = Modes!Ren(a, b) \/ Head(job) = Modes!AndRen(a, b)
          /\ ~replaces => Moves3("sysconf", "sysconf.dex", "sysconf.cex", Off(k, 2), Off(k - 1, 2))
    <2>1. CASE k = 2
      <3>1. Head(job) = Modes!Ren("sysconf", "sysconf.dex")
        BY <1>1, <2>1 DEF MenuOffCalls
      <3>2. Moves3("sysconf", "sysconf.dex", "sysconf.cex", Off(k, 2), Off(k - 1, 2))
        BY <2>1, <3>1, OffOn DEF Moves3, MayMove
      <3> QED
        BY <3>1, <3>2 DEF MenuNames
    <2>2. CASE k = 1
      <3>1. Head(job) = Modes!AndRen("sysconf.cex", "sysconf")
        BY <1>1, <2>2 DEF MenuOffCalls
      <3>2. ~replaces => Moves3("sysconf", "sysconf.dex", "sysconf.cex", Off(k, 2), Off(k - 1, 2))
        BY <1>1, <2>2, <3>1, OffOn DEF Moves3, MayMove
      <3> QED
        BY <3>1, <3>2 DEF MenuNames
    <2> QED
      BY <2>1, <2>2
  <1>4. /\ Sysconf(Off(k - 1, 2))' /\ (~replaces => chain')
        /\ \A n \in Modes!Names : n \notin MenuNames => files'[n] = files[n]
        /\ job' = Tail(job) /\ UNCHANGED <<mode, choice, phase, replaces, choices>>
    <2>1. PICK a \in MenuNames, b \in MenuNames :
            /\ Head(job) = Modes!Ren(a, b) \/ Head(job) = Modes!AndRen(a, b)
            /\ ~replaces => Moves3("sysconf", "sysconf.dex", "sysconf.cex", Off(k, 2), Off(k - 1, 2))
      BY <1>3
    <2>2. Off(k, 2) \in 0 .. 2 /\ Off(k - 1, 2) \in 0 .. 2
      BY OffOn
    <2> QED
      BY <1>1, <2>1, <2>2, SysconfCall
  <1>5. SysRest' /\ CobraRest' /\ WebRest' /\ CfwRest'
    BY <1>1, <1>4, OthersStay
  <1> QED
    BY <1>1, <1>2, <1>4, <1>5 DEF MenuOff

LEMMA MenuOnCall ==
  ASSUME Modes!TypeOK, NEW ok \in BOOLEAN, Modes!Call(ok), faults' = 0,
         NEW k \in 1 .. 2, MenuOn(k)
  PROVE  MenuOn(k - 1)'
  <1>1. /\ job = MenuOnCalls(k) /\ Sysconf(On(k, 2)) /\ (k = 1 /\ ~replaces => chain)
        /\ choice # Modes!None /\ SysRest /\ CobraRest /\ WebRest /\ CfwRest
    BY DEF MenuOn
  <1>2. Tail(MenuOnCalls(k)) = MenuOnCalls(k - 1)
    BY DEF MenuOnCalls
  <1>3. \E a, b \in MenuNames :
          /\ Head(job) = Modes!Ren(a, b) \/ Head(job) = Modes!AndRen(a, b)
          /\ ~replaces => Moves3("sysconf", "sysconf.dex", "sysconf.cex", On(k, 2), On(k - 1, 2))
    <2>1. CASE k = 2
      <3>1. Head(job) = Modes!Ren("sysconf", "sysconf.cex")
        BY <1>1, <2>1 DEF MenuOnCalls
      <3>2. Moves3("sysconf", "sysconf.dex", "sysconf.cex", On(k, 2), On(k - 1, 2))
        BY <2>1, <3>1, OffOn DEF Moves3, MayMove
      <3> QED
        BY <3>1, <3>2 DEF MenuNames
    <2>2. CASE k = 1
      <3>1. Head(job) = Modes!AndRen("sysconf.dex", "sysconf")
        BY <1>1, <2>2 DEF MenuOnCalls
      <3>2. ~replaces => Moves3("sysconf", "sysconf.dex", "sysconf.cex", On(k, 2), On(k - 1, 2))
        BY <1>1, <2>2, <3>1, OffOn DEF Moves3, MayMove
      <3> QED
        BY <3>1, <3>2 DEF MenuNames
    <2> QED
      BY <2>1, <2>2
  <1>4. /\ Sysconf(On(k - 1, 2))' /\ (~replaces => chain')
        /\ \A n \in Modes!Names : n \notin MenuNames => files'[n] = files[n]
        /\ job' = Tail(job) /\ UNCHANGED <<mode, choice, phase, replaces, choices>>
    <2>1. PICK a \in MenuNames, b \in MenuNames :
            /\ Head(job) = Modes!Ren(a, b) \/ Head(job) = Modes!AndRen(a, b)
            /\ ~replaces => Moves3("sysconf", "sysconf.dex", "sysconf.cex", On(k, 2), On(k - 1, 2))
      BY <1>3
    <2>2. On(k, 2) \in 0 .. 2 /\ On(k - 1, 2) \in 0 .. 2
      BY OffOn
    <2> QED
      BY <1>1, <2>1, <2>2, SysconfCall
  <1>5. SysRest' /\ CobraRest' /\ WebRest' /\ CfwRest'
    BY <1>1, <1>4, OthersStay
  <1> QED
    BY <1>1, <1>2, <1>4, <1>5 DEF MenuOn

(* The same for a file of two names, which is renamed with h calls left. *)
Gone(k, h) == IF k >= h THEN 0 ELSE 2
Back(k, h) == IF k >= h THEN 2 ELSE 0

LEMMA GoneBack ==
  ASSUME NEW k \in Int, NEW h \in Int
  PROVE  /\ k >= h => Gone(k, h) = 0 /\ Back(k, h) = 2
         /\ k < h => Gone(k, h) = 2 /\ Back(k, h) = 0
         /\ Gone(k, h) \in 0 .. 2 /\ Back(k, h) \in 0 .. 2
  BY DEF Gone, Back

Moves2(a, b, p, q) == (p = 0 /\ q = 2 /\ MayMove(a, b)) \/ (p = 2 /\ q = 0 /\ MayMove(b, a))

(* A call on the files of COBRA. *)
LEMMA CobraFilesCall ==
  ASSUME Modes!TypeOK, NEW ok \in BOOLEAN, Modes!Call(ok), faults' = 0,
         NEW p \in 0 .. 2, NEW q \in 0 .. 2, NEW p2 \in 0 .. 2, NEW q2 \in 0 .. 2, Cobra2(p, q),
         \/ Moves2("stage2.cex", "stage2.cex.bak", p, p2) /\ q2 = q
         \/ Moves2("stage2.dex", "stage2.dex.bak", q, q2) /\ p2 = p
  PROVE  /\ Cobra2(p2, q2)' /\ OneCall
         /\ \A n \in Modes!Names : n \notin CobraNames => files'[n] = files[n]
  <1>1. /\ {"stage2.cex", "stage2.cex.bak", "stage2.dex", "stage2.dex.bak"} \subseteq Modes!Names
        /\ {"stage2.cex", "stage2.cex.bak", "stage2.dex", "stage2.dex.bak"} \subseteq CobraNames
    BY DEF Modes!Names, CobraNames
  <1>2. /\ Two("stage2.cex", "stage2.cex.bak", p)
        /\ Two("stage2.dex", "stage2.dex.bak", q)
    BY DEF Cobra2
  <1>3. CASE Moves2("stage2.cex", "stage2.cex.bak", p, p2) /\ q2 = q
    <2>1. /\ Two("stage2.cex", "stage2.cex.bak", p2)'
          /\ \A m \in Modes!Names : m # "stage2.cex" /\ m # "stage2.cex.bak" => files'[m] = files[m]
          /\ OneCall
      BY <1>1, <1>2, <1>3, TwoCall DEF OneCall, Moves2
    <2>2. Two("stage2.dex", "stage2.dex.bak", q2)'
      BY <1>1, <1>2, <1>3, <2>1 DEF Two
    <2> QED
      BY <1>1, <2>1, <2>2 DEF Cobra2
  <1>4. CASE Moves2("stage2.dex", "stage2.dex.bak", q, q2) /\ p2 = p
    <2>1. /\ Two("stage2.dex", "stage2.dex.bak", q2)'
          /\ \A m \in Modes!Names : m # "stage2.dex" /\ m # "stage2.dex.bak" => files'[m] = files[m]
          /\ OneCall
      BY <1>1, <1>2, <1>4, TwoCall DEF OneCall, Moves2
    <2>2. Two("stage2.cex", "stage2.cex.bak", p2)'
      BY <1>1, <1>2, <1>4, <2>1 DEF Two
    <2> QED
      BY <1>1, <2>1, <2>2 DEF Cobra2
  <1> QED
    BY <1>3, <1>4

(* A call on the files of the custom firmware's plug-ins. *)
LEMMA CfwFilesCall ==
  ASSUME Modes!TypeOK, NEW ok \in BOOLEAN, Modes!Call(ok), faults' = 0,
         NEW a \in 0 .. 2, NEW b \in 0 .. 2, NEW p \in 0 .. 2, NEW q \in 0 .. 2,
         NEW a2 \in 0 .. 2, NEW b2 \in 0 .. 2, NEW p2 \in 0 .. 2, NEW q2 \in 0 .. 2,
         Cfw(a, b, p, q),
         \/ Moves2("xai", "xai.bak", a, a2) /\ b2 = b /\ p2 = p /\ q2 = q
         \/ Moves2("rco", "rco.bak", b, b2) /\ a2 = a /\ p2 = p /\ q2 = q
         \/ Moves3("net", "net.cfw", "net.org", p, p2) /\ a2 = a /\ b2 = b /\ q2 = q
         \/ Moves3("tool2", "tool2.cfw", "tool2.org", q, q2) /\ a2 = a /\ b2 = b /\ p2 = p
  PROVE  /\ Cfw(a2, b2, p2, q2)' /\ OneCall
         /\ \A n \in Modes!Names : n \notin CfwNames => files'[n] = files[n]
  <1>1. /\ {"xai", "xai.bak", "rco", "rco.bak", "net", "net.org", "net.cfw",
            "tool2", "tool2.org", "tool2.cfw"} \subseteq Modes!Names
        /\ {"xai", "xai.bak", "rco", "rco.bak", "net", "net.org", "net.cfw",
            "tool2", "tool2.org", "tool2.cfw"} \subseteq CfwNames
    BY DEF Modes!Names, CfwNames
  <1>2. /\ Two("xai", "xai.bak", a) /\ Two("rco", "rco.bak", b)
        /\ Slot("net", "net.cfw", "net.org", "cfw", "org", p)
        /\ Slot("tool2", "tool2.cfw", "tool2.org", "cfw", "org", q)
    BY DEF Cfw, Net, Tool2
  <1>3. CASE Moves2("xai", "xai.bak", a, a2) /\ b2 = b /\ p2 = p /\ q2 = q
    <2>1. /\ Two("xai", "xai.bak", a2)'
          /\ \A m \in Modes!Names : m # "xai" /\ m # "xai.bak" => files'[m] = files[m]
          /\ OneCall
      <3>1. Moves2("xai", "xai.bak", a, a2)
        BY <1>3
      <3>2. "xai" \in Modes!Names /\ "xai.bak" \in Modes!Names
        BY <1>1
      <3> QED
        BY <1>2, <3>1, <3>2, TwoCall DEF OneCall, Moves2
    <2>2. Two("rco", "rco.bak", b2)'
      BY <1>1, <1>2, <1>3, <2>1 DEF Two
    <2>3. Slot("net", "net.cfw", "net.org", "cfw", "org", p2)'
      BY <1>1, <1>2, <1>3, <2>1 DEF Slot
    <2>4. Slot("tool2", "tool2.cfw", "tool2.org", "cfw", "org", q2)'
      BY <1>1, <1>2, <1>3, <2>1 DEF Slot
    <2> QED
      BY <1>1, <2>1, <2>2, <2>3, <2>4 DEF Cfw, Net, Tool2
  <1>4. CASE Moves2("rco", "rco.bak", b, b2) /\ a2 = a /\ p2 = p /\ q2 = q
    <2>1. /\ Two("rco", "rco.bak", b2)'
          /\ \A m \in Modes!Names : m # "rco" /\ m # "rco.bak" => files'[m] = files[m]
          /\ OneCall
      <3>1. Moves2("rco", "rco.bak", b, b2)
        BY <1>4
      <3>2. "rco" \in Modes!Names /\ "rco.bak" \in Modes!Names
        BY <1>1
      <3> QED
        BY <1>2, <3>1, <3>2, TwoCall DEF OneCall, Moves2
    <2>2. Two("xai", "xai.bak", a2)'
      BY <1>1, <1>2, <1>4, <2>1 DEF Two
    <2>3. Slot("net", "net.cfw", "net.org", "cfw", "org", p2)'
      BY <1>1, <1>2, <1>4, <2>1 DEF Slot
    <2>4. Slot("tool2", "tool2.cfw", "tool2.org", "cfw", "org", q2)'
      BY <1>1, <1>2, <1>4, <2>1 DEF Slot
    <2> QED
      BY <1>1, <2>1, <2>2, <2>3, <2>4 DEF Cfw, Net, Tool2
  <1>5. CASE Moves3("net", "net.cfw", "net.org", p, p2) /\ a2 = a /\ b2 = b /\ q2 = q
    <2>1. /\ Slot("net", "net.cfw", "net.org", "cfw", "org", p2)'
          /\ \A m \in Modes!Names : m # "net" /\ m # "net.cfw" /\ m # "net.org" => files'[m] = files[m]
          /\ OneCall
      <3>1. Moves3("net", "net.cfw", "net.org", p, p2)
        BY <1>5
      <3>2. "net" \in Modes!Names /\ "net.cfw" \in Modes!Names /\ "net.org" \in Modes!Names
        BY <1>1
      <3> QED
        BY <1>2, <3>1, <3>2, SlotCall DEF OneCall
    <2>2. Two("xai", "xai.bak", a2)'
      BY <1>1, <1>2, <1>5, <2>1 DEF Two
    <2>3. Two("rco", "rco.bak", b2)'
      BY <1>1, <1>2, <1>5, <2>1 DEF Two
    <2>4. Slot("tool2", "tool2.cfw", "tool2.org", "cfw", "org", q2)'
      BY <1>1, <1>2, <1>5, <2>1 DEF Slot
    <2> QED
      BY <1>1, <2>1, <2>2, <2>3, <2>4 DEF Cfw, Net, Tool2
  <1>6. CASE Moves3("tool2", "tool2.cfw", "tool2.org", q, q2) /\ a2 = a /\ b2 = b /\ p2 = p
    <2>1. /\ Slot("tool2", "tool2.cfw", "tool2.org", "cfw", "org", q2)'
          /\ \A m \in Modes!Names : m # "tool2" /\ m # "tool2.cfw" /\ m # "tool2.org" => files'[m] = files[m]
          /\ OneCall
      <3>1. Moves3("tool2", "tool2.cfw", "tool2.org", q, q2)
        BY <1>6
      <3>2. "tool2" \in Modes!Names /\ "tool2.cfw" \in Modes!Names /\ "tool2.org" \in Modes!Names
        BY <1>1
      <3> QED
        BY <1>2, <3>1, <3>2, SlotCall DEF OneCall
    <2>2. Two("xai", "xai.bak", a2)'
      BY <1>1, <1>2, <1>6, <2>1 DEF Two
    <2>3. Two("rco", "rco.bak", b2)'
      BY <1>1, <1>2, <1>6, <2>1 DEF Two
    <2>4. Slot("net", "net.cfw", "net.org", "cfw", "org", p2)'
      BY <1>1, <1>2, <1>6, <2>1 DEF Slot
    <2> QED
      BY <1>1, <2>1, <2>2, <2>3, <2>4 DEF Cfw, Net, Tool2
  <1> QED
    BY <1>3, <1>4, <1>5, <1>6

(* COBRA off and on. *)
CobraOffCalls(k) ==
  IF k = 2 THEN <<Modes!Ren("stage2.cex", "stage2.cex.bak"),
                  Modes!Ren("stage2.dex", "stage2.dex.bak")>>
  ELSE IF k = 1 THEN <<Modes!Ren("stage2.dex", "stage2.dex.bak")>>
  ELSE <<>>

CobraOff(k) ==
  /\ choice # Modes!None /\ job = CobraOffCalls(k) /\ Cobra2(Gone(k, 2), Gone(k, 1))
  /\ SysRest /\ MenuRest /\ WebRest /\ CfwRest

CobraOnCalls(k) ==
  IF k = 2 THEN <<Modes!Ren("stage2.cex.bak", "stage2.cex"),
                  Modes!Ren("stage2.dex.bak", "stage2.dex")>>
  ELSE IF k = 1 THEN <<Modes!Ren("stage2.dex.bak", "stage2.dex")>>
  ELSE <<>>

CobraOn(k) ==
  /\ choice # Modes!None /\ job = CobraOnCalls(k) /\ Cobra2(Back(k, 2), Back(k, 1))
  /\ SysRest /\ MenuRest /\ WebRest /\ CfwRest

(* A call of each list, when nothing disturbs it: one less is left. *)
LEMMA CobraOffCall ==
  ASSUME Modes!TypeOK, NEW ok \in BOOLEAN, Modes!Call(ok), faults' = 0,
         NEW k \in 1 .. 2, CobraOff(k)
  PROVE  CobraOff(k - 1)'
  <1>1. /\ job = CobraOffCalls(k) /\ Cobra2(Gone(k, 2), Gone(k, 1)) /\ choice # Modes!None
        /\ SysRest /\ MenuRest /\ WebRest /\ CfwRest
    BY DEF CobraOff
  <1>2. Tail(CobraOffCalls(k)) = CobraOffCalls(k - 1)
    BY DEF CobraOffCalls
  <1>3. \/ /\ Moves2("stage2.cex", "stage2.cex.bak", Gone(k, 2), Gone(k - 1, 2))
           /\ Gone(k - 1, 1) = Gone(k, 1)
        \/ /\ Moves2("stage2.dex", "stage2.dex.bak", Gone(k, 1), Gone(k - 1, 1))
           /\ Gone(k - 1, 2) = Gone(k, 2)
    <2>1. CASE k = 2
      <3>1. MayMove("stage2.cex", "stage2.cex.bak")
        BY <1>1, <2>1 DEF MayMove, CobraOffCalls
      <3> QED
        BY <2>1, <3>1, GoneBack DEF Moves2
    <2>2. CASE k = 1
      <3>1. MayMove("stage2.dex", "stage2.dex.bak")
        BY <1>1, <2>2 DEF MayMove, CobraOffCalls
      <3> QED
        BY <2>2, <3>1, GoneBack DEF Moves2
    <2> QED
      BY <2>1, <2>2
  <1>4. /\ Cobra2(Gone(k - 1, 2), Gone(k - 1, 1))' /\ OneCall
        /\ \A n \in Modes!Names : n \notin CobraNames => files'[n] = files[n]
    BY <1>1, <1>3, GoneBack, CobraFilesCall
  <1>5. SysRest' /\ MenuRest' /\ WebRest' /\ CfwRest'
    BY <1>1, <1>4, OthersStay DEF OneCall
  <1> QED
    BY <1>1, <1>2, <1>4, <1>5 DEF CobraOff, OneCall

LEMMA CobraOnCall ==
  ASSUME Modes!TypeOK, NEW ok \in BOOLEAN, Modes!Call(ok), faults' = 0,
         NEW k \in 1 .. 2, CobraOn(k)
  PROVE  CobraOn(k - 1)'
  <1>1. /\ job = CobraOnCalls(k) /\ Cobra2(Back(k, 2), Back(k, 1)) /\ choice # Modes!None
        /\ SysRest /\ MenuRest /\ WebRest /\ CfwRest
    BY DEF CobraOn
  <1>2. Tail(CobraOnCalls(k)) = CobraOnCalls(k - 1)
    BY DEF CobraOnCalls
  <1>3. \/ /\ Moves2("stage2.cex", "stage2.cex.bak", Back(k, 2), Back(k - 1, 2))
           /\ Back(k - 1, 1) = Back(k, 1)
        \/ /\ Moves2("stage2.dex", "stage2.dex.bak", Back(k, 1), Back(k - 1, 1))
           /\ Back(k - 1, 2) = Back(k, 2)
    <2>1. CASE k = 2
      <3>1. MayMove("stage2.cex.bak", "stage2.cex")
        BY <1>1, <2>1 DEF MayMove, CobraOnCalls
      <3> QED
        BY <2>1, <3>1, GoneBack DEF Moves2
    <2>2. CASE k = 1
      <3>1. MayMove("stage2.dex.bak", "stage2.dex")
        BY <1>1, <2>2 DEF MayMove, CobraOnCalls
      <3> QED
        BY <2>2, <3>1, GoneBack DEF Moves2
    <2> QED
      BY <2>1, <2>2
  <1>4. /\ Cobra2(Back(k - 1, 2), Back(k - 1, 1))' /\ OneCall
        /\ \A n \in Modes!Names : n \notin CobraNames => files'[n] = files[n]
    BY <1>1, <1>3, GoneBack, CobraFilesCall
  <1>5. SysRest' /\ MenuRest' /\ WebRest' /\ CfwRest'
    BY <1>1, <1>4, OthersStay DEF OneCall
  <1> QED
    BY <1>1, <1>2, <1>4, <1>5 DEF CobraOn, OneCall

(* The plug-in webMAN off and on. *)
WebOffCalls(k) ==
  IF k = 1 THEN <<Modes!Ren("webftp", "webftp.bak")>>
  ELSE <<>>

WebOff(k) ==
  /\ choice # Modes!None /\ job = WebOffCalls(k) /\ Web(Gone(k, 1))
  /\ SysRest /\ MenuRest /\ CobraRest /\ CfwRest

WebOnCalls(k) ==
  IF k = 1 THEN <<Modes!Ren("webftp.bak", "webftp")>>
  ELSE <<>>

WebOn(k) ==
  /\ choice # Modes!None /\ job = WebOnCalls(k) /\ Web(Back(k, 1))
  /\ SysRest /\ MenuRest /\ CobraRest /\ CfwRest

(* A call of each list, when nothing disturbs it. *)
LEMMA WebOffCall ==
  ASSUME Modes!TypeOK, NEW ok \in BOOLEAN, Modes!Call(ok), faults' = 0, WebOff(1)
  PROVE  WebOff(0)'
  <1>1. /\ job = WebOffCalls(1) /\ Web(Gone(1, 1)) /\ choice # Modes!None
        /\ SysRest /\ MenuRest /\ CobraRest /\ CfwRest
    BY DEF WebOff
  <1>2. Tail(WebOffCalls(1)) = WebOffCalls(0)
    BY DEF WebOffCalls
  <1>3. Moves2("webftp", "webftp.bak", Gone(1, 1), Gone(0, 1))
    <2>1. MayMove("webftp", "webftp.bak")
      BY <1>1 DEF MayMove, WebOffCalls
    <2> QED
      BY <2>1, GoneBack DEF Moves2
  <1>4. "webftp" \in Modes!Names /\ "webftp.bak" \in Modes!Names
        /\ "webftp" \in WebNames /\ "webftp.bak" \in WebNames
    BY DEF Modes!Names, WebNames
  <1>5. Gone(1, 1) \in 0 .. 2 /\ Gone(0, 1) \in 0 .. 2
    BY GoneBack
  <1>6. Two("webftp", "webftp.bak", Gone(1, 1))
    BY <1>1 DEF Web
  <1>7. /\ Two("webftp", "webftp.bak", Gone(0, 1))' /\ OneCall
        /\ \A m \in Modes!Names : m # "webftp" /\ m # "webftp.bak" => files'[m] = files[m]
    BY <1>3, <1>4, <1>5, <1>6, TwoCall DEF OneCall, Moves2
  <1>8. SysRest' /\ MenuRest' /\ CobraRest' /\ CfwRest'
    BY <1>1, <1>4, <1>7, OthersStay DEF OneCall
  <1> QED
    BY <1>1, <1>2, <1>7, <1>8 DEF WebOff, OneCall, Web

LEMMA WebOnCall ==
  ASSUME Modes!TypeOK, NEW ok \in BOOLEAN, Modes!Call(ok), faults' = 0, WebOn(1)
  PROVE  WebOn(0)'
  <1>1. /\ job = WebOnCalls(1) /\ Web(Back(1, 1)) /\ choice # Modes!None
        /\ SysRest /\ MenuRest /\ CobraRest /\ CfwRest
    BY DEF WebOn
  <1>2. Tail(WebOnCalls(1)) = WebOnCalls(0)
    BY DEF WebOnCalls
  <1>3. Moves2("webftp", "webftp.bak", Back(1, 1), Back(0, 1))
    <2>1. MayMove("webftp.bak", "webftp")
      BY <1>1 DEF MayMove, WebOnCalls
    <2> QED
      BY <2>1, GoneBack DEF Moves2
  <1>4. "webftp" \in Modes!Names /\ "webftp.bak" \in Modes!Names
        /\ "webftp" \in WebNames /\ "webftp.bak" \in WebNames
    BY DEF Modes!Names, WebNames
  <1>5. Back(1, 1) \in 0 .. 2 /\ Back(0, 1) \in 0 .. 2
    BY GoneBack
  <1>6. Two("webftp", "webftp.bak", Back(1, 1))
    BY <1>1 DEF Web
  <1>7. /\ Two("webftp", "webftp.bak", Back(0, 1))' /\ OneCall
        /\ \A m \in Modes!Names : m # "webftp" /\ m # "webftp.bak" => files'[m] = files[m]
    BY <1>3, <1>4, <1>5, <1>6, TwoCall DEF OneCall, Moves2
  <1>8. SysRest' /\ MenuRest' /\ CobraRest' /\ CfwRest'
    BY <1>1, <1>4, <1>7, OthersStay DEF OneCall
  <1> QED
    BY <1>1, <1>2, <1>7, <1>8 DEF WebOn, OneCall, Web

(* The plug-ins of the custom firmware off and on. *)
CfwOffCalls(k) ==
  IF k = 6 THEN <<Modes!Ren("xai", "xai.bak"), Modes!Ren("rco", "rco.bak"),
                  Modes!Ren("net", "net.cfw"), Modes!Ren("net.org", "net"),
                  Modes!Ren("tool2", "tool2.cfw"), Modes!Ren("tool2.org", "tool2")>>
  ELSE IF k = 5 THEN <<Modes!Ren("rco", "rco.bak"), Modes!Ren("net", "net.cfw"),
                       Modes!Ren("net.org", "net"), Modes!Ren("tool2", "tool2.cfw"),
                       Modes!Ren("tool2.org", "tool2")>>
  ELSE IF k = 4 THEN <<Modes!Ren("net", "net.cfw"), Modes!Ren("net.org", "net"),
                       Modes!Ren("tool2", "tool2.cfw"), Modes!Ren("tool2.org", "tool2")>>
  ELSE IF k = 3 THEN <<Modes!Ren("net.org", "net"), Modes!Ren("tool2", "tool2.cfw"),
                       Modes!Ren("tool2.org", "tool2")>>
  ELSE IF k = 2 THEN <<Modes!Ren("tool2", "tool2.cfw"), Modes!Ren("tool2.org", "tool2")>>
  ELSE IF k = 1 THEN <<Modes!Ren("tool2.org", "tool2")>>
  ELSE <<>>

CfwOff(k) ==
  /\ choice # Modes!None /\ job = CfwOffCalls(k) /\ Cfw(Gone(k, 6), Gone(k, 5), Off(k, 4), Off(k, 2))
  /\ SysRest /\ MenuRest /\ CobraRest /\ WebRest

CfwOnCalls(k) ==
  IF k = 6 THEN <<Modes!Ren("xai.bak", "xai"), Modes!Ren("rco.bak", "rco"),
                  Modes!Ren("net", "net.org"), Modes!Ren("net.cfw", "net"),
                  Modes!Ren("tool2", "tool2.org"), Modes!Ren("tool2.cfw", "tool2")>>
  ELSE IF k = 5 THEN <<Modes!Ren("rco.bak", "rco"), Modes!Ren("net", "net.org"),
                       Modes!Ren("net.cfw", "net"), Modes!Ren("tool2", "tool2.org"),
                       Modes!Ren("tool2.cfw", "tool2")>>
  ELSE IF k = 4 THEN <<Modes!Ren("net", "net.org"), Modes!Ren("net.cfw", "net"),
                       Modes!Ren("tool2", "tool2.org"), Modes!Ren("tool2.cfw", "tool2")>>
  ELSE IF k = 3 THEN <<Modes!Ren("net.cfw", "net"), Modes!Ren("tool2", "tool2.org"),
                       Modes!Ren("tool2.cfw", "tool2")>>
  ELSE IF k = 2 THEN <<Modes!Ren("tool2", "tool2.org"), Modes!Ren("tool2.cfw", "tool2")>>
  ELSE IF k = 1 THEN <<Modes!Ren("tool2.cfw", "tool2")>>
  ELSE <<>>

CfwOn(k) ==
  /\ choice # Modes!None /\ job = CfwOnCalls(k) /\ Cfw(Back(k, 6), Back(k, 5), On(k, 4), On(k, 2))
  /\ SysRest /\ MenuRest /\ CobraRest /\ WebRest

(* A call of each list, when nothing disturbs it: one less is left. *)
LEMMA CfwOffCall ==
  ASSUME Modes!TypeOK, NEW ok \in BOOLEAN, Modes!Call(ok), faults' = 0,
         NEW k \in 1 .. 6, CfwOff(k)
  PROVE  CfwOff(k - 1)'
  <1>1. /\ job = CfwOffCalls(k) /\ Cfw(Gone(k, 6), Gone(k, 5), Off(k, 4), Off(k, 2))
        /\ choice # Modes!None /\ SysRest /\ MenuRest /\ CobraRest /\ WebRest
    BY DEF CfwOff
  <1>2. Tail(CfwOffCalls(k)) = CfwOffCalls(k - 1)
    <2>1. CASE k \in {5, 6}
      BY <2>1 DEF CfwOffCalls
    <2>2. CASE k \in {3, 4}
      BY <2>2 DEF CfwOffCalls
    <2>3. CASE k \in {1, 2}
      BY <2>3 DEF CfwOffCalls
    <2> QED
      BY <2>1, <2>2, <2>3
  <1>3. \/ /\ Moves2("xai", "xai.bak", Gone(k, 6), Gone(k - 1, 6))
           /\ Gone(k - 1, 5) = Gone(k, 5) /\ Off(k - 1, 4) = Off(k, 4) /\ Off(k - 1, 2) = Off(k, 2)
        \/ /\ Moves2("rco", "rco.bak", Gone(k, 5), Gone(k - 1, 5))
           /\ Gone(k - 1, 6) = Gone(k, 6) /\ Off(k - 1, 4) = Off(k, 4) /\ Off(k - 1, 2) = Off(k, 2)
        \/ /\ Moves3("net", "net.cfw", "net.org", Off(k, 4), Off(k - 1, 4))
           /\ Gone(k - 1, 6) = Gone(k, 6) /\ Gone(k - 1, 5) = Gone(k, 5) /\ Off(k - 1, 2) = Off(k, 2)
        \/ /\ Moves3("tool2", "tool2.cfw", "tool2.org", Off(k, 2), Off(k - 1, 2))
           /\ Gone(k - 1, 6) = Gone(k, 6) /\ Gone(k - 1, 5) = Gone(k, 5) /\ Off(k - 1, 4) = Off(k, 4)
    <2>1. CASE k = 6
      <3>1. MayMove("xai", "xai.bak")
        BY <1>1, <2>1 DEF MayMove, CfwOffCalls
      <3> QED
        BY <2>1, <3>1, OffOn, GoneBack DEF Moves2, Moves3
    <2>2. CASE k = 5
      <3>1. MayMove("rco", "rco.bak")
        BY <1>1, <2>2 DEF MayMove, CfwOffCalls
      <3> QED
        BY <2>2, <3>1, OffOn, GoneBack DEF Moves2, Moves3
    <2>3. CASE k = 4
      <3>1. MayMove("net", "net.cfw")
        BY <1>1, <2>3 DEF MayMove, CfwOffCalls
      <3> QED
        BY <2>3, <3>1, OffOn, GoneBack DEF Moves2, Moves3
    <2>4. CASE k = 3
      <3>1. MayMove("net.org", "net")
        BY <1>1, <2>4 DEF MayMove, CfwOffCalls
      <3> QED
        BY <2>4, <3>1, OffOn, GoneBack DEF Moves2, Moves3
    <2>5. CASE k = 2
      <3>1. MayMove("tool2", "tool2.cfw")
        BY <1>1, <2>5 DEF MayMove, CfwOffCalls
      <3> QED
        BY <2>5, <3>1, OffOn, GoneBack DEF Moves2, Moves3
    <2>6. CASE k = 1
      <3>1. MayMove("tool2.org", "tool2")
        BY <1>1, <2>6 DEF MayMove, CfwOffCalls
      <3> QED
        BY <2>6, <3>1, OffOn, GoneBack DEF Moves2, Moves3
    <2> QED
      BY <2>1, <2>2, <2>3, <2>4, <2>5, <2>6
  <1>4. /\ Cfw(Gone(k - 1, 6), Gone(k - 1, 5), Off(k - 1, 4), Off(k - 1, 2))' /\ OneCall
        /\ \A n \in Modes!Names : n \notin CfwNames => files'[n] = files[n]
    <2>1. /\ Gone(k, 6) \in 0 .. 2 /\ Gone(k - 1, 6) \in 0 .. 2
          /\ Gone(k, 5) \in 0 .. 2 /\ Gone(k - 1, 5) \in 0 .. 2
          /\ Off(k, 4) \in 0 .. 2 /\ Off(k - 1, 4) \in 0 .. 2
          /\ Off(k, 2) \in 0 .. 2 /\ Off(k - 1, 2) \in 0 .. 2
      BY OffOn, GoneBack
    <2> QED
      BY <1>1, <1>3, <2>1, CfwFilesCall
  <1>5. SysRest' /\ MenuRest' /\ CobraRest' /\ WebRest'
    BY <1>1, <1>4, OthersStay DEF OneCall
  <1> QED
    BY <1>1, <1>2, <1>4, <1>5 DEF CfwOff, OneCall

LEMMA CfwOnCall ==
  ASSUME Modes!TypeOK, NEW ok \in BOOLEAN, Modes!Call(ok), faults' = 0,
         NEW k \in 1 .. 6, CfwOn(k)
  PROVE  CfwOn(k - 1)'
  <1>1. /\ job = CfwOnCalls(k) /\ Cfw(Back(k, 6), Back(k, 5), On(k, 4), On(k, 2))
        /\ choice # Modes!None /\ SysRest /\ MenuRest /\ CobraRest /\ WebRest
    BY DEF CfwOn
  <1>2. Tail(CfwOnCalls(k)) = CfwOnCalls(k - 1)
    <2>1. CASE k \in {5, 6}
      BY <2>1 DEF CfwOnCalls
    <2>2. CASE k \in {3, 4}
      BY <2>2 DEF CfwOnCalls
    <2>3. CASE k \in {1, 2}
      BY <2>3 DEF CfwOnCalls
    <2> QED
      BY <2>1, <2>2, <2>3
  <1>3. \/ /\ Moves2("xai", "xai.bak", Back(k, 6), Back(k - 1, 6))
           /\ Back(k - 1, 5) = Back(k, 5) /\ On(k - 1, 4) = On(k, 4) /\ On(k - 1, 2) = On(k, 2)
        \/ /\ Moves2("rco", "rco.bak", Back(k, 5), Back(k - 1, 5))
           /\ Back(k - 1, 6) = Back(k, 6) /\ On(k - 1, 4) = On(k, 4) /\ On(k - 1, 2) = On(k, 2)
        \/ /\ Moves3("net", "net.cfw", "net.org", On(k, 4), On(k - 1, 4))
           /\ Back(k - 1, 6) = Back(k, 6) /\ Back(k - 1, 5) = Back(k, 5) /\ On(k - 1, 2) = On(k, 2)
        \/ /\ Moves3("tool2", "tool2.cfw", "tool2.org", On(k, 2), On(k - 1, 2))
           /\ Back(k - 1, 6) = Back(k, 6) /\ Back(k - 1, 5) = Back(k, 5) /\ On(k - 1, 4) = On(k, 4)
    <2>1. CASE k = 6
      <3>1. MayMove("xai.bak", "xai")
        BY <1>1, <2>1 DEF MayMove, CfwOnCalls
      <3> QED
        BY <2>1, <3>1, OffOn, GoneBack DEF Moves2, Moves3
    <2>2. CASE k = 5
      <3>1. MayMove("rco.bak", "rco")
        BY <1>1, <2>2 DEF MayMove, CfwOnCalls
      <3> QED
        BY <2>2, <3>1, OffOn, GoneBack DEF Moves2, Moves3
    <2>3. CASE k = 4
      <3>1. MayMove("net", "net.org")
        BY <1>1, <2>3 DEF MayMove, CfwOnCalls
      <3> QED
        BY <2>3, <3>1, OffOn, GoneBack DEF Moves2, Moves3
    <2>4. CASE k = 3
      <3>1. MayMove("net.cfw", "net")
        BY <1>1, <2>4 DEF MayMove, CfwOnCalls
      <3> QED
        BY <2>4, <3>1, OffOn, GoneBack DEF Moves2, Moves3
    <2>5. CASE k = 2
      <3>1. MayMove("tool2", "tool2.org")
        BY <1>1, <2>5 DEF MayMove, CfwOnCalls
      <3> QED
        BY <2>5, <3>1, OffOn, GoneBack DEF Moves2, Moves3
    <2>6. CASE k = 1
      <3>1. MayMove("tool2.cfw", "tool2")
        BY <1>1, <2>6 DEF MayMove, CfwOnCalls
      <3> QED
        BY <2>6, <3>1, OffOn, GoneBack DEF Moves2, Moves3
    <2> QED
      BY <2>1, <2>2, <2>3, <2>4, <2>5, <2>6
  <1>4. /\ Cfw(Back(k - 1, 6), Back(k - 1, 5), On(k - 1, 4), On(k - 1, 2))' /\ OneCall
        /\ \A n \in Modes!Names : n \notin CfwNames => files'[n] = files[n]
    <2>1. /\ Back(k, 6) \in 0 .. 2 /\ Back(k - 1, 6) \in 0 .. 2
          /\ Back(k, 5) \in 0 .. 2 /\ Back(k - 1, 5) \in 0 .. 2
          /\ On(k, 4) \in 0 .. 2 /\ On(k - 1, 4) \in 0 .. 2
          /\ On(k, 2) \in 0 .. 2 /\ On(k - 1, 2) \in 0 .. 2
      BY OffOn, GoneBack
    <2> QED
      BY <1>1, <1>3, <2>1, CfwFilesCall
  <1>5. SysRest' /\ MenuRest' /\ CobraRest' /\ WebRest'
    BY <1>1, <1>4, OthersStay DEF OneCall
  <1> QED
    BY <1>1, <1>2, <1>4, <1>5 DEF CfwOn, OneCall

(* The calls that rename other files than COBRA's. *)
NonCobraNames == Modes!Names \ CobraNames
NonCobraCalls == { Modes!Ren(n[1], n[2]) : n \in NonCobraNames \X NonCobraNames }
              \cup { Modes!AndRen(n[1], n[2]) : n \in NonCobraNames \X NonCobraNames }

(* Each of COBRA's files is there, under one of its names; n is on the side
   that v chooses.                                                          *)
OneOf(n) == (files[n] # "absent") # (files[Modes!Bak(n)] # "absent")
OnSide(n, v) == (files[n] # "absent") = (v = 1)
Move(n, v) == IF v = 1 THEN Modes!Ren(Modes!Bak(n), n) ELSE Modes!Ren(n, Modes!Bak(n))
CobraThere == OneOf("stage2.cex") /\ OneOf("stage2.dex")

(* A switch of COBRA on its way, for any number of failures. *)
Switching(v) ==
  \/ job = <<Move("stage2.cex", v), Move("stage2.dex", v)>>
  \/ job = <<Move("stage2.cex", v)>> /\ OnSide("stage2.dex", v)
  \/ job = <<Move("stage2.dex", v)>> /\ (clean => OnSide("stage2.cex", v))
  \/ job = <<>> /\ (clean /\ status = "done" => OnSide("stage2.cex", v) /\ OnSide("stage2.dex", v))

ModesTyped ==
  /\ Modes!TypeOK /\ CobraThere
  /\ choice = Modes!None => job = <<>>
  /\ choice[1] # "cobra" => job \in Seq(NonCobraCalls)
  /\ \A v \in {0, 1} : choice = <<"cobra", v>> => Switching(v)

ModesRest == SysRest /\ MenuRest /\ CobraRest /\ WebRest /\ CfwRest
Settled == job = <<>> /\ ModesRest /\ (choice = Modes!None => ModeTold)

Undisturbed ==
  \/ Settled
  \/ \E x \in Boots, k \in 1 .. 6 : RebugOff(x, k)
  \/ \E x \in Boots, k \in 1 .. 8 : RebugOn(x, k)
  \/ \E k \in 1 .. 2 : XmbOff(k) \/ XmbOn(k)
  \/ \E k \in 1 .. 4 : XmbLong(k)
  \/ \E k \in 1 .. 2 : MenuOff(k) \/ MenuOn(k)
  \/ \E k \in 1 .. 2 : CobraOff(k) \/ CobraOn(k)
  \/ WebOff(1) \/ WebOn(1)
  \/ \E k \in 1 .. 6 : CfwOff(k) \/ CfwOn(k)

ModesInv == ModesTyped /\ (faults = 0 => Undisturbed)

(* A call on other files than COBRA's leaves those alone. *)
LEMMA OtherCallsAre ==
  /\ \A a, b \in NonCobraNames : Modes!Ren(a, b) \in NonCobraCalls /\ Modes!AndRen(a, b) \in NonCobraCalls
  /\ \A c \in NonCobraCalls : \E a, b \in NonCobraNames : c = Modes!Ren(a, b) \/ c = Modes!AndRen(a, b)
  <1>1. ASSUME NEW a \in NonCobraNames, NEW b \in NonCobraNames
        PROVE  Modes!Ren(a, b) \in NonCobraCalls /\ Modes!AndRen(a, b) \in NonCobraCalls
    <2>1. <<a, b>> \in NonCobraNames \X NonCobraNames /\ <<a, b>>[1] = a /\ <<a, b>>[2] = b
      OBVIOUS
    <2> QED
      BY <2>1 DEF NonCobraCalls
  <1>2. ASSUME NEW c \in NonCobraCalls
        PROVE  \E a, b \in NonCobraNames : c = Modes!Ren(a, b) \/ c = Modes!AndRen(a, b)
    BY DEF NonCobraCalls
  <1> QED
    BY <1>1, <1>2

(* A call keeps the types. *)
LEMMA CallTyped ==
  ASSUME Modes!TypeOK, NEW ok \in BOOLEAN, Modes!Call(ok),
         DOMAIN files' = Modes!Names
  PROVE  Modes!TypeOK'
  <1>1. faults' \in 0 .. MaxFaults
    <2>1. faults \in 0 .. MaxFaults /\ MaxFaults \in Nat
      BY OtherOsAssumption DEF Modes!TypeOK
    <2>2. (ok \/ faults < MaxFaults) /\ faults' = IF ok THEN faults ELSE faults + 1
      BY DEF Modes!Call
    <2> QED
      BY <2>1, <2>2
  <1>2. chain' \in BOOLEAN /\ clean' \in BOOLEAN
    BY DEF Modes!Call
  <1>3. status' \in {"none", "done", "failed", "refused", "cut"}
    BY DEF Modes!Call, Modes!TypeOK
  <1> QED
    BY <1>1, <1>2, <1>3 DEF Modes!Call, Modes!TypeOK

(* One move of a file of COBRA. *)
LEMMA CobraMove ==
  ASSUME Modes!TypeOK, NEW ok \in BOOLEAN, Modes!Call(ok),
         NEW n \in {"stage2.cex", "stage2.dex"}, NEW v \in {0, 1}, Head(job) = Move(n, v), OneOf(n)
  PROVE  /\ DOMAIN files' = Modes!Names /\ OneOf(n)' /\ (clean' => clean /\ OnSide(n, v)')
         /\ \A m \in Modes!Names : m # n /\ m # Modes!Bak(n) => files'[m] = files[m]
  <1> DEFINE a == IF v = 1 THEN Modes!Bak(n) ELSE n
             b == IF v = 1 THEN n ELSE Modes!Bak(n)
             c == Head(job)
  <1>1. n \in Modes!Names /\ Modes!Bak(n) \in Modes!Names /\ n # Modes!Bak(n)
    BY DEF Modes!Names, Modes!Bak
  <1>2. c = Modes!Ren(a, b)
    BY DEF Move
  <1>3. a \in Modes!Names /\ b \in Modes!Names /\ a # b /\ {a, b} = {n, Modes!Bak(n)}
    BY <1>1
  <1>4. DOMAIN files = Modes!Names
    BY DEF Modes!TypeOK
  <1>5. /\ DOMAIN files' = Modes!Names
        /\ \A m \in Modes!Names : m # a /\ m # b => files'[m] = files[m]
        /\ \/ files' = files
           \/ files[a] # "absent" /\ (a # b => files'[b] = files[a] /\ files'[a] = "absent")
    <2> HIDE DEF a, b
    <2> QED
      BY <1>2, <1>3, <1>4, AnyCall
  <1>6. c.kind = "rename" /\ c.from = a /\ c.to = b /\ c.chained = FALSE
    <2> HIDE DEF a, b
    <2> QED
      BY <1>2 DEF Modes!Ren
  <1>7. ASSUME clean' PROVE clean /\ files' = Modes!Effect(files, c)
    BY <1>7 DEF Modes!Call
  <1>8. ASSUME clean' PROVE files'[a] = "absent"
    <2> HIDE DEF a, b
    <2> QED
      BY <1>3, <1>4, <1>6, <1>7, <1>8 DEF Modes!Effect, Modes!Absent
  <1>9. OneOf(n)'
    BY <1>1, <1>5 DEF OneOf
  <1>10. clean' => OnSide(n, v)'
    BY <1>8, <1>9 DEF OneOf, OnSide
  <1> QED
    BY <1>3, <1>5, <1>7, <1>9, <1>10

(* Whatever fails, a call of a switch of COBRA leaves the rest of one, and a
   call of another mode leaves COBRA's files where they are.                 *)
LEMMA CobraCallTyped ==
  ASSUME ModesTyped, NEW ok \in BOOLEAN, Modes!Call(ok), choice[1] = "cobra"
  PROVE  ModesTyped'
  <1>1. PICK v \in {0, 1} : choice = <<"cobra", v>>
    BY DEF ModesTyped, Modes!TypeOK, Modes!None
  <1>2. Switching(v) /\ Modes!TypeOK /\ CobraThere /\ job # <<>>
    BY <1>1 DEF ModesTyped, Modes!Call
  <1>4. /\ "stage2.cex" \in Modes!Names /\ "stage2.dex" \in Modes!Names
        /\ "stage2.cex.bak" \in Modes!Names /\ "stage2.dex.bak" \in Modes!Names
        /\ Modes!Bak("stage2.cex") = "stage2.cex.bak" /\ Modes!Bak("stage2.dex") = "stage2.dex.bak"
    BY DEF Modes!Names, Modes!Bak
  <1>5. OneOf("stage2.cex") /\ OneOf("stage2.dex")
    BY <1>2 DEF CobraThere
  <1>6. DOMAIN files' = Modes!Names /\ CobraThere' /\ Switching(v)'
    <2>1. CASE job = <<Move("stage2.cex", v), Move("stage2.dex", v)>>
      <3>1. Head(job) = Move("stage2.cex", v) /\ Tail(job) = <<Move("stage2.dex", v)>>
        BY <2>1
      <3>2. /\ DOMAIN files' = Modes!Names /\ OneOf("stage2.cex")'
            /\ clean' => OnSide("stage2.cex", v)'
            /\ \A m \in Modes!Names : m # "stage2.cex" /\ m # "stage2.cex.bak" => files'[m] = files[m]
        BY <1>2, <1>4, <1>5, <3>1, CobraMove
      <3>3. OneOf("stage2.dex")'
        BY <1>4, <1>5, <3>2 DEF OneOf
      <3>4. job' = <<Move("stage2.dex", v)>>
        BY <1>2, <3>1 DEF Modes!Call
      <3> QED
        BY <3>2, <3>3, <3>4 DEF CobraThere, Switching, Move
    <2>2. CASE job = <<Move("stage2.cex", v)>> /\ OnSide("stage2.dex", v)
      <3>1. Head(job) = Move("stage2.cex", v) /\ Tail(job) = <<>>
        BY <2>2
      <3>2. /\ DOMAIN files' = Modes!Names /\ OneOf("stage2.cex")'
            /\ clean' => OnSide("stage2.cex", v)'
            /\ \A m \in Modes!Names : m # "stage2.cex" /\ m # "stage2.cex.bak" => files'[m] = files[m]
        BY <1>2, <1>4, <1>5, <3>1, CobraMove
      <3>3. OneOf("stage2.dex")' /\ OnSide("stage2.dex", v)'
        BY <1>4, <1>5, <2>2, <3>2 DEF OneOf, OnSide
      <3>4. job' = <<>>
        BY <1>2, <3>1 DEF Modes!Call
      <3> QED
        BY <3>2, <3>3, <3>4 DEF CobraThere, Switching
    <2>3. CASE job = <<Move("stage2.dex", v)>> /\ (clean => OnSide("stage2.cex", v))
      <3>1. Head(job) = Move("stage2.dex", v) /\ Tail(job) = <<>>
        BY <2>3
      <3>2. /\ DOMAIN files' = Modes!Names /\ OneOf("stage2.dex")'
            /\ clean' => clean /\ OnSide("stage2.dex", v)'
            /\ \A m \in Modes!Names : m # "stage2.dex" /\ m # "stage2.dex.bak" => files'[m] = files[m]
        BY <1>2, <1>4, <1>5, <3>1, CobraMove
      <3>3. OneOf("stage2.cex")' /\ (clean' => OnSide("stage2.cex", v)')
        BY <1>4, <1>5, <2>3, <3>2 DEF OneOf, OnSide
      <3>4. job' = <<>>
        BY <1>2, <3>1 DEF Modes!Call
      <3> QED
        BY <3>2, <3>3, <3>4 DEF CobraThere, Switching
    <2> QED
      BY <1>2, <2>1, <2>2, <2>3 DEF Switching
  <1>7. Modes!TypeOK'
    BY <1>2, <1>6, CallTyped
  <1>8. choice' = <<"cobra", v>>
    BY <1>1 DEF Modes!Call
  <1> QED
    BY <1>6, <1>7, <1>8 DEF ModesTyped, Modes!None

LEMMA OtherCallTyped ==
  ASSUME ModesTyped, NEW ok \in BOOLEAN, Modes!Call(ok), choice[1] # "cobra"
  PROVE  ModesTyped'
  <1>1. job \in Seq(NonCobraCalls) /\ job # <<>> /\ Modes!TypeOK /\ CobraThere /\ choice # Modes!None
    BY DEF ModesTyped, Modes!Call
  <1>2. Head(job) \in NonCobraCalls /\ Tail(job) \in Seq(NonCobraCalls)
    BY <1>1
  <1>3. PICK a \in NonCobraNames, b \in NonCobraNames :
          Head(job) = Modes!Ren(a, b) \/ Head(job) = Modes!AndRen(a, b)
    BY <1>2, OtherCallsAre
  <1>4. a \in Modes!Names /\ b \in Modes!Names /\ a \notin CobraNames /\ b \notin CobraNames
    BY DEF NonCobraNames
  <1>5. DOMAIN files = Modes!Names
    BY <1>1 DEF Modes!TypeOK
  <1>6. /\ DOMAIN files' = Modes!Names
        /\ \A n \in Modes!Names : n # a /\ n # b => files'[n] = files[n]
        /\ job' = Tail(job) /\ choice' = choice
    BY <1>3, <1>4, <1>5, AnyCall
  <1>7. \A n \in CobraNames : files'[n] = files[n]
    BY <1>4, <1>6, ModeNamesAre
  <1>8. CobraThere'
    BY <1>1, <1>7 DEF CobraThere, OneOf, CobraNames, Modes!Bak
  <1>9. Modes!TypeOK'
    BY <1>1, <1>6, CallTyped
  <1>10. \A v \in {0, 1} : choice' # <<"cobra", v>>
    BY <1>6
  <1> QED
    BY <1>1, <1>2, <1>6, <1>8, <1>9, <1>10 DEF ModesTyped

(* What check_settings() reads are modes. *)
LEMMA ReadTyped ==
  ASSUME NEW f, NEW old \in [Modes!ModeNames -> {0, 1}]
  PROVE  Modes!Read(f, old) \in [Modes!ModeNames -> {0, 1}]
  <1>1. \A m \in {"cobra", "webman", "cfw"} : old[m] \in {0, 1}
    BY DEF Modes!ModeNames
  <1>2. /\ DOMAIN Modes!Read(f, old) = Modes!ModeNames
        /\ Modes!Read(f, old) = [n \in DOMAIN Modes!Read(f, old) |-> Modes!Read(f, old)[n]]
    BY DEF Modes!Read, Modes!ModeNames
  <1>3. \A n \in Modes!ModeNames : Modes!Read(f, old)[n] \in {0, 1}
    BY <1>1 DEF Modes!Read, Modes!ModeNames
  <1> QED
    BY <1>2, <1>3

LEMMA NothingRead == [m \in Modes!ModeNames |-> 0] \in [Modes!ModeNames -> {0, 1}]
  OBVIOUS

(* The calls of the other modes. *)
LEMMA ReplaceOthers ==
  ASSUME NEW a \in NonCobraNames, NEW b \in NonCobraNames, NEW c \in NonCobraNames
  PROVE  Modes!Replace(a, b, c) \in Seq(NonCobraCalls)
  <1>1. Modes!Ren(a, b) \in NonCobraCalls /\ Modes!AndRen(c, a) \in NonCobraCalls
    BY OtherCallsAre
  <1> QED
    BY <1>1 DEF Modes!Replace

(* The other modes' files are not COBRA's. *)
LEMMA OtherNamesAre ==
  /\ SysNames \subseteq NonCobraNames /\ MenuNames \subseteq NonCobraNames
  /\ WebNames \subseteq NonCobraNames /\ CfwNames \subseteq NonCobraNames
  BY ModeNamesAre, GroupsApart DEF NonCobraNames

LEMMA OtherLists ==
  ASSUME NEW m \in Modes!ModeNames, m # "cobra", NEW v \in {0, 1}
  PROVE  Modes!Calls(m, v) \in Seq(NonCobraCalls)
  <1>1. \A s, t \in Seq(NonCobraCalls) : s \o t \in Seq(NonCobraCalls)
    BY ConcatProperties
  <1>2. <<>> \in Seq(NonCobraCalls)
    OBVIOUS
  <1>3. CASE m = "rebug"
    <2>1. \A n \in {"vsh", "vsh.swp", "vsh.nrm", "index", "index.swp", "index.nrm",
                    "version", "version.swp", "version.nrm", "sysconf", "sysconf.dex", "sysconf.cex"} :
             n \in NonCobraNames
      BY OtherNamesAre DEF SysNames, MenuNames
    <2>2. /\ Modes!Replace("vsh", "vsh.swp", "vsh.nrm") \in Seq(NonCobraCalls)
          /\ Modes!Replace("index", "index.swp", "index.nrm") \in Seq(NonCobraCalls)
          /\ Modes!Replace("version", "version.swp", "version.nrm") \in Seq(NonCobraCalls)
          /\ Modes!Replace("vsh", "vsh.nrm", "vsh.swp") \in Seq(NonCobraCalls)
          /\ Modes!Replace("index", "index.nrm", "index.swp") \in Seq(NonCobraCalls)
          /\ Modes!Replace("version", "version.nrm", "version.swp") \in Seq(NonCobraCalls)
          /\ Modes!SysconfToCex \in Seq(NonCobraCalls)
      BY <2>1, ReplaceOthers DEF Modes!SysconfToCex
    <2>3. Modes!RebugCalls(v) \in Seq(NonCobraCalls)
      BY <1>1, <1>2, <2>2 DEF Modes!RebugCalls
    <2> QED
      BY <1>3, <2>3 DEF Modes!Calls
  <1>4. CASE m = "xmb"
    <2>1. \A n \in {"vsh", "vsh.cexsp", "vsh.dexsp", "sysconf", "sysconf.dex", "sysconf.cex"} :
             n \in NonCobraNames
      BY OtherNamesAre DEF SysNames, MenuNames
    <2>2. /\ Modes!Replace("vsh", "vsh.dexsp", "vsh.cexsp") \in Seq(NonCobraCalls)
          /\ Modes!Replace("vsh", "vsh.cexsp", "vsh.dexsp") \in Seq(NonCobraCalls)
      BY <2>1, ReplaceOthers
    <2>3. <<Modes!AndRen("sysconf", "sysconf.dex"), Modes!AndRen("sysconf.cex", "sysconf")>>
            \in Seq(NonCobraCalls)
      <3>1. /\ Modes!AndRen("sysconf", "sysconf.dex") \in NonCobraCalls
            /\ Modes!AndRen("sysconf.cex", "sysconf") \in NonCobraCalls
        BY <2>1, OtherCallsAre
      <3> QED
        BY <3>1
    <2>4. Modes!XmbCalls(v) \in Seq(NonCobraCalls)
      BY <1>1, <1>2, <2>2, <2>3 DEF Modes!XmbCalls
    <2> QED
      BY <1>4, <2>4 DEF Modes!Calls
  <1>5. CASE m = "menu"
    <2>1. \A n \in {"sysconf", "sysconf.dex", "sysconf.cex"} : n \in NonCobraNames
      BY OtherNamesAre DEF MenuNames
    <2>2. /\ Modes!SysconfToCex \in Seq(NonCobraCalls)
          /\ Modes!Replace("sysconf", "sysconf.cex", "sysconf.dex") \in Seq(NonCobraCalls)
      BY <2>1, ReplaceOthers DEF Modes!SysconfToCex
    <2>3. Modes!MenuCalls(v) \in Seq(NonCobraCalls)
      BY <1>2, <2>2 DEF Modes!MenuCalls
    <2> QED
      BY <1>5, <2>3 DEF Modes!Calls
  <1>6. CASE m = "webman"
    <2>1. "webftp" \in NonCobraNames /\ "webftp.bak" \in NonCobraNames
      BY OtherNamesAre DEF WebNames
    <2>2. /\ <<Modes!Ren("webftp", "webftp.bak")>> \in Seq(NonCobraCalls)
          /\ <<Modes!Ren("webftp.bak", "webftp")>> \in Seq(NonCobraCalls)
      BY <2>1, OtherCallsAre
    <2>3. Modes!WebmanCalls(v) \in Seq(NonCobraCalls)
      BY <1>2, <2>2 DEF Modes!WebmanCalls
    <2> QED
      BY <1>6, <2>3 DEF Modes!Calls
  <1>7. CASE m = "cfw"
    <2>1. \A n \in CfwNames : n \in NonCobraNames
      BY OtherNamesAre
    <2>2. CfwOffCalls(6) \in Seq(NonCobraCalls)
      <3>1. /\ Modes!Ren("xai", "xai.bak") \in NonCobraCalls /\ Modes!Ren("rco", "rco.bak") \in NonCobraCalls
            /\ Modes!Ren("net", "net.cfw") \in NonCobraCalls /\ Modes!Ren("net.org", "net") \in NonCobraCalls
            /\ Modes!Ren("tool2", "tool2.cfw") \in NonCobraCalls
            /\ Modes!Ren("tool2.org", "tool2") \in NonCobraCalls
        BY <2>1, OtherCallsAre DEF CfwNames
      <3> QED
        BY <3>1 DEF CfwOffCalls
    <2>3. CfwOnCalls(6) \in Seq(NonCobraCalls)
      <3>1. /\ Modes!Ren("xai.bak", "xai") \in NonCobraCalls /\ Modes!Ren("rco.bak", "rco") \in NonCobraCalls
            /\ Modes!Ren("net", "net.org") \in NonCobraCalls /\ Modes!Ren("net.cfw", "net") \in NonCobraCalls
            /\ Modes!Ren("tool2", "tool2.org") \in NonCobraCalls
            /\ Modes!Ren("tool2.cfw", "tool2") \in NonCobraCalls
        BY <2>1, OtherCallsAre DEF CfwNames
      <3> QED
        BY <3>1 DEF CfwOnCalls
    <2>4. Modes!CfwCalls(v) \in {CfwOffCalls(6), CfwOnCalls(6), <<>>}
      BY DEF Modes!CfwCalls, CfwOffCalls, CfwOnCalls
    <2>5. Modes!CfwCalls(v) \in Seq(NonCobraCalls)
      BY <1>2, <2>2, <2>3, <2>4
    <2> QED
      BY <1>7, <2>5 DEF Modes!Calls
  <1> QED
    BY <1>3, <1>4, <1>5, <1>6, <1>7 DEF Modes!ModeNames

LEMMA OneAndOne ==
  ASSUME NEW a, NEW b
  PROVE  /\ <<a>> \o <<b>> = <<a, b>>
         /\ <<a>> \o <<>> = <<a>>
  <1>1. PICK S : a \in S /\ b \in S
    <2>1. a \in {a, b} /\ b \in {a, b}
      OBVIOUS
    <2> QED
      BY <2>1
  <1>2. <<a>> \o <<b>> = <<a, b>>
    <2>1. PICK s, t, u : s = <<a>> /\ t = <<b>> /\ u = <<a, b>>
      OBVIOUS
    <2>2. /\ s \in Seq(S) /\ t \in Seq(S) /\ u \in Seq(S)
          /\ Len(s) = 1 /\ Len(t) = 1 /\ Len(u) = 2 /\ u[1] = s[1] /\ u[2] = t[1]
      BY <1>1, <2>1
    <2>3. /\ s \o t \in Seq(S) /\ Len(s \o t) = 2
          /\ \A i \in 1 .. 2 : (s \o t)[i] = IF i <= 1 THEN s[i] ELSE t[i - 1]
      <3>1. /\ s \o t \in Seq(S) /\ Len(s \o t) = Len(s) + Len(t)
            /\ \A i \in 1 .. Len(s) + Len(t) :
                 (s \o t)[i] = IF i <= Len(s) THEN s[i] ELSE t[i - Len(s)]
        BY <2>2, ConcatProperties
      <3> QED
        BY <2>2, <3>1
    <2>4. \A i \in 1 .. 2 : (s \o t)[i] = u[i]
      <3> SUFFICES ASSUME NEW i \in 1 .. 2 PROVE (s \o t)[i] = u[i]
        OBVIOUS
      <3>1. i = 1 \/ i = 2
        OBVIOUS
      <3> QED
        BY <2>2, <2>3, <3>1
    <2>5. s \o t = u
      BY <2>2, <2>3, <2>4, SeqEqual
    <2> QED
      BY <2>1, <2>5
  <1>3. <<a>> \o <<>> = <<a>>
    <2>1. PICK s : s = <<a>>
      OBVIOUS
    <2>2. s \in Seq(S)
      BY <1>1, <2>1
    <2>3. s \o <<>> = s
      BY <2>2, ConcatEmptySeq
    <2> QED
      BY <2>1, <2>3
  <1> QED
    BY <1>2, <1>3

(* The calls of a switch of COBRA. *)
LEMMA CobraLists ==
  ASSUME NEW v \in {0, 1}, CobraThere
  PROVE  \/ Modes!CobraCalls(v) = <<>>
         \/ Modes!CobraCalls(v) = <<Move("stage2.cex", v), Move("stage2.dex", v)>>
         \/ Modes!CobraCalls(v) = <<Move("stage2.cex", v)>> /\ OnSide("stage2.dex", v)
  <1>1. Modes!Bak("stage2.cex") = "stage2.cex.bak" /\ Modes!Bak("stage2.dex") = "stage2.dex.bak"
    BY DEF Modes!Bak
  <1>2. PICK a, b : a = Move("stage2.cex", v) /\ b = Move("stage2.dex", v)
    OBVIOUS
  <1>3. <<a>> \o <<b>> = <<a, b>> /\ <<a>> \o <<>> = <<a>>
    BY OneAndOne
  <1>4. CASE v = 0
    <2>1. a = Modes!Ren("stage2.cex", Modes!Bak("stage2.cex"))
          /\ b = Modes!Ren("stage2.dex", Modes!Bak("stage2.dex"))
      BY <1>2, <1>4 DEF Move
    <2>2. Modes!CobraCalls(v) = IF files["stage2.cex"] = "absent" THEN <<>>
            ELSE <<a>> \o (IF files["stage2.dex"] # "absent" THEN <<b>> ELSE <<>>)
      BY <1>4, <2>1 DEF Modes!CobraCalls, Modes!Exists, Modes!Absent
    <2>3. files["stage2.dex"] = "absent" => OnSide("stage2.dex", v)
      BY <1>4 DEF OnSide
    <2> QED
      BY <1>2, <1>3, <2>2, <2>3
  <1>5. CASE v = 1
    <2>1. a = Modes!Ren(Modes!Bak("stage2.cex"), "stage2.cex")
          /\ b = Modes!Ren(Modes!Bak("stage2.dex"), "stage2.dex")
      BY <1>2, <1>5 DEF Move
    <2>2. Modes!CobraCalls(v) = IF files[Modes!Bak("stage2.cex")] = "absent" THEN <<>>
            ELSE <<a>> \o (IF files[Modes!Bak("stage2.dex")] # "absent" THEN <<b>> ELSE <<>>)
      BY <1>5, <2>1 DEF Modes!CobraCalls, Modes!Exists, Modes!Absent
    <2>3. files[Modes!Bak("stage2.dex")] = "absent" => OnSide("stage2.dex", v)
      BY <1>5 DEF OnSide, CobraThere, OneOf
    <2> QED
      BY <1>2, <1>3, <2>2, <2>3
  <1> QED
    BY <1>4, <1>5

(* A choice sets out with the calls of its mode. *)
LEMMA ChooseTyped ==
  ASSUME ModesTyped, NEW m \in Modes!ModeNames, NEW v \in {0, 1}, Modes!Choose(m, v)
  PROVE  ModesTyped'
  <1>1. /\ files' = files /\ choice' = <<m, v>> /\ job' = Modes!Calls(m, v)
        /\ status' = IF job' = <<>> THEN "refused" ELSE "done"
    BY DEF Modes!Choose
  <1>2. CobraThere'
    BY <1>1 DEF ModesTyped, CobraThere, OneOf
  <1>3. choices' \in 0 .. MaxChoices
    <2>1. choices \in 0 .. MaxChoices /\ MaxChoices \in Nat
      BY OtherOsAssumption DEF ModesTyped, Modes!TypeOK
    <2>2. choices < MaxChoices /\ choices' = choices + 1
      BY DEF Modes!Choose
    <2> QED
      BY <2>1, <2>2
  <1>4. mode' \in [Modes!ModeNames -> {0, 1}]
    BY DEF ModesTyped, Modes!TypeOK, Modes!Choose
  <1>5. choice' \in Modes!ModeNames \X {0, 1} /\ choice' # Modes!None
    BY <1>1 DEF Modes!None, Modes!ModeNames
  <1>6. status' \in {"none", "done", "failed", "refused", "cut"}
    BY <1>1
  <1>7. Modes!TypeOK'
    BY <1>1, <1>3, <1>4, <1>5, <1>6 DEF ModesTyped, Modes!TypeOK, Modes!Choose
  <1>8. choice'[1] # "cobra" => job' \in Seq(NonCobraCalls)
    <2>1. choice'[1] = m
      BY <1>1
    <2> QED
      BY <1>1, <2>1, OtherLists
  <1>9. ASSUME NEW w \in {0, 1}, choice' = <<"cobra", w>> PROVE Switching(w)'
    <2>1. m = "cobra" /\ v = w
      BY <1>1, <1>9
    <2>2. job' = Modes!CobraCalls(w)
      BY <1>1, <2>1 DEF Modes!Calls
    <2>3. CobraThere
      BY DEF ModesTyped
    <2>4. \/ job' = <<>>
          \/ job' = <<Move("stage2.cex", w), Move("stage2.dex", w)>>
          \/ job' = <<Move("stage2.cex", w)>> /\ OnSide("stage2.dex", w)
      BY <2>2, <2>3, CobraLists
    <2>5. OnSide("stage2.dex", w)' = OnSide("stage2.dex", w)
      BY <1>1 DEF OnSide
    <2>6. job' = <<>> => status' = "refused"
      BY <1>1
    <2> QED
      BY <2>4, <2>5, <2>6 DEF Switching, Move
  <1> QED
    BY <1>2, <1>5, <1>7, <1>8, <1>9 DEF ModesTyped

(* The operation is over, or was cut off, or there is none. *)
LEMMA EndTyped ==
  ASSUME ModesTyped, files' = files, job' = <<>>, choice' = Modes!None,
         Modes!TypeOK'
  PROVE  ModesTyped'
  <1>1. CobraThere'
    BY DEF ModesTyped, CobraThere, OneOf
  <1>2. job' \in Seq(NonCobraCalls)
    OBVIOUS
  <1>3. \A v \in {0, 1} : choice' # <<"cobra", v>>
    BY DEF Modes!None
  <1> QED
    BY <1>1, <1>2, <1>3 DEF ModesTyped

LEMMA FinishTyped == ModesTyped /\ Modes!Finish => ModesTyped'
  <1> SUFFICES ASSUME ModesTyped, Modes!Finish PROVE ModesTyped'
    OBVIOUS
  <1>1. mode' \in [Modes!ModeNames -> {0, 1}]
    BY ReadTyped DEF ModesTyped, Modes!TypeOK, Modes!Finish
  <1>2. Modes!TypeOK'
    BY <1>1 DEF ModesTyped, Modes!TypeOK, Modes!Finish
  <1> QED
    BY <1>2, EndTyped DEF Modes!Finish

LEMMA CutTyped == ModesTyped /\ Modes!Cut => ModesTyped'
  <1> SUFFICES ASSUME ModesTyped, Modes!Cut PROVE ModesTyped'
    OBVIOUS
  <1>1. mode' \in [Modes!ModeNames -> {0, 1}]
    BY ReadTyped, NothingRead DEF Modes!Cut
  <1>2. faults' \in 0 .. MaxFaults
    <2>1. faults \in 0 .. MaxFaults /\ MaxFaults \in Nat
      BY OtherOsAssumption DEF ModesTyped, Modes!TypeOK
    <2>2. faults < MaxFaults /\ faults' = faults + 1
      BY DEF Modes!Cut
    <2> QED
      BY <2>1, <2>2
  <1>3. phase' \in {"run", "down"}
    BY DEF Modes!Cut
  <1>4. Modes!TypeOK'
    BY <1>1, <1>2, <1>3 DEF ModesTyped, Modes!TypeOK, Modes!Cut
  <1> QED
    BY <1>4, EndTyped DEF Modes!Cut

LEMMA QuitTyped == ModesTyped /\ Modes!Quit => ModesTyped'
  <1> SUFFICES ASSUME ModesTyped, Modes!Quit PROVE ModesTyped'
    OBVIOUS
  <1>1. mode' \in [Modes!ModeNames -> {0, 1}]
    BY ReadTyped, NothingRead DEF Modes!Quit
  <1>2. phase' \in {"run", "down"}
    BY DEF Modes!Quit
  <1>3. Modes!TypeOK'
    BY <1>1, <1>2 DEF ModesTyped, Modes!TypeOK, Modes!Quit
  <1> QED
    BY <1>3, EndTyped DEF ModesTyped, Modes!Quit

LEMMA StutterTyped == ModesTyped /\ UNCHANGED Modes!vars => ModesTyped'
  <1> SUFFICES ASSUME ModesTyped, UNCHANGED Modes!vars PROVE ModesTyped'
    OBVIOUS
  <1>1. Modes!TypeOK'
    BY Zenon DEF ModesTyped, Modes!TypeOK, Modes!vars
  <1>2. /\ files' = files /\ job' = job /\ choice' = choice /\ status' = status
        /\ clean' = clean
    BY Zenon DEF Modes!vars
  <1>3. CobraThere'
    BY <1>2 DEF ModesTyped, CobraThere, OneOf
  <1>4. \A v \in {0, 1} : Switching(v) => Switching(v)'
    BY <1>2 DEF Switching, OnSide, Move
  <1> QED
    BY <1>1, <1>2, <1>3, <1>4 DEF ModesTyped

(* What the firmware has under each name. *)
LEMMA InstalledIs ==
  /\ DOMAIN Modes!Installed = Modes!Names
  /\ \A n \in Modes!Names : Modes!Installed[n] =
       IF n = "vsh" THEN "debug"
       ELSE IF n \in {"vsh.nrm", "index.nrm", "version.nrm"} THEN "normal"
       ELSE IF n = "vsh.cexsp" THEN "retail"
       ELSE IF n \in {"index", "version"} THEN "rebug"
       ELSE IF n = "sysconf" THEN "dex" ELSE IF n = "sysconf.cex" THEN "cex"
       ELSE IF n \in {"stage2.cex", "stage2.dex", "webftp", "xai", "rco"} THEN n
       ELSE IF n \in {"net", "tool2"} THEN "cfw"
       ELSE IF n \in {"net.org", "tool2.org"} THEN "org"
       ELSE "absent"
  <1>1. DOMAIN Modes!Installed = Modes!Names
    BY DEF Modes!Installed
  <1>2. ASSUME NEW n \in Modes!Names
        PROVE Modes!Installed[n] =
       IF n = "vsh" THEN "debug"
       ELSE IF n \in {"vsh.nrm", "index.nrm", "version.nrm"} THEN "normal"
       ELSE IF n = "vsh.cexsp" THEN "retail"
       ELSE IF n \in {"index", "version"} THEN "rebug"
       ELSE IF n = "sysconf" THEN "dex" ELSE IF n = "sysconf.cex" THEN "cex"
       ELSE IF n \in {"stage2.cex", "stage2.dex", "webftp", "xai", "rco"} THEN n
       ELSE IF n \in {"net", "tool2"} THEN "cfw"
       ELSE IF n \in {"net.org", "tool2.org"} THEN "org"
       ELSE "absent"
    BY DEF Modes!Installed, Modes!Absent
  <1> QED
    BY <1>1, <1>2

LEMMA StartTyped == Modes!Init => ModesTyped
  <1> SUFFICES ASSUME Modes!Init PROVE ModesTyped
    OBVIOUS
  <1>1. /\ files = Modes!Installed /\ job = <<>> /\ choice = Modes!None /\ status = "none"
        /\ chain = TRUE /\ clean = TRUE /\ phase = "run" /\ choices = 0 /\ faults = 0
        /\ replaces \in BOOLEAN
    BY DEF Modes!Init
  <1>2. mode \in [Modes!ModeNames -> {0, 1}]
    BY ReadTyped, NothingRead DEF Modes!Init
  <1>3. MaxChoices \in Nat /\ MaxFaults \in Nat
    BY OtherOsAssumption
  <1>4. DOMAIN files = Modes!Names
    BY <1>1, InstalledIs
  <1>5. Modes!TypeOK
    BY <1>1, <1>2, <1>3, <1>4 DEF Modes!TypeOK
  <1>6. /\ files["stage2.cex"] = "stage2.cex" /\ files["stage2.dex"] = "stage2.dex"
        /\ files["stage2.cex.bak"] = "absent" /\ files["stage2.dex.bak"] = "absent"
    <2>1. {"stage2.cex", "stage2.dex", "stage2.cex.bak", "stage2.dex.bak"} \subseteq Modes!Names
      BY DEF Modes!Names
    <2> QED
      BY <1>1, <2>1, InstalledIs
  <1>7. CobraThere
    BY <1>6 DEF CobraThere, OneOf, Modes!Bak
  <1>8. job \in Seq(NonCobraCalls) /\ \A v \in {0, 1} : choice # <<"cobra", v>>
    BY <1>1 DEF Modes!None
  <1> QED
    BY <1>1, <1>5, <1>7, <1>8 DEF ModesTyped

(* Two more calls after others. *)
LEMMA Appended ==
  ASSUME NEW S, NEW s \in Seq(S), NEW t \in Seq(S), NEW u \in Seq(S),
         Len(t) = 2, Len(u) = Len(s) + 2,
         \A i \in 1 .. Len(s) : u[i] = s[i],
         u[Len(s) + 1] = t[1], u[Len(s) + 2] = t[2]
  PROVE  s \o t = u
  <1>1. /\ s \o t \in Seq(S) /\ Len(s \o t) = Len(s) + Len(t)
        /\ \A i \in 1 .. Len(s) + Len(t) :
             (s \o t)[i] = IF i <= Len(s) THEN s[i] ELSE t[i - Len(s)]
    BY ConcatProperties
  <1>2. Len(s) \in Nat
    OBVIOUS
  <1>3. \A i \in 1 .. Len(u) : (s \o t)[i] = u[i]
    <2> SUFFICES ASSUME NEW i \in 1 .. Len(u) PROVE (s \o t)[i] = u[i]
      OBVIOUS
    <2>1. i \in 1 .. Len(s) \/ i = Len(s) + 1 \/ i = Len(s) + 2
      BY <1>2
    <2> QED
      BY <1>1, <1>2, <2>1
  <1> QED
    BY <1>1, <1>3, SeqEqual

LEMMA PairAndPair ==
  ASSUME NEW x
  PROVE  <<x[1], x[2]>> \o <<x[3], x[4]>> = <<x[1], x[2], x[3], x[4]>>
  <1>1. PICK S : x[1] \in S /\ x[2] \in S /\ x[3] \in S /\ x[4] \in S
    <2>1. PICK T : T = {x[1], x[2], x[3], x[4]}
      OBVIOUS
    <2> QED
      BY <2>1
  <1>2. PICK s, t, u : s = <<x[1], x[2]>> /\ t = <<x[3], x[4]>> /\ u = <<x[1], x[2], x[3], x[4]>>
    OBVIOUS
  <1>3. s \in Seq(S) /\ t \in Seq(S) /\ u \in Seq(S)
    BY <1>1, <1>2
  <1>4. /\ Len(s) = 2 /\ Len(t) = 2 /\ Len(u) = 4
        /\ u[3] = t[1] /\ u[4] = t[2]
        /\ u[1] = s[1] /\ u[2] = s[2]
    BY <1>2
  <1>5. \A i \in 1 .. Len(s) : u[i] = s[i]
    <2> SUFFICES ASSUME NEW i \in 1 .. Len(s) PROVE u[i] = s[i]
      OBVIOUS
    <2>1. i = 1 \/ i = 2
      BY <1>4
    <2> QED
      BY <1>4, <2>1
  <1>6. Len(u) = Len(s) + 2 /\ u[Len(s) + 1] = t[1] /\ u[Len(s) + 2] = t[2]
    BY <1>4
  <1>7. s \o t = u
    BY <1>3, <1>4, <1>5, <1>6, Appended
  <1> QED
    BY <1>2, <1>7

LEMMA FourAndPair ==
  ASSUME NEW x
  PROVE  <<x[1], x[2], x[3], x[4]>> \o <<x[5], x[6]>> = <<x[1], x[2], x[3], x[4], x[5], x[6]>>
  <1>1. PICK S : x[1] \in S /\ x[2] \in S /\ x[3] \in S /\ x[4] \in S /\ x[5] \in S /\ x[6] \in S
    <2>1. PICK T : T = {x[1], x[2], x[3], x[4], x[5], x[6]}
      OBVIOUS
    <2> QED
      BY <2>1
  <1>2. PICK s, t, u : s = <<x[1], x[2], x[3], x[4]>> /\ t = <<x[5], x[6]>> /\ u = <<x[1], x[2], x[3], x[4], x[5], x[6]>>
    OBVIOUS
  <1>3. s \in Seq(S) /\ t \in Seq(S) /\ u \in Seq(S)
    BY <1>1, <1>2
  <1>4. /\ Len(s) = 4 /\ Len(t) = 2 /\ Len(u) = 6
        /\ u[5] = t[1] /\ u[6] = t[2]
        /\ u[1] = s[1] /\ u[2] = s[2] /\ u[3] = s[3] /\ u[4] = s[4]
    BY <1>2
  <1>5. \A i \in 1 .. Len(s) : u[i] = s[i]
    <2> SUFFICES ASSUME NEW i \in 1 .. Len(s) PROVE u[i] = s[i]
      OBVIOUS
    <2>1. i = 1 \/ i = 2 \/ i = 3 \/ i = 4
      BY <1>4
    <2> QED
      BY <1>4, <2>1
  <1>6. Len(u) = Len(s) + 2 /\ u[Len(s) + 1] = t[1] /\ u[Len(s) + 2] = t[2]
    BY <1>4
  <1>7. s \o t = u
    BY <1>3, <1>4, <1>5, <1>6, Appended
  <1> QED
    BY <1>2, <1>7

LEMMA SixAndPair ==
  ASSUME NEW x
  PROVE  <<x[1], x[2], x[3], x[4], x[5], x[6]>> \o <<x[7], x[8]>> = <<x[1], x[2], x[3], x[4], x[5], x[6], x[7], x[8]>>
  <1>1. PICK S : x[1] \in S /\ x[2] \in S /\ x[3] \in S /\ x[4] \in S /\ x[5] \in S /\ x[6] \in S /\ x[7] \in S /\ x[8] \in S
    <2>1. PICK T : T = {x[1], x[2], x[3], x[4], x[5], x[6], x[7], x[8]}
      OBVIOUS
    <2> QED
      BY <2>1
  <1>2. PICK s, t, u : s = <<x[1], x[2], x[3], x[4], x[5], x[6]>> /\ t = <<x[7], x[8]>> /\ u = <<x[1], x[2], x[3], x[4], x[5], x[6], x[7], x[8]>>
    OBVIOUS
  <1>3. s \in Seq(S) /\ t \in Seq(S) /\ u \in Seq(S)
    BY <1>1, <1>2
  <1>4. /\ Len(s) = 6 /\ Len(t) = 2 /\ Len(u) = 8
        /\ u[7] = t[1] /\ u[8] = t[2]
        /\ u[1] = s[1] /\ u[2] = s[2] /\ u[3] = s[3] /\ u[4] = s[4] /\ u[5] = s[5] /\ u[6] = s[6]
    BY <1>2
  <1>5. \A i \in 1 .. Len(s) : u[i] = s[i]
    <2> SUFFICES ASSUME NEW i \in 1 .. Len(s) PROVE u[i] = s[i]
      OBVIOUS
    <2>1. i = 1 \/ i = 2 \/ i = 3 \/ i = 4 \/ i = 5 \/ i = 6
      BY <1>4
    <2> QED
      BY <1>4, <2>1
  <1>6. Len(u) = Len(s) + 2 /\ u[Len(s) + 1] = t[1] /\ u[Len(s) + 2] = t[2]
    BY <1>4
  <1>7. s \o t = u
    BY <1>3, <1>4, <1>5, <1>6, Appended
  <1> QED
    BY <1>2, <1>7

LEMMA NoneAndPair ==
  ASSUME NEW a, NEW b
  PROVE  <<>> \o <<a, b>> = <<a, b>> /\ <<a, b>> \o <<>> = <<a, b>>
  <1>1. PICK s, S : s = <<a, b>> /\ S = {a, b}
    OBVIOUS
  <1>2. s \in Seq(S)
    BY <1>1
  <1>3. <<>> \o s = s /\ s \o <<>> = s
    BY <1>2, ConcatEmptySeq
  <1> QED
    BY <1>1, <1>3

(* The lists that apply_settings() makes are the ones above. *)
LEMMA RebugLists ==
  /\ Modes!RebugCalls(0) = IF files["vsh.nrm"] # "absent" THEN RebugOffCalls(6) ELSE <<>>
  /\ Modes!RebugCalls(1) = IF files["vsh.swp"] # "absent"
                             THEN IF files["vsh.dexsp"] # "absent" /\ files["sysconf.cex"] # "absent"
                                    THEN RebugOnCalls(8) ELSE RebugOnCalls(6)
                             ELSE <<>>
  <1>1. Modes!RebugCalls(0) = IF files["vsh.nrm"] # "absent" THEN RebugOffCalls(6) ELSE <<>>
    <2>1. PICK x :
            /\ x[1] = Modes!Ren("vsh", "vsh.swp") /\ x[2] = Modes!AndRen("vsh.nrm", "vsh")
            /\ x[3] = Modes!Ren("index", "index.swp") /\ x[4] = Modes!AndRen("index.nrm", "index")
            /\ x[5] = Modes!Ren("version", "version.swp") /\ x[6] = Modes!AndRen("version.nrm", "version")
      <3>1. PICK x : x = RebugOffCalls(6)
        OBVIOUS
      <3> QED
        BY <3>1 DEF RebugOffCalls
    <2>2. /\ Modes!Replace("vsh", "vsh.swp", "vsh.nrm") = <<x[1], x[2]>>
          /\ Modes!Replace("index", "index.swp", "index.nrm") = <<x[3], x[4]>>
          /\ Modes!Replace("version", "version.swp", "version.nrm") = <<x[5], x[6]>>
      BY <2>1 DEF Modes!Replace
    <2>3. RebugOffCalls(6) = <<x[1], x[2], x[3], x[4], x[5], x[6]>>
      BY <2>1 DEF RebugOffCalls
    <2>4. <<x[1], x[2]>> \o <<x[3], x[4]>> \o <<x[5], x[6]>>
            = <<x[1], x[2], x[3], x[4], x[5], x[6]>>
      <3>1. <<x[1], x[2]>> \o <<x[3], x[4]>> = <<x[1], x[2], x[3], x[4]>>
        BY PairAndPair, Zenon
      <3>2. <<x[1], x[2], x[3], x[4]>> \o <<x[5], x[6]>> = <<x[1], x[2], x[3], x[4], x[5], x[6]>>
        BY FourAndPair, Zenon
      <3> QED
        BY <3>1, <3>2, Zenon
    <2>5. Modes!RebugCalls(0) = IF files["vsh.nrm"] # "absent"
            THEN <<x[1], x[2]>> \o <<x[3], x[4]>> \o <<x[5], x[6]>> ELSE <<>>
      BY <2>2 DEF Modes!RebugCalls, Modes!Exists, Modes!Absent
    <2> QED
      BY <2>3, <2>4, <2>5
  <1>2. files["vsh.swp"] = "absent" => Modes!RebugCalls(1) = <<>>
    BY DEF Modes!RebugCalls, Modes!Exists, Modes!Absent
  <1>3. CASE files["vsh.swp"] # "absent" /\ files["vsh.dexsp"] # "absent" /\ files["sysconf.cex"] # "absent"
    <2>1. PICK x :
            /\ x[1] = Modes!Ren("sysconf", "sysconf.dex") /\ x[2] = Modes!AndRen("sysconf.cex", "sysconf")
            /\ x[3] = Modes!Ren("vsh", "vsh.nrm") /\ x[4] = Modes!AndRen("vsh.swp", "vsh")
            /\ x[5] = Modes!Ren("index", "index.nrm") /\ x[6] = Modes!AndRen("index.swp", "index")
            /\ x[7] = Modes!Ren("version", "version.nrm") /\ x[8] = Modes!AndRen("version.swp", "version")
      <3>1. PICK x : x = RebugOnCalls(8)
        OBVIOUS
      <3> QED
        BY <3>1 DEF RebugOnCalls
    <2>2. /\ Modes!Replace("sysconf", "sysconf.dex", "sysconf.cex") = <<x[1], x[2]>>
          /\ Modes!Replace("vsh", "vsh.nrm", "vsh.swp") = <<x[3], x[4]>>
          /\ Modes!Replace("index", "index.nrm", "index.swp") = <<x[5], x[6]>>
          /\ Modes!Replace("version", "version.nrm", "version.swp") = <<x[7], x[8]>>
      BY <2>1 DEF Modes!Replace
    <2>3. RebugOnCalls(8) = <<x[1], x[2], x[3], x[4], x[5], x[6], x[7], x[8]>>
      BY <2>1 DEF RebugOnCalls
    <2>4. <<x[1], x[2]>> \o <<x[3], x[4]>> \o <<x[5], x[6]>> \o <<x[7], x[8]>>
            = <<x[1], x[2], x[3], x[4], x[5], x[6], x[7], x[8]>>
      <3>1. <<x[1], x[2]>> \o <<x[3], x[4]>> = <<x[1], x[2], x[3], x[4]>>
        BY PairAndPair, Zenon
      <3>2. <<x[1], x[2], x[3], x[4]>> \o <<x[5], x[6]>> = <<x[1], x[2], x[3], x[4], x[5], x[6]>>
        BY FourAndPair, Zenon
      <3>3. <<x[1], x[2], x[3], x[4], x[5], x[6]>> \o <<x[7], x[8]>> = <<x[1], x[2], x[3], x[4], x[5], x[6], x[7], x[8]>>
        BY SixAndPair, Zenon
      <3> QED
        BY <3>1, <3>2, <3>3, Zenon
    <2>5. Modes!RebugCalls(1)
            = <<x[1], x[2]>> \o <<x[3], x[4]>> \o <<x[5], x[6]>> \o <<x[7], x[8]>>
      <3>1. Modes!RebugCalls(1)
              = Modes!Replace("sysconf", "sysconf.dex", "sysconf.cex")
                \o Modes!Replace("vsh", "vsh.nrm", "vsh.swp")
                \o Modes!Replace("index", "index.nrm", "index.swp")
                \o Modes!Replace("version", "version.nrm", "version.swp")
        BY <1>3 DEF Modes!RebugCalls, Modes!SysconfToCex, Modes!Exists, Modes!Absent
      <3> QED
        BY <2>2, <3>1, Zenon
    <2>6. Modes!RebugCalls(1) = RebugOnCalls(8)
      BY <2>3, <2>4, <2>5, Zenon
    <2> QED
      BY <1>1, <1>3, <2>6
  <1>4. CASE files["vsh.swp"] # "absent" /\ (files["vsh.dexsp"] = "absent" \/ files["sysconf.cex"] = "absent")
    <2>1. PICK x :
            /\ x[1] = Modes!Ren("vsh", "vsh.nrm") /\ x[2] = Modes!AndRen("vsh.swp", "vsh")
            /\ x[3] = Modes!Ren("index", "index.nrm") /\ x[4] = Modes!AndRen("index.swp", "index")
            /\ x[5] = Modes!Ren("version", "version.nrm") /\ x[6] = Modes!AndRen("version.swp", "version")
      <3>1. PICK x : x = RebugOnCalls(6)
        OBVIOUS
      <3> QED
        BY <3>1 DEF RebugOnCalls
    <2>2. /\ Modes!Replace("vsh", "vsh.nrm", "vsh.swp") = <<x[1], x[2]>>
          /\ Modes!Replace("index", "index.nrm", "index.swp") = <<x[3], x[4]>>
          /\ Modes!Replace("version", "version.nrm", "version.swp") = <<x[5], x[6]>>
      BY <2>1 DEF Modes!Replace
    <2>3. RebugOnCalls(6) = <<x[1], x[2], x[3], x[4], x[5], x[6]>>
      BY <2>1 DEF RebugOnCalls
    <2>4. <<x[1], x[2]>> \o <<x[3], x[4]>> \o <<x[5], x[6]>>
            = <<x[1], x[2], x[3], x[4], x[5], x[6]>>
      <3>1. <<x[1], x[2]>> \o <<x[3], x[4]>> = <<x[1], x[2], x[3], x[4]>>
        BY PairAndPair, Zenon
      <3>2. <<x[1], x[2], x[3], x[4]>> \o <<x[5], x[6]>> = <<x[1], x[2], x[3], x[4], x[5], x[6]>>
        BY FourAndPair, Zenon
      <3> QED
        BY <3>1, <3>2, Zenon
    <2>5. Modes!RebugCalls(1)
            = <<>> \o <<x[1], x[2]>> \o <<x[3], x[4]>> \o <<x[5], x[6]>>
      <3>1. Modes!RebugCalls(1)
              = <<>> \o Modes!Replace("vsh", "vsh.nrm", "vsh.swp")
                \o Modes!Replace("index", "index.nrm", "index.swp")
                \o Modes!Replace("version", "version.nrm", "version.swp")
        <4>1. CASE files["vsh.dexsp"] = "absent"
          BY <1>4, <4>1 DEF Modes!RebugCalls, Modes!Exists, Modes!Absent
        <4>2. CASE files["sysconf.cex"] = "absent"
          BY <1>4, <4>2 DEF Modes!RebugCalls, Modes!Exists, Modes!Absent
        <4> QED
          BY <1>4, <4>1, <4>2
      <3> QED
        BY <2>2, <3>1, Zenon
    <2>6. <<>> \o <<x[1], x[2]>> = <<x[1], x[2]>>
      BY NoneAndPair, Zenon
    <2>7. Modes!RebugCalls(1) = RebugOnCalls(6)
      BY <2>3, <2>4, <2>5, <2>6, Zenon
    <2> QED
      BY <1>1, <1>4, <2>7
  <1> QED
    BY <1>1, <1>2, <1>3, <1>4

LEMMA XmbLists ==
  /\ Modes!XmbCalls(0) =
       IF mode.rebug = 0 \/ files["vsh.nrm"] = "absent" \/ files["vsh.cexsp"] = "absent" THEN <<>>
       ELSE IF mode.menu = 0 THEN XmbLongCalls(4) ELSE XmbOffCalls(2)
  /\ Modes!XmbCalls(1) =
       IF mode.rebug = 0 \/ files["vsh.nrm"] = "absent" \/ files["vsh.dexsp"] = "absent" THEN <<>>
       ELSE XmbOnCalls(2)
  <1>1. PICK a, b, c, d :
          /\ a = Modes!Ren("vsh", "vsh.dexsp") /\ b = Modes!AndRen("vsh.cexsp", "vsh")
          /\ c = Modes!AndRen("sysconf", "sysconf.dex") /\ d = Modes!AndRen("sysconf.cex", "sysconf")
    OBVIOUS
  <1>2. /\ Modes!Replace("vsh", "vsh.dexsp", "vsh.cexsp") = <<a, b>>
        /\ XmbOffCalls(2) = <<a, b>>
        /\ XmbLongCalls(4) = <<a, b, c, d>>
        /\ Modes!Replace("vsh", "vsh.cexsp", "vsh.dexsp") = XmbOnCalls(2)
    BY <1>1 DEF Modes!Replace, XmbOffCalls, XmbLongCalls, XmbOnCalls
  <1>3. <<a, b>> \o <<c, d>> = <<a, b, c, d>>
    <2>1. PICK x : x[1] = a /\ x[2] = b /\ x[3] = c /\ x[4] = d
      <3>1. PICK x : x = <<a, b, c, d>>
        OBVIOUS
      <3> QED
        BY <3>1
    <2>2. <<x[1], x[2]>> \o <<x[3], x[4]>> = <<x[1], x[2], x[3], x[4]>>
      BY PairAndPair, Zenon
    <2> QED
      BY <2>1, <2>2
  <1>4. <<a, b>> \o <<>> = <<a, b>>
    BY NoneAndPair, Zenon
  <1>5. Modes!XmbCalls(0) =
       IF mode.rebug = 0 \/ files["vsh.nrm"] = "absent" \/ files["vsh.cexsp"] = "absent" THEN <<>>
       ELSE <<a, b>> \o (IF mode.menu = 0 THEN <<c, d>> ELSE <<>>)
    BY <1>1, <1>2 DEF Modes!XmbCalls, Modes!Exists, Modes!Absent
  <1>6. Modes!XmbCalls(1) =
       IF mode.rebug = 0 \/ files["vsh.nrm"] = "absent" \/ files["vsh.dexsp"] = "absent" THEN <<>>
       ELSE XmbOnCalls(2)
    BY <1>2 DEF Modes!XmbCalls, Modes!Exists, Modes!Absent
  <1> QED
    BY <1>2, <1>3, <1>4, <1>5, <1>6

LEMMA MenuLists ==
  /\ Modes!MenuCalls(0) = IF files["sysconf.cex"] = "absent" THEN <<>> ELSE MenuOffCalls(2)
  /\ Modes!MenuCalls(1) = IF files["sysconf.dex"] = "absent" THEN <<>> ELSE MenuOnCalls(2)
  BY DEF Modes!MenuCalls, Modes!SysconfToCex, Modes!Replace, MenuOffCalls,
     MenuOnCalls,
         Modes!Exists, Modes!Absent

LEMMA WebLists ==
  /\ Modes!WebmanCalls(0) = IF files["webftp"] = "absent" THEN <<>> ELSE WebOffCalls(1)
  /\ Modes!WebmanCalls(1) = IF files["webftp.bak"] = "absent" THEN <<>> ELSE WebOnCalls(1)
  BY DEF Modes!WebmanCalls, WebOffCalls, WebOnCalls, Modes!Exists, Modes!Absent

LEMMA CfwLists ==
  ASSUME NEW v \in {0, 1}
  PROVE  /\ files["net.org"] # "absent" /\ files["tool2.org"] # "absent"
              => Modes!CfwCalls(v) = CfwOffCalls(6)
         /\ files["net.org"] = "absent" /\ files["net.cfw"] # "absent" /\ files["tool2.cfw"] # "absent"
            /\ files["xai.bak"] # "absent" /\ files["rco.bak"] # "absent"
              => Modes!CfwCalls(v) = CfwOnCalls(6)
  <1>1. Modes!Read(files, [mode EXCEPT !.cfw = v]).cfw =
          IF files["net.org"] # "absent" THEN 1 ELSE IF files["net.cfw"] # "absent" THEN 0
          ELSE [mode EXCEPT !.cfw = v]["cfw"]
    BY DEF Modes!Read, Modes!Exists, Modes!Absent
  <1>2. PICK a, b : a = CfwOffCalls(6) /\ b = CfwOnCalls(6)
    OBVIOUS
  <1>3. PICK w : w = Modes!Read(files, [mode EXCEPT !.cfw = v]).cfw
    OBVIOUS
  <1>4. Modes!CfwCalls(v) = IF w = 1 /\ files["tool2.org"] # "absent" THEN a
          ELSE IF w = 0 /\ \A n \in {"tool2.cfw", "xai.bak", "rco.bak"} : files[n] # "absent" THEN b
          ELSE <<>>
    BY <1>2, <1>3 DEF Modes!CfwCalls, CfwOffCalls, CfwOnCalls, Modes!Exists,
       Modes!Absent
  <1>5. ASSUME files["net.org"] # "absent", files["tool2.org"] # "absent"
        PROVE  Modes!CfwCalls(v) = CfwOffCalls(6)
    <2>1. w = 1
      BY <1>1, <1>3, <1>5
    <2> QED
      BY <1>2, <1>4, <1>5, <2>1
  <1>6. ASSUME files["net.org"] = "absent", files["net.cfw"] # "absent",
               files["tool2.cfw"] # "absent", files["xai.bak"] # "absent", files["rco.bak"] # "absent"
        PROVE  Modes!CfwCalls(v) = CfwOnCalls(6)
    <2>1. w = 0
      BY <1>1, <1>3, <1>6
    <2> QED
      BY <1>2, <1>4, <1>6, <2>1
  <1> QED
    BY <1>5, <1>6

(* Nothing is left to do, or nothing has been chosen. *)
LEMMA StageIsIdle ==
  ASSUME Undisturbed, choice = Modes!None \/ job = <<>>
  PROVE  Settled
  <1>1. ASSUME NEW x \in Boots, NEW k \in 1 .. 6, RebugOff(x, k) PROVE FALSE
    <2>1. RebugOffCalls(k) # <<>>
      BY DEF RebugOffCalls
    <2> QED
      BY <1>1, <2>1 DEF RebugOff
  <1>2. ASSUME NEW x \in Boots, NEW k \in 1 .. 8, RebugOn(x, k) PROVE FALSE
    <2>1. RebugOnCalls(k) # <<>>
      BY DEF RebugOnCalls
    <2> QED
      BY <1>2, <2>1 DEF RebugOn
  <1>3. ASSUME NEW k \in 1 .. 2, XmbOff(k) \/ XmbOn(k) PROVE FALSE
    <2>1. XmbOffCalls(k) # <<>> /\ XmbOnCalls(k) # <<>>
      BY DEF XmbOffCalls, XmbOnCalls
    <2> QED
      BY <1>3, <2>1 DEF XmbOff, XmbOn
  <1>4. ASSUME NEW k \in 1 .. 4, XmbLong(k) PROVE FALSE
    <2>1. XmbLongCalls(k) # <<>>
      BY DEF XmbLongCalls
    <2> QED
      BY <1>4, <2>1 DEF XmbLong
  <1>5. ASSUME NEW k \in 1 .. 2, MenuOff(k) \/ MenuOn(k) PROVE FALSE
    <2>1. MenuOffCalls(k) # <<>> /\ MenuOnCalls(k) # <<>>
      BY DEF MenuOffCalls, MenuOnCalls
    <2> QED
      BY <1>5, <2>1 DEF MenuOff, MenuOn
  <1>6. ASSUME NEW k \in 1 .. 2, CobraOff(k) \/ CobraOn(k) PROVE FALSE
    <2>1. CobraOffCalls(k) # <<>> /\ CobraOnCalls(k) # <<>>
      BY DEF CobraOffCalls, CobraOnCalls
    <2> QED
      BY <1>6, <2>1 DEF CobraOff, CobraOn
  <1>7. ASSUME WebOff(1) \/ WebOn(1) PROVE FALSE
    <2>1. WebOffCalls(1) # <<>> /\ WebOnCalls(1) # <<>>
      BY DEF WebOffCalls, WebOnCalls
    <2> QED
      BY <1>7, <2>1 DEF WebOff, WebOn
  <1>8. ASSUME NEW k \in 1 .. 6, CfwOff(k) \/ CfwOn(k) PROVE FALSE
    <2>1. CfwOffCalls(k) # <<>> /\ CfwOnCalls(k) # <<>>
      BY DEF CfwOffCalls, CfwOnCalls
    <2> QED
      BY <1>8, <2>1 DEF CfwOff, CfwOn
  <1> QED
    BY <1>1, <1>2, <1>3, <1>4, <1>5, <1>6, <1>7, <1>8 DEF Undisturbed

(* check_settings() reads the modes of files that are at rest. *)
LEMMA ReadTells ==
  ASSUME ModesRest, NEW old, files' = files, mode' = Modes!Read(files, old)
  PROVE  ModeTold'
  <1>1. /\ mode'.rebug = IF files["vsh.swp"] # "absent" THEN 0 ELSE 1
        /\ mode'.xmb = IF files["vsh.swp"] = "absent" /\ files["vsh.dexsp"] # "absent" THEN 0 ELSE 1
        /\ mode'.menu = IF files["sysconf.cex"] # "absent" THEN 1 ELSE 0
    BY DEF Modes!Read, Modes!Exists, Modes!Absent
  <1>2. /\ files["stage2.cex"] # "absent" \/ files["stage2.cex.bak"] # "absent"
        /\ files["webftp"] # "absent" \/ files["webftp.bak"] # "absent"
        /\ files["net.org"] # "absent" \/ files["net.cfw"] # "absent"
    BY DEF ModesRest, CobraRest, Cobra2, WebRest, Web, Two, CfwRest, Cfw, Net,
       Slot, Ends
  <1>3. /\ mode'.cobra = IF files["stage2.cex"] # "absent" THEN 1 ELSE 0
        /\ mode'.webman = IF files["webftp"] # "absent" THEN 1 ELSE 0
        /\ mode'.cfw = IF files["net.org"] # "absent" THEN 1 ELSE 0
    BY <1>2 DEF Modes!Read, Modes!Exists, Modes!Absent
  <1> QED
    BY <1>1, <1>3 DEF ModeTold

(* A choice is made: the files are as they were, and the calls are those of a
   mode's list.                                                              *)
LEMMA SameRests ==
  ASSUME files' = files, replaces' = replaces
  PROVE  /\ SysRest => SysRest'
         /\ MenuRest => MenuRest'
         /\ CobraRest => CobraRest'
         /\ WebRest => WebRest'
         /\ CfwRest => CfwRest'
  BY RestsStay

(* The names were not as the choice needs them. *)
LEMMA NothingToDo ==
  ASSUME ModesRest, files' = files, replaces' = replaces, job' = <<>>,
         choice' # Modes!None
  PROVE  Undisturbed'
  BY SameRests DEF ModesRest, Undisturbed, Settled

LEMMA RebugChosen ==
  ASSUME ModesRest, ModeTold, files' = files, replaces' = replaces,
         choice' # Modes!None,
         chain' = TRUE, NEW v \in {0, 1}, v # mode.rebug, job' = Modes!RebugCalls(v)
  PROVE  Undisturbed'
  <1>1. PICK x \in Boots, p \in Ends : System(x, p, p, p)
    BY DEF ModesRest, SysRest
  <1>2. SysRest' /\ MenuRest' /\ CobraRest' /\ WebRest' /\ CfwRest'
    BY SameRests DEF ModesRest
  <1>3. x # "absent"
    BY DEF Boots
  <1>4. CASE v = 0
    <2>1. p = 0
      BY <1>1, <1>3, <1>4 DEF ModeTold, System, Vsh, Slot, Ends
    <2>2. job' = RebugOffCalls(6)
      BY <1>1, <1>4, <2>1, RebugLists DEF System, Vsh, Slot
    <2>3. System(x, 0, 0, 0)'
      BY <1>1, <2>1 DEF System, Vsh, Index, Version, Slot, Spare
    <2>4. Off(6, 6) = 0 /\ Off(6, 4) = 0 /\ Off(6, 2) = 0
      BY DEF Off
    <2>5. RebugOff(x, 6)'
      BY <1>2, <2>2, <2>3, <2>4 DEF RebugOff
    <2> QED
      BY <2>5 DEF Undisturbed
  <1>5. CASE v = 1
    <2>1. p = 2
      BY <1>1, <1>3, <1>5 DEF ModeTold, System, Vsh, Slot, Ends
    <2>2. files["vsh.swp"] # "absent"
      BY <1>1, <1>3, <2>1 DEF System, Vsh, Slot
    <2>3. System(x, 2, 2, 2)'
      BY <1>1, <2>1 DEF System, Vsh, Index, Version, Slot, Spare
    <2>4. CASE files["vsh.dexsp"] # "absent" /\ files["sysconf.cex"] # "absent"
      <3>1. job' = RebugOnCalls(8)
        BY <1>5, <2>2, <2>4, RebugLists
      <3>2. Sysconf(0)'
        <4>1. PICK q \in Ends : Sysconf(q)
          BY DEF ModesRest, MenuRest
        <4>2. ~replaces => q = 0
          BY <2>4, <4>1 DEF Sysconf, Slot, Ends
        <4> QED
          BY <4>1, <4>2 DEF Sysconf, Slot
      <3>3. On(8, 6) = 2 /\ On(8, 4) = 2 /\ On(8, 2) = 2 /\ Off(8, 8) = 0
        BY DEF On, Off
      <3>4. RebugOn(x, 8)'
        BY <1>2, <2>3, <3>1, <3>2, <3>3 DEF RebugOn
      <3> QED
        BY <3>4 DEF Undisturbed
    <2>5. CASE files["vsh.dexsp"] = "absent" \/ files["sysconf.cex"] = "absent"
      <3>1. job' = RebugOnCalls(6)
        BY <1>5, <2>2, <2>5, RebugLists
      <3>2. On(6, 6) = 2 /\ On(6, 4) = 2 /\ On(6, 2) = 2
        BY DEF On
      <3>3. RebugOn(x, 6)'
        BY <1>2, <2>3, <3>1, <3>2 DEF RebugOn
      <3> QED
        BY <3>3 DEF Undisturbed
    <2> QED
      BY <2>4, <2>5
  <1> QED
    BY <1>4, <1>5

LEMMA XmbChosen ==
  ASSUME ModesRest, ModeTold, files' = files, replaces' = replaces,
         choice' # Modes!None,
         chain' = TRUE, NEW v \in {0, 1}, job' = Modes!XmbCalls(v)
  PROVE  Undisturbed'
  <1>1. PICK x \in Boots, p \in Ends : System(x, p, p, p)
    BY DEF ModesRest, SysRest
  <1>2. SysRest' /\ MenuRest' /\ CobraRest' /\ WebRest' /\ CfwRest'
    BY SameRests DEF ModesRest
  <1>3. x # "absent"
    BY DEF Boots
  <1>4. CASE job' = <<>>
    BY <1>4, NothingToDo
  <1>5. CASE job' # <<>>
    <2>1. mode.rebug # 0 /\ files["vsh.nrm"] # "absent"
      BY <1>5, XmbLists
    <2>2. p = 0
      BY <1>1, <1>3, <2>1 DEF System, Vsh, Slot, Ends
    <2>3. CASE v = 0
      <3>1. files["vsh.cexsp"] # "absent"
        BY <1>5, <2>3, XmbLists
      <3>2. x = "debug"
        BY <1>1, <3>1 DEF System, Spare
      <3>3. Xmb(0)
        BY <1>1, <2>2, <3>2, XmbIsSystem
      <3>4. Xmb(0)'
        BY <3>3 DEF Xmb, Index, Version, Slot
      <3>5. CASE mode.menu = 0
        <4>1. job' = XmbLongCalls(4)
          BY <2>1, <2>3, <3>1, <3>5, XmbLists
        <4>2. Sysconf(2)'
          <5>1. PICK q \in Ends : Sysconf(q)
            BY DEF ModesRest, MenuRest
          <5>2. files["sysconf.cex"] = "absent"
            BY <3>5 DEF ModeTold
          <5>3. ~replaces => q = 2
            BY <5>1, <5>2 DEF Sysconf, Slot, Ends
          <5> QED
            BY <5>1, <5>3 DEF Sysconf, Slot
        <4>3. Off(4, 4) = 0
          BY DEF Off
        <4>4. XmbLong(4)'
          BY <1>2, <3>4, <4>1, <4>2, <4>3 DEF XmbLong
        <4> QED
          BY <4>4 DEF Undisturbed
      <3>6. CASE mode.menu # 0
        <4>1. job' = XmbOffCalls(2)
          BY <2>1, <2>3, <3>1, <3>6, XmbLists
        <4>2. Off(2, 2) = 0
          BY DEF Off
        <4>3. XmbOff(2)'
          BY <1>2, <3>4, <4>1, <4>2 DEF XmbOff
        <4> QED
          BY <4>3 DEF Undisturbed
      <3> QED
        BY <3>5, <3>6
    <2>4. CASE v = 1
      <3>1. files["vsh.dexsp"] # "absent" /\ job' = XmbOnCalls(2)
        BY <1>5, <2>4, XmbLists
      <3>2. x = "retail"
        BY <1>1, <3>1 DEF System, Spare, Boots
      <3>3. Xmb(2)
        BY <1>1, <2>2, <3>2, XmbIsSystem
      <3>4. Xmb(2)'
        BY <3>3 DEF Xmb, Index, Version, Slot
      <3>5. On(2, 2) = 2
        BY DEF On
      <3>6. XmbOn(2)'
        BY <1>2, <3>1, <3>4, <3>5 DEF XmbOn
      <3> QED
        BY <3>6 DEF Undisturbed
    <2> QED
      BY <2>3, <2>4
  <1> QED
    BY <1>4, <1>5

LEMMA MenuChosen ==
  ASSUME ModesRest, ModeTold, files' = files, replaces' = replaces,
         choice' # Modes!None,
         chain' = TRUE, NEW v \in {0, 1}, job' = Modes!MenuCalls(v)
  PROVE  Undisturbed'
  <1>1. PICK p \in Ends : Sysconf(p)
    BY DEF ModesRest, MenuRest
  <1>2. SysRest' /\ MenuRest' /\ CobraRest' /\ WebRest' /\ CfwRest'
    BY SameRests DEF ModesRest
  <1>3. CASE job' = <<>>
    BY <1>3, NothingToDo
  <1>4. CASE job' # <<>> /\ v = 0
    <2>1. files["sysconf.cex"] # "absent" /\ job' = MenuOffCalls(2)
      BY <1>4, MenuLists
    <2>2. ~replaces => p = 0
      BY <1>1, <2>1 DEF Sysconf, Slot, Ends
    <2>3. Sysconf(0)'
      BY <1>1, <2>2 DEF Sysconf, Slot
    <2>4. Off(2, 2) = 0
      BY DEF Off
    <2>5. MenuOff(2)'
      BY <1>2, <2>1, <2>3, <2>4 DEF MenuOff
    <2> QED
      BY <2>5 DEF Undisturbed
  <1>5. CASE job' # <<>> /\ v = 1
    <2>1. files["sysconf.dex"] # "absent" /\ job' = MenuOnCalls(2)
      BY <1>5, MenuLists
    <2>2. ~replaces => p = 2
      BY <1>1, <2>1 DEF Sysconf, Slot, Ends
    <2>3. Sysconf(2)'
      BY <1>1, <2>2 DEF Sysconf, Slot
    <2>4. On(2, 2) = 2
      BY DEF On
    <2>5. MenuOn(2)'
      BY <1>2, <2>1, <2>3, <2>4 DEF MenuOn
    <2> QED
      BY <2>5 DEF Undisturbed
  <1> QED
    BY <1>3, <1>4, <1>5

LEMMA CobraChosen ==
  ASSUME ModesRest, ModeTold, files' = files, replaces' = replaces,
         choice' # Modes!None,
         chain' = TRUE, NEW v \in {0, 1}, job' = Modes!CobraCalls(v)
  PROVE  Undisturbed'
  <1>1. PICK p \in Ends : Cobra2(p, p)
    BY DEF ModesRest, CobraRest
  <1>2. SysRest' /\ MenuRest' /\ CobraRest' /\ WebRest' /\ CfwRest'
    BY SameRests DEF ModesRest
  <1>3. CASE job' = <<>>
    BY <1>3, NothingToDo
  <1>4. /\ Cobra2(p, p)'
        /\ Modes!Bak("stage2.cex") = "stage2.cex.bak" /\ Modes!Bak("stage2.dex") = "stage2.dex.bak"
    BY <1>1 DEF Cobra2, Two, Modes!Bak
  <1>5. CobraThere
    BY <1>1, <1>4 DEF CobraThere, OneOf, Cobra2, Two, Ends
  <1>6. CASE job' # <<>> /\ v = 0
    <2>1. files["stage2.cex"] # "absent"
      BY <1>6 DEF Modes!CobraCalls, Modes!Exists, Modes!Absent
    <2>2. p = 0
      BY <1>1, <2>1 DEF Cobra2, Two, Ends
    <2>3. ~OnSide("stage2.dex", v)
      BY <1>1, <1>6, <2>2 DEF OnSide, Cobra2, Two
    <2>4. job' = <<Move("stage2.cex", v), Move("stage2.dex", v)>>
      BY <1>5, <1>6, <2>3, CobraLists
    <2>5. job' = CobraOffCalls(2)
      BY <1>4, <1>6, <2>4 DEF Move, CobraOffCalls
    <2>6. Gone(2, 2) = 0 /\ Gone(2, 1) = 0
      BY DEF Gone
    <2>7. CobraOff(2)'
      BY <1>2, <1>4, <2>2, <2>5, <2>6 DEF CobraOff
    <2> QED
      BY <2>7 DEF Undisturbed
  <1>7. CASE job' # <<>> /\ v = 1
    <2>1. files["stage2.cex.bak"] # "absent"
      BY <1>4, <1>7 DEF Modes!CobraCalls, Modes!Exists, Modes!Absent
    <2>2. p = 2
      BY <1>1, <2>1 DEF Cobra2, Two, Ends
    <2>3. ~OnSide("stage2.dex", v)
      BY <1>1, <1>7, <2>2 DEF OnSide, Cobra2, Two
    <2>4. job' = <<Move("stage2.cex", v), Move("stage2.dex", v)>>
      BY <1>5, <1>7, <2>3, CobraLists
    <2>5. job' = CobraOnCalls(2)
      BY <1>4, <1>7, <2>4 DEF Move, CobraOnCalls
    <2>6. Back(2, 2) = 2 /\ Back(2, 1) = 2
      BY DEF Back
    <2>7. CobraOn(2)'
      BY <1>2, <1>4, <2>2, <2>5, <2>6 DEF CobraOn
    <2> QED
      BY <2>7 DEF Undisturbed
  <1> QED
    BY <1>3, <1>6, <1>7

LEMMA WebChosen ==
  ASSUME ModesRest, ModeTold, files' = files, replaces' = replaces,
         choice' # Modes!None,
         chain' = TRUE, NEW v \in {0, 1}, job' = Modes!WebmanCalls(v)
  PROVE  Undisturbed'
  <1>1. PICK p \in Ends : Web(p)
    BY DEF ModesRest, WebRest
  <1>2. SysRest' /\ MenuRest' /\ CobraRest' /\ WebRest' /\ CfwRest'
    BY SameRests DEF ModesRest
  <1>3. CASE job' = <<>>
    BY <1>3, NothingToDo
  <1>4. Web(p)'
    BY <1>1 DEF Web, Two
  <1>5. CASE job' # <<>> /\ v = 0
    <2>1. files["webftp"] # "absent" /\ job' = WebOffCalls(1)
      BY <1>5, WebLists
    <2>2. p = 0
      BY <1>1, <2>1 DEF Web, Two, Ends
    <2>3. Gone(1, 1) = 0
      BY DEF Gone
    <2>4. WebOff(1)'
      BY <1>2, <1>4, <2>1, <2>2, <2>3 DEF WebOff
    <2> QED
      BY <2>4 DEF Undisturbed
  <1>6. CASE job' # <<>> /\ v = 1
    <2>1. files["webftp.bak"] # "absent" /\ job' = WebOnCalls(1)
      BY <1>6, WebLists
    <2>2. p = 2
      BY <1>1, <2>1 DEF Web, Two, Ends
    <2>3. Back(1, 1) = 2
      BY DEF Back
    <2>4. WebOn(1)'
      BY <1>2, <1>4, <2>1, <2>2, <2>3 DEF WebOn
    <2> QED
      BY <2>4 DEF Undisturbed
  <1> QED
    BY <1>3, <1>5, <1>6

LEMMA CfwChosen ==
  ASSUME ModesRest, ModeTold, files' = files, replaces' = replaces,
         choice' # Modes!None,
         chain' = TRUE, NEW v \in {0, 1}, job' = Modes!CfwCalls(v)
  PROVE  Undisturbed'
  <1>1. PICK p \in Ends : Cfw(p, p, p, p)
    BY DEF ModesRest, CfwRest
  <1>2. SysRest' /\ MenuRest' /\ CobraRest' /\ WebRest' /\ CfwRest'
    BY SameRests DEF ModesRest
  <1>3. CASE p = 0
    <2>1. job' = CfwOffCalls(6)
      <3>1. files["net.org"] # "absent" /\ files["tool2.org"] # "absent"
        BY <1>1, <1>3 DEF Cfw, Net, Tool2, Slot
      <3> QED
        BY <3>1, CfwLists
    <2>2. Cfw(0, 0, 0, 0)'
      BY <1>1, <1>3 DEF Cfw, Net, Tool2, Slot, Two
    <2>3. Gone(6, 6) = 0 /\ Gone(6, 5) = 0 /\ Off(6, 4) = 0 /\ Off(6, 2) = 0
      BY DEF Gone, Off
    <2>4. CfwOff(6)'
      BY <1>2, <2>1, <2>2, <2>3 DEF CfwOff
    <2> QED
      BY <2>4 DEF Undisturbed
  <1>4. CASE p = 2
    <2>1. job' = CfwOnCalls(6)
      <3>1. /\ files["net.org"] = "absent" /\ files["net.cfw"] # "absent"
            /\ files["tool2.cfw"] # "absent" /\ files["xai.bak"] # "absent"
            /\ files["rco.bak"] # "absent"
        BY <1>1, <1>4 DEF Cfw, Net, Tool2, Slot, Two
      <3> QED
        BY <3>1, CfwLists
    <2>2. Cfw(2, 2, 2, 2)'
      BY <1>1, <1>4 DEF Cfw, Net, Tool2, Slot, Two
    <2>3. Back(6, 6) = 2 /\ Back(6, 5) = 2 /\ On(6, 4) = 2 /\ On(6, 2) = 2
      BY DEF Back, On
    <2>4. CfwOn(6)'
      BY <1>2, <2>1, <2>2, <2>3 DEF CfwOn
    <2> QED
      BY <2>4 DEF Undisturbed
  <1> QED
    BY <1>3, <1>4 DEF Ends

(* The last call of each list leaves the files at rest. *)
LEMMA ListsEnd ==
  /\ \A x \in Boots : RebugOff(x, 0)' \/ RebugOn(x, 0)' => Settled'
  /\ XmbOff(0)' \/ XmbOn(0)' \/ XmbLong(0)' => Settled'
  /\ MenuOff(0)' \/ MenuOn(0)' => Settled'
  /\ CobraOff(0)' \/ CobraOn(0)' => Settled'
  /\ WebOff(0)' \/ WebOn(0)' => Settled'
  /\ CfwOff(0)' \/ CfwOn(0)' => Settled'
  <1>1. /\ Off(0, 6) = 2 /\ Off(0, 4) = 2 /\ Off(0, 2) = 2
        /\ On(0, 6) = 0 /\ On(0, 4) = 0 /\ On(0, 2) = 0
        /\ Gone(0, 6) = 2 /\ Gone(0, 5) = 2 /\ Gone(0, 2) = 2 /\ Gone(0, 1) = 2
        /\ Back(0, 6) = 0 /\ Back(0, 5) = 0 /\ Back(0, 2) = 0 /\ Back(0, 1) = 0
    BY DEF Off, On, Gone, Back
  <1>2. /\ RebugOffCalls(0) = <<>> /\ RebugOnCalls(0) = <<>> /\ XmbOffCalls(0) = <<>>
        /\ XmbOnCalls(0) = <<>> /\ XmbLongCalls(0) = <<>> /\ MenuOffCalls(0) = <<>>
        /\ MenuOnCalls(0) = <<>> /\ CobraOffCalls(0) = <<>> /\ CobraOnCalls(0) = <<>>
        /\ WebOffCalls(0) = <<>> /\ WebOnCalls(0) = <<>>
        /\ CfwOffCalls(0) = <<>> /\ CfwOnCalls(0) = <<>>
    BY DEF RebugOffCalls, RebugOnCalls, XmbOffCalls, XmbOnCalls, XmbLongCalls,
       MenuOffCalls,
           MenuOnCalls, CobraOffCalls, CobraOnCalls, WebOffCalls, WebOnCalls, CfwOffCalls, CfwOnCalls
  <1>3. ASSUME NEW x \in Boots, RebugOff(x, 0)' \/ RebugOn(x, 0)' PROVE Settled'
    <2>1. SysRest'
      BY <1>1, <1>3 DEF RebugOff, RebugOn, SysRest, Ends
    <2>2. MenuRest'
      BY <1>3 DEF RebugOff, RebugOn
    <2> QED
      BY <1>2, <1>3, <2>1, <2>2 DEF RebugOff, RebugOn, Settled, ModesRest
  <1>4. ASSUME XmbOff(0)' \/ XmbOn(0)' \/ XmbLong(0)' PROVE Settled'
    <2>1. Xmb(2)' \/ Xmb(0)'
      BY <1>1, <1>4 DEF XmbOff, XmbOn, XmbLong
    <2>2. System("retail", 0, 0, 0)' \/ System("debug", 0, 0, 0)'
      BY <2>1 DEF System, Xmb, Vsh, Spare, Slot
    <2>3. SysRest'
      BY <2>2 DEF SysRest, Ends, Boots
    <2>4. MenuRest'
      BY <1>4 DEF XmbOff, XmbOn, XmbLong, MenuRest, Ends
    <2> QED
      BY <1>2, <1>4, <2>3, <2>4 DEF XmbOff, XmbOn, XmbLong, Settled, ModesRest
  <1>5. ASSUME MenuOff(0)' \/ MenuOn(0)' PROVE Settled'
    <2>1. MenuRest'
      BY <1>1, <1>5 DEF MenuOff, MenuOn, MenuRest, Ends
    <2> QED
      BY <1>2, <1>5, <2>1 DEF MenuOff, MenuOn, Settled, ModesRest
  <1>6. ASSUME CobraOff(0)' \/ CobraOn(0)' PROVE Settled'
    <2>1. CobraRest'
      BY <1>1, <1>6 DEF CobraOff, CobraOn, CobraRest, Ends
    <2> QED
      BY <1>2, <1>6, <2>1 DEF CobraOff, CobraOn, Settled, ModesRest
  <1>7. ASSUME WebOff(0)' \/ WebOn(0)' PROVE Settled'
    <2>1. WebRest'
      BY <1>1, <1>7 DEF WebOff, WebOn, WebRest, Ends
    <2> QED
      BY <1>2, <1>7, <2>1 DEF WebOff, WebOn, Settled, ModesRest
  <1>8. ASSUME CfwOff(0)' \/ CfwOn(0)' PROVE Settled'
    <2>1. CfwRest'
      BY <1>1, <1>8 DEF CfwOff, CfwOn, CfwRest, Ends
    <2> QED
      BY <1>2, <1>8, <2>1 DEF CfwOff, CfwOn, Settled, ModesRest
  <1> QED
    BY <1>3, <1>4, <1>5, <1>6, <1>7, <1>8

(* A call that nothing disturbs. *)
LEMMA CallUndisturbed ==
  ASSUME Modes!TypeOK, NEW ok \in BOOLEAN, Modes!Call(ok), faults' = 0, Undisturbed
  PROVE  Undisturbed'
  <1>1. job # <<>>
    BY DEF Modes!Call
  <1>2. ASSUME NEW x \in Boots, NEW k \in 1 .. 6, RebugOff(x, k) PROVE Undisturbed'
    <2>1. RebugOff(x, k - 1)'
      BY <1>2, RebugOffCall
    <2>2. CASE k = 1
      BY <2>1, <2>2, ListsEnd DEF Undisturbed
    <2>3. CASE k > 1
      <3>1. k - 1 \in 1 .. 6
        BY <2>3
      <3> QED
        BY <2>1, <3>1 DEF Undisturbed
    <2> QED
      BY <2>2, <2>3
  <1>3. ASSUME NEW x \in Boots, NEW k \in 1 .. 8, RebugOn(x, k) PROVE Undisturbed'
    <2>1. RebugOn(x, k - 1)'
      BY <1>3, RebugOnCall
    <2>2. CASE k = 1
      BY <2>1, <2>2, ListsEnd DEF Undisturbed
    <2>3. CASE k > 1
      <3>1. k - 1 \in 1 .. 8
        BY <2>3
      <3> QED
        BY <2>1, <3>1 DEF Undisturbed
    <2> QED
      BY <2>2, <2>3
  <1>4. ASSUME NEW k \in 1 .. 2, XmbOff(k) PROVE Undisturbed'
    <2>1. XmbOff(k - 1)'
      BY <1>4, XmbOffCall
    <2>2. CASE k = 1
      BY <2>1, <2>2, ListsEnd DEF Undisturbed
    <2>3. CASE k > 1
      <3>1. k - 1 \in 1 .. 2
        BY <2>3
      <3> QED
        BY <2>1, <3>1 DEF Undisturbed
    <2> QED
      BY <2>2, <2>3
  <1>5. ASSUME NEW k \in 1 .. 2, XmbOn(k) PROVE Undisturbed'
    <2>1. XmbOn(k - 1)'
      BY <1>5, XmbOnCall
    <2>2. CASE k = 1
      BY <2>1, <2>2, ListsEnd DEF Undisturbed
    <2>3. CASE k > 1
      <3>1. k - 1 \in 1 .. 2
        BY <2>3
      <3> QED
        BY <2>1, <3>1 DEF Undisturbed
    <2> QED
      BY <2>2, <2>3
  <1>6. ASSUME NEW k \in 1 .. 4, XmbLong(k) PROVE Undisturbed'
    <2>1. XmbLong(k - 1)'
      BY <1>6, XmbLongCall
    <2>2. CASE k = 1
      BY <2>1, <2>2, ListsEnd DEF Undisturbed
    <2>3. CASE k > 1
      <3>1. k - 1 \in 1 .. 4
        BY <2>3
      <3> QED
        BY <2>1, <3>1 DEF Undisturbed
    <2> QED
      BY <2>2, <2>3
  <1>7. ASSUME NEW k \in 1 .. 2, MenuOff(k) PROVE Undisturbed'
    <2>1. MenuOff(k - 1)'
      BY <1>7, MenuOffCall
    <2>2. CASE k = 1
      BY <2>1, <2>2, ListsEnd DEF Undisturbed
    <2>3. CASE k > 1
      <3>1. k - 1 \in 1 .. 2
        BY <2>3
      <3> QED
        BY <2>1, <3>1 DEF Undisturbed
    <2> QED
      BY <2>2, <2>3
  <1>8. ASSUME NEW k \in 1 .. 2, MenuOn(k) PROVE Undisturbed'
    <2>1. MenuOn(k - 1)'
      BY <1>8, MenuOnCall
    <2>2. CASE k = 1
      BY <2>1, <2>2, ListsEnd DEF Undisturbed
    <2>3. CASE k > 1
      <3>1. k - 1 \in 1 .. 2
        BY <2>3
      <3> QED
        BY <2>1, <3>1 DEF Undisturbed
    <2> QED
      BY <2>2, <2>3
  <1>9. ASSUME NEW k \in 1 .. 2, CobraOff(k) PROVE Undisturbed'
    <2>1. CobraOff(k - 1)'
      BY <1>9, CobraOffCall
    <2>2. CASE k = 1
      BY <2>1, <2>2, ListsEnd DEF Undisturbed
    <2>3. CASE k > 1
      <3>1. k - 1 \in 1 .. 2
        BY <2>3
      <3> QED
        BY <2>1, <3>1 DEF Undisturbed
    <2> QED
      BY <2>2, <2>3
  <1>10. ASSUME NEW k \in 1 .. 2, CobraOn(k) PROVE Undisturbed'
    <2>1. CobraOn(k - 1)'
      BY <1>10, CobraOnCall
    <2>2. CASE k = 1
      BY <2>1, <2>2, ListsEnd DEF Undisturbed
    <2>3. CASE k > 1
      <3>1. k - 1 \in 1 .. 2
        BY <2>3
      <3> QED
        BY <2>1, <3>1 DEF Undisturbed
    <2> QED
      BY <2>2, <2>3
  <1>11. ASSUME NEW k \in 1 .. 6, CfwOff(k) PROVE Undisturbed'
    <2>1. CfwOff(k - 1)'
      BY <1>11, CfwOffCall
    <2>2. CASE k = 1
      BY <2>1, <2>2, ListsEnd DEF Undisturbed
    <2>3. CASE k > 1
      <3>1. k - 1 \in 1 .. 6
        BY <2>3
      <3> QED
        BY <2>1, <3>1 DEF Undisturbed
    <2> QED
      BY <2>2, <2>3
  <1>12. ASSUME NEW k \in 1 .. 6, CfwOn(k) PROVE Undisturbed'
    <2>1. CfwOn(k - 1)'
      BY <1>12, CfwOnCall
    <2>2. CASE k = 1
      BY <2>1, <2>2, ListsEnd DEF Undisturbed
    <2>3. CASE k > 1
      <3>1. k - 1 \in 1 .. 6
        BY <2>3
      <3> QED
        BY <2>1, <3>1 DEF Undisturbed
    <2> QED
      BY <2>2, <2>3
  <1>13. ASSUME WebOff(1) \/ WebOn(1) PROVE Undisturbed'
    <2>1. WebOff(0)' \/ WebOn(0)'
      BY <1>13, WebOffCall, WebOnCall
    <2> QED
      BY <2>1, ListsEnd DEF Undisturbed
  <1> QED
    BY <1>1, <1>2, <1>3, <1>4, <1>5, <1>6, <1>7, <1>8, <1>9, <1>10, <1>11, <1>12,
       <1>13 DEF Undisturbed, Settled

(* No step of the column spoils it. *)
LEMMA ChooseUndisturbed ==
  ASSUME Undisturbed, NEW m \in Modes!ModeNames, NEW v \in {0, 1},
         Modes!Choose(m, v)
  PROVE  Undisturbed'
  <1>1. /\ choice = Modes!None /\ choice' = <<m, v>> /\ files' = files /\ replaces' = replaces
        /\ chain' = TRUE /\ mode[m] # v /\ job' = Modes!Calls(m, v)
    BY DEF Modes!Choose
  <1>2. ModesRest /\ ModeTold
    BY <1>1, StageIsIdle DEF Settled
  <1>3. choice' # Modes!None
    BY <1>1 DEF Modes!None, Modes!ModeNames
  <1>4. CASE m = "rebug"
    <2>1. job' = Modes!RebugCalls(v) /\ v # mode.rebug
      BY <1>1, <1>4 DEF Modes!Calls
    <2> QED
      BY <1>1, <1>2, <1>3, <2>1, RebugChosen
  <1>5. CASE m = "xmb"
    <2>1. job' = Modes!XmbCalls(v)
      BY <1>1, <1>5 DEF Modes!Calls
    <2> QED
      BY <1>1, <1>2, <1>3, <2>1, XmbChosen
  <1>6. CASE m = "menu"
    <2>1. job' = Modes!MenuCalls(v)
      BY <1>1, <1>6 DEF Modes!Calls
    <2> QED
      BY <1>1, <1>2, <1>3, <2>1, MenuChosen
  <1>7. CASE m = "cobra"
    <2>1. job' = Modes!CobraCalls(v)
      BY <1>1, <1>7 DEF Modes!Calls
    <2> QED
      BY <1>1, <1>2, <1>3, <2>1, CobraChosen
  <1>8. CASE m = "webman"
    <2>1. job' = Modes!WebmanCalls(v)
      BY <1>1, <1>8 DEF Modes!Calls
    <2> QED
      BY <1>1, <1>2, <1>3, <2>1, WebChosen
  <1>9. CASE m = "cfw"
    <2>1. job' = Modes!CfwCalls(v)
      BY <1>1, <1>9 DEF Modes!Calls
    <2> QED
      BY <1>1, <1>2, <1>3, <2>1, CfwChosen
  <1> QED
    BY <1>4, <1>5, <1>6, <1>7, <1>8, <1>9 DEF Modes!ModeNames

(* check_settings() reads files that are at rest. *)
LEMMA TellUndisturbed ==
  ASSUME Undisturbed, Modes!Finish \/ Modes!Quit
  PROVE  Undisturbed'
  <1>1. /\ files' = files /\ replaces' = replaces /\ job' = job /\ choice' = Modes!None
        /\ choice = Modes!None \/ job = <<>>
    BY DEF Modes!Finish, Modes!Quit
  <1>2. ModesRest /\ job = <<>>
    BY <1>1, StageIsIdle DEF Settled
  <1>3. ModesRest'
    BY <1>1, <1>2, SameRests DEF ModesRest
  <1>4. PICK old : mode' = Modes!Read(files, old)
    BY DEF Modes!Finish, Modes!Quit
  <1>5. ModeTold'
    BY <1>1, <1>2, <1>4, ReadTells
  <1> QED
    BY <1>1, <1>2, <1>3, <1>5 DEF Undisturbed, Settled

(* The firmware as it is installed. *)
LEMMA StartUndisturbed == Modes!Init => Undisturbed
  <1> SUFFICES ASSUME Modes!Init PROVE Undisturbed
    OBVIOUS
  <1>1. files = Modes!Installed /\ job = <<>>
    BY DEF Modes!Init
  <1>2. \A n \in SysNames : files[n] =
       IF n = "vsh" THEN "debug"
       ELSE IF n \in {"vsh.nrm", "index.nrm", "version.nrm"} THEN "normal"
       ELSE IF n = "vsh.cexsp" THEN "retail"
       ELSE IF n \in {"index", "version"} THEN "rebug"
       ELSE "absent"
    <2> SUFFICES ASSUME NEW n \in SysNames
                 PROVE  files[n] =
       IF n = "vsh" THEN "debug"
       ELSE IF n \in {"vsh.nrm", "index.nrm", "version.nrm"} THEN "normal"
       ELSE IF n = "vsh.cexsp" THEN "retail"
       ELSE IF n \in {"index", "version"} THEN "rebug"
       ELSE "absent"
      OBVIOUS
    <2>1. n \in Modes!Names
      BY ModeNamesAre
    <2> QED
      BY <1>1, <2>1, InstalledIs DEF SysNames
  <1>3. SysRest
    <2>1. System("debug", 0, 0, 0)
      BY <1>2 DEF SysNames, System, Vsh, Index, Version, Slot, Spare
    <2> QED
      BY <2>1 DEF SysRest, Boots, Ends
  <1>4. /\ MenuNames \subseteq Modes!Names /\ CobraNames \subseteq Modes!Names
        /\ WebNames \subseteq Modes!Names /\ CfwNames \subseteq Modes!Names
    BY ModeNamesAre
  <1>5. /\ files["sysconf"] = "dex" /\ files["sysconf.cex"] = "cex" /\ files["sysconf.dex"] = "absent"
        /\ files["webftp"] = "webftp" /\ files["webftp.bak"] = "absent"
    BY <1>1, <1>4, InstalledIs DEF MenuNames, WebNames
  <1>6. /\ files["stage2.cex"] = "stage2.cex" /\ files["stage2.cex.bak"] = "absent"
        /\ files["stage2.dex"] = "stage2.dex" /\ files["stage2.dex.bak"] = "absent"
    BY <1>1, <1>4, InstalledIs DEF CobraNames
  <1>7. /\ files["xai"] = "xai" /\ files["xai.bak"] = "absent"
        /\ files["rco"] = "rco" /\ files["rco.bak"] = "absent"
    BY <1>1, <1>4, InstalledIs DEF CfwNames
  <1>8. /\ files["net"] = "cfw" /\ files["net.org"] = "org" /\ files["net.cfw"] = "absent"
        /\ files["tool2"] = "cfw" /\ files["tool2.org"] = "org" /\ files["tool2.cfw"] = "absent"
    BY <1>1, <1>4, InstalledIs DEF CfwNames
  <1>9. MenuRest /\ WebRest
    BY <1>5 DEF MenuRest, Sysconf, WebRest, Web, Two, Slot, Ends
  <1>10. CobraRest
    BY <1>6 DEF CobraRest, Cobra2, Two, Ends
  <1>11. CfwRest
    BY <1>7, <1>8 DEF CfwRest, Cfw, Two, Net, Tool2, Slot, Ends
  <1>12. ModesRest
    BY <1>3, <1>9, <1>10, <1>11 DEF ModesRest
  <1>13. ModeTold
    <2>1. PICK old : mode = Modes!Read(files, old)
      BY DEF Modes!Init
    <2>2. /\ mode.rebug = IF files["vsh.swp"] # "absent" THEN 0 ELSE 1
          /\ mode.xmb = IF files["vsh.swp"] = "absent" /\ files["vsh.dexsp"] # "absent" THEN 0 ELSE 1
          /\ mode.menu = IF files["sysconf.cex"] # "absent" THEN 1 ELSE 0
      BY <2>1 DEF Modes!Read, Modes!Exists, Modes!Absent
    <2>3. /\ mode.cobra = IF files["stage2.cex"] # "absent" THEN 1 ELSE 0
          /\ mode.webman = IF files["webftp"] # "absent" THEN 1 ELSE 0
          /\ mode.cfw = IF files["net.org"] # "absent" THEN 1 ELSE 0
      BY <1>5, <1>6, <1>8, <2>1 DEF Modes!Read, Modes!Exists, Modes!Absent
    <2> QED
      BY <2>2, <2>3 DEF ModeTold
  <1> QED
    BY <1>1, <1>12, <1>13 DEF Undisturbed, Settled

(* A step that leaves files and calls alone. *)
LEMMA SameStage ==
  ASSUME Undisturbed, files' = files, mode' = mode, job' = job, chain' = chain,
         choice' = choice,
         replaces' = replaces
  PROVE  Undisturbed'
  <1>1. /\ SysRest => SysRest'
        /\ MenuRest => MenuRest'
        /\ CobraRest => CobraRest'
        /\ WebRest => WebRest'
        /\ CfwRest => CfwRest'
    BY SameRests
  <1>2. ASSUME Settled PROVE Settled'
    <2>1. ModesRest'
      BY <1>1, <1>2 DEF Settled, ModesRest
    <2>2. choice = Modes!None => ModeTold'
      BY <1>2 DEF Settled, ModeTold
    <2> QED
      BY <1>2, <2>1, <2>2 DEF Settled
  <1>3. /\ \A x \in Boots, p, q, r \in 0 .. 2 : System(x, p, q, r) => System(x, p, q, r)'
        /\ \A p \in 0 .. 2 : Xmb(p) => Xmb(p)'
    BY DEF System, Xmb, Vsh, Index, Version, Slot, Spare
  <1>4. /\ \A p \in 0 .. 2 : Sysconf(p) => Sysconf(p)'
        /\ \A p, q \in 0 .. 2 : Cobra2(p, q) => Cobra2(p, q)'
        /\ \A p \in 0 .. 2 : Web(p) => Web(p)'
    BY DEF Sysconf, Cobra2, Web, Two, Slot
  <1>5. \A a, b, p, q \in 0 .. 2 : Cfw(a, b, p, q) => Cfw(a, b, p, q)'
    BY DEF Cfw, Two, Net, Tool2, Slot
  <1>6. /\ \A k, h \in Int : Off(k, h) \in 0 .. 2 /\ On(k, h) \in 0 .. 2
        /\ \A k, h \in Int : Gone(k, h) \in 0 .. 2 /\ Back(k, h) \in 0 .. 2
    BY DEF Off, On, Gone, Back
  <1>7. ASSUME NEW x \in Boots, NEW k \in 1 .. 6, RebugOff(x, k)
        PROVE  RebugOff(x, k)'
    BY <1>1, <1>3, <1>4, <1>5, <1>6, <1>7 DEF RebugOff
  <1>8. ASSUME NEW x \in Boots, NEW k \in 1 .. 8, RebugOn(x, k) PROVE RebugOn(x, k)'
    BY <1>1, <1>3, <1>4, <1>5, <1>6, <1>8 DEF RebugOn
  <1>9. ASSUME NEW k \in 1 .. 2, XmbOff(k) PROVE XmbOff(k)'
    BY <1>1, <1>3, <1>4, <1>5, <1>6, <1>9 DEF XmbOff
  <1>10. ASSUME NEW k \in 1 .. 2, XmbOn(k) PROVE XmbOn(k)'
    BY <1>1, <1>3, <1>4, <1>5, <1>6, <1>10 DEF XmbOn
  <1>11. ASSUME NEW k \in 1 .. 4, XmbLong(k) PROVE XmbLong(k)'
    BY <1>1, <1>3, <1>4, <1>5, <1>6, <1>11 DEF XmbLong
  <1>12. ASSUME NEW k \in 1 .. 2, MenuOff(k) PROVE MenuOff(k)'
    BY <1>1, <1>3, <1>4, <1>5, <1>6, <1>12 DEF MenuOff
  <1>13. ASSUME NEW k \in 1 .. 2, MenuOn(k) PROVE MenuOn(k)'
    BY <1>1, <1>3, <1>4, <1>5, <1>6, <1>13 DEF MenuOn
  <1>14. ASSUME NEW k \in 1 .. 2, CobraOff(k) PROVE CobraOff(k)'
    BY <1>1, <1>3, <1>4, <1>5, <1>6, <1>14 DEF CobraOff
  <1>15. ASSUME NEW k \in 1 .. 2, CobraOn(k) PROVE CobraOn(k)'
    BY <1>1, <1>3, <1>4, <1>5, <1>6, <1>15 DEF CobraOn
  <1>16. ASSUME NEW k \in 1 .. 6, CfwOff(k) PROVE CfwOff(k)'
    BY <1>1, <1>3, <1>4, <1>5, <1>6, <1>16 DEF CfwOff
  <1>17. ASSUME NEW k \in 1 .. 6, CfwOn(k) PROVE CfwOn(k)'
    BY <1>1, <1>3, <1>4, <1>5, <1>6, <1>17 DEF CfwOn
  <1>18. ASSUME WebOff(1) PROVE WebOff(1)'
    BY <1>1, <1>4, <1>6, <1>18 DEF WebOff
  <1>19. ASSUME WebOn(1) PROVE WebOn(1)'
    BY <1>1, <1>4, <1>6, <1>19 DEF WebOn
  <1> QED
    BY <1>2, <1>7, <1>8, <1>9, <1>10, <1>11, <1>12, <1>13, <1>14, <1>15, <1>16,
       <1>17, <1>18, <1>19 DEF Undisturbed

(* The steps together. *)
LEMMA CallModes ==
  ASSUME ModesInv, NEW ok \in BOOLEAN, Modes!Call(ok)
  PROVE  ModesInv'
  <1>1. ModesTyped'
    BY CobraCallTyped, OtherCallTyped DEF ModesInv
  <1>2. ASSUME faults' = 0 PROVE Undisturbed'
    <2>1. Modes!TypeOK
      BY DEF ModesInv, ModesTyped
    <2>2. faults = 0
      BY <1>2, <2>1, OtherOsAssumption DEF Modes!TypeOK, Modes!Call
    <2> QED
      BY <1>2, <2>1, <2>2, CallUndisturbed DEF ModesInv
  <1> QED
    BY <1>1, <1>2 DEF ModesInv

LEMMA ModesNext == ModesInv /\ [Modes!Next]_Modes!vars => ModesInv'
  <1> SUFFICES ASSUME ModesInv, [Modes!Next]_Modes!vars PROVE ModesInv'
    OBVIOUS
  <1>1. ModesTyped /\ (faults = 0 => Undisturbed)
    BY DEF ModesInv
  <1>2. ASSUME NEW m \in Modes!ModeNames, NEW v \in {0, 1}, Modes!Choose(m, v)
        PROVE  ModesInv'
    <2>1. faults' = faults
      BY <1>2 DEF Modes!Choose
    <2> QED
      BY <1>1, <1>2, <2>1, ChooseTyped, ChooseUndisturbed DEF ModesInv
  <1>3. ASSUME NEW ok \in BOOLEAN, Modes!Call(ok) PROVE ModesInv'
    BY <1>3, CallModes
  <1>4. CASE Modes!Finish \/ Modes!Quit
    <2>1. faults' = faults
      BY <1>4 DEF Modes!Finish, Modes!Quit
    <2> QED
      BY <1>1, <1>4, <2>1, FinishTyped, QuitTyped, TellUndisturbed DEF ModesInv
  <1>5. CASE Modes!Cut
    <2>1. faults' # 0
      <3>1. faults \in Nat
        BY <1>1, OtherOsAssumption DEF ModesTyped, Modes!TypeOK
      <3> QED
        BY <1>5, <3>1 DEF Modes!Cut
    <2> QED
      BY <1>1, <1>5, <2>1, CutTyped DEF ModesInv
  <1>6. CASE UNCHANGED Modes!vars
    <2>1. /\ files' = files /\ mode' = mode /\ job' = job /\ chain' = chain /\ choice' = choice
          /\ replaces' = replaces /\ faults' = faults
      BY <1>6, Zenon DEF Modes!vars
    <2> QED
      BY <1>1, <1>6, <2>1, StutterTyped, SameStage DEF ModesInv
  <1> QED
    BY <1>2, <1>3, <1>4, <1>5, <1>6 DEF Modes!Next

LEMMA ModesStart == Modes!Init => ModesInv
  BY StartTyped, StartUndisturbed DEF ModesInv

(* What the invariant says where nothing has failed and nothing is going on. *)
LEMMA ModesSaid == ModesInv => Modes!ModesTell
  <1> SUFFICES ASSUME ModesInv, faults = 0, choice = Modes!None
               PROVE  /\ files["vsh"] = (IF mode.rebug = 0 THEN "normal"
                                         ELSE IF mode.xmb = 0 THEN "retail" ELSE "debug")
                      /\ \A n \in {"index", "version"} :
                           files[n] = IF mode.rebug = 0 THEN "normal" ELSE "rebug"
                      /\ \A n \in {"stage2.cex", "stage2.dex"} :
                           Modes!Exists(files, n) = (mode.cobra = 1)
                      /\ Modes!Exists(files, "webftp") = (mode.webman = 1)
                      /\ \A n \in {"xai", "rco"} : Modes!Exists(files, n) = (mode.cfw = 1)
                      /\ \A n \in {"net", "tool2"} :
                           files[n] = IF mode.cfw = 1 THEN "cfw" ELSE "org"
                      /\ ~replaces => files["sysconf"] = IF mode.menu = 0 THEN "cex" ELSE "dex"
    BY DEF Modes!ModesTell
  <1>1. ModesRest /\ ModeTold
    BY StageIsIdle DEF ModesInv, Settled
  <1>2. PICK x \in Boots, p \in Ends : System(x, p, p, p)
    BY <1>1 DEF ModesRest, SysRest
  <1>3. files["vsh"] = (IF mode.rebug = 0 THEN "normal"
                        ELSE IF mode.xmb = 0 THEN "retail" ELSE "debug")
    BY <1>1, <1>2 DEF ModeTold, System, Vsh, Slot, Spare, Ends, Boots
  <1>4. \A n \in {"index", "version"} : files[n] = IF mode.rebug = 0 THEN "normal" ELSE "rebug"
    BY <1>1, <1>2 DEF ModeTold, System, Vsh, Index, Version, Slot, Ends, Boots
  <1>5. \A n \in {"stage2.cex", "stage2.dex"} : Modes!Exists(files, n) = (mode.cobra = 1)
    BY <1>1 DEF ModeTold, ModesRest, CobraRest, Cobra2, Two, Modes!Exists,
       Modes!Absent
  <1>6. Modes!Exists(files, "webftp") = (mode.webman = 1)
    BY <1>1 DEF ModeTold, Modes!Exists, Modes!Absent
  <1>7. PICK q \in Ends : Cfw(q, q, q, q)
    BY <1>1 DEF ModesRest, CfwRest
  <1>8. mode.cfw = IF q = 0 THEN 1 ELSE 0
    BY <1>1, <1>7 DEF ModeTold, Cfw, Net, Slot, Ends
  <1>9. \A n \in {"xai", "rco"} : Modes!Exists(files, n) = (mode.cfw = 1)
    BY <1>7, <1>8 DEF Cfw, Two, Modes!Exists, Modes!Absent
  <1>10. \A n \in {"net", "tool2"} : files[n] = IF mode.cfw = 1 THEN "cfw" ELSE "org"
    BY <1>7, <1>8 DEF Cfw, Net, Tool2, Slot, Ends
  <1>11. ~replaces => files["sysconf"] = IF mode.menu = 0 THEN "cex" ELSE "dex"
    BY <1>1 DEF ModeTold, ModesRest, MenuRest, Sysconf, Slot, Ends
  <1> QED
    BY <1>3, <1>4, <1>5, <1>6, <1>9, <1>10, <1>11

(* A switch of COBRA without a failure has both files on one side. *)
LEMMA CobraHealed == ModesInv => Modes!HealsCobra
  <1> SUFFICES ASSUME ModesInv, Modes!Finish, choice[1] = "cobra", status = "done",
                      clean
               PROVE  Modes!Exists(files, "stage2.cex") = Modes!Exists(files, "stage2.dex")
    BY DEF Modes!HealsCobra
  <1>1. PICK v \in {0, 1} : choice = <<"cobra", v>>
    BY DEF ModesInv, ModesTyped, Modes!TypeOK, Modes!None
  <1>2. Switching(v) /\ job = <<>>
    BY <1>1 DEF ModesInv, ModesTyped, Modes!Finish
  <1>3. OnSide("stage2.cex", v) /\ OnSide("stage2.dex", v)
    BY <1>2 DEF Switching
  <1> QED
    BY <1>3 DEF OnSide, Modes!Exists, Modes!Absent

-----------------------------------------------------------------------------
DumpKept == part = "dump" => DumpProof!IInv
OtherKept == part = "otheros" => OtherProof!IInv
LvKept == part = "lv1" => LvInv

(* A step of the composition is a step of the part, or leaves it alone. *)
LEMMA DumpKeptAlways ==
  /\ Init => DumpKept
  /\ DumpKept /\ [Next]_vars => DumpKept'
  <1>1. Init => DumpKept
    <2> SUFFICES ASSUME Init, part = "dump" PROVE DumpProof!IInv
      BY DEF DumpKept
    <2>1. Dump!Init
      BY Zenon DEF Init
    <2> QED
      BY <2>1, SameDump, DumpProof!InitInv, FlashDumpAssumption, Zenon
  <1>2. ASSUME DumpKept, [Next]_vars PROVE DumpKept'
    <2> SUFFICES ASSUME part' = "dump" PROVE DumpProof!IInv'
      BY DEF DumpKept
    <2>1. CASE part = "dump" /\ Dump!Next
      BY <1>2, <2>1, SameDump, DumpProof!StepInv, FlashDumpAssumption, Zenon
      DEF DumpKept
    <2>2. CASE UNCHANGED vars
      <3>1. part = "dump" /\ DumpProof!IInv
        BY <1>2, <2>2 DEF vars, DumpKept
      <3>2. UNCHANGED DumpProof!vars
        BY <2>2 DEF vars, OnlyDump, DumpProof!vars
      <3> QED
        BY <3>1, <3>2, DumpProof!StepInv, FlashDumpAssumption, Zenon
    <2>3. part = "dump"
      BY <1>2, Zenon DEF Next, vars
    <2>4. Next => Dump!Next
      BY <2>3 DEF Next
    <2> QED
      BY <1>2, <2>1, <2>2, <2>3, <2>4
  <1> QED
    BY <1>1, <1>2

LEMMA OtherKeptAlways ==
  /\ Init => OtherKept
  /\ OtherKept /\ [Next]_vars => OtherKept'
  <1>1. Init => OtherKept
    <2> SUFFICES ASSUME Init, part = "otheros" PROVE OtherProof!IInv
      BY DEF OtherKept
    <2>1. Other!Init
      BY Zenon DEF Init
    <2> QED
      BY <2>1, SameOther, OtherProof!InitInv, OtherOsAssumption, Zenon
  <1>2. ASSUME OtherKept, [Next]_vars PROVE OtherKept'
    <2> SUFFICES ASSUME part' = "otheros" PROVE OtherProof!IInv'
      BY DEF OtherKept
    <2>1. CASE part = "otheros" /\ Other!Next
      BY <1>2, <2>1, SameOther, OtherProof!StepInv, OtherOsAssumption, Zenon
      DEF OtherKept
    <2>2. CASE UNCHANGED vars
      <3>1. part = "otheros" /\ OtherProof!IInv
        BY <1>2, <2>2 DEF vars, OtherKept
      <3>2. UNCHANGED OtherProof!vars
        BY <2>2 DEF vars, OnlyOther, OtherProof!vars
      <3> QED
        BY <3>1, <3>2, OtherProof!StepInv, OtherOsAssumption, Zenon
    <2>3. part = "otheros"
      BY <1>2, Zenon DEF Next, vars
    <2>4. Next => Other!Next
      BY <2>3 DEF Next
    <2> QED
      BY <1>2, <2>1, <2>2, <2>3, <2>4
  <1> QED
    BY <1>1, <1>2

LEMMA LvKeptAlways ==
  /\ Init => LvKept
  /\ LvKept /\ [Next]_vars => LvKept'
  <1>1. Init => LvKept
    <2> SUFFICES ASSUME Init, part = "lv1" PROVE LvInv
      BY DEF LvKept
    <2>1. Lv1!Init
      BY Zenon DEF Init
    <2> QED
      BY <2>1, LvInit
  <1>2. ASSUME LvKept, [Next]_vars PROVE LvKept'
    <2> SUFFICES ASSUME part' = "lv1" PROVE LvInv'
      BY DEF LvKept
    <2>1. part = "lv1"
      BY <1>2, Zenon DEF Next, vars
    <2>2. LvInv
      BY <1>2, <2>1 DEF LvKept
    <2>3. CASE Next
      <3>1. Lv1!Next
        BY <2>1, <2>3 DEF Next
      <3> QED
        BY <2>2, <3>1, LvNext
    <2>4. CASE UNCHANGED vars
      <3>1. /\ UNCHANGED <<console, target, phase, found, syscalls, mem, poked,
                            lv1, readAt, chosen, flag, token, shown>>
            /\ UNCHANGED <<changes, faults>>
        BY <2>4, Zenon DEF vars, OnlyLv1
      <3>2. Lv1!TypeOK'
        BY <2>2, <3>1 DEF LvInv, Lv1!TypeOK
      <3> QED
        BY <2>2, <3>1, <3>2, LvStep DEF LvInv
    <2> QED
      BY <1>2, <2>3, <2>4
  <1> QED
    BY <1>1, <1>2

(* The invariant of the files holds whatever else the menu does. *)
FilesInvKept == part = "files" => FilesInv

LEMMA FilesKeptAlways == Init /\ [][Next]_vars => []FilesInvKept
  <1>1. ASSUME Init PROVE FilesInvKept
    <2> SUFFICES ASSUME part = "files" PROVE FilesInv
      BY DEF FilesInvKept
    <2>1. Files!Init
      BY <1>1, Zenon DEF Init
    <2> QED
      BY <2>1, FilesStarts
  <1>2. ASSUME FilesInvKept, [Next]_vars PROVE FilesInvKept'
    <2> SUFFICES ASSUME part' = "files" PROVE FilesInv'
      BY DEF FilesInvKept
    <2>1. part = "files"
      BY <1>2, Zenon DEF Next, vars
    <2>2. FilesInv
      BY <1>2, <2>1 DEF FilesInvKept
    <2>3. CASE Next
      <3>1. Files!Next
        BY <2>1, <2>3 DEF Next
      <3> QED
        BY <2>2, <3>1, FilesNext
    <2>4. CASE UNCHANGED vars
      <3>1. UNCHANGED Files!vars
        BY <2>4, Zenon DEF vars, OnlyFiles, Files!vars
      <3> QED
        BY <2>2, <3>1, FilesNext
    <2> QED
      BY <1>2, <2>3, <2>4
  <1> QED
    BY <1>1, <1>2, PTL

(* Nor is the invariant of the modes disturbed by another part. *)
ModesKept == part = "modes" => ModesInv

LEMMA ModesKeptAlways == Init /\ [][Next]_vars => []ModesKept
  <1>1. ASSUME Init PROVE ModesKept
    <2> SUFFICES ASSUME part = "modes" PROVE ModesInv
      BY DEF ModesKept
    <2>1. Modes!Init
      BY <1>1, Zenon DEF Init
    <2> QED
      BY <2>1, ModesStart
  <1>2. ASSUME ModesKept, [Next]_vars PROVE ModesKept'
    <2> SUFFICES ASSUME part' = "modes" PROVE ModesInv'
      BY DEF ModesKept
    <2>1. part = "modes"
      BY <1>2, Zenon DEF Next, vars
    <2>2. ModesInv
      BY <1>2, <2>1 DEF ModesKept
    <2>3. CASE Next
      <3>1. Modes!Next
        BY <2>1, <2>3 DEF Next
      <3> QED
        BY <2>2, <3>1, ModesNext
    <2>4. CASE UNCHANGED vars
      <3>1. UNCHANGED Modes!vars
        BY <2>4, Zenon DEF vars, OnlyModes, Modes!vars
      <3> QED
        BY <2>2, <3>1, ModesNext
    <2> QED
      BY <1>2, <2>3, <2>4
  <1> QED
    BY <1>1, <1>2, PTL

(* The instances' types are those of the theorems' modules. *)
LEMMA SameTypes ==
  /\ DumpProof!TypeOK => Dump!TypeOK
  /\ OtherProof!TypeOK => Other!TypeOK
  <1>1. DumpProof!TypeOK => Dump!TypeOK
    BY Zenon DEF DumpProof!TypeOK, Dump!TypeOK
  <1>2. OtherProof!TypeOK => Other!TypeOK
    BY Zenon DEF OtherProof!TypeOK, Other!TypeOK, OtherProof!NoHeader,
      Other!NoHeader, OtherProof!Idle, Other!Idle, OtherProof!Resized,
      Other!Resized, OtherProof!HeaderSectors, Other!HeaderSectors
  <1> QED
    BY <1>1, <1>2

Parts == {"lv1", "modes", "files", "otheros", "dump"}

(* A behaviour stays with its part. *)
LEMMA PartsStay ==
  /\ Init => part \in Parts
  /\ part \in Parts /\ [Next]_vars => (part \in Parts)'
  <1>1. ASSUME Init PROVE part \in Parts
    BY <1>1, Zenon DEF Init, Parts
  <1>2. ASSUME part \in Parts, [Next]_vars PROVE part' \in Parts
    <2>1. part' = part
      BY <1>2, Zenon DEF Next, vars
    <2> QED
      BY <1>2, <2>1
  <1> QED
    BY <1>1, <1>2

-----------------------------------------------------------------------------
(* A dump made among any number of other operations has the sectors in order,
   and one that is kept is whole or, on NAND, empty.                        *)
THEOREM ToolboxDumpsInOrder == Spec => []DumpInOrder
  <1>1. DumpKept => DumpInOrder
    BY SameDump, DumpProof!InvImpliesOrder, FlashDumpAssumption, Zenon
    DEF DumpKept, DumpInOrder
  <1> QED
    BY <1>1, DumpKeptAlways, PTL DEF Spec

(* Nor does a broken installation start unasked, for any sizes and bounds. *)
THEOREM ToolboxOtherOsSafe == Spec => []OtherOsSafe
  <1>1. OtherKept => OtherOsSafe
    BY SameOther, OtherProof!InvImpliesSafe, OtherOsAssumption, Zenon
    DEF OtherKept, OtherOsSafe
  <1> QED
    BY <1>1, OtherKeptAlways, PTL DEF Spec

(* "LV1 Patches" shows of an option what was last chosen for it, whatever was
   toggled, forced, restarted or converted in between: on every firmware and
   console, for every set of options that it may come with and any number of
   choices.  Misread names the options that a firmware's test gets wrong.    *)
THEOREM ToolboxSettingsTellThePatches == Spec => []SettingsTellThePatches
  <1>1. LvKept => SettingsTellThePatches
    BY LvInvTells DEF LvKept, SettingsTellThePatches
  <1> QED
    BY <1>1, LvKeptAlways, PTL DEF Spec

(* LV1 holds the patches chosen and no others: no access to the EEPROM leaves
   one behind or takes one away, but for lv1_um on 4.31.                     *)
THEOREM ToolboxOnlyChosenPatches == Spec => []OnlyChosenPatches
  <1>1. LvKept => OnlyChosenPatches
    BY LvInvHolds DEF LvKept, OnlyChosenPatches
  <1> QED
    BY <1>1, LvKeptAlways, PTL DEF Spec

(* As long as no call fails, "Utilities" shows the flags that the EEPROM has,
   and the QA token agrees with the QA flag.                                 *)
THEOREM ToolboxFlagsAreShown == Spec => []FlagsAreShown
  <1>1. LvKept => FlagsAreShown
    BY LvInvShows DEF LvKept, FlagsAreShown
  <1> QED
    BY <1>1, LvKeptAlways, PTL DEF Spec

(* The operations that replace the system's files: whatever is chosen in which
   order, and wherever one call fails or the power goes once, a whole registry
   is kept; as long as nothing failed the emulators in the flash are of the one
   kind that the menu shows, and LV1 loads a kernel that is there.           *)
THEOREM ToolboxFilesKept == Spec => []FilesKept
  <1>1. FilesInvKept => FilesKept
    BY FilesSaid DEF FilesInvKept, FilesKept
  <1> QED
    BY <1>1, FilesKeptAlways, PTL DEF Spec

(* Whatever modes are chosen one after the other, as long as no call failed:
   the modes that check_settings() tells from the names are those of the files
   that the system loads, for any number of choices and whether rename()
   replaces a file or not.                                                   *)
THEOREM ToolboxModesTell == Spec => []ModesTell
  <1>1. ModesKept => ModesTell
    BY ModesSaid DEF ModesKept, ModesTell
  <1> QED
    BY <1>1, ModesKeptAlways, PTL DEF Spec

(* However many calls have failed and however often the power has gone: a
   switch of COBRA that meets no failure brings its two files to one side.   *)
THEOREM ToolboxCobraHeals == Spec => CobraHeals
  <1>1. ModesKept => (part = "modes" => Modes!HealsCobra)
    BY CobraHealed DEF ModesKept
  <1>2. ModesKept /\ [Next]_vars => [part = "modes" => Modes!HealsCobra]_vars
    BY <1>1
  <1> QED
    BY <1>2, ModesKeptAlways, PTL DEF Spec, CobraHeals

(* Every part's variables have the types that its module gives them, for any
   number of operations and whatever fails.                                  *)
THEOREM ToolboxTypeCorrect == Spec => []TypeOK
  <1>1. ASSUME part \in Parts, LvKept, ModesKept, FilesInvKept, OtherKept, DumpKept
        PROVE  TypeOK
    <2>1. CASE part = "lv1"
      <3>1. Lv1!TypeOK
        BY <1>1, <2>1 DEF LvKept, LvInv
      <3> QED
        BY <2>1, <3>1 DEF TypeOK
    <2>2. CASE part = "modes"
      <3>1. Modes!TypeOK
        BY <1>1, <2>2 DEF ModesKept, ModesInv, ModesTyped
      <3> QED
        BY <2>2, <3>1 DEF TypeOK
    <2>3. CASE part = "files"
      <3>1. Files!TypeOK
        BY <1>1, <2>3 DEF FilesInvKept, FilesInv, FilesTyped
      <3> QED
        BY <2>3, <3>1 DEF TypeOK
    <2>4. CASE part = "otheros"
      <3>1. Other!TypeOK
        BY <1>1, <2>4, SameTypes DEF OtherKept, OtherProof!IInv
      <3> QED
        BY <2>4, <3>1 DEF TypeOK
    <2>5. CASE part = "dump"
      <3>1. Dump!TypeOK
        BY <1>1, <2>5, SameTypes DEF DumpKept, DumpProof!IInv
      <3> QED
        BY <2>5, <3>1 DEF TypeOK
    <2> QED
      BY <1>1, <2>1, <2>2, <2>3, <2>4, <2>5 DEF Parts
  <1> QED
    BY <1>1, PartsStay, LvKeptAlways, ModesKeptAlways, FilesKeptAlways,
       OtherKeptAlways, DumpKeptAlways, PTL DEF Spec
=============================================================================
