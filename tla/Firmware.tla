------------------------------ MODULE Firmware ------------------------------
(* What main() finds out about the running kernel and does to it before the
   menu appears (toolbox.cpp 7601-7887, syscall36.cpp 72-386): the version and
   mode of the kernel, the addresses of the system calls to redirect, and the
   patches that every start applies.

   A kernel is a record [ver, dex]: the version times 100 and whether it is a
   debug kernel.                                                            *)
EXTENDS Integers

Versions == {341, 355, 421, 430, 431, 440, 441, 446, 450, 453, 455, 460,
             465, 466, 470, 475, 476, 478}

Kernels == [ver : Versions, dex : BOOLEAN]

(* The debug kernels the chain of comparisons has no address for. *)
Unknown == { [ver |-> v, dex |-> TRUE] : v \in {431, 440, 460} }

(* c_firmware and dex_mode after the chain; text is the number that
   get_system_version() has read before it, which stands when no comparison
   holds.  With no number either, the program ends.                         *)
Detected(k, text) ==
  IF k \notin Unknown THEN k ELSE [ver |-> text, dex |-> FALSE]

(* Which of the sets of addresses for system calls 811 and 813 and for the
   table is taken, by the kernel it is named for; NoAddresses: the three
   variables stay 0.  The condition for 4.75 and later is A || B || C && D. *)
NoAddresses == [ver |-> 0, dex |-> FALSE]

SyscallAddresses(f) ==
  LET cex475 == f.ver = 475 \/ f.ver = 476 \/ (f.ver = 478 /\ ~f.dex)
      dex475 == f.ver = 475 \/ f.ver = 476 \/ (f.ver = 478 /\ f.dex)
  IN CASE f.ver = 341 -> [ver |-> 341, dex |-> FALSE]
       [] f.ver \in {355, 421, 430, 441, 446, 453, 455, 465, 466, 470} -> f
       [] f.ver \in {431, 440, 450, 460} /\ ~f.dex -> f
       [] cex475 -> [ver |-> 475, dex |-> FALSE]
       [] ~cex475 /\ dex475 -> [ver |-> 475, dex |-> TRUE]
       [] OTHER -> NoAddresses

(* The set that the comments of common.h give for a kernel: one set of
   addresses serves the kernels 4.75, 4.76 and 4.78 of a mode.              *)
AddressesFor(k) ==
  IF k.ver \in {475, 476, 478} THEN [ver |-> 475, dex |-> k.dex] ELSE k

-----------------------------------------------------------------------------
(* generic_patches(): the words of LV1's table of protected hashes, and the
   doublewords of LV2.  On 3.55 LV1 is reached through a page that has to be
   mapped first; refused, the function returns at once.                     *)
ProtectionStart(ver) ==
  CASE ver = 355 -> \h363A78
    [] ver = 421 -> \h370A28
    [] ver >= 430 /\ ver <= 453 -> \h370AA8
    [] ver >= 455 /\ ver <= 478 -> \h370F28

ProtectionWords(ver) ==
  IF ver < 355 \/ ver > 478 \/ (ver > 355 /\ ver < 421) THEN {}
  ELSE { ProtectionStart(ver) + 4 * i : i \in 0 .. 7 }

(* The checks of the system calls that load a module, at their usual distance
   from each other, and those of the other function, 14h apart.             *)
Six(a, b) == {a, a + \hC4, a + \h70, a + \h78, b, b + \h14}

CexPokes(ver) ==
  CASE ver = 355 -> Six(\h55EA0, \h7AF64)
    [] ver = 421 -> Six(\h57020, \h5AA54)
    [] ver = 430 -> Six(\h57170, \h5ABA4)
    [] ver = 431 -> {\h57174, \h5723C, \h571E8, \h571F0, \h5ABAC, \h5ABA0}
    [] ver \in {440, 450} -> Six(\h560BC, \h59AF0)
    [] ver \in {441, 446, 453} -> Six(\h560C0, \h59AF4)
    [] ver = 455 -> Six(\h56380, \h5A2EC)
    [] ver = 460 -> Six(\h56588, \h5A654)
    [] ver \in {465, 466} -> Six(\h5658C, \h5A658) \cup {\h56230}
    [] ver = 470 -> Six(\h56588, \h5A6DC) \cup {\h5622C}
    [] ver \in {475, 476, 478} -> Six(\h5658C, \h5A6E0) \cup {\h56230}
    [] OTHER -> {}

(* 4.55 and 4.60 have their last word 18h behind; 4.75 and later write to
   595FC where the other words ask for 59F5C.                               *)
DexPokes(ver) ==
  CASE ver = 355 -> Six(\h5978C, \h7EF5C)
    [] ver = 421 -> Six(\h5A938, \h5E36C)
    [] ver = 430 -> Six(\h5AA88, \h5E4BC)
    [] ver \in {441, 446} -> Six(\h599D8, \h5D40C)
    [] ver = 450 -> Six(\h59A8C, \h5D4C0)
    [] ver = 453 -> Six(\h59A90, \h5D4C4)
    [] ver = 455 -> {\h59D50, \h59E14, \h59DC0, \h59DC8, \h5DCB8, \h5DCD0}
    [] ver = 460 -> {\h59F58, \h5A01C, \h59FC8, \h59FD0, \h5E020, \h5E038, \h59BFC}
    [] ver \in {465, 466} -> Six(\h59F5C, \h5E028) \cup {\h59C00}
    [] ver = 470 -> Six(\h59F58, \h5E0AC) \cup {\h59BFC}
    [] ver \in {475, 476, 478} ->
         {\h595FC, \h5A020, \h59FCC, \h59FD4, \h5E0B0, \h5E0C4, \h59C00}
    [] OTHER -> {}

GenericPokes(f, mapped) ==
  IF f.ver = 355 /\ ~mapped THEN {}
  ELSE IF f.dex THEN DexPokes(f.ver) ELSE CexPokes(f.ver)

=============================================================================
