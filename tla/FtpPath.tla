------------------------------ MODULE FtpPath -------------------------------
(***************************************************************************)
(* The string functions every FTP command goes through: ssplit() and       *)
(* absPath() of src/source/openftp/functions.c, and the loop that CDUP     *)
(* runs over the working directory in src/source/openftp/ftp.c.  A string  *)
(* is a sequence of characters, without its terminating NUL.               *)
(***************************************************************************)
EXTENDS Integers, Sequences

Slash == "/"
Blank == " "

\* The positions of character ch in s.
Positions(s, ch) == {i \in 1 .. Len(s) : s[i] = ch}

IsAbsolute(path) == path # <<>> /\ path[1] = Slash

WithSlash(dir) == IF dir[Len(dir)] = Slash THEN dir ELSE Append(dir, Slash)

\* absPath(): an absolute path is taken as it is, another one is put behind cwd.
absPath(path, cwd) ==
    IF IsAbsolute(path) THEN path ELSE WithSlash(cwd) \o path

\* Mutant: the first character is cleared too.
CDUPClearsRoot(cwd) ==
    LET last  == Len(cwd) - 1
        stops == {i \in Positions(cwd, Slash) : 0 < i /\ i < last}
        keep  == CHOOSE i \in stops \cup {0} : \A j \in stops : j <= i
    IN  IF last < 1 THEN cwd ELSE SubSeq(cwd, 1, IF keep = 1 THEN 0 ELSE keep)

\* Mutant: the search also stops at a slash that ends the path.
CDUPStopsAtTail(cwd) ==
    LET last  == Len(cwd)
        stops == {i \in Positions(cwd, Slash) : 1 < i /\ i <= last}
        keep  == CHOOSE i \in stops \cup {1} : \A j \in stops : j <= i
    IN  IF last < 2 THEN cwd ELSE SubSeq(cwd, 1, keep)

\* CDUP: from the last but one character down to the second, characters are
\* cleared until a slash is met that is not the first one looked at.
CDUP(cwd) ==
    LET last  == Len(cwd) - 1
        stops == {i \in Positions(cwd, Slash) : 1 < i /\ i < last}
        keep  == CHOOSE i \in stops \cup {1} : \A j \in stops : j <= i
    IN  IF last < 2 THEN cwd ELSE SubSeq(cwd, 1, keep)

\* Where the first blank is, as the number of characters before it.
BeforeBlank(str) ==
    CHOOSE n \in 0 .. Len(str) :
        /\ n = Len(str) \/ str[n + 1] = Blank
        /\ \A i \in 1 .. n : str[i] # Blank

Smaller(a, b) == IF a <= b THEN a ELSE b

\* Mutant: the parameter is not cut.
ssplitUncut(str, lmax, rmax) ==
    LET ios == BeforeBlank(str)
        ret == ios < Len(str) - 1
    IN  [ret   |-> ret,
         left  |-> SubSeq(str, 1, Smaller(ios, lmax)),
         right |-> IF ret THEN SubSeq(str, ios + 2, Len(str)) ELSE <<>>]

\* ssplit(): the text before the first blank, cut to lmax characters, and the
\* text after it, if there is any, cut to rmax.
ssplit(str, lmax, rmax) ==
    LET ios == BeforeBlank(str)
        ret == ios < Len(str) - 1
    IN  [ret   |-> ret,
         left  |-> SubSeq(str, 1, Smaller(ios, lmax)),
         right |-> IF ret THEN SubSeq(str, ios + 2, Smaller(Len(str), ios + 1 + rmax))
                   ELSE <<>>]
=============================================================================
