------------------------------- MODULE MCPure -------------------------------
(***************************************************************************)
(* The pure functions of the program on bounded inputs.  A peer sends      *)
(* command lines; a line with a parameter is executed as CWD, one without  *)
(* as CDUP, so that every working directory is one a peer can bring about. *)
(***************************************************************************)
EXTENDS FtpPath

CONSTANTS MaxCmd,   \* characters that the buffer of the command holds (15)
          MaxParam, \* and that of the parameter (1023)
          MaxLine,  \* longest command line that recv() takes (2047)
          MaxPath   \* longest working directory that its buffer holds (1023)

ASSUME PureAssumption == MaxCmd \in Nat /\ MaxParam \in Nat /\ MaxLine \in Nat

VARIABLES line, cwd

pathVars == <<line, cwd>>

\* Letters suffice as characters other than the two with a meaning.
Chars == {Slash, Blank, "a"}

Texts(n) == UNION {[1 .. k -> Chars] : k \in 0 .. n}

\* As handleclient() splits a line.
Split(text) == ssplit(text, MaxCmd, MaxParam)

PathInit == line = <<>> /\ cwd = <<Slash>>

Receive ==
    /\ line' \in Texts(MaxLine)
    /\ LET s == Split(line') IN
         cwd' = IF s.ret THEN absPath(s.right, cwd) ELSE CDUP(cwd)
    /\ Len(cwd') <= MaxPath

PathSpec == PathInit /\ [][Receive]_pathVars

\* absPath() looks at the last character of cwd: cwd is never empty, and it stays
\* absolute whatever CWD and CDUP make of it (functions.c:28).
CwdAbsolute == IsAbsolute(cwd)

\* A line that goes on after its first blank is the command, that blank and the
\* parameter: each is returned as far as its buffer holds it, with the blanks
\* that the parameter has, so that the two make up the whole line if they fit.
\* Any other line has no parameter.
SplitAtFirstBlank ==
    LET s == Split(line)
        FirstBlank(i) == line[i] = Blank /\ \A j \in 1 .. i - 1 : line[j] # Blank
    IN  /\ \A i \in 1 .. Len(line) - 1 :
             FirstBlank(i) =>
                 /\ s.ret
                 /\ s.left = SubSeq(line, 1, Smaller(i - 1, MaxCmd))
                 /\ s.right = SubSeq(line, i + 1, Smaller(Len(line), i + MaxParam))
                 /\ i - 1 <= MaxCmd /\ Len(line) - i <= MaxParam =>
                        s.left \o <<Blank>> \o s.right = line
        /\ (\A i \in 1 .. Len(line) - 1 : line[i] # Blank) =>
                 ~s.ret /\ s.right = <<>>

\* CWD into a subdirectory and CDUP lead back, if the name has two characters or
\* more or is given with its slash.  (After CWD to a name of one character
\* without a slash CDUP clears the slash before it as well.)
CdupUndoesCwd ==
    LET name == Split(line).right
        body == IF name # <<>> /\ name[Len(name)] = Slash
                THEN SubSeq(name, 1, Len(name) - 1) ELSE name
    IN  body # <<>> /\ Positions(body, Slash) = {} /\ Len(name) > 1 =>
            CDUP(absPath(name, cwd)) = WithSlash(cwd)
=============================================================================
