------------------------------ MODULE FileCopy ------------------------------
(***************************************************************************)
(* file_copy() of src/source/toolbox.cpp, by which the toolbox installs    *)
(* kernels, emulators and the registry.  Blocking reads fill one half of a *)
(* double buffer while callback_aio() writes the other.  A copy to a       *)
(* device other than dev_hdd is split into parts.  Every caller passes     *)
(* progress 0, so that nothing but an error aborts the copy.               *)
(***************************************************************************)
EXTENDS Integers

CONSTANTS BUF_SIZE,     \* units in a half of the buffer
          SPLIT_LIMIT,  \* split_limit, in units
          MaxSize       \* bound: the longest source, in units

ASSUME CopyAssumption ==
    /\ BUF_SIZE \in Nat \ {0}
    /\ SPLIT_LIMIT \in Nat \ {0}
    /\ MaxSize \in Nat

VARIABLES
    pc,          \* where file_copy() is
    msiz,        \* size of the source; 0 also if it cannot be opened
    splitMode,   \* split_mode
    splitNames,  \* the first part has a part's name, not path2
    chunk,       \* units read and written at a time
    fsiz,        \* units passed on; _global_device_bytes is always the same
    segment,     \* split_segment
    splitPart,   \* split_part
    opened,      \* the current part could be opened for writing
    cBuf, rbuf,  \* c_buf; the two halves
    userData,    \* aiow0.user_data
    aioOffset,   \* aiow0.offset
    aioBuf,      \* aiow0.buf, as the index of a half
    aioSize,     \* aiow0.size
    aioPart,     \* aiow0.fd, as the number of a part
    inFlight,    \* the system holds an accepted, unfinished write
    parts,       \* contents of the parts; 0 is a hole
    removed,     \* the target has been removed
    abortCopy    \* abort_copy

vars == <<pc, msiz, splitMode, splitNames, chunk, fsiz, segment, splitPart,
          opened, cBuf, rbuf, userData, aioOffset, aioBuf, aioSize, aioPart,
          inFlight, parts, removed, abortCopy>>

source == <<msiz, splitMode>>
progress == <<fsiz, segment>>
part == <<splitNames, splitPart, opened>>
aioVars == <<userData, aioOffset, aioBuf, aioSize, aioPart, inFlight>>

IDLE == 0
PENDING == 1
FAILED == 3

Halves == {0, 1}
Units == 0 .. MaxSize
MinOf(a, b) == IF a < b THEN a ELSE b
Empty == [p \in 0 .. MaxSize |-> 0]

Init ==
    /\ pc = "start"
    /\ msiz \in 0 .. MaxSize
    /\ splitMode \in BOOLEAN
    /\ splitNames = FALSE
    /\ chunk = BUF_SIZE
    /\ fsiz = 0
    /\ segment = 0
    /\ splitPart = 0
    /\ opened = FALSE
    /\ cBuf = 0
    /\ rbuf = [h \in Halves |-> [i \in 1 .. BUF_SIZE |-> 0]]
    /\ userData = IDLE
    /\ aioOffset = 0
    /\ aioBuf = 0
    /\ aioSize = 0
    /\ aioPart = 0
    /\ inFlight = FALSE
    /\ parts = [n \in Units |-> Empty]
    /\ removed = FALSE
    /\ abortCopy = FALSE

\* Size the chunks, name the first part, open it - successfully or not.
Start ==
    /\ pc = "start"
    /\ chunk' = IF msiz > 0 THEN MinOf(msiz, BUF_SIZE) ELSE BUF_SIZE
    /\ splitNames' = (splitMode /\ msiz >= SPLIT_LIMIT)
    /\ opened' \in BOOLEAN
    /\ pc' = "loop"
    /\ UNCHANGED <<source, progress, splitPart, cBuf, rbuf, aioVars, parts,
                   removed, abortCopy>>

\* Mutant: the last chunk is not shortened.
ReadWholeChunks ==
    /\ pc = "loop"
    /\ fsiz < msiz /\ ~abortCopy
    /\ LET n == MinOf(chunk, msiz - fsiz) IN
         rbuf' = [rbuf EXCEPT ![cBuf] =
                    [i \in 1 .. BUF_SIZE |-> IF i <= n THEN fsiz + i ELSE @[i]]]
    /\ pc' = "dispatch"
    /\ UNCHANGED <<source, part, chunk, progress, cBuf, aioVars, parts, removed,
                   abortCopy>>

\* The loop reads another chunk, the last one shortened.
Read ==
    /\ pc = "loop"
    /\ fsiz < msiz /\ ~abortCopy
    /\ LET n == MinOf(chunk, msiz - fsiz) IN
         /\ chunk' = n
         /\ rbuf' = [rbuf EXCEPT ![cBuf] =
                       [i \in 1 .. BUF_SIZE |-> IF i <= n THEN fsiz + i ELSE @[i]]]
    /\ pc' = "dispatch"
    /\ UNCHANGED <<source, part, progress, cBuf, aioVars, parts, removed,
                   abortCopy>>

\* The read fails.
ReadFails ==
    /\ pc = "loop"
    /\ fsiz < msiz /\ ~abortCopy
    /\ chunk' = MinOf(chunk, msiz - fsiz)
    /\ abortCopy' = TRUE
    /\ pc' = "wait"
    /\ UNCHANGED <<source, part, progress, cBuf, rbuf, aioVars, parts, removed>>

LoopEnds ==
    /\ pc = "loop"
    /\ fsiz >= msiz \/ abortCopy
    /\ pc' = "wait"
    /\ UNCHANGED <<source, part, chunk, progress, cBuf, rbuf, aioVars, parts,
                   removed, abortCopy>>

\* The previous write is done: hand the half over.
Dispatch ==
    /\ pc = "dispatch"
    /\ userData = IDLE
    /\ aioSize' = chunk
    /\ userData' = PENDING
    /\ aioBuf' = cBuf
    /\ pc' = "submit"
    /\ UNCHANGED <<source, part, chunk, progress, cBuf, rbuf, aioOffset, aioPart,
                   inFlight, parts, removed, abortCopy>>

\* Mutant: the failed write is forgotten and the next one started.
ContinueAfterFailure ==
    /\ pc = "dispatch"
    /\ userData = FAILED
    /\ aioSize' = chunk
    /\ userData' = PENDING
    /\ aioBuf' = cBuf
    /\ pc' = "submit"
    /\ UNCHANGED <<source, part, chunk, progress, cBuf, rbuf, aioOffset, aioPart,
                   inFlight, parts, removed, abortCopy>>

\* The previous write failed.
DispatchFailed ==
    /\ pc = "dispatch"
    /\ userData = FAILED
    /\ abortCopy' = TRUE
    /\ pc' = "check"
    /\ UNCHANGED <<source, part, chunk, progress, cBuf, rbuf, aioVars, parts,
                   removed>>

\* Mutant: the halves are not flipped.
SubmitSameHalf ==
    /\ pc = "submit"
    /\ inFlight' = TRUE
    /\ pc' = "check"
    /\ UNCHANGED <<source, part, chunk, progress, cBuf, rbuf, userData,
                   aioOffset, aioBuf, aioSize, aioPart, parts, removed,
                   abortCopy>>

Submit ==
    /\ pc = "submit"
    /\ inFlight' = TRUE
    /\ cBuf' = 1 - cBuf
    /\ pc' = "check"
    /\ UNCHANGED <<source, part, chunk, progress, rbuf, userData, aioOffset,
                   aioBuf, aioSize, aioPart, parts, removed, abortCopy>>

\* The write is refused, busy or not; user_data stays 1.
SubmitRefused ==
    /\ pc = "submit"
    /\ abortCopy' = TRUE
    /\ pc' = "check"
    /\ UNCHANGED <<source, part, chunk, progress, cBuf, rbuf, aioVars, parts,
                   removed>>

CheckFailed ==
    /\ pc = "check"
    /\ userData = FAILED
    /\ abortCopy' = TRUE
    /\ pc' = "wait"
    /\ UNCHANGED <<source, part, chunk, progress, cBuf, rbuf, aioVars, parts,
                   removed>>

\* Count the chunk; the copy is through, or the part is full, or go on.
Advance ==
    /\ pc = "check"
    /\ userData # FAILED
    /\ fsiz' = fsiz + chunk
    /\ segment' = segment + chunk
    /\ pc' = IF fsiz' >= msiz THEN "wait"
             ELSE IF splitMode /\ segment' + chunk >= SPLIT_LIMIT THEN "split"
             ELSE "loop"
    /\ UNCHANGED <<source, part, chunk, cBuf, rbuf, aioVars, parts, removed,
                   abortCopy>>

\* if(aiow0.user_data==1): only a write still pending here is waited for, and
\* only the failure of such a one is noticed.
Look ==
    /\ \/ pc = "split" /\ pc' = IF userData = PENDING THEN "splitWait" ELSE "next"
       \/ pc = "wait"  /\ pc' = IF userData = PENDING THEN "finalWait" ELSE "finish"
    /\ UNCHANGED <<source, part, chunk, progress, cBuf, rbuf, aioVars, parts,
                   removed, abortCopy>>

\* The write waited for is done.
Waited ==
    /\ pc \in {"splitWait", "finalWait"}
    /\ userData = IDLE
    /\ pc' = IF pc = "splitWait" THEN "next" ELSE "finish"
    /\ UNCHANGED <<source, part, chunk, progress, cBuf, rbuf, aioVars, parts,
                   removed, abortCopy>>

\* Mutant: the failure of the last write is not noticed in any case.
WaitedFailedQuietly ==
    /\ pc \in {"splitWait", "finalWait"}
    /\ userData = FAILED
    /\ userData' = IDLE
    /\ pc' = IF pc = "splitWait" THEN "next" ELSE "finish"
    /\ UNCHANGED <<source, part, chunk, progress, cBuf, rbuf, aioOffset, aioBuf,
                   aioSize, aioPart, inFlight, parts, removed, abortCopy>>

\* The write waited for failed.
WaitedFailed ==
    /\ pc \in {"splitWait", "finalWait"}
    /\ userData = FAILED
    /\ abortCopy' = TRUE
    /\ pc' = IF pc = "splitWait" THEN "next" ELSE "finish"
    /\ UNCHANGED <<source, part, chunk, progress, cBuf, rbuf, aioVars, parts,
                   removed>>

\* Close the part and open the next one; aiow0.offset goes on from the last.
NextPart ==
    /\ pc = "next"
    /\ splitPart' = splitPart + 1
    /\ segment' = 0
    /\ opened' \in BOOLEAN
    /\ aioPart' = splitPart + 1
    /\ pc' = "loop"
    /\ UNCHANGED <<source, splitNames, chunk, fsiz, cBuf, rbuf, userData,
                   aioOffset, aioBuf, aioSize, inFlight, parts, removed,
                   abortCopy>>

\* Close, compare the counts, remove path2 after an abort; the parts that have
\* names of their own stay.
Finish ==
    /\ pc = "finish"
    /\ abortCopy' = (abortCopy \/ fsiz # msiz)
    /\ removed' = (abortCopy' /\ ~splitNames)
    /\ pc' = "done"
    /\ UNCHANGED <<source, part, chunk, progress, cBuf, rbuf, aioVars, parts>>

\* callback_aio(): the write succeeds, at the offset and in the part it was
\* submitted for ...
WriteDone ==
    /\ inFlight /\ opened
    /\ inFlight' = FALSE
    /\ parts' = [parts EXCEPT ![aioPart] =
                   [p \in 0 .. MaxSize |->
                      IF p \in aioOffset .. aioOffset + aioSize - 1
                      THEN rbuf[aioBuf][p - aioOffset + 1] ELSE @[p]]]
    /\ aioOffset' = aioOffset + aioSize
    /\ userData' = IDLE
    /\ UNCHANGED <<pc, source, part, chunk, progress, cBuf, rbuf, aioBuf, aioSize,
                   aioPart, removed, abortCopy>>

\* Mutant: the callback reports successes only.
WriteFailsUnreported ==
    /\ inFlight
    /\ inFlight' = FALSE
    /\ UNCHANGED <<pc, source, part, chunk, progress, cBuf, rbuf, userData,
                   aioOffset, aioBuf, aioSize, aioPart, parts, removed,
                   abortCopy>>

\* ... or fails.
WriteFails ==
    /\ inFlight
    /\ inFlight' = FALSE
    /\ userData' = FAILED
    /\ UNCHANGED <<pc, source, part, chunk, progress, cBuf, rbuf, aioOffset,
                   aioBuf, aioSize, aioPart, parts, removed, abortCopy>>

CopyStep ==
    \/ Start \/ Read \/ ReadFails \/ LoopEnds
    \/ Dispatch \/ DispatchFailed \/ Submit \/ SubmitRefused
    \/ CheckFailed \/ Advance \/ Look \/ Waited \/ WaitedFailed \/ NextPart
    \/ Finish

AioStep == WriteDone \/ WriteFails

Next == CopyStep \/ AioStep

Spec == Init /\ [][Next]_vars

\* The thread runs and every accepted write finishes.
FairSpec == Spec /\ WF_vars(CopyStep) /\ WF_vars(AioStep)

-----------------------------------------------------------------------------

TypeOK ==
    /\ pc \in {"start", "loop", "dispatch", "submit", "check", "split", "wait",
               "splitWait", "finalWait", "next", "finish", "done"}
    /\ msiz \in Units
    /\ splitMode \in BOOLEAN
    /\ splitNames \in BOOLEAN
    /\ chunk \in 1 .. BUF_SIZE
    /\ fsiz \in 0 .. msiz
    /\ segment \in 0 .. fsiz
    /\ splitPart \in 0 .. fsiz
    /\ opened \in BOOLEAN
    /\ cBuf \in Halves
    /\ rbuf \in [Halves -> [1 .. BUF_SIZE -> Units]]
    /\ userData \in {IDLE, PENDING, FAILED}
    /\ aioOffset \in 0 .. msiz
    /\ aioBuf \in Halves
    /\ aioSize \in 0 .. BUF_SIZE
    /\ aioPart \in 0 .. fsiz
    /\ inFlight \in BOOLEAN
    /\ parts \in [Units -> [0 .. MaxSize -> Units]]
    /\ removed \in BOOLEAN
    /\ abortCopy \in BOOLEAN

\* The half being read into is not the one being written, and neither the part
\* nor the buffer goes away under a write.
WriteUndisturbed ==
    inFlight => /\ pc \notin {"start", "submit", "next", "finish", "done"}
                /\ aioBuf # cBuf
                /\ aioPart = splitPart

\* A copy that is kept (not aborted) has had every unit of the source written
\* exactly if user_data was left at 0: the one failure it can miss is that of a
\* write which ends between the check after it and the check after the loop.
KeptIffLastWriteDone ==
    pc = "done" /\ ~abortCopy => (aioOffset = msiz <=> userData = IDLE)

\* Unit u of the source is written at offset u - 1, whichever part it is in, and
\* in one part only; so an unsplit copy that is kept is the source.
UnitsInPlace ==
    \A u \in 1 .. aioOffset :
        /\ \E n \in 0 .. splitPart : parts[n][u - 1] = u
        /\ \A m, n \in 0 .. splitPart :
              parts[m][u - 1] # 0 /\ parts[n][u - 1] # 0 => m = n

\* file_copy() returns unless a write was refused: user_data then stays 1 with
\* nothing in flight, and the wait for the last chunk never ends.
EndsUnlessRefused ==
    \/ <>(pc = "done")
    \/ <>[](/\ pc \in {"splitWait", "finalWait"}
            /\ userData = PENDING /\ ~inFlight /\ abortCopy)

\* "wait for final chunk to be written" (toolbox.cpp:3965): the wait is for a
\* write that was accepted, and so it ends.
CopyEnds == <>(pc = "done")

\* file_copy() implements the abstract transfer, with up to a chunk lost in a
\* copy that is kept.
Transfer == INSTANCE FileTransfer WITH
    Slack   <- BUF_SIZE,
    total   <- msiz,
    sink    <- [u \in 1 .. aioOffset |->
                  parts[CHOOSE n \in 0 .. splitPart : parts[n][u - 1] # 0][u - 1]],
    outcome <- IF pc # "done" THEN "running"
               ELSE IF abortCopy THEN "failed" ELSE "ok",
    stopped <- FALSE

TransferSpec == Transfer!Spec
=============================================================================
