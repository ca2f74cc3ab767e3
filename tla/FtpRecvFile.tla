---------------------------- MODULE FtpRecvFile -----------------------------
(***************************************************************************)
(* recvfile() of src/source/openftp/ftpcmd.c: the receiving half of STOR.  *)
(* The thread receives into one half of a double buffer while the other    *)
(* half is written by asynchronous I/O, whose callback reports through     *)
(* aiow0.user_data.  Bytes are abstracted to units; a buffer holds         *)
(* BUFFER_SIZE of them.  The peer sends a file of total units from unit    *)
(* rest on (REST), in full buffers except for the last: recv() is called   *)
(* with MSG_WAITALL.                                                       *)
(***************************************************************************)
EXTENDS Integers

CONSTANTS BUFFER_SIZE,  \* units in one of the two buffers
          MaxTotal,     \* bound: the longest file, in units
          MaxBusy       \* bound: how often a submission is refused as busy

ASSUME RecvAssumption ==
    /\ BUFFER_SIZE \in Nat \ {0}
    /\ MaxTotal \in Nat
    /\ MaxBusy \in Nat

VARIABLES
    pc,           \* where the receiving thread is
    total, rest,  \* length of the peer's file; offset the upload resumes at
    taken,        \* units taken from the socket so far
    cBuf,         \* c_buf: the half the next recv() fills
    rbuf,         \* contents of the two halves
    readE,        \* read_e: units in the half just received
    userData,     \* aiow0.user_data
    aioOffset,    \* aiow0.offset
    aioBuf,       \* aiow0.buf, as the index of a half
    aioSize,      \* aiow0.size
    inFlight,     \* the system holds an accepted, unfinished write
    file,         \* the file on disk; 0 is a hole
    busy,         \* EBUSY refusals so far
    ret,          \* value recvfile() returns
    appShutdown   \* app_shutdown, set by another thread

vars == <<pc, total, rest, taken, cBuf, rbuf, readE, userData, aioOffset,
          aioBuf, aioSize, inFlight, file, busy, ret, appShutdown>>

aioVars == <<userData, aioOffset, aioBuf, aioSize, inFlight>>

\* Values of aiow0.user_data: 0 and 1 are the thread's own, EBUSY and EIO stand
\* for the 4 and the error code the callback leaves.
IDLE == 0
PENDING == 1
EBUSY == 4
EIO == 5

Halves == {0, 1}
Units == 0 .. MaxTotal
MinOf(a, b) == IF a < b THEN a ELSE b

\* The k-th unit of the upload is unit rest + k of the peer's file.
Stream(k) == rest + k
StreamLen == total - rest

\* An earlier upload left the first n units on disk.
Partial(n) == [p \in 0 .. MaxTotal |-> IF p < n THEN p + 1 ELSE 0]

Init ==
    /\ pc = "open"
    /\ total \in 0 .. MaxTotal
    /\ rest \in 0 .. total
    /\ taken = 0
    /\ cBuf = 0
    /\ rbuf = [h \in Halves |-> [i \in 1 .. BUFFER_SIZE |-> 0]]
    /\ readE = 0
    /\ userData = IDLE
    /\ aioOffset = 0
    /\ aioBuf = 0
    /\ aioSize = 0
    /\ inFlight = FALSE
    /\ \E n \in rest .. total : file = Partial(n)
    /\ busy = 0
    /\ ret = -1
    /\ appShutdown \in BOOLEAN

\* memalign() and lv2FsOpen() succeed: position or truncate, prepare aiow0.
Open ==
    /\ pc = "open"
    /\ file' = IF rest > 0 THEN file ELSE Partial(0)
    /\ ret' = 0
    /\ pc' = "loop"
    /\ UNCHANGED <<total, rest, taken, cBuf, rbuf, readE, aioVars, busy,
                   appShutdown>>

\* Either fails: return -1.
OpenFails ==
    /\ pc = "open"
    /\ pc' = "done"
    /\ UNCHANGED <<total, rest, taken, cBuf, rbuf, readE, aioVars, file, busy,
                   ret, appShutdown>>

\* The guard of the outer while loop.
Loop ==
    /\ pc = "loop"
    /\ pc' = IF appShutdown THEN "drain" ELSE "recv"
    /\ UNCHANGED <<total, rest, taken, cBuf, rbuf, readE, aioVars, file, busy,
                   ret, appShutdown>>

\* recv() fills the current half, or what is left of the stream.
Recv ==
    /\ pc = "recv"
    /\ taken < StreamLen
    /\ LET n == MinOf(BUFFER_SIZE, StreamLen - taken) IN
         /\ rbuf' = [rbuf EXCEPT ![cBuf] =
                       [i \in 1 .. BUFFER_SIZE |->
                          IF i <= n THEN Stream(taken + i) ELSE @[i]]]
         /\ taken' = taken + n
         /\ readE' = n
    /\ pc' = "dispatch"
    /\ UNCHANGED <<total, rest, cBuf, aioVars, file, busy, ret, appShutdown>>

\* recv() returns 0 at the end of the stream.
RecvEnd ==
    /\ pc = "recv"
    /\ taken = StreamLen
    /\ pc' = "drain"
    /\ UNCHANGED <<total, rest, taken, cBuf, rbuf, readE, aioVars, file, busy,
                   ret, appShutdown>>

\* recv() returns -1, which as a u64 exceeds BUFFER_SIZE.
RecvError ==
    /\ pc = "recv"
    /\ ret' = -1
    /\ pc' = "drain"
    /\ UNCHANGED <<total, rest, taken, cBuf, rbuf, readE, aioVars, file, busy,
                   appShutdown>>

\* Inner loop, aiow0 idle: hand the half over to a write.
Dispatch ==
    /\ pc = "dispatch"
    /\ ~appShutdown
    /\ userData = IDLE
    /\ aioSize' = readE
    /\ userData' = PENDING
    /\ aioBuf' = cBuf
    /\ pc' = "submit"
    /\ UNCHANGED <<total, rest, taken, cBuf, rbuf, readE, aioOffset, inFlight,
                   file, busy, ret, appShutdown>>

\* Mutant: the failed write is forgotten and the next one started.
ContinueAfterFailure ==
    /\ pc = "dispatch"
    /\ ~appShutdown
    /\ userData \notin {IDLE, PENDING}
    /\ aioSize' = readE
    /\ userData' = PENDING
    /\ aioBuf' = cBuf
    /\ pc' = "submit"
    /\ UNCHANGED <<total, rest, taken, cBuf, rbuf, readE, aioOffset, inFlight,
                   file, busy, ret, appShutdown>>

\* Inner loop, the previous write failed: abort with its code.
DispatchFailed ==
    /\ pc = "dispatch"
    /\ ~appShutdown
    /\ userData \notin {IDLE, PENDING}
    /\ ret' = userData
    /\ pc' = "drain"
    /\ UNCHANGED <<total, rest, taken, cBuf, rbuf, readE, aioVars, file, busy,
                   appShutdown>>

\* Both loop guards see app_shutdown: the half just received is dropped.
DispatchStopped ==
    /\ pc = "dispatch"
    /\ appShutdown
    /\ pc' = "drain"
    /\ UNCHANGED <<total, rest, taken, cBuf, rbuf, readE, aioVars, file, busy,
                   ret, appShutdown>>

\* Mutant: the halves are not flipped.
SubmitSameHalf ==
    /\ pc = "submit"
    /\ inFlight' = TRUE
    /\ pc' = "recv"
    /\ UNCHANGED <<total, rest, taken, cBuf, rbuf, readE, userData, aioOffset,
                   aioBuf, aioSize, file, busy, ret, appShutdown>>

\* Mutant: the index of the half only grows.
SubmitNextHalf ==
    /\ pc = "submit"
    /\ inFlight' = TRUE
    /\ cBuf' = cBuf + 1
    /\ pc' = "recv"
    /\ UNCHANGED <<total, rest, taken, rbuf, readE, userData, aioOffset, aioBuf,
                   aioSize, file, busy, ret, appShutdown>>

\* cellFsAioWrite() accepts: flip the halves and go straight to recv().
Submit ==
    /\ pc = "submit"
    /\ inFlight' = TRUE
    /\ cBuf' = 1 - cBuf
    /\ pc' = "recv"
    /\ UNCHANGED <<total, rest, taken, rbuf, readE, userData, aioOffset, aioBuf,
                   aioSize, file, busy, ret, appShutdown>>

\* cellFsAioWrite() returns EBUSY: try again.
SubmitBusy ==
    /\ pc = "submit"
    /\ busy < MaxBusy
    /\ busy' = busy + 1
    /\ UNCHANGED <<pc, total, rest, taken, cBuf, rbuf, readE, aioVars, file, ret,
                   appShutdown>>

\* Mutant: user_data is reset instead of keeping the error.
SubmitFailsSilently ==
    /\ pc = "submit"
    /\ userData' = IDLE
    /\ pc' = "loop"
    /\ UNCHANGED <<total, rest, taken, cBuf, rbuf, readE, aioOffset, aioBuf,
                   aioSize, inFlight, file, busy, ret, appShutdown>>

\* cellFsAioWrite() refuses: only user_data remembers, ret stays 0.
SubmitFails ==
    /\ pc = "submit"
    /\ userData' = EIO
    /\ pc' = "loop"
    /\ UNCHANGED <<total, rest, taken, cBuf, rbuf, readE, aioOffset, aioBuf,
                   aioSize, inFlight, file, busy, ret, appShutdown>>

\* No write pending any more: close, free and return.
Return ==
    /\ pc = "drain"
    /\ userData # PENDING
    /\ pc' = "done"
    /\ UNCHANGED <<total, rest, taken, cBuf, rbuf, readE, aioVars, file, busy,
                   ret, appShutdown>>

\* The write succeeds and callback_aio() advances the offset.
WriteDone ==
    /\ inFlight
    /\ inFlight' = FALSE
    /\ file' = [p \in 0 .. MaxTotal |->
                  IF p \in aioOffset .. aioOffset + aioSize - 1
                  THEN rbuf[aioBuf][p - aioOffset + 1] ELSE file[p]]
    /\ aioOffset' = aioOffset + aioSize
    /\ userData' = IDLE
    /\ UNCHANGED <<pc, total, rest, taken, cBuf, rbuf, readE, aioBuf, aioSize,
                   busy, ret, appShutdown>>

\* Mutant: the callback reports successes only.
WriteFailsUnreported ==
    /\ inFlight
    /\ inFlight' = FALSE
    /\ UNCHANGED <<pc, total, rest, taken, cBuf, rbuf, readE, userData,
                   aioOffset, aioBuf, aioSize, file, busy, ret, appShutdown>>

\* The write fails and callback_aio() stores the reason.
WriteFails ==
    /\ inFlight
    /\ inFlight' = FALSE
    /\ userData' \in {EBUSY, EIO}
    /\ UNCHANGED <<pc, total, rest, taken, cBuf, rbuf, readE, aioOffset, aioBuf,
                   aioSize, file, busy, ret, appShutdown>>

\* The main thread sets app_shutdown.
Shutdown ==
    /\ ~appShutdown
    /\ appShutdown' = TRUE
    /\ UNCHANGED <<pc, total, rest, taken, cBuf, rbuf, readE, aioVars, file,
                   busy, ret>>

ThreadStep ==
    \/ Open \/ OpenFails \/ Loop
    \/ Dispatch \/ DispatchFailed \/ DispatchStopped
    \/ Submit \/ SubmitBusy \/ SubmitFails \/ Return

PeerStep == Recv \/ RecvEnd \/ RecvError

AioStep == WriteDone \/ WriteFails

Next == ThreadStep \/ PeerStep \/ AioStep \/ Shutdown

Spec == Init /\ [][Next]_vars

\* The thread runs and every accepted write finishes; the peer owes nothing.
FairSpec == Spec /\ WF_vars(ThreadStep) /\ WF_vars(AioStep)

-----------------------------------------------------------------------------

TypeOK ==
    /\ pc \in {"open", "loop", "recv", "dispatch", "submit", "drain", "done"}
    /\ total \in 0 .. MaxTotal
    /\ rest \in 0 .. total
    /\ taken \in 0 .. StreamLen
    /\ cBuf \in Halves
    /\ rbuf \in [Halves -> [1 .. BUFFER_SIZE -> Units]]
    /\ readE \in 0 .. BUFFER_SIZE
    /\ userData \in {IDLE, PENDING, EBUSY, EIO}
    /\ aioOffset \in 0 .. StreamLen
    /\ aioBuf \in Halves
    /\ aioSize \in 0 .. BUFFER_SIZE
    /\ inFlight \in BOOLEAN
    /\ file \in [0 .. MaxTotal -> Units]
    /\ busy \in 0 .. MaxBusy
    /\ ret \in {-1, IDLE, EBUSY, EIO}
    /\ appShutdown \in BOOLEAN

\* recv() never fills the half a write in flight is reading, and recvfile()
\* never frees the buffer under a write (ftpcmd.c:138-184).
BufferExclusive ==
    inFlight => /\ pc \in {"recv", "dispatch", "drain"}
                /\ aioBuf # cBuf

\* user_data is 1 exactly while a write is in flight or about to be submitted.
PendingMeansWriting == userData = PENDING <=> inFlight \/ pc = "submit"

\* Units received and not yet handed to a write.
Held == IF pc = "dispatch" THEN readE ELSE 0

\* Units handed to a write that has not succeeded.
Writing == IF userData = IDLE THEN 0 ELSE aioSize

\* Every unit taken from the socket is on disk, in the write that has not
\* succeeded, or held in the current half; a unit is missed only by a call that
\* returns an error or is shut down.
Accounted ==
    /\ aioOffset + Writing + Held <= taken
    /\ ~(pc \in {"drain", "done"} /\ (appShutdown \/ ret # 0))
          => aioOffset + Writing + Held = taken
    /\ pc \in {"drain", "done"} /\ ret = 0 /\ ~appShutdown => taken = StreamLen

\* What is on disk and in the halves continues the stream without a gap.
InOrder ==
    /\ \A i \in 1 .. aioOffset : file[i - 1] = Stream(i)
    /\ userData = PENDING =>
          \A i \in 1 .. aioSize : rbuf[aioBuf][i] = Stream(aioOffset + i)
    /\ pc = "dispatch" =>
          \A i \in 1 .. readE : rbuf[cBuf][i] = Stream(taken - readE + i)

\* What the thread's own variables are at each place.
Control ==
    /\ pc = "open" => taken = 0 /\ aioOffset = 0 /\ userData = IDLE /\ ret = -1
    /\ pc \in {"loop", "recv", "dispatch", "submit"} => ret = 0
    /\ pc = "dispatch" => readE > 0
    /\ pc = "submit" => aioSize = readE /\ aioBuf = cBuf
    /\ userData # IDLE => aioSize > 0

\* The inductive invariant behind the theorems of FtpRecvFile_proofs.
RecvInv ==
    /\ TypeOK
    /\ Control
    /\ PendingMeansWriting
    /\ BufferExclusive
    /\ Accounted
    /\ InOrder

\* When recvfile() returns 0 without a shutdown, the file lacks nothing
\* exactly if aiow0.user_data was left at 0: the one failure it can miss is
\* that of the last half, which nobody looks at after the loop.
SuccessIffLastWriteDone ==
    pc = "done" /\ ret = 0 /\ ~appShutdown =>
        (aioOffset = StreamLen <=> userData = IDLE)

\* "wait for final chunk to be written" (ftpcmd.c:179) and "write failed -
\* abort" (ftpcmd.c:169): an upload that returns success, which STOR answers
\* with "226 Transfer complete", is on disk in full.
SuccessMeansStored ==
    pc = "done" /\ ret = 0 /\ ~appShutdown => aioOffset = StreamLen

\* REST is "for resuming file transfers" (ftp.c:74) and FEAT advertises "REST
\* STREAM" (ftp.c:839): a resumed upload leaves the units before the restart
\* point as they were.
RestHonoured ==
    rest > 0 => \A p \in 0 .. rest - 1 : file[p] = p + 1

\* Unless the peer neither sends nor closes for ever (no receive timeout is set
\* on the data socket), recvfile() returns, whatever the writes do.
Returns == <>(pc = "done") \/ <>[](pc = "recv")

\* STOR implements the abstract transfer, with up to one buffer lost on success.
Transfer == INSTANCE FileTransfer WITH
    Slack   <- BUFFER_SIZE,
    total   <- StreamLen,
    sink    <- [i \in 1 .. aioOffset |-> file[i - 1] - rest],
    outcome <- IF pc # "done" THEN "running"
               ELSE IF ret = 0 THEN "ok" ELSE "failed",
    stopped <- appShutdown

TransferSpec == Transfer!Spec
=============================================================================
