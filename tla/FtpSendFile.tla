---------------------------- MODULE FtpSendFile -----------------------------
(***************************************************************************)
(* sendfile() of src/source/openftp/ftpcmd.c: the sending half of RETR.    *)
(* Asynchronous reads fill one half of a double buffer while the thread    *)
(* sends the other.  aior0.offset, advanced by the callback, tells how     *)
(* much was read; a read that moves it by 0 is the end of the file.  The   *)
(* "goto send_next" of the code jumps past the guard of its loop, so only  *)
(* the start and one retry path ever look at app_shutdown.                 *)
(***************************************************************************)
EXTENDS Integers, Sequences

CONSTANTS BUFFER_SIZE,  \* units in a half of a full-sized buffer
          MaxTotal,     \* bound: the longest file, in units
          MaxBusy       \* bound: how often the system reports busy

ASSUME SendAssumption ==
    /\ BUFFER_SIZE \in Nat \ {0}
    /\ MaxTotal \in Nat
    /\ MaxBusy \in Nat

VARIABLES
    pc,           \* where the sending thread is
    total, rest,  \* length of the file; restart offset given by REST
    bufSize,      \* buf_size: units in a half
    cBuf,         \* c_buf: the half the read in flight fills
    rbuf,         \* contents of the two halves, as sequences of units
    userData,     \* aior0.user_data
    aioOffset,    \* aior0.offset
    tmpOffset,    \* tmp_offset: what has been handed to send()
    aioBuf,       \* aior0.buf, as the index of a half
    readE,        \* read_e: units in the half to send
    inFlight,     \* the system holds an accepted, unfinished read
    sent,         \* the units the peer got, in order
    busy,         \* busy reports so far
    ret,          \* value sendfile() returns
    appShutdown   \* app_shutdown, set by another thread

vars == <<pc, total, rest, bufSize, cBuf, rbuf, userData, aioOffset, tmpOffset,
          aioBuf, readE, inFlight, sent, busy, ret, appShutdown>>

args == <<total, rest>>
aioVars == <<userData, aioOffset, aioBuf, inFlight>>

IDLE == 0
PENDING == 1
EBUSY == 4
EIO == 5

Halves == {0, 1}
MinOf(a, b) == IF a < b THEN a ELSE b

\* The units a..b of the file, as they lie in a buffer.
FileUnits(a, b) == [i \in 1 .. b - a + 1 |-> a + i - 1]

Stretches ==
    {FileUnits(a, b) : a \in 1 .. MaxTotal + 1, b \in 0 .. MaxTotal}

\* A tail shorter than BUFFER_SIZE after the restart point shrinks the buffer.
BufSize(t, r) ==
    IF r < t /\ t - r < BUFFER_SIZE THEN t - r ELSE BUFFER_SIZE

Init ==
    /\ pc = "open"
    /\ total \in 0 .. MaxTotal
    /\ rest \in 0 .. MaxTotal
    /\ bufSize = BUFFER_SIZE
    /\ cBuf = 0
    /\ rbuf = [h \in Halves |-> FileUnits(1, 0)]
    /\ userData = IDLE
    /\ aioOffset = 0
    /\ tmpOffset = 0
    /\ aioBuf = 0
    /\ readE = 0
    /\ inFlight = FALSE
    /\ sent = FileUnits(1, 0)
    /\ busy = 0
    /\ ret = -1
    /\ appShutdown \in BOOLEAN

\* stat, open and memalign succeed and the first read is started.  Its result
\* is not looked at: refused, it leaves user_data at 1 with nothing in flight.
Open ==
    /\ pc = "open"
    /\ bufSize' = BufSize(total, rest)
    /\ ret' = 0
    /\ userData' = PENDING
    /\ inFlight' \in BOOLEAN
    /\ pc' = "guard"
    /\ UNCHANGED <<args, cBuf, rbuf, aioOffset, tmpOffset, aioBuf, readE, sent,
                   busy, appShutdown>>

\* One of them fails: return -1.
OpenFails ==
    /\ pc = "open"
    /\ pc' = "done"
    /\ UNCHANGED <<args, bufSize, cBuf, rbuf, aioVars, tmpOffset, readE, sent,
                   busy, ret, appShutdown>>

\* while(!app_shutdown)
Guard ==
    /\ pc = "guard"
    /\ pc' = IF appShutdown THEN "finish" ELSE "next"
    /\ UNCHANGED <<args, bufSize, cBuf, rbuf, aioVars, tmpOffset, readE, sent,
                   busy, ret, appShutdown>>

\* Mutant: the next read goes to the half about to be sent.
TakeSameHalf ==
    /\ pc = "next"
    /\ userData = IDLE
    /\ aioOffset > tmpOffset
    /\ readE' = aioOffset - tmpOffset
    /\ tmpOffset' = aioOffset
    /\ cBuf' = 1 - cBuf
    /\ aioBuf' = cBuf
    /\ userData' = PENDING
    /\ pc' = "resubmit"
    /\ UNCHANGED <<args, bufSize, rbuf, aioOffset, inFlight, sent, busy, ret,
                   appShutdown>>

\* Mutant: tmp_offset runs ahead by whole buffers.
TakeWholeBuffers ==
    /\ pc = "next"
    /\ userData = IDLE
    /\ aioOffset > tmpOffset
    /\ readE' = aioOffset - tmpOffset
    /\ tmpOffset' = tmpOffset + BUFFER_SIZE
    /\ cBuf' = 1 - cBuf
    /\ aioBuf' = 1 - cBuf
    /\ userData' = PENDING
    /\ pc' = "resubmit"
    /\ UNCHANGED <<args, bufSize, rbuf, aioOffset, inFlight, sent, busy, ret,
                   appShutdown>>

\* send_next: the read brought something; flip the halves.
Take ==
    /\ pc = "next"
    /\ userData = IDLE
    /\ aioOffset > tmpOffset
    /\ readE' = aioOffset - tmpOffset
    /\ tmpOffset' = aioOffset
    /\ cBuf' = 1 - cBuf
    /\ aioBuf' = 1 - cBuf
    /\ userData' = PENDING
    /\ pc' = "resubmit"
    /\ UNCHANGED <<args, bufSize, rbuf, aioOffset, inFlight, sent, busy, ret,
                   appShutdown>>

\* send_next: the read brought nothing, the file is at its end.
EndOfFile ==
    /\ pc = "next"
    /\ userData = IDLE
    /\ aioOffset = tmpOffset
    /\ readE' = 0
    /\ pc' = "finish"
    /\ UNCHANGED <<args, bufSize, cBuf, rbuf, aioVars, tmpOffset, sent, busy,
                   ret, appShutdown>>

\* Mutant: user_data is set back to 1 but the read is not asked for again.
BusyNotRetried ==
    /\ pc = "next"
    /\ userData = EBUSY
    /\ aioBuf' = cBuf
    /\ userData' = PENDING
    /\ pc' = "guard"
    /\ UNCHANGED <<args, bufSize, cBuf, rbuf, aioOffset, inFlight, tmpOffset,
                   readE, sent, busy, ret, appShutdown>>

\* send_next: the read ended busy; ask again for the same half.
ReadWasBusy ==
    /\ pc = "next"
    /\ userData = EBUSY
    /\ aioBuf' = cBuf
    /\ userData' = PENDING
    /\ pc' = "retry"
    /\ UNCHANGED <<args, bufSize, cBuf, rbuf, aioOffset, inFlight, tmpOffset,
                   readE, sent, busy, ret, appShutdown>>

\* Mutant: a failed read ends the loop like the end of the file.
FailedReadEndsFile ==
    /\ pc = "next"
    /\ userData = EIO
    /\ pc' = "finish"
    /\ UNCHANGED <<args, bufSize, cBuf, rbuf, aioVars, tmpOffset, readE, sent,
                   busy, ret, appShutdown>>

\* send_next: the read failed; its code is the result.
ReadFailed ==
    /\ pc = "next"
    /\ userData = EIO
    /\ ret' = userData
    /\ pc' = "finish"
    /\ UNCHANGED <<args, bufSize, cBuf, rbuf, aioVars, tmpOffset, readE, sent,
                   busy, appShutdown>>

\* The retried read is accepted, and the loop guard is evaluated again.
RetryAccepted ==
    /\ pc = "retry"
    /\ inFlight' = TRUE
    /\ pc' = "guard"
    /\ UNCHANGED <<args, bufSize, cBuf, rbuf, userData, aioOffset, aioBuf,
                   tmpOffset, readE, sent, busy, ret, appShutdown>>

\* aioagain: the read that overlaps the next send() is accepted.
ResubmitAccepted ==
    /\ pc = "resubmit"
    /\ inFlight' = TRUE
    /\ pc' = "send"
    /\ UNCHANGED <<args, bufSize, cBuf, rbuf, userData, aioOffset, aioBuf,
                   tmpOffset, readE, sent, busy, ret, appShutdown>>

\* aioagain: EBUSY, try again (any refusal of a retry is treated so too).
SubmitBusy ==
    /\ pc \in {"resubmit", "retry"}
    /\ busy < MaxBusy
    /\ busy' = busy + 1
    /\ UNCHANGED <<pc, args, bufSize, cBuf, rbuf, aioVars, tmpOffset, readE,
                   sent, ret, appShutdown>>

\* aioagain: refused for good; the half just read is not sent.
ResubmitFails ==
    /\ pc = "resubmit"
    /\ userData' = EIO
    /\ ret' = -1
    /\ pc' = "finish"
    /\ UNCHANGED <<args, bufSize, cBuf, rbuf, aioOffset, aioBuf, inFlight,
                   tmpOffset, readE, sent, busy, appShutdown>>

\* Mutant: a short half is taken for the last one and ends the loop at once.
SendAndStop ==
    /\ pc = "send"
    /\ sent' = sent \o rbuf[1 - cBuf]
    /\ pc' = IF readE < bufSize THEN "finish" ELSE "next"
    /\ UNCHANGED <<args, bufSize, cBuf, rbuf, aioVars, tmpOffset, readE, busy,
                   ret, appShutdown>>

\* send() takes the whole half.
Send ==
    /\ pc = "send"
    /\ sent' = sent \o rbuf[1 - cBuf]
    /\ pc' = "next"
    /\ UNCHANGED <<args, bufSize, cBuf, rbuf, aioVars, tmpOffset, readE, busy,
                   ret, appShutdown>>

\* send() fails or takes n units only: leave, the next read still in flight.
SendShort ==
    /\ pc = "send"
    /\ \E n \in 0 .. readE - 1 : sent' = sent \o SubSeq(rbuf[1 - cBuf], 1, n)
    /\ ret' = -1
    /\ pc' = "finish"
    /\ UNCHANGED <<args, bufSize, cBuf, rbuf, aioVars, tmpOffset, readE, busy,
                   appShutdown>>

\* free(buf), close, return - whether or not a read is still in flight.
Return ==
    /\ pc = "finish"
    /\ pc' = "done"
    /\ UNCHANGED <<args, bufSize, cBuf, rbuf, aioVars, tmpOffset, readE, sent,
                   busy, ret, appShutdown>>

\* The read ends: callback_aio() advances the offset by what was read.
ReadDone ==
    /\ inFlight
    /\ inFlight' = FALSE
    /\ LET n == MinOf(bufSize, total - aioOffset) IN
         /\ rbuf' = [rbuf EXCEPT ![aioBuf] = FileUnits(aioOffset + 1,
                                                       aioOffset + n)]
         /\ aioOffset' = aioOffset + n
    /\ userData' = IDLE
    /\ UNCHANGED <<pc, args, bufSize, cBuf, aioBuf, tmpOffset, readE, sent, busy,
                   ret, appShutdown>>

\* The read fails, or ends busy.
ReadFails ==
    /\ inFlight
    /\ inFlight' = FALSE
    /\ \/ userData' = EIO /\ busy' = busy
       \/ userData' = EBUSY /\ busy < MaxBusy /\ busy' = busy + 1
    /\ UNCHANGED <<pc, args, bufSize, cBuf, rbuf, aioOffset, aioBuf, tmpOffset,
                   readE, sent, ret, appShutdown>>

\* The main thread sets app_shutdown.
Shutdown ==
    /\ ~appShutdown
    /\ appShutdown' = TRUE
    /\ UNCHANGED <<pc, args, bufSize, cBuf, rbuf, aioVars, tmpOffset, readE,
                   sent, busy, ret>>

ThreadStep ==
    \/ Open \/ OpenFails \/ Guard
    \/ Take \/ EndOfFile \/ ReadWasBusy \/ ReadFailed
    \/ RetryAccepted \/ ResubmitAccepted \/ SubmitBusy \/ ResubmitFails
    \/ Return

PeerStep == Send \/ SendShort

AioStep == ReadDone \/ ReadFails

Next == ThreadStep \/ PeerStep \/ AioStep \/ Shutdown

Spec == Init /\ [][Next]_vars

\* The thread runs and every accepted read ends; the peer owes nothing.
FairSpec == Spec /\ WF_vars(ThreadStep) /\ WF_vars(AioStep)

-----------------------------------------------------------------------------

TypeOK ==
    /\ pc \in {"open", "guard", "next", "resubmit", "retry", "send", "finish",
               "done"}
    /\ total \in 0 .. MaxTotal
    /\ rest \in 0 .. MaxTotal
    /\ bufSize \in 1 .. BUFFER_SIZE
    /\ cBuf \in Halves
    /\ rbuf \in [Halves -> Stretches]
    /\ userData \in {IDLE, PENDING, EBUSY, EIO}
    /\ aioOffset \in 0 .. total
    /\ tmpOffset \in 0 .. total
    /\ aioBuf \in Halves
    /\ readE \in 0 .. BUFFER_SIZE
    /\ inFlight \in BOOLEAN
    /\ sent \in Stretches
    /\ busy \in 0 .. MaxBusy
    /\ ret \in {-1, IDLE, EBUSY, EIO}
    /\ appShutdown \in BOOLEAN

\* The read in flight always fills the current half; user_data is 1 while it
\* does, and already before the read is asked for.
ReadIsPending ==
    /\ aioBuf = cBuf
    /\ inFlight => userData = PENDING
    /\ pc \in {"resubmit", "retry"} => userData = PENDING /\ ~inFlight

\* What the offset has moved by is in the current half; it has not moved unless
\* the last read succeeded, and not even then at the end of the file.
CurrentHalf ==
    /\ userData = IDLE => rbuf[cBuf] = FileUnits(tmpOffset + 1, aioOffset)
    /\ userData # IDLE => aioOffset = tmpOffset
    /\ aioOffset \in tmpOffset .. tmpOffset + bufSize
    /\ pc \notin {"open", "done"} /\ userData = IDLE /\ aioOffset = tmpOffset
          => tmpOffset = total

\* While send() reads one half, the read in flight fills the other, and the half
\* being sent holds exactly the units that follow what was sent before.
SendBufferStable ==
    pc \in {"resubmit", "send"} =>
        /\ inFlight => aioBuf # 1 - cBuf
        /\ readE \in 1 .. tmpOffset
        /\ sent = FileUnits(1, tmpOffset - readE)
        /\ rbuf[1 - cBuf] = FileUnits(tmpOffset - readE + 1, tmpOffset)

\* The units sent, and the value returned, at each place.
Progress ==
    /\ pc \in {"open", "guard", "next", "retry"} => sent = FileUnits(1, tmpOffset)
    /\ pc \in {"guard", "next", "resubmit", "retry", "send"} => ret = 0
    /\ pc = "open" => ret = -1 /\ userData = IDLE /\ aioOffset = 0
    /\ pc \in {"finish", "done"} =>
          /\ \E n \in 0 .. total : sent = FileUnits(1, n)
          /\ ret = 0 /\ ~appShutdown => sent = FileUnits(1, total)

\* The buffer (and aior0, a local) goes away under a running read only on the
\* two exits that do not wait for it: a failed send() and a shutdown.
FreedUnderReadOnlyOnAbort ==
    pc \in {"finish", "done"} /\ inFlight => ret = -1 \/ (ret = 0 /\ appShutdown)

\* The inductive invariant behind the theorems of FtpSendFile_proofs.
SendInv ==
    /\ TypeOK
    /\ ReadIsPending
    /\ CurrentHalf
    /\ SendBufferStable
    /\ Progress
    /\ FreedUnderReadOnlyOnAbort

\* sendfile() returns, unless the peer stops taking data (no send timeout is set
\* on the data socket) or the unchecked first read was refused, in which case
\* nothing - not even app_shutdown - ends the wait on user_data.
Returns ==
    \/ <>(pc = "done")
    \/ <>[](pc = "send")
    \/ <>[](pc = "next" /\ userData = PENDING /\ ~inFlight /\ tmpOffset = 0)

\* RETR implements the abstract transfer and never calls a short copy success.
Transfer == INSTANCE FileTransfer WITH
    Slack   <- 0,
    total   <- total,
    sink    <- sent,
    outcome <- IF pc # "done" THEN "running"
               ELSE IF ret = 0 THEN "ok" ELSE "failed",
    stopped <- appShutdown

TransferSpec == Transfer!Spec
=============================================================================
