------------------------- MODULE FtpRecvFile_proofs -------------------------
(***************************************************************************)
(* Theorems about FtpRecvFile for every buffer size and file length.  The  *)
(* inductive invariant RecvInv follows each unit of the upload from the    *)
(* socket to the disk; type correctness, the exclusive use of the halves,  *)
(* the meaning of a 0 returned and the refinement all rest on it.          *)
(***************************************************************************)
EXTENDS FtpRecvFile, TLAPS

\* The file an earlier upload left is a file.
LEMMA PartialType ==
    ASSUME NEW n \in 0 .. MaxTotal
    PROVE  Partial(n) \in [0 .. MaxTotal -> Units]
  <1>1. \A p \in 0 .. MaxTotal : (IF p < n THEN p + 1 ELSE 0) \in 0 .. MaxTotal
    BY RecvAssumption
  <1> QED
    BY <1>1 DEF Partial, Units

\* The initial states satisfy the invariant.
LEMMA InitInv == Init => RecvInv
  <1> SUFFICES ASSUME Init PROVE RecvInv
    OBVIOUS
  <1> USE RecvAssumption DEF Init, IDLE, PENDING, EBUSY, EIO, StreamLen
  <1>1. TypeOK
    <2>1. file \in [0 .. MaxTotal -> Units]
      BY PartialType
    <2>2. rbuf \in [Halves -> [1 .. BUFFER_SIZE -> Units]]
      BY DEF Units
    <2>3. /\ cBuf \in Halves /\ aioBuf \in Halves
          /\ readE \in 0 .. BUFFER_SIZE /\ aioSize \in 0 .. BUFFER_SIZE
          /\ taken \in 0 .. StreamLen /\ aioOffset \in 0 .. StreamLen
      BY DEF Halves
    <2>4. /\ pc = "open" /\ userData = 0 /\ ret = -1 /\ busy \in 0 .. MaxBusy
          /\ total \in 0 .. MaxTotal /\ rest \in 0 .. total
      OBVIOUS
    <2>5. inFlight \in BOOLEAN /\ appShutdown \in BOOLEAN
      BY Zenon
    <2> HIDE DEF Init
    <2> QED
      BY <2>1, <2>2, <2>3, <2>4, <2>5 DEF TypeOK
  <1>2. Control /\ PendingMeansWriting /\ BufferExclusive
    BY DEF Control, PendingMeansWriting, BufferExclusive
  <1>3. Accounted
    BY DEF Accounted, Writing, Held
  <1>4. InOrder
    BY DEF InOrder
  <1> QED
    BY <1>1, <1>2, <1>3, <1>4 DEF RecvInv

\* Every step keeps it.
LEMMA StepInv == RecvInv /\ [Next]_vars => RecvInv'
  <1> SUFFICES ASSUME RecvInv, [Next]_vars PROVE RecvInv'
    OBVIOUS
  <1> USE RecvAssumption DEF IDLE, PENDING, EBUSY, EIO, aioVars
  <1>0. TypeOK /\ Control /\ PendingMeansWriting /\ BufferExclusive /\ Accounted
          /\ InOrder
    BY DEF RecvInv
  <1>1. CASE Open
    <2> USE <1>0, <1>1 DEF Open
    <2>1. TypeOK'
      <3>1. file' \in [0 .. MaxTotal -> Units]
        BY PartialType DEF TypeOK
      <3> QED
        BY <3>1 DEF TypeOK, StreamLen
    <2>2. (Control /\ PendingMeansWriting /\ BufferExclusive)'
      BY DEF TypeOK, StreamLen, Halves, Control, PendingMeansWriting, BufferExclusive
    <2>3. Accounted'
      BY DEF TypeOK, StreamLen, Halves, Control, PendingMeansWriting, BufferExclusive, Accounted, Writing, Held
    <2>4. InOrder'
      BY DEF TypeOK, StreamLen, Halves, Control, InOrder, Stream
    <2> QED
      BY <2>1, <2>2, <2>3, <2>4 DEF RecvInv
  <1>2. CASE OpenFails
    <2> USE <1>0, <1>2 DEF OpenFails
    <2>1. TypeOK'
      BY DEF TypeOK, StreamLen, Halves
    <2>2. (Control /\ PendingMeansWriting /\ BufferExclusive)'
      BY DEF TypeOK, StreamLen, Halves, Control, PendingMeansWriting, BufferExclusive
    <2>3. Accounted'
      BY DEF TypeOK, StreamLen, Halves, Control, PendingMeansWriting, BufferExclusive, Accounted, Writing, Held
    <2>4. InOrder'
      BY DEF TypeOK, StreamLen, Halves, Control, InOrder, Stream
    <2> QED
      BY <2>1, <2>2, <2>3, <2>4 DEF RecvInv
  <1>3. CASE Loop
    <2> USE <1>0, <1>3 DEF Loop
    <2>1. TypeOK'
      BY DEF TypeOK, StreamLen, Halves
    <2>2. (Control /\ PendingMeansWriting /\ BufferExclusive)'
      BY DEF TypeOK, StreamLen, Halves, Control, PendingMeansWriting, BufferExclusive
    <2>3. Accounted'
      BY DEF TypeOK, StreamLen, Halves, Control, PendingMeansWriting, BufferExclusive, Accounted, Writing, Held
    <2>4. InOrder'
      BY DEF TypeOK, StreamLen, Halves, Control, InOrder, Stream
    <2> QED
      BY <2>1, <2>2, <2>3, <2>4 DEF RecvInv
  <1>4. CASE Recv
    <2> USE <1>0
    <2>1. /\ pc = "recv" /\ pc' = "dispatch"
          /\ UNCHANGED <<total, rest, cBuf, aioVars, file, busy, ret, appShutdown>>
      BY <1>4 DEF Recv
    <2> DEFINE n == MinOf(BUFFER_SIZE, StreamLen - taken)
    <2>2. /\ rbuf' = [rbuf EXCEPT ![cBuf] =
                       [i \in 1 .. BUFFER_SIZE |->
                          IF i <= n THEN Stream(taken + i) ELSE rbuf[cBuf][i]]]
          /\ taken' = taken + n
          /\ readE' = n
      BY <1>4 DEF Recv, TypeOK
    <2>3. n \in 1 .. BUFFER_SIZE /\ taken + n \in 1 .. StreamLen
      BY <1>4 DEF Recv, TypeOK, StreamLen, MinOf
    <2> HIDE DEF n
    <2>4. \A i \in 1 .. n : Stream(taken + i) \in Units
      BY <2>3 DEF TypeOK, StreamLen, Stream, Units
    <2> DEFINE half == [i \in 1 .. BUFFER_SIZE |->
                            IF i <= n THEN Stream(taken + i) ELSE rbuf[cBuf][i]]
    <2>6. rbuf' = [rbuf EXCEPT ![cBuf] = half]
      BY <2>2
    <2>7. half \in [1 .. BUFFER_SIZE -> Units]
      <3>1. rbuf[cBuf] \in [1 .. BUFFER_SIZE -> Units]
        BY DEF TypeOK
      <3> QED
        BY <3>1, <2>3, <2>4
    <2>8. TypeOK'
      <3> HIDE DEF half
      <3>1. rbuf' \in [Halves -> [1 .. BUFFER_SIZE -> Units]]
        BY <2>6, <2>7 DEF TypeOK
      <3> QED
        BY <2>1, <2>2, <2>3, <3>1 DEF TypeOK, StreamLen
    <2>9. (Control /\ PendingMeansWriting /\ BufferExclusive)'
      BY <2>1, <2>2, <2>3 DEF Control, PendingMeansWriting, BufferExclusive
    <2>10. Accounted'
      BY <2>1, <2>2, <2>3 DEF TypeOK, StreamLen, Accounted, Writing, Held
    <2>11. InOrder'
      <3>1. \A i \in 1 .. n : rbuf'[cBuf][i] = Stream(taken + i)
        BY <2>3, <2>6 DEF TypeOK
      <3>2. userData = PENDING => rbuf'[aioBuf] = rbuf[aioBuf]
        BY <2>1, <2>6 DEF TypeOK, PendingMeansWriting, BufferExclusive
      <3>3. taken' - readE' = taken
        BY <2>2, <2>3 DEF TypeOK, StreamLen
      <3>4. \A i \in 1 .. aioOffset' : file'[i - 1] = Stream(i)'
        BY <2>1 DEF InOrder, Stream
      <3>5. userData' = PENDING =>
              \A i \in 1 .. aioSize' : rbuf'[aioBuf'][i] = Stream(aioOffset + i)'
        BY <2>1, <3>2 DEF InOrder, Stream
      <3>6. \A i \in 1 .. readE' : rbuf'[cBuf'][i] = Stream(taken - readE + i)'
        BY <2>1, <2>2, <3>1, <3>3 DEF Stream
      <3> QED
        BY <3>4, <3>5, <3>6 DEF InOrder
    <2> QED
      BY <2>8, <2>9, <2>10, <2>11 DEF RecvInv
  <1>5. CASE RecvEnd
    <2> USE <1>0, <1>5 DEF RecvEnd
    <2>1. TypeOK'
      BY DEF TypeOK, StreamLen, Halves
    <2>2. (Control /\ PendingMeansWriting /\ BufferExclusive)'
      BY DEF TypeOK, StreamLen, Halves, Control, PendingMeansWriting, BufferExclusive
    <2>3. Accounted'
      BY DEF TypeOK, StreamLen, Halves, Control, PendingMeansWriting, BufferExclusive, Accounted, Writing, Held
    <2>4. InOrder'
      BY DEF TypeOK, StreamLen, Halves, Control, InOrder, Stream
    <2> QED
      BY <2>1, <2>2, <2>3, <2>4 DEF RecvInv
  <1>6. CASE RecvError
    <2> USE <1>0, <1>6 DEF RecvError
    <2>1. TypeOK'
      BY DEF TypeOK, StreamLen, Halves
    <2>2. (Control /\ PendingMeansWriting /\ BufferExclusive)'
      BY DEF TypeOK, StreamLen, Halves, Control, PendingMeansWriting, BufferExclusive
    <2>3. Accounted'
      BY DEF TypeOK, StreamLen, Halves, Control, PendingMeansWriting, BufferExclusive, Accounted, Writing, Held
    <2>4. InOrder'
      BY DEF TypeOK, StreamLen, Halves, Control, InOrder, Stream
    <2> QED
      BY <2>1, <2>2, <2>3, <2>4 DEF RecvInv
  <1>7. CASE Dispatch
    <2> USE <1>0, <1>7 DEF Dispatch
    <2>1. TypeOK'
      BY DEF TypeOK, StreamLen, Halves
    <2>2. (Control /\ PendingMeansWriting /\ BufferExclusive)'
      BY DEF TypeOK, StreamLen, Halves, Control, PendingMeansWriting, BufferExclusive
    <2>3. Accounted'
      BY DEF TypeOK, StreamLen, Halves, Control, PendingMeansWriting, BufferExclusive, Accounted, Writing, Held
    <2>4. InOrder'
      <3>1. aioOffset = taken - readE
        BY DEF TypeOK, StreamLen, Accounted, Writing, Held
      <3> QED
        BY <3>1 DEF InOrder, Stream
    <2> QED
      BY <2>1, <2>2, <2>3, <2>4 DEF RecvInv
  <1>8. CASE DispatchFailed
    <2> USE <1>0, <1>8 DEF DispatchFailed
    <2>1. TypeOK'
      BY DEF TypeOK, StreamLen, Halves
    <2>2. (Control /\ PendingMeansWriting /\ BufferExclusive)'
      BY DEF TypeOK, StreamLen, Halves, Control, PendingMeansWriting, BufferExclusive
    <2>3. Accounted'
      BY DEF TypeOK, StreamLen, Halves, Control, PendingMeansWriting, BufferExclusive, Accounted, Writing, Held
    <2>4. InOrder'
      BY DEF TypeOK, StreamLen, Halves, Control, InOrder, Stream
    <2> QED
      BY <2>1, <2>2, <2>3, <2>4 DEF RecvInv
  <1>9. CASE DispatchStopped
    <2> USE <1>0, <1>9 DEF DispatchStopped
    <2>1. TypeOK'
      BY DEF TypeOK, StreamLen, Halves
    <2>2. (Control /\ PendingMeansWriting /\ BufferExclusive)'
      BY DEF TypeOK, StreamLen, Halves, Control, PendingMeansWriting, BufferExclusive
    <2>3. Accounted'
      BY DEF TypeOK, StreamLen, Halves, Control, PendingMeansWriting, BufferExclusive, Accounted, Writing, Held
    <2>4. InOrder'
      BY DEF TypeOK, StreamLen, Halves, Control, InOrder, Stream
    <2> QED
      BY <2>1, <2>2, <2>3, <2>4 DEF RecvInv
  <1>10. CASE Submit
    <2> USE <1>0, <1>10 DEF Submit
    <2>1. TypeOK'
      BY DEF TypeOK, StreamLen, Halves
    <2>2. (Control /\ PendingMeansWriting /\ BufferExclusive)'
      BY DEF TypeOK, StreamLen, Halves, Control, PendingMeansWriting, BufferExclusive
    <2>3. Accounted'
      BY DEF TypeOK, StreamLen, Halves, Control, PendingMeansWriting, BufferExclusive, Accounted, Writing, Held
    <2>4. InOrder'
      BY DEF TypeOK, StreamLen, Halves, Control, InOrder, Stream
    <2> QED
      BY <2>1, <2>2, <2>3, <2>4 DEF RecvInv
  <1>11. CASE SubmitBusy
    <2> USE <1>0, <1>11 DEF SubmitBusy
    <2>1. TypeOK'
      BY DEF TypeOK, StreamLen, Halves
    <2>2. (Control /\ PendingMeansWriting /\ BufferExclusive)'
      BY DEF TypeOK, StreamLen, Halves, Control, PendingMeansWriting, BufferExclusive
    <2>3. Accounted'
      BY DEF TypeOK, StreamLen, Halves, Control, PendingMeansWriting, BufferExclusive, Accounted, Writing, Held
    <2>4. InOrder'
      BY DEF TypeOK, StreamLen, Halves, Control, InOrder, Stream
    <2> QED
      BY <2>1, <2>2, <2>3, <2>4 DEF RecvInv
  <1>12. CASE SubmitFails
    <2> USE <1>0, <1>12 DEF SubmitFails
    <2>1. TypeOK'
      BY DEF TypeOK, StreamLen, Halves
    <2>2. (Control /\ PendingMeansWriting /\ BufferExclusive)'
      BY DEF TypeOK, StreamLen, Halves, Control, PendingMeansWriting, BufferExclusive
    <2>3. Accounted'
      BY DEF TypeOK, StreamLen, Halves, Control, PendingMeansWriting, BufferExclusive, Accounted, Writing, Held
    <2>4. InOrder'
      BY DEF TypeOK, StreamLen, Halves, Control, InOrder, Stream
    <2> QED
      BY <2>1, <2>2, <2>3, <2>4 DEF RecvInv
  <1>13. CASE Return
    <2> USE <1>0, <1>13 DEF Return
    <2>1. TypeOK'
      BY DEF TypeOK, StreamLen, Halves
    <2>2. (Control /\ PendingMeansWriting /\ BufferExclusive)'
      BY DEF TypeOK, StreamLen, Halves, Control, PendingMeansWriting, BufferExclusive
    <2>3. Accounted'
      BY DEF TypeOK, StreamLen, Halves, Control, PendingMeansWriting, BufferExclusive, Accounted, Writing, Held
    <2>4. InOrder'
      BY DEF TypeOK, StreamLen, Halves, Control, InOrder, Stream
    <2> QED
      BY <2>1, <2>2, <2>3, <2>4 DEF RecvInv
  <1>14. CASE WriteDone
    <2> USE <1>0, <1>14 DEF WriteDone
    <2>0. /\ userData = PENDING
          /\ aioOffset + aioSize \in 0 .. StreamLen
      BY DEF TypeOK, StreamLen, PendingMeansWriting, Accounted, Writing, Held
    <2>a. \A p \in 0 .. MaxTotal :
            /\ p \in aioOffset .. aioOffset + aioSize - 1 =>
                 /\ p - aioOffset + 1 \in 1 .. aioSize
                 /\ file'[p] = rbuf[aioBuf][p - aioOffset + 1]
            /\ p \notin aioOffset .. aioOffset + aioSize - 1 =>
                 file'[p] = file[p]
      BY DEF TypeOK, StreamLen
    <2>1. TypeOK'
      <3>1. rbuf[aioBuf] \in [1 .. BUFFER_SIZE -> Units]
        BY DEF TypeOK
      <3>2. \A p \in 0 .. MaxTotal : file'[p] \in Units
        BY <2>a, <3>1 DEF TypeOK
      <3>3. file' \in [0 .. MaxTotal -> Units]
        BY <3>2
      <3> QED
        BY <2>0, <3>3 DEF TypeOK, StreamLen
    <2>2. (Control /\ PendingMeansWriting /\ BufferExclusive)'
      BY DEF TypeOK, StreamLen, Halves, Control, PendingMeansWriting, BufferExclusive
    <2>3. Accounted'
      BY DEF TypeOK, StreamLen, Halves, Control, PendingMeansWriting, BufferExclusive, Accounted, Writing, Held
    <2>4. InOrder'
      <3>1. ASSUME NEW i \in 1 .. aioOffset + aioSize
            PROVE  file'[i - 1] = Stream(i)
        <4>1. i - 1 \in 0 .. MaxTotal
          BY <2>0 DEF TypeOK, StreamLen
        <4>2. CASE i <= aioOffset
          BY <4>1, <4>2, <2>a DEF TypeOK, StreamLen, InOrder
        <4>3. CASE i > aioOffset
          <5>1. i - aioOffset \in 1 .. aioSize
            BY <4>3 DEF TypeOK, StreamLen
          <5>2. file'[i - 1] = rbuf[aioBuf][i - aioOffset]
            BY <4>1, <5>1, <2>a DEF TypeOK, StreamLen
          <5>3. rbuf[aioBuf][i - aioOffset] = Stream(aioOffset + (i - aioOffset))
            BY <2>0, <5>1 DEF InOrder
          <5> QED
            BY <5>2, <5>3 DEF TypeOK, StreamLen, Stream
        <4> QED
          BY <4>2, <4>3 DEF TypeOK, StreamLen
      <3> QED
        BY <3>1, <2>0 DEF InOrder, Stream, Control, PendingMeansWriting,
                          BufferExclusive
    <2> QED
      BY <2>1, <2>2, <2>3, <2>4 DEF RecvInv
  <1>15. CASE WriteFails
    <2> USE <1>0, <1>15 DEF WriteFails
    <2>1. TypeOK'
      BY DEF TypeOK, StreamLen, Halves
    <2>2. (Control /\ PendingMeansWriting /\ BufferExclusive)'
      BY DEF TypeOK, StreamLen, Halves, Control, PendingMeansWriting, BufferExclusive
    <2>3. Accounted'
      BY DEF TypeOK, StreamLen, Halves, Control, PendingMeansWriting, BufferExclusive, Accounted, Writing, Held
    <2>4. InOrder'
      BY DEF TypeOK, StreamLen, Halves, Control, InOrder, Stream
    <2> QED
      BY <2>1, <2>2, <2>3, <2>4 DEF RecvInv
  <1>16. CASE Shutdown
    <2> USE <1>0, <1>16 DEF Shutdown
    <2>1. TypeOK'
      BY DEF TypeOK, StreamLen, Halves
    <2>2. (Control /\ PendingMeansWriting /\ BufferExclusive)'
      BY DEF TypeOK, StreamLen, Halves, Control, PendingMeansWriting, BufferExclusive
    <2>3. Accounted'
      BY DEF TypeOK, StreamLen, Halves, Control, PendingMeansWriting, BufferExclusive, Accounted, Writing, Held
    <2>4. InOrder'
      BY DEF TypeOK, StreamLen, Halves, Control, InOrder, Stream
    <2> QED
      BY <2>1, <2>2, <2>3, <2>4 DEF RecvInv
  <1>17. CASE UNCHANGED vars
    <2> USE <1>0, <1>17 DEF vars
    <2>1. TypeOK'
      BY DEF TypeOK, StreamLen, Halves
    <2>2. (Control /\ PendingMeansWriting /\ BufferExclusive)'
      BY DEF TypeOK, StreamLen, Halves, Control, PendingMeansWriting, BufferExclusive
    <2>3. Accounted'
      BY DEF TypeOK, StreamLen, Halves, Control, PendingMeansWriting, BufferExclusive, Accounted, Writing, Held
    <2>4. InOrder'
      BY DEF TypeOK, StreamLen, Halves, Control, InOrder, Stream
    <2> QED
      BY <2>1, <2>2, <2>3, <2>4 DEF RecvInv
  <1> QED
    BY <1>1, <1>2, <1>3, <1>4, <1>5, <1>6, <1>7, <1>8, <1>9, <1>10, <1>11, <1>12, <1>13, <1>14, <1>15, <1>16, <1>17
    DEF Next, ThreadStep, PeerStep, AioStep

\* RecvInv holds throughout (all of recvfile(), ftpcmd.c:107-186).
THEOREM RecvInvariant == Spec => []RecvInv
  <1> QED
    BY InitInv, StepInv, PTL DEF Spec

\* recvfile() keeps its variables within their types, the write offset within
\* the stream and the buffer index within the two halves.
THEOREM TypeCorrect == Spec => []TypeOK
  <1>1. RecvInv => TypeOK
    BY DEF RecvInv
  <1> QED
    BY <1>1, RecvInvariant, PTL

\* The half being received into is never the one being written, and the buffer
\* is never freed under a write (ftpcmd.c:138-184).
THEOREM HalvesExclusive == Spec => []BufferExclusive
  <1>1. RecvInv => BufferExclusive
    BY DEF RecvInv
  <1> QED
    BY <1>1, RecvInvariant, PTL

\* Every unit taken from the socket is on disk, in the write that has not
\* succeeded or in the current half, unless the call returns an error or is shut
\* down (ftpcmd.c:107-186).
THEOREM UnitsAccounted == Spec => []Accounted
  <1>1. RecvInv => Accounted
    BY DEF RecvInv
  <1> QED
    BY <1>1, RecvInvariant, PTL

\* A success without a shutdown misses units exactly if user_data was left
\* non-zero by the last write (ftpcmd.c:180-185).
THEOREM SuccessMeaning == Spec => []SuccessIffLastWriteDone
  <1>1. RecvInv => SuccessIffLastWriteDone
    BY RecvAssumption
    DEF RecvInv, TypeOK, Control, Accounted, Writing, Held, StreamLen, IDLE,
        SuccessIffLastWriteDone
  <1> QED
    BY <1>1, RecvInvariant, PTL

-----------------------------------------------------------------------------
(* The refinement *)

Sink == [i \in 1 .. aioOffset |-> file[i - 1] - rest]

Outcome == IF pc # "done" THEN "running" ELSE IF ret = 0 THEN "ok" ELSE "failed"

\* What is on disk is a prefix of the stream.
LEMMA SinkIsPrefix ==
    RecvInv => aioOffset \in 0 .. StreamLen /\ Sink = Transfer!Prefix(aioOffset)
  <1> SUFFICES ASSUME RecvInv
               PROVE  /\ aioOffset \in 0 .. StreamLen
                      /\ Sink = Transfer!Prefix(aioOffset)
    OBVIOUS
  <1>1. TypeOK /\ InOrder
    BY DEF RecvInv
  <1>2. \A i \in 1 .. aioOffset : file[i - 1] - rest = i
    <2> SUFFICES ASSUME NEW i \in 1 .. aioOffset PROVE file[i - 1] - rest = i
      OBVIOUS
    <2>1. file[i - 1] = rest + i
      BY <1>1 DEF InOrder, Stream
    <2> QED
      BY <1>1, <2>1, RecvAssumption DEF TypeOK, StreamLen
  <1>3. Sink = [i \in 1 .. aioOffset |-> i]
    BY <1>2 DEF Sink
  <1> QED
    BY <1>1, <1>3 DEF TypeOK, Transfer!Prefix

\* The initial states are initial states of the abstract transfer.
LEMMA InitImplements == Init => Transfer!Init
  <1> SUFFICES ASSUME Init PROVE Transfer!Init
    OBVIOUS
  <1>1. StreamLen \in Nat
    BY RecvAssumption DEF Init, StreamLen
  <1>2. [i \in 1 .. aioOffset |-> file[i - 1] - rest] = Transfer!Prefix(0)
    <2>1. aioOffset = 0
      BY DEF Init
    <2> QED
      BY <2>1 DEF Transfer!Prefix
  <1> QED
    BY <1>1, <1>2 DEF Init, Transfer!Init

\* A step that leaves the disk, the outcome and app_shutdown alone is a stutter.
LEMMA Stutter ==
    ASSUME aioOffset' = aioOffset, file' = file, total' = total, rest' = rest,
           Outcome' = Outcome, appShutdown' = appShutdown
    PROVE  UNCHANGED Transfer!ftVars
  BY DEF Transfer!ftVars, StreamLen, Outcome

\* Every step is a step of the abstract transfer or a stutter.
LEMMA StepImplements ==
    RecvInv /\ RecvInv' /\ [Next]_vars => [Transfer!Next]_(Transfer!ftVars)
  <1> SUFFICES ASSUME RecvInv, RecvInv', [Next]_vars
               PROVE  Transfer!Next \/ UNCHANGED Transfer!ftVars
    OBVIOUS
  <1> USE DEF aioVars
  <1>1. /\ aioOffset \in 0 .. StreamLen /\ Sink = Transfer!Prefix(aioOffset)
        /\ aioOffset' \in 0 .. StreamLen'
        /\ Sink' = Transfer!Prefix(aioOffset)'
    <2>1. (RecvInv => aioOffset \in 0 .. StreamLen
                        /\ Sink = Transfer!Prefix(aioOffset))'
      BY SinkIsPrefix, PTL
    <2> QED
      BY <2>1, SinkIsPrefix
  <1>2. CASE Open
    <2>1. aioOffset = 0 /\ aioOffset' = 0
      BY <1>2 DEF Open, RecvInv, Control
    <2>2. [i \in 1 .. aioOffset |-> file[i - 1] - rest]' =
            [i \in 1 .. aioOffset |-> file[i - 1] - rest]
      BY <2>1
    <2> QED
      BY <1>2, <2>2 DEF Open, Transfer!ftVars, StreamLen
  <1>3. CASE OpenFails
    <2>1. Transfer!Fail
      BY <1>3 DEF OpenFails, Transfer!Fail, StreamLen, RecvInv, Control
    <2> QED
      BY <2>1 DEF Transfer!Next
  <1>4. CASE Loop \/ Recv \/ RecvEnd \/ RecvError \/ Dispatch \/ DispatchFailed
             \/ DispatchStopped \/ Submit \/ SubmitBusy \/ SubmitFails \/ WriteFails
    <2>1. /\ aioOffset' = aioOffset /\ file' = file /\ total' = total
          /\ rest' = rest /\ appShutdown' = appShutdown
      BY <1>4 DEF Loop, Recv, RecvEnd, RecvError, Dispatch, DispatchFailed,
         DispatchStopped, Submit, SubmitBusy, SubmitFails, WriteFails
    <2>2. pc # "done" /\ pc' # "done"
      BY <1>4 DEF Loop, Recv, RecvEnd, RecvError, Dispatch, DispatchFailed,
         DispatchStopped, Submit, SubmitBusy, SubmitFails, WriteFails,
         RecvInv, BufferExclusive
    <2> QED
      BY <2>1, <2>2, Stutter DEF Outcome
  <1>5. CASE Return
    <2>1. Outcome = "running" /\ Outcome' = IF ret = 0 THEN "ok" ELSE "failed"
      BY <1>5 DEF Return, Outcome
    <2>2. UNCHANGED <<StreamLen, Sink, appShutdown>>
      BY <1>5 DEF Return, StreamLen, Sink
    <2>3. CASE ret = 0
      <3>1. appShutdown \/ aioOffset + BUFFER_SIZE >= StreamLen
        BY <1>5, <2>3, RecvAssumption
        DEF Return, RecvInv, TypeOK, Accounted, Writing, Held, StreamLen
      <3>2. Transfer!Complete
        BY <1>1, <2>1, <2>2, <2>3, <3>1 DEF Transfer!Complete, Sink, Outcome
      <3> QED
        BY <3>2 DEF Transfer!Next
    <2>4. CASE ret # 0
      <3>1. Transfer!Fail
        BY <2>1, <2>2, <2>4 DEF Transfer!Fail, Sink, Outcome
      <3> QED
        BY <3>1 DEF Transfer!Next
    <2> QED
      BY <2>3, <2>4
  <1>6. CASE WriteDone
    <2>1. /\ pc # "done" /\ pc' = pc /\ ret' = ret /\ appShutdown' = appShutdown
          /\ StreamLen' = StreamLen /\ aioOffset' = aioOffset + aioSize
      BY <1>6 DEF WriteDone, RecvInv, BufferExclusive, StreamLen
    <2>2. aioSize \in Nat \ {0}
      BY <1>6 DEF WriteDone, RecvInv, TypeOK, Control, PendingMeansWriting, IDLE,
         PENDING
    <2>3. aioOffset' \in aioOffset + 1 .. StreamLen
      <3>1. aioOffset \in Nat /\ StreamLen \in Nat
        BY RecvAssumption DEF RecvInv, TypeOK, StreamLen
      <3>2. aioOffset' \in 0 .. StreamLen'
        BY <1>1
      <3> QED
        BY <2>1, <2>2, <3>1, <3>2
    <2>4. Sink' = Transfer!Prefix(aioOffset')
      BY <1>1
    <2>5. Transfer!Deliver
      BY <1>1, <2>1, <2>3, <2>4 DEF Transfer!Deliver, Sink
    <2> QED
      BY <2>5 DEF Transfer!Next
  <1>7. CASE Shutdown
    <2>1. Transfer!Stop
      BY <1>7 DEF Shutdown, Transfer!Stop, StreamLen
    <2> QED
      BY <2>1 DEF Transfer!Next
  <1>8. CASE UNCHANGED vars
    BY <1>8, Stutter DEF vars, Outcome
  <1> QED
    BY <1>2, <1>3, <1>4, <1>5, <1>6, <1>7, <1>8
    DEF Next, ThreadStep, PeerStep, AioStep

\* STOR implements the abstract transfer: the file grows by whole prefixes of the
\* stream, not at all after recvfile() has returned, and a success that was not
\* shut down lacks one buffer at most.
THEOREM RecvImplementsTransfer == Spec => TransferSpec
  <1> QED
    BY InitImplements, StepImplements, RecvInvariant, PTL
    DEF Spec, TransferSpec, Transfer!Spec
=============================================================================
