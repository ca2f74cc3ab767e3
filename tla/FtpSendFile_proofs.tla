------------------------- MODULE FtpSendFile_proofs -------------------------
(***************************************************************************)
(* Theorems about FtpSendFile for every buffer size and file length, along *)
(* the inductive invariant SendInv: what has been sent, the half being     *)
(* sent and the half being read are consecutive stretches of the file.     *)
(***************************************************************************)
EXTENDS FtpSendFile, SequenceTheorems, TLAPS

\* A stretch of the file is a sequence.
LEMMA UnitsSeq ==
    ASSUME NEW a \in Nat, NEW b \in Nat, a <= b + 1
    PROVE  FileUnits(a, b) \in Seq(Nat) /\ Len(FileUnits(a, b)) = b - a + 1
  <1>1. \A i \in 1 .. b - a + 1 : a + i - 1 \in Nat
    OBVIOUS
  <1> QED
    BY <1>1 DEF FileUnits

\* Two adjacent stretches make one.
LEMMA Adjacent ==
    ASSUME NEW m \in Nat, NEW n \in Nat, m <= n
    PROVE  FileUnits(1, m) \o FileUnits(m + 1, n) = FileUnits(1, n)
  <1> DEFINE s == FileUnits(1, m)
             t == FileUnits(m + 1, n)
             u == FileUnits(1, n)
  <1>1. s \in Seq(Nat) /\ Len(s) = m
    BY UnitsSeq
  <1>2. t \in Seq(Nat) /\ Len(t) = n - m
    <2>1. m + 1 \in Nat /\ m + 1 <= n + 1 /\ n - (m + 1) + 1 = n - m
      OBVIOUS
    <2> QED
      BY <2>1, UnitsSeq
  <1>3. u \in Seq(Nat) /\ Len(u) = n
    BY UnitsSeq
  <1>4. /\ \A i \in 1 .. m : s[i] = i
        /\ \A i \in 1 .. n - m : t[i] = m + i
        /\ \A i \in 1 .. n : u[i] = i
    BY DEF FileUnits
  <1> HIDE DEF s, t, u
  <1>5. /\ s \o t \in Seq(Nat)
        /\ Len(s \o t) = n
        /\ \A i \in 1 .. n : (s \o t)[i] = IF i <= m THEN s[i] ELSE t[i - m]
    BY <1>1, <1>2, ConcatProperties
  <1>6. \A i \in 1 .. n : (s \o t)[i] = u[i]
    BY <1>4, <1>5
  <1>7. s \o t = u
    BY <1>3, <1>5, <1>6, SeqEqual
  <1> QED
    BY <1>7 DEF s, t, u

\* The beginning of a stretch is a stretch.
LEMMA Beginning ==
    ASSUME NEW m \in Nat, NEW n \in Nat, m <= n, NEW k \in 0 .. n - m
    PROVE  SubSeq(FileUnits(m + 1, n), 1, k) = FileUnits(m + 1, m + k)
  <1> DEFINE t == FileUnits(m + 1, n)
  <1>1. t \in Seq(Nat) /\ Len(t) = n - m
    <2>1. m + 1 \in Nat /\ m + 1 <= n + 1 /\ n - (m + 1) + 1 = n - m
      OBVIOUS
    <2> QED
      BY <2>1, UnitsSeq
  <1>2. \A i \in 1 .. k : t[i] = m + i
    BY DEF FileUnits
  <1>3. SubSeq(t, 1, k) = [i \in 1 .. k |-> t[i]]
    BY <1>1
  <1>4. SubSeq(t, 1, k) = [i \in 1 .. k |-> m + i]
    BY <1>2, <1>3
  <1>5. FileUnits(m + 1, m + k) = [i \in 1 .. k |-> m + i]
    BY DEF FileUnits
  <1> QED
    BY <1>4, <1>5

\* Stretches of the file are what the halves may hold.
LEMMA StretchType ==
    ASSUME NEW a \in 1 .. MaxTotal + 1, NEW b \in 0 .. MaxTotal
    PROVE  FileUnits(a, b) \in Stretches
  BY DEF Stretches

\* Whatever the system does to a read leaves what was sent, and where the thread
\* is, as they were.
LEMMA ProgressKept ==
    ASSUME Progress, pc # "open",
           UNCHANGED <<pc, total, sent, tmpOffset, ret, appShutdown>>
    PROVE  Progress'
  BY DEF Progress

\* The initial states satisfy the invariant.
LEMMA InitInv == Init => SendInv
  <1> SUFFICES ASSUME Init PROVE SendInv
    OBVIOUS
  <1> USE SendAssumption DEF Init, IDLE, PENDING, EBUSY, EIO
  <1>1. TypeOK
    <2>1. FileUnits(1, 0) \in Stretches
      BY StretchType
    <2>2. rbuf \in [Halves -> Stretches] /\ sent \in Stretches
      BY <2>1
    <2>3. bufSize \in 1 .. BUFFER_SIZE /\ cBuf \in Halves /\ aioBuf \in Halves
      BY DEF Halves
    <2>4. inFlight \in BOOLEAN /\ appShutdown \in BOOLEAN
      BY Zenon
    <2> QED
      BY <2>2, <2>3, <2>4 DEF TypeOK
  <1>2. ReadIsPending /\ SendBufferStable /\ FreedUnderReadOnlyOnAbort
    BY DEF ReadIsPending, SendBufferStable, FreedUnderReadOnlyOnAbort
  <1>3. CurrentHalf
    BY DEF CurrentHalf, Halves
  <1>4. Progress
    BY DEF Progress
  <1> QED
    BY <1>1, <1>2, <1>3, <1>4 DEF SendInv

\* Every step keeps it.
LEMMA StepInv == SendInv /\ [Next]_vars => SendInv'
  <1> SUFFICES ASSUME SendInv, [Next]_vars PROVE SendInv'
    OBVIOUS
  <1> USE SendAssumption DEF IDLE, PENDING, EBUSY, EIO, aioVars, args
  <1>0. TypeOK /\ ReadIsPending /\ CurrentHalf /\ SendBufferStable /\ Progress
          /\ FreedUnderReadOnlyOnAbort
    BY DEF SendInv
  <1>1. CASE Open
    <2> USE <1>0, <1>1 DEF Open
    <2>1. TypeOK'
      <3>1. bufSize' \in 1 .. BUFFER_SIZE
        BY DEF TypeOK, BufSize
      <3>2. inFlight' \in BOOLEAN
        OBVIOUS
      <3> QED
        BY <3>1, <3>2 DEF TypeOK
    <2>2. (ReadIsPending /\ FreedUnderReadOnlyOnAbort)'
      BY DEF TypeOK, Halves, ReadIsPending, Progress, FreedUnderReadOnlyOnAbort
    <2>3. CurrentHalf'
      <3>1. aioOffset = 0 /\ tmpOffset = 0 /\ bufSize' \in Nat
        BY <2>1 DEF TypeOK, CurrentHalf, Progress
      <3> QED
        BY <3>1 DEF CurrentHalf
    <2>4. SendBufferStable'
      BY DEF TypeOK, Halves, ReadIsPending, CurrentHalf, SendBufferStable
    <2>5. Progress'
      BY DEF TypeOK, CurrentHalf, SendBufferStable, Progress
    <2> QED
      BY <2>1, <2>2, <2>3, <2>4, <2>5 DEF SendInv
  <1>2. CASE OpenFails
    <2> USE <1>0, <1>2 DEF OpenFails
    <2>1. TypeOK'
      BY DEF TypeOK, Halves
    <2>2. (ReadIsPending /\ FreedUnderReadOnlyOnAbort)'
      BY DEF TypeOK, Halves, ReadIsPending, Progress, FreedUnderReadOnlyOnAbort
    <2>3. CurrentHalf'
      BY DEF TypeOK, ReadIsPending, CurrentHalf
    <2>4. SendBufferStable'
      BY DEF TypeOK, Halves, ReadIsPending, CurrentHalf, SendBufferStable
    <2>5. Progress'
      BY DEF TypeOK, CurrentHalf, SendBufferStable, Progress
    <2> QED
      BY <2>1, <2>2, <2>3, <2>4, <2>5 DEF SendInv
  <1>3. CASE Guard
    <2> USE <1>0, <1>3 DEF Guard
    <2>1. TypeOK'
      BY DEF TypeOK, Halves
    <2>2. (ReadIsPending /\ FreedUnderReadOnlyOnAbort)'
      BY DEF TypeOK, Halves, ReadIsPending, Progress, FreedUnderReadOnlyOnAbort
    <2>3. CurrentHalf'
      BY DEF TypeOK, ReadIsPending, CurrentHalf
    <2>4. SendBufferStable'
      BY DEF TypeOK, Halves, ReadIsPending, CurrentHalf, SendBufferStable
    <2>5. Progress'
      BY DEF TypeOK, CurrentHalf, SendBufferStable, Progress
    <2> QED
      BY <2>1, <2>2, <2>3, <2>4, <2>5 DEF SendInv
  <1>4. CASE Take
    <2> USE <1>0, <1>4 DEF Take
    <2>0. /\ readE' \in 1 .. bufSize
          /\ tmpOffset' - readE' = tmpOffset
          /\ 1 - cBuf \in Halves /\ 1 - (1 - cBuf) = cBuf
      BY DEF TypeOK, CurrentHalf, Halves
    <2>1. TypeOK'
      BY <2>0 DEF TypeOK
    <2>2. (ReadIsPending /\ FreedUnderReadOnlyOnAbort)'
      BY DEF TypeOK, Halves, ReadIsPending, Progress, FreedUnderReadOnlyOnAbort
    <2>3. CurrentHalf'
      BY DEF TypeOK, ReadIsPending, CurrentHalf
    <2>4. SendBufferStable'
      <3>1. readE' \in 1 .. tmpOffset'
        BY <2>0 DEF TypeOK
      <3>2. sent' = FileUnits(1, tmpOffset' - readE')
        BY <2>0 DEF Progress
      <3>3. rbuf'[1 - cBuf'] = FileUnits(tmpOffset' - readE' + 1, tmpOffset')
        BY <2>0 DEF CurrentHalf
      <3>4. ~inFlight'
        BY DEF ReadIsPending
      <3> QED
        BY <3>1, <3>2, <3>3, <3>4 DEF SendBufferStable
    <2>5. Progress'
      BY DEF TypeOK, CurrentHalf, SendBufferStable, Progress
    <2> QED
      BY <2>1, <2>2, <2>3, <2>4, <2>5 DEF SendInv
  <1>5. CASE EndOfFile
    <2> USE <1>0, <1>5 DEF EndOfFile
    <2>1. TypeOK'
      BY DEF TypeOK, Halves
    <2>2. (ReadIsPending /\ FreedUnderReadOnlyOnAbort)'
      BY DEF TypeOK, Halves, ReadIsPending, Progress, FreedUnderReadOnlyOnAbort
    <2>3. CurrentHalf'
      BY DEF TypeOK, ReadIsPending, CurrentHalf
    <2>4. SendBufferStable'
      BY DEF TypeOK, Halves, ReadIsPending, CurrentHalf, SendBufferStable
    <2>5. Progress'
      BY DEF TypeOK, CurrentHalf, SendBufferStable, Progress
    <2> QED
      BY <2>1, <2>2, <2>3, <2>4, <2>5 DEF SendInv
  <1>6. CASE ReadWasBusy
    <2> USE <1>0, <1>6 DEF ReadWasBusy
    <2>1. TypeOK'
      BY DEF TypeOK, Halves
    <2>2. (ReadIsPending /\ FreedUnderReadOnlyOnAbort)'
      BY DEF TypeOK, Halves, ReadIsPending, Progress, FreedUnderReadOnlyOnAbort
    <2>3. CurrentHalf'
      BY DEF TypeOK, ReadIsPending, CurrentHalf
    <2>4. SendBufferStable'
      BY DEF TypeOK, Halves, ReadIsPending, CurrentHalf, SendBufferStable
    <2>5. Progress'
      BY DEF TypeOK, CurrentHalf, SendBufferStable, Progress
    <2> QED
      BY <2>1, <2>2, <2>3, <2>4, <2>5 DEF SendInv
  <1>7. CASE ReadFailed
    <2> USE <1>0, <1>7 DEF ReadFailed
    <2>1. TypeOK'
      BY DEF TypeOK, Halves
    <2>2. (ReadIsPending /\ FreedUnderReadOnlyOnAbort)'
      BY DEF TypeOK, Halves, ReadIsPending, Progress, FreedUnderReadOnlyOnAbort
    <2>3. CurrentHalf'
      BY DEF TypeOK, ReadIsPending, CurrentHalf
    <2>4. SendBufferStable'
      BY DEF TypeOK, Halves, ReadIsPending, CurrentHalf, SendBufferStable
    <2>5. Progress'
      BY DEF TypeOK, CurrentHalf, SendBufferStable, Progress
    <2> QED
      BY <2>1, <2>2, <2>3, <2>4, <2>5 DEF SendInv
  <1>8. CASE RetryAccepted
    <2> USE <1>0, <1>8 DEF RetryAccepted
    <2>1. TypeOK'
      BY DEF TypeOK, Halves
    <2>2. (ReadIsPending /\ FreedUnderReadOnlyOnAbort)'
      BY DEF TypeOK, Halves, ReadIsPending, Progress, FreedUnderReadOnlyOnAbort
    <2>3. CurrentHalf'
      BY DEF TypeOK, ReadIsPending, CurrentHalf
    <2>4. SendBufferStable'
      BY DEF TypeOK, Halves, ReadIsPending, CurrentHalf, SendBufferStable
    <2>5. Progress'
      BY DEF TypeOK, CurrentHalf, SendBufferStable, Progress
    <2> QED
      BY <2>1, <2>2, <2>3, <2>4, <2>5 DEF SendInv
  <1>9. CASE ResubmitAccepted
    <2> USE <1>0, <1>9 DEF ResubmitAccepted
    <2>1. TypeOK'
      BY DEF TypeOK, Halves
    <2>2. (ReadIsPending /\ FreedUnderReadOnlyOnAbort)'
      BY DEF TypeOK, Halves, ReadIsPending, Progress, FreedUnderReadOnlyOnAbort
    <2>3. CurrentHalf'
      BY DEF TypeOK, ReadIsPending, CurrentHalf
    <2>4. SendBufferStable'
      BY DEF TypeOK, Halves, ReadIsPending, CurrentHalf, SendBufferStable
    <2>5. Progress'
      BY DEF TypeOK, CurrentHalf, SendBufferStable, Progress
    <2> QED
      BY <2>1, <2>2, <2>3, <2>4, <2>5 DEF SendInv
  <1>10. CASE SubmitBusy
    <2> USE <1>0, <1>10 DEF SubmitBusy
    <2>1. TypeOK'
      BY DEF TypeOK, Halves
    <2>2. (ReadIsPending /\ FreedUnderReadOnlyOnAbort)'
      BY DEF TypeOK, Halves, ReadIsPending, Progress, FreedUnderReadOnlyOnAbort
    <2>3. CurrentHalf'
      BY DEF TypeOK, ReadIsPending, CurrentHalf
    <2>4. SendBufferStable'
      BY DEF TypeOK, Halves, ReadIsPending, CurrentHalf, SendBufferStable
    <2>5. Progress'
      BY DEF TypeOK, CurrentHalf, SendBufferStable, Progress
    <2> QED
      BY <2>1, <2>2, <2>3, <2>4, <2>5 DEF SendInv
  <1>11. CASE ResubmitFails
    <2> USE <1>0, <1>11 DEF ResubmitFails
    <2>1. TypeOK'
      BY DEF TypeOK, Halves
    <2>2. (ReadIsPending /\ FreedUnderReadOnlyOnAbort)'
      BY DEF TypeOK, Halves, ReadIsPending, Progress, FreedUnderReadOnlyOnAbort
    <2>3. CurrentHalf'
      BY DEF TypeOK, ReadIsPending, CurrentHalf
    <2>4. SendBufferStable'
      BY DEF TypeOK, Halves, ReadIsPending, CurrentHalf, SendBufferStable
    <2>5. Progress'
      BY DEF TypeOK, CurrentHalf, SendBufferStable, Progress
    <2> QED
      BY <2>1, <2>2, <2>3, <2>4, <2>5 DEF SendInv
  <1>12. CASE Send
    <2> USE <1>0, <1>12 DEF Send
    <2>0. /\ tmpOffset - readE \in Nat /\ tmpOffset \in Nat
          /\ sent = FileUnits(1, tmpOffset - readE)
          /\ rbuf[1 - cBuf] = FileUnits(tmpOffset - readE + 1, tmpOffset)
      BY DEF TypeOK, SendBufferStable
    <2> DEFINE m == tmpOffset - readE
    <2>b. /\ m \in Nat /\ tmpOffset \in Nat /\ m <= tmpOffset
          /\ sent = FileUnits(1, m)
          /\ rbuf[1 - cBuf] = FileUnits(m + 1, tmpOffset)
          /\ sent' = sent \o rbuf[1 - cBuf]
      BY <2>0 DEF TypeOK, SendBufferStable
    <2>c. 1 \in 1 .. MaxTotal + 1 /\ tmpOffset \in 0 .. MaxTotal
          /\ tmpOffset \in 0 .. total
      BY DEF TypeOK
    <2> HIDE DEF m
    <2>a. sent' = FileUnits(1, tmpOffset)
      BY <2>b, Adjacent
    <2>1. TypeOK'
      <3>1. sent' \in Stretches
        BY <2>a, <2>c, StretchType
      <3> QED
        BY <3>1 DEF TypeOK
    <2>2. (ReadIsPending /\ FreedUnderReadOnlyOnAbort)'
      BY DEF TypeOK, Halves, ReadIsPending, Progress, FreedUnderReadOnlyOnAbort
    <2>3. CurrentHalf'
      BY DEF TypeOK, ReadIsPending, CurrentHalf
    <2>4. SendBufferStable'
      BY DEF TypeOK, Halves, ReadIsPending, CurrentHalf, SendBufferStable
    <2>5. Progress'
      BY <2>a DEF Progress
    <2> QED
      BY <2>1, <2>2, <2>3, <2>4, <2>5 DEF SendInv
  <1>13. CASE SendShort
    <2> USE <1>0, <1>13 DEF SendShort
    <2>0. PICK n \in 0 .. readE - 1 :
            sent' = sent \o SubSeq(rbuf[1 - cBuf], 1, n)
      OBVIOUS
    <2> DEFINE m == tmpOffset - readE
    <2>a. /\ m \in Nat /\ tmpOffset \in Nat /\ m <= tmpOffset
          /\ n \in 0 .. tmpOffset - m /\ m + n \in 0 .. total
          /\ m + n \in Nat /\ m <= m + n
          /\ sent = FileUnits(1, m)
          /\ rbuf[1 - cBuf] = FileUnits(m + 1, tmpOffset)
      BY DEF TypeOK, SendBufferStable
    <2> HIDE DEF m
    <2>b. SubSeq(rbuf[1 - cBuf], 1, n) = FileUnits(m + 1, m + n)
      BY <2>a, Beginning
    <2>c. sent' = FileUnits(1, m + n)
      BY <2>0, <2>a, <2>b, Adjacent
    <2>d. 1 \in 1 .. MaxTotal + 1 /\ m + n \in 0 .. MaxTotal
      BY <2>a DEF TypeOK
    <2>1. TypeOK'
      <3>1. sent' \in Stretches
        BY <2>c, <2>d, StretchType
      <3> QED
        BY <3>1 DEF TypeOK
    <2>2. (ReadIsPending /\ FreedUnderReadOnlyOnAbort)'
      BY DEF TypeOK, Halves, ReadIsPending, Progress, FreedUnderReadOnlyOnAbort
    <2>3. CurrentHalf'
      BY DEF TypeOK, ReadIsPending, CurrentHalf
    <2>4. SendBufferStable'
      BY DEF TypeOK, Halves, ReadIsPending, CurrentHalf, SendBufferStable
    <2>5. Progress'
      <3>1. \E k \in 0 .. total' : sent' = FileUnits(1, k)
        BY <2>a, <2>c
      <3>2. pc' = "finish" /\ ret' = -1
        OBVIOUS
      <3> QED
        BY <3>1, <3>2 DEF Progress
    <2> QED
      BY <2>1, <2>2, <2>3, <2>4, <2>5 DEF SendInv
  <1>14. CASE Return
    <2> USE <1>0, <1>14 DEF Return
    <2>1. TypeOK'
      BY DEF TypeOK, Halves
    <2>2. (ReadIsPending /\ FreedUnderReadOnlyOnAbort)'
      BY DEF TypeOK, Halves, ReadIsPending, Progress, FreedUnderReadOnlyOnAbort
    <2>3. CurrentHalf'
      BY DEF TypeOK, ReadIsPending, CurrentHalf
    <2>4. SendBufferStable'
      BY DEF TypeOK, Halves, ReadIsPending, CurrentHalf, SendBufferStable
    <2>5. Progress'
      BY DEF TypeOK, CurrentHalf, SendBufferStable, Progress
    <2> QED
      BY <2>1, <2>2, <2>3, <2>4, <2>5 DEF SendInv
  <1>15. CASE ReadDone
    <2> USE <1>0, <1>15 DEF ReadDone
    <2> DEFINE n == MinOf(bufSize, total - aioOffset)
    <2>0. /\ rbuf' = [rbuf EXCEPT ![aioBuf] = FileUnits(aioOffset + 1,
                                                       aioOffset + n)]
          /\ aioOffset' = aioOffset + n
      BY DEF ReadDone
    <2>a. /\ n \in 0 .. bufSize /\ aioOffset + n \in 0 .. total
          /\ n = 0 => aioOffset = total
          /\ aioOffset + 1 \in 1 .. MaxTotal + 1
          /\ aioOffset + n \in 0 .. MaxTotal
      BY DEF TypeOK, MinOf
    <2>b. aioBuf = cBuf /\ aioOffset = tmpOffset
      BY DEF ReadIsPending, CurrentHalf
    <2> HIDE DEF n
    <2>1. TypeOK'
      <3>1. FileUnits(aioOffset + 1, aioOffset + n) \in Stretches
        BY <2>a, StretchType
      <3>2. rbuf' \in [Halves -> Stretches]
        BY <2>0, <3>1 DEF TypeOK
      <3> QED
        BY <2>0, <2>a, <3>2 DEF TypeOK
    <2>2. (ReadIsPending /\ FreedUnderReadOnlyOnAbort)'
      BY DEF TypeOK, Halves, ReadIsPending, Progress, FreedUnderReadOnlyOnAbort
    <2>3. CurrentHalf'
      <3>1. rbuf'[cBuf] = FileUnits(tmpOffset + 1, aioOffset')
        BY <2>0, <2>b DEF TypeOK
      <3>2. aioOffset' \in tmpOffset .. tmpOffset + bufSize
        BY <2>0, <2>a, <2>b DEF TypeOK
      <3>3. aioOffset' = tmpOffset => tmpOffset = total
        BY <2>0, <2>a, <2>b DEF TypeOK
      <3> QED
        BY <3>1, <3>2, <3>3 DEF CurrentHalf
    <2>4. SendBufferStable'
      BY DEF TypeOK, Halves, ReadIsPending, CurrentHalf, SendBufferStable
    <2>5. Progress'
      <3>1. pc # "open"
        BY DEF ReadIsPending, Progress
      <3> QED
        BY <3>1, ProgressKept
    <2> QED
      BY <2>1, <2>2, <2>3, <2>4, <2>5 DEF SendInv
  <1>16. CASE ReadFails
    <2> USE <1>0, <1>16 DEF ReadFails
    <2>1. TypeOK'
      <3>1. busy' \in 0 .. MaxBusy /\ userData' \in {EBUSY, EIO}
        BY DEF TypeOK
      <3> QED
        BY <3>1 DEF TypeOK
    <2>2. (ReadIsPending /\ FreedUnderReadOnlyOnAbort)'
      BY DEF TypeOK, Halves, ReadIsPending, Progress, FreedUnderReadOnlyOnAbort
    <2>3. CurrentHalf'
      BY DEF TypeOK, ReadIsPending, CurrentHalf
    <2>4. SendBufferStable'
      BY DEF TypeOK, Halves, ReadIsPending, CurrentHalf, SendBufferStable
    <2>5. Progress'
      <3>1. pc # "open"
        BY DEF ReadIsPending, Progress
      <3> QED
        BY <3>1, ProgressKept
    <2> QED
      BY <2>1, <2>2, <2>3, <2>4, <2>5 DEF SendInv
  <1>17. CASE Shutdown
    <2> USE <1>0, <1>17 DEF Shutdown
    <2>1. TypeOK'
      BY DEF TypeOK, Halves
    <2>2. (ReadIsPending /\ FreedUnderReadOnlyOnAbort)'
      BY DEF TypeOK, Halves, ReadIsPending, Progress, FreedUnderReadOnlyOnAbort
    <2>3. CurrentHalf'
      BY DEF TypeOK, ReadIsPending, CurrentHalf
    <2>4. SendBufferStable'
      BY DEF TypeOK, Halves, ReadIsPending, CurrentHalf, SendBufferStable
    <2>5. Progress'
      BY DEF TypeOK, CurrentHalf, SendBufferStable, Progress
    <2> QED
      BY <2>1, <2>2, <2>3, <2>4, <2>5 DEF SendInv
  <1>18. CASE UNCHANGED vars
    <2> USE <1>0, <1>18 DEF vars
    <2>1. TypeOK'
      BY DEF TypeOK, Halves
    <2>2. (ReadIsPending /\ FreedUnderReadOnlyOnAbort)'
      BY DEF TypeOK, Halves, ReadIsPending, Progress, FreedUnderReadOnlyOnAbort
    <2>3. CurrentHalf'
      BY DEF TypeOK, ReadIsPending, CurrentHalf
    <2>4. SendBufferStable'
      BY DEF TypeOK, Halves, ReadIsPending, CurrentHalf, SendBufferStable
    <2>5. Progress'
      BY DEF TypeOK, CurrentHalf, SendBufferStable, Progress
    <2> QED
      BY <2>1, <2>2, <2>3, <2>4, <2>5 DEF SendInv
  <1> QED
    BY <1>1, <1>2, <1>3, <1>4, <1>5, <1>6, <1>7, <1>8, <1>9, <1>10, <1>11, <1>12, <1>13, <1>14, <1>15, <1>16, <1>17, <1>18
    DEF Next, ThreadStep, PeerStep, AioStep

\* SendInv holds throughout (all of sendfile(), ftpcmd.c:232-332).
THEOREM SendInvariant == Spec => []SendInv
  <1> QED
    BY InitInv, StepInv, PTL DEF Spec

\* sendfile() keeps its variables within their types, both offsets within the
\* file and the buffer index within the two halves.
THEOREM TypeCorrect == Spec => []TypeOK
  <1>1. SendInv => TypeOK
    BY DEF SendInv
  <1> QED
    BY <1>1, SendInvariant, PTL

\* The half being sent is never read into, and holds the units that are due
\* (ftpcmd.c:274-321).
THEOREM BufferStable == Spec => []SendBufferStable
  <1>1. SendInv => SendBufferStable
    BY DEF SendInv
  <1> QED
    BY <1>1, SendInvariant, PTL

\* Only a failed send() or a shutdown lets sendfile() free its buffer under a
\* read (ftpcmd.c:292-325).
THEOREM FreedOnlyOnAbort == Spec => []FreedUnderReadOnlyOnAbort
  <1>1. SendInv => FreedUnderReadOnlyOnAbort
    BY DEF SendInv
  <1> QED
    BY <1>1, SendInvariant, PTL

-----------------------------------------------------------------------------
(* The refinement *)

Outcome == IF pc # "done" THEN "running" ELSE IF ret = 0 THEN "ok" ELSE "failed"

\* The first n units of the file are the abstract prefix.
LEMMA UnitsPrefix ==
    ASSUME NEW n \in Nat
    PROVE  FileUnits(1, n) = Transfer!Prefix(n)
  <1>1. \A i \in 1 .. n : 1 + i - 1 = i
    OBVIOUS
  <1> QED
    BY <1>1 DEF FileUnits, Transfer!Prefix

\* The initial states are initial states of the abstract transfer.
LEMMA InitImplements == Init => Transfer!Init
  <1> SUFFICES ASSUME Init PROVE Transfer!Init
    OBVIOUS
  <1>1. total \in Nat /\ pc = "open" /\ appShutdown \in BOOLEAN
    BY SendAssumption DEF Init
  <1>2. sent = Transfer!Prefix(0)
    BY UnitsPrefix DEF Init
  <1> QED
    BY <1>1, <1>2 DEF Transfer!Init

\* A step that leaves the peer, the outcome and app_shutdown alone is a stutter.
LEMMA Stutter ==
    ASSUME sent' = sent, total' = total, Outcome' = Outcome,
           appShutdown' = appShutdown
    PROVE  UNCHANGED Transfer!ftVars
  BY DEF Transfer!ftVars, Outcome

\* What send() took makes the peer's prefix longer.
LEMMA Delivery ==
    ASSUME NEW a \in 0 .. total, NEW b \in a .. total, total \in Nat,
           sent = FileUnits(1, a), sent' = FileUnits(1, b),
           pc # "done", pc' # "done",
           total' = total, appShutdown' = appShutdown
    PROVE  Transfer!Deliver \/ UNCHANGED Transfer!ftVars
  <1>1. sent = Transfer!Prefix(a) /\ sent' = Transfer!Prefix(b)
    BY UnitsPrefix
  <1>2. CASE a = b
    BY <1>1, <1>2, Stutter DEF Outcome
  <1>3. CASE a # b
    <2>1. b \in a + 1 .. total
      BY <1>3
    <2> QED
      BY <1>1, <2>1 DEF Transfer!Deliver
  <1> QED
    BY <1>2, <1>3

\* Every step is a step of the abstract transfer or a stutter.
LEMMA StepImplements ==
    SendInv /\ [Next]_vars => [Transfer!Next]_(Transfer!ftVars)
  <1> SUFFICES ASSUME SendInv, [Next]_vars
               PROVE  Transfer!Next \/ UNCHANGED Transfer!ftVars
    OBVIOUS
  <1> USE SendAssumption DEF aioVars, args
  <1>0. TypeOK /\ ReadIsPending /\ SendBufferStable /\ Progress
    BY DEF SendInv
  <1>1. CASE OpenFails
    <2>1. Transfer!Fail
      BY <1>0, <1>1 DEF OpenFails, Progress, Transfer!Fail
    <2> QED
      BY <2>1 DEF Transfer!Next
  <1>2. CASE Open \/ Guard \/ Take \/ EndOfFile \/ ReadWasBusy \/ ReadFailed
             \/ RetryAccepted \/ ResubmitAccepted \/ SubmitBusy \/ ResubmitFails
    <2>1. /\ sent' = sent /\ total' = total /\ appShutdown' = appShutdown
          /\ pc # "done" /\ pc' # "done"
      BY <1>2 DEF Open, Guard, Take, EndOfFile, ReadWasBusy, ReadFailed,
         RetryAccepted, ResubmitAccepted, SubmitBusy, ResubmitFails
    <2> QED
      BY <2>1, Stutter DEF Outcome
  <1>3. CASE Send
    <2> DEFINE m == tmpOffset - readE
    <2>1. /\ m \in 0 .. total /\ tmpOffset \in m .. total /\ total \in Nat
          /\ m \in Nat /\ tmpOffset \in Nat /\ m <= tmpOffset
          /\ sent = FileUnits(1, m)
          /\ rbuf[1 - cBuf] = FileUnits(m + 1, tmpOffset)
      BY <1>0, <1>3 DEF Send, TypeOK, SendBufferStable
    <2>2. /\ sent' = sent \o rbuf[1 - cBuf]
          /\ pc # "done" /\ pc' # "done"
          /\ total' = total /\ appShutdown' = appShutdown
      BY <1>3 DEF Send
    <2> HIDE DEF m
    <2>3. sent' = FileUnits(1, tmpOffset)
      BY <2>1, <2>2, Adjacent
    <2> QED
      BY <2>1, <2>2, <2>3, Delivery DEF Transfer!Next
  <1>4. CASE SendShort
    <2> DEFINE m == tmpOffset - readE
    <2>1. PICK n \in 0 .. readE - 1 :
            sent' = sent \o SubSeq(rbuf[1 - cBuf], 1, n)
      BY <1>4 DEF SendShort
    <2>2. /\ m \in 0 .. total /\ m + n \in m .. total /\ total \in Nat
          /\ m \in Nat /\ m + n \in Nat /\ tmpOffset \in Nat
          /\ m <= tmpOffset /\ m <= m + n /\ n \in 0 .. tmpOffset - m
          /\ sent = FileUnits(1, m)
          /\ rbuf[1 - cBuf] = FileUnits(m + 1, tmpOffset)
      BY <1>0, <1>4 DEF SendShort, TypeOK, SendBufferStable
    <2>3. /\ pc # "done" /\ pc' # "done"
          /\ total' = total /\ appShutdown' = appShutdown
      BY <1>4 DEF SendShort
    <2> HIDE DEF m
    <2>4. SubSeq(rbuf[1 - cBuf], 1, n) = FileUnits(m + 1, m + n)
      BY <2>2, Beginning
    <2>5. sent' = FileUnits(1, m + n)
      BY <2>1, <2>2, <2>4, Adjacent
    <2> QED
      BY <2>2, <2>3, <2>5, Delivery DEF Transfer!Next
  <1>5. CASE Return
    <2>1. /\ Outcome = "running"
          /\ Outcome' = IF ret = 0 THEN "ok" ELSE "failed"
          /\ UNCHANGED <<total, sent, appShutdown>>
      BY <1>5 DEF Return, Outcome
    <2>2. CASE ret = 0
      <3>1. total \in Nat
        BY <1>0 DEF TypeOK
      <3>2. appShutdown \/ sent = Transfer!Prefix(total)
        BY <1>0, <1>5, <2>2, <3>1, UnitsPrefix DEF Return, Progress, TypeOK
      <3>3. Transfer!Complete
        BY <2>1, <2>2, <3>1, <3>2 DEF Transfer!Complete, Outcome
      <3> QED
        BY <3>3 DEF Transfer!Next
    <2>3. CASE ret # 0
      <3>1. Transfer!Fail
        BY <2>1, <2>3 DEF Transfer!Fail, Outcome
      <3> QED
        BY <3>1 DEF Transfer!Next
    <2> QED
      BY <2>2, <2>3
  <1>6. CASE ReadDone \/ ReadFails
    <2>1. UNCHANGED <<pc, ret, sent, total, appShutdown>>
      BY <1>6 DEF ReadDone, ReadFails
    <2> QED
      BY <2>1, Stutter DEF Outcome
  <1>7. CASE Shutdown
    <2>1. Transfer!Stop
      BY <1>7 DEF Shutdown, Transfer!Stop
    <2> QED
      BY <2>1 DEF Transfer!Next
  <1>8. CASE UNCHANGED vars
    BY <1>8, Stutter DEF vars, Outcome
  <1> QED
    BY <1>1, <1>2, <1>3, <1>4, <1>5, <1>6, <1>7, <1>8
    DEF Next, ThreadStep, PeerStep, AioStep

\* RETR implements the abstract transfer with no slack: the peer gets growing
\* prefixes of the file, and a success that was not shut down is the whole file.
THEOREM SendImplementsTransfer == Spec => TransferSpec
  <1> QED
    BY InitImplements, StepImplements, SendInvariant, PTL
    DEF Spec, TransferSpec, Transfer!Spec
=============================================================================
