--------------------------- MODULE FileCopy_proofs ---------------------------
(***************************************************************************)
(* Theorems about FileCopy for every size of the buffer and of the source  *)
(* and every split limit, along the inductive invariant CopyInv: how far   *)
(* the write lags behind the count at each place, and where each unit is.  *)
(***************************************************************************)
EXTENDS FileCopy, TLAPS

\* user_data is 1 from the hand-over on; with no write in flight that means,
\* after submit, that the write was refused and the copy is to be aborted.
WritePending ==
    /\ inFlight => userData = PENDING /\ pc \notin {"start", "submit", "next",
                                                    "finish", "done"}
    /\ pc = "submit" => userData = PENDING /\ aioBuf = cBuf
    /\ userData = PENDING /\ ~inFlight => pc = "submit" \/ abortCopy
    /\ pc \in {"dispatch", "submit"} => ~abortCopy
    /\ pc \in {"next", "finish", "done"} => userData # PENDING
    /\ aioPart = splitPart
    /\ inFlight => aioBuf = 1 - cBuf

\* The count is ahead of what is written by the chunk handed over; a failure
\* that the check sees at once keeps it from being counted.
Lag ==
    /\ pc = "start" => userData = IDLE /\ fsiz = 0
    /\ pc \in {"dispatch", "submit", "check"} => chunk <= msiz - fsiz
    /\ userData # IDLE => aioSize \in 1 .. BUF_SIZE
    /\ pc = "submit" => aioOffset = fsiz /\ aioSize = chunk
    /\ pc = "check" =>
          /\ userData = IDLE => aioOffset = fsiz + chunk
          /\ userData = PENDING => aioOffset = fsiz /\ aioSize = chunk
    /\ pc \notin {"submit", "check"} =>
          /\ userData = IDLE => aioOffset = fsiz
          /\ userData = PENDING => aioOffset + aioSize = fsiz
    /\ userData = FAILED => \/ aioOffset + aioSize = fsiz
                            \/ aioOffset = fsiz /\ (pc = "check" \/ abortCopy)

\* A part is numbered by the full parts before it, each of a chunk or more.
Numbered ==
    /\ splitPart <= fsiz - segment
    /\ pc \in {"split", "splitWait", "next"} => segment > 0

\* What is read, handed over and written continues the stream.
Stream ==
    /\ pc \in {"dispatch", "submit"} => \A i \in 1 .. chunk : rbuf[cBuf][i] = fsiz + i
    /\ inFlight => \A i \in 1 .. aioSize : rbuf[aioBuf][i] = aioOffset + i

\* Every unit written is in one part, at its own offset; beyond is nothing.
Placed ==
    /\ \A n \in Units, p \in 0 .. MaxSize :
          parts[n][p] # 0 => n <= splitPart /\ p < aioOffset /\ parts[n][p] = p + 1
    /\ \A p \in 0 .. MaxSize :
          p < aioOffset => \E n \in Units : parts[n][p] # 0
    /\ \A m, n \in Units, p \in 0 .. MaxSize :
          parts[m][p] # 0 /\ parts[n][p] # 0 => m = n

CopyInv ==
    /\ TypeOK
    /\ WritePending
    /\ Lag
    /\ Numbered
    /\ Stream
    /\ Placed
    /\ KeptIffLastWriteDone

-----------------------------------------------------------------------------
\* Where the units are depends on what is written and on the part alone.
LEMMA PlacedKept ==
    ASSUME Placed, UNCHANGED <<parts, aioOffset, splitPart>>
    PROVE  Placed'
  BY DEF Placed

LEMMA PlacedNextPart ==
    ASSUME Placed, splitPart \in Nat, MaxSize \in Nat,
           splitPart' = splitPart + 1, UNCHANGED <<parts, aioOffset>>
    PROVE  Placed'
  <1>1. \A n \in Units : n <= splitPart => n <= splitPart'
    BY DEF Units
  <1>2. \A n \in Units, p \in 0 .. MaxSize :
          parts'[n][p] # 0 => n <= splitPart' /\ p < aioOffset' /\ parts'[n][p] = p + 1
    BY <1>1 DEF Placed
  <1> QED
    BY <1>2 DEF Placed

\* The numbers of a typed state.
LEMMA Numbers ==
    ASSUME TypeOK
    PROVE  /\ BUF_SIZE \in Nat /\ MaxSize \in Nat
           /\ msiz \in Nat /\ fsiz \in Nat /\ aioOffset \in Nat
           /\ chunk \in Nat /\ aioSize \in Nat
           /\ segment \in Nat /\ splitPart \in Nat
           /\ 1 <= chunk /\ chunk <= BUF_SIZE /\ aioSize <= BUF_SIZE
           /\ splitPart <= fsiz /\ fsiz <= msiz /\ aioOffset <= msiz
           /\ segment <= fsiz /\ msiz <= MaxSize
           /\ splitPart \in Units
  BY CopyAssumption DEF TypeOK, Units

\* The initial states satisfy the invariant.
LEMMA InitInv == Init => CopyInv
  <1> SUFFICES ASSUME Init PROVE CopyInv
    OBVIOUS
  <1> USE CopyAssumption DEF Init, IDLE, PENDING, FAILED
  <1>1. TypeOK
    <2>1. Empty \in [0 .. MaxSize -> Units]
      BY DEF Empty, Units
    <2>2. parts \in [Units -> [0 .. MaxSize -> Units]]
      BY <2>1
    <2>3. rbuf \in [Halves -> [1 .. BUF_SIZE -> Units]]
      BY DEF Units
    <2>4. msiz \in Units /\ chunk \in 1 .. BUF_SIZE /\ aioSize \in 0 .. BUF_SIZE
      BY DEF Units
    <2>5. /\ splitMode \in BOOLEAN /\ splitNames \in BOOLEAN
          /\ opened \in BOOLEAN /\ inFlight \in BOOLEAN
          /\ removed \in BOOLEAN /\ abortCopy \in BOOLEAN
      BY Zenon
    <2>6. /\ fsiz \in 0 .. msiz /\ segment \in 0 .. fsiz
          /\ splitPart \in 0 .. fsiz /\ aioOffset \in 0 .. msiz
          /\ aioPart \in 0 .. fsiz
      BY <2>4 DEF Units
    <2> QED
      BY <2>2, <2>3, <2>4, <2>5, <2>6 DEF TypeOK, Halves
  <1>2. WritePending /\ Lag /\ Numbered /\ Stream
    BY DEF WritePending, Lag, Numbered, Stream
  <1>3. Placed
    BY DEF Placed, Empty
  <1>4. KeptIffLastWriteDone
    BY DEF KeptIffLastWriteDone
  <1> QED
    BY <1>1, <1>2, <1>3, <1>4 DEF CopyInv

\* Every step keeps it.
LEMMA StepInv == CopyInv /\ [Next]_vars => CopyInv'
  <1> SUFFICES ASSUME CopyInv, [Next]_vars PROVE CopyInv'
    OBVIOUS
  <1> USE CopyAssumption DEF IDLE, PENDING, FAILED, source, progress, part, aioVars
  <1>0. TypeOK /\ WritePending /\ Lag /\ Numbered /\ Stream /\ Placed
          /\ KeptIffLastWriteDone
    BY DEF CopyInv
  <1>z. /\ BUF_SIZE \in Nat /\ MaxSize \in Nat
        /\ msiz \in Nat /\ fsiz \in Nat /\ aioOffset \in Nat
        /\ chunk \in Nat /\ aioSize \in Nat
        /\ segment \in Nat /\ splitPart \in Nat
        /\ 1 <= chunk /\ chunk <= BUF_SIZE /\ aioSize <= BUF_SIZE
        /\ splitPart <= fsiz /\ fsiz <= msiz /\ aioOffset <= msiz
        /\ segment <= fsiz /\ msiz <= MaxSize
        /\ splitPart \in Units
    BY <1>0, Numbers
  <1>1. CASE Start
    <2> USE <1>0, <1>1, <1>z DEF Start
    <2>1. TypeOK'
      BY DEF TypeOK, WritePending, Lag, Numbered, Halves, MinOf
    <2>2. WritePending'
      BY DEF TypeOK, WritePending, Halves
    <2>3. Lag'
      BY DEF TypeOK, WritePending, Lag, MinOf
    <2>4. Numbered'
      BY DEF TypeOK, Lag, Numbered
    <2>5. Stream'
      BY DEF TypeOK, WritePending, Lag, Stream
    <2>6. Placed'
      BY PlacedKept
    <2>7. KeptIffLastWriteDone'
      BY DEF TypeOK, WritePending, Lag, KeptIffLastWriteDone
    <2> QED
      BY <2>1, <2>2, <2>3, <2>4, <2>5, <2>6, <2>7 DEF CopyInv
  <1>2. CASE Read
    <2> USE <1>0, <1>2, <1>z DEF Read
    <2>1. TypeOK'
      <3> DEFINE n == MinOf(chunk, msiz - fsiz)
                 half == [i \in 1 .. BUF_SIZE |->
                             IF i <= n THEN fsiz + i ELSE rbuf[cBuf][i]]
      <3>1. n \in 1 .. BUF_SIZE /\ n <= msiz - fsiz
        BY DEF TypeOK, MinOf
      <3>2. half \in [1 .. BUF_SIZE -> Units]
        <4>1. ASSUME NEW i \in 1 .. BUF_SIZE
              PROVE  (IF i <= n THEN fsiz + i ELSE rbuf[cBuf][i]) \in Units
          <5>1. rbuf[cBuf][i] \in Units
            BY DEF TypeOK
          <5>2. i <= n => fsiz + i \in Units
            BY <3>1 DEF Units
          <5> QED
            BY <5>1, <5>2
        <4> QED
          BY <4>1
      <3>3. chunk' = n /\ rbuf' = [rbuf EXCEPT ![cBuf] = half]
        BY DEF Read
      <3> HIDE DEF n, half
      <3> QED
        BY <3>1, <3>2, <3>3 DEF TypeOK, Read
    <2>2. WritePending'
      BY DEF TypeOK, WritePending, Halves
    <2>3. Lag'
      BY DEF TypeOK, WritePending, Lag, MinOf
    <2>4. Numbered'
      BY DEF TypeOK, Lag, Numbered
    <2>5. Stream'
      <3> DEFINE n == MinOf(chunk, msiz - fsiz)
      <3>1. n \in 1 .. BUF_SIZE
        BY DEF TypeOK, MinOf
      <3>2. /\ chunk' = n /\ fsiz' = fsiz /\ cBuf' = cBuf
            /\ \A i \in 1 .. n : rbuf'[cBuf][i] = fsiz + i
        BY <3>1 DEF TypeOK, Read
      <3>3. inFlight => rbuf'[aioBuf] = rbuf[aioBuf]
        BY DEF TypeOK, Halves, Read, WritePending
      <3> QED
        BY <3>2, <3>3 DEF Stream
    <2>6. Placed'
      BY PlacedKept
    <2>7. KeptIffLastWriteDone'
      BY DEF TypeOK, WritePending, Lag, KeptIffLastWriteDone
    <2> QED
      BY <2>1, <2>2, <2>3, <2>4, <2>5, <2>6, <2>7 DEF CopyInv
  <1>3. CASE ReadFails
    <2> USE <1>0, <1>3, <1>z DEF ReadFails
    <2>1. TypeOK'
      BY DEF TypeOK, WritePending, Lag, Numbered, Halves, MinOf
    <2>2. WritePending'
      BY DEF TypeOK, WritePending, Halves
    <2>3. Lag'
      BY DEF TypeOK, WritePending, Lag, MinOf
    <2>4. Numbered'
      BY DEF TypeOK, Lag, Numbered
    <2>5. Stream'
      BY DEF TypeOK, WritePending, Lag, Stream
    <2>6. Placed'
      BY PlacedKept
    <2>7. KeptIffLastWriteDone'
      BY DEF TypeOK, WritePending, Lag, KeptIffLastWriteDone
    <2> QED
      BY <2>1, <2>2, <2>3, <2>4, <2>5, <2>6, <2>7 DEF CopyInv
  <1>4. CASE LoopEnds
    <2> USE <1>0, <1>4, <1>z DEF LoopEnds
    <2>1. TypeOK'
      BY DEF TypeOK, WritePending, Lag, Numbered, Halves, MinOf
    <2>2. WritePending'
      BY DEF TypeOK, WritePending, Halves
    <2>3. Lag'
      BY DEF TypeOK, WritePending, Lag, MinOf
    <2>4. Numbered'
      BY DEF TypeOK, Lag, Numbered
    <2>5. Stream'
      BY DEF TypeOK, WritePending, Lag, Stream
    <2>6. Placed'
      BY PlacedKept
    <2>7. KeptIffLastWriteDone'
      BY DEF TypeOK, WritePending, Lag, KeptIffLastWriteDone
    <2> QED
      BY <2>1, <2>2, <2>3, <2>4, <2>5, <2>6, <2>7 DEF CopyInv
  <1>5. CASE Dispatch
    <2> USE <1>0, <1>5, <1>z DEF Dispatch
    <2>1. TypeOK'
      BY DEF TypeOK, WritePending, Lag, Numbered, Halves, MinOf
    <2>2. WritePending'
      BY DEF TypeOK, WritePending, Halves
    <2>3. Lag'
      BY DEF TypeOK, WritePending, Lag, MinOf
    <2>4. Numbered'
      BY DEF TypeOK, Lag, Numbered
    <2>5. Stream'
      BY DEF TypeOK, WritePending, Lag, Stream
    <2>6. Placed'
      BY PlacedKept
    <2>7. KeptIffLastWriteDone'
      BY DEF TypeOK, WritePending, Lag, KeptIffLastWriteDone
    <2> QED
      BY <2>1, <2>2, <2>3, <2>4, <2>5, <2>6, <2>7 DEF CopyInv
  <1>6. CASE DispatchFailed
    <2> USE <1>0, <1>6, <1>z DEF DispatchFailed
    <2>1. TypeOK'
      BY DEF TypeOK, WritePending, Lag, Numbered, Halves, MinOf
    <2>2. WritePending'
      BY DEF TypeOK, WritePending, Halves
    <2>3. Lag'
      BY DEF TypeOK, WritePending, Lag, MinOf
    <2>4. Numbered'
      BY DEF TypeOK, Lag, Numbered
    <2>5. Stream'
      BY DEF TypeOK, WritePending, Lag, Stream
    <2>6. Placed'
      BY PlacedKept
    <2>7. KeptIffLastWriteDone'
      BY DEF TypeOK, WritePending, Lag, KeptIffLastWriteDone
    <2> QED
      BY <2>1, <2>2, <2>3, <2>4, <2>5, <2>6, <2>7 DEF CopyInv
  <1>7. CASE Submit
    <2> USE <1>0, <1>7, <1>z DEF Submit
    <2>1. TypeOK'
      BY DEF TypeOK, WritePending, Lag, Numbered, Halves, MinOf
    <2>2. WritePending'
      BY DEF TypeOK, WritePending, Halves
    <2>3. Lag'
      BY DEF TypeOK, WritePending, Lag, MinOf
    <2>4. Numbered'
      BY DEF TypeOK, Lag, Numbered
    <2>5. Stream'
      BY DEF TypeOK, WritePending, Lag, Stream
    <2>6. Placed'
      BY PlacedKept
    <2>7. KeptIffLastWriteDone'
      BY DEF TypeOK, WritePending, Lag, KeptIffLastWriteDone
    <2> QED
      BY <2>1, <2>2, <2>3, <2>4, <2>5, <2>6, <2>7 DEF CopyInv
  <1>8. CASE SubmitRefused
    <2> USE <1>0, <1>8, <1>z DEF SubmitRefused
    <2>1. TypeOK'
      BY DEF TypeOK, WritePending, Lag, Numbered, Halves, MinOf
    <2>2. WritePending'
      BY DEF TypeOK, WritePending, Halves
    <2>3. Lag'
      BY DEF TypeOK, WritePending, Lag, MinOf
    <2>4. Numbered'
      BY DEF TypeOK, Lag, Numbered
    <2>5. Stream'
      BY DEF TypeOK, WritePending, Lag, Stream
    <2>6. Placed'
      BY PlacedKept
    <2>7. KeptIffLastWriteDone'
      BY DEF TypeOK, WritePending, Lag, KeptIffLastWriteDone
    <2> QED
      BY <2>1, <2>2, <2>3, <2>4, <2>5, <2>6, <2>7 DEF CopyInv
  <1>9. CASE CheckFailed
    <2> USE <1>0, <1>9, <1>z DEF CheckFailed
    <2>1. TypeOK'
      BY DEF TypeOK, WritePending, Lag, Numbered, Halves, MinOf
    <2>2. WritePending'
      BY DEF TypeOK, WritePending, Halves
    <2>3. Lag'
      BY DEF TypeOK, WritePending, Lag, MinOf
    <2>4. Numbered'
      BY DEF TypeOK, Lag, Numbered
    <2>5. Stream'
      BY DEF TypeOK, WritePending, Lag, Stream
    <2>6. Placed'
      BY PlacedKept
    <2>7. KeptIffLastWriteDone'
      BY DEF TypeOK, WritePending, Lag, KeptIffLastWriteDone
    <2> QED
      BY <2>1, <2>2, <2>3, <2>4, <2>5, <2>6, <2>7 DEF CopyInv
  <1>10. CASE Advance
    <2> USE <1>0, <1>10, <1>z DEF Advance
    <2>1. TypeOK'
      BY DEF TypeOK, WritePending, Lag, Numbered, Halves, MinOf
    <2>2. WritePending'
      BY DEF TypeOK, WritePending, Halves
    <2>3. Lag'
      BY DEF TypeOK, WritePending, Lag, MinOf
    <2>4. Numbered'
      BY DEF TypeOK, Lag, Numbered
    <2>5. Stream'
      BY DEF TypeOK, WritePending, Lag, Stream
    <2>6. Placed'
      BY PlacedKept
    <2>7. KeptIffLastWriteDone'
      BY DEF TypeOK, WritePending, Lag, KeptIffLastWriteDone
    <2> QED
      BY <2>1, <2>2, <2>3, <2>4, <2>5, <2>6, <2>7 DEF CopyInv
  <1>11. CASE Look
    <2> USE <1>0, <1>11, <1>z DEF Look
    <2>1. TypeOK'
      BY DEF TypeOK, WritePending, Lag, Numbered, Halves, MinOf
    <2>2. WritePending'
      BY DEF TypeOK, WritePending, Halves
    <2>3. Lag'
      BY DEF TypeOK, WritePending, Lag, MinOf
    <2>4. Numbered'
      BY DEF TypeOK, Lag, Numbered
    <2>5. Stream'
      BY DEF TypeOK, WritePending, Lag, Stream
    <2>6. Placed'
      BY PlacedKept
    <2>7. KeptIffLastWriteDone'
      BY DEF TypeOK, WritePending, Lag, KeptIffLastWriteDone
    <2> QED
      BY <2>1, <2>2, <2>3, <2>4, <2>5, <2>6, <2>7 DEF CopyInv
  <1>12. CASE Waited
    <2> USE <1>0, <1>12, <1>z DEF Waited
    <2>1. TypeOK'
      BY DEF TypeOK, WritePending, Lag, Numbered, Halves, MinOf
    <2>2. WritePending'
      BY DEF TypeOK, WritePending, Halves
    <2>3. Lag'
      BY DEF TypeOK, WritePending, Lag, MinOf
    <2>4. Numbered'
      BY DEF TypeOK, Lag, Numbered
    <2>5. Stream'
      BY DEF TypeOK, WritePending, Lag, Stream
    <2>6. Placed'
      BY PlacedKept
    <2>7. KeptIffLastWriteDone'
      BY DEF TypeOK, WritePending, Lag, KeptIffLastWriteDone
    <2> QED
      BY <2>1, <2>2, <2>3, <2>4, <2>5, <2>6, <2>7 DEF CopyInv
  <1>13. CASE WaitedFailed
    <2> USE <1>0, <1>13, <1>z DEF WaitedFailed
    <2>1. TypeOK'
      BY DEF TypeOK, WritePending, Lag, Numbered, Halves, MinOf
    <2>2. WritePending'
      BY DEF TypeOK, WritePending, Halves
    <2>3. Lag'
      BY DEF TypeOK, WritePending, Lag, MinOf
    <2>4. Numbered'
      BY DEF TypeOK, Lag, Numbered
    <2>5. Stream'
      BY DEF TypeOK, WritePending, Lag, Stream
    <2>6. Placed'
      BY PlacedKept
    <2>7. KeptIffLastWriteDone'
      BY DEF TypeOK, WritePending, Lag, KeptIffLastWriteDone
    <2> QED
      BY <2>1, <2>2, <2>3, <2>4, <2>5, <2>6, <2>7 DEF CopyInv
  <1>14. CASE NextPart
    <2> USE <1>0, <1>14, <1>z DEF NextPart
    <2>1. TypeOK'
      BY DEF TypeOK, WritePending, Lag, Numbered, Halves, MinOf
    <2>2. WritePending'
      BY DEF TypeOK, WritePending, Halves
    <2>3. Lag'
      BY DEF TypeOK, WritePending, Lag, MinOf
    <2>4. Numbered'
      BY DEF TypeOK, Lag, Numbered
    <2>5. Stream'
      BY DEF TypeOK, WritePending, Lag, Stream
    <2>6. Placed'
      <3>1. splitPart' = splitPart + 1 /\ UNCHANGED <<parts, aioOffset>>
        OBVIOUS
      <3>2. splitPart \in Nat /\ MaxSize \in Nat
        BY Numbers
      <3> QED
        BY <3>1, <3>2, PlacedNextPart
    <2>7. KeptIffLastWriteDone'
      BY DEF TypeOK, WritePending, Lag, KeptIffLastWriteDone
    <2> QED
      BY <2>1, <2>2, <2>3, <2>4, <2>5, <2>6, <2>7 DEF CopyInv
  <1>15. CASE Finish
    <2> USE <1>0, <1>15, <1>z DEF Finish
    <2>1. TypeOK'
      BY DEF TypeOK, WritePending, Lag, Numbered, Halves, MinOf
    <2>2. WritePending'
      BY DEF TypeOK, WritePending, Halves
    <2>3. Lag'
      BY DEF TypeOK, WritePending, Lag, MinOf
    <2>4. Numbered'
      BY DEF TypeOK, Lag, Numbered
    <2>5. Stream'
      BY DEF TypeOK, WritePending, Lag, Stream
    <2>6. Placed'
      BY PlacedKept
    <2>7. KeptIffLastWriteDone'
      <3> SUFFICES ASSUME ~abortCopy'
                   PROVE  aioOffset = msiz <=> userData = IDLE
        BY DEF KeptIffLastWriteDone
      <3>1. ~abortCopy /\ fsiz = msiz
        OBVIOUS
      <3>2. userData \in {IDLE, FAILED}
        BY DEF TypeOK, WritePending
      <3>3. CASE userData = IDLE
        BY <3>1, <3>3 DEF Lag
      <3>4. CASE userData = FAILED
        BY <3>1, <3>4 DEF Lag
      <3> QED
        BY <3>2, <3>3, <3>4
    <2> QED
      BY <2>1, <2>2, <2>3, <2>4, <2>5, <2>6, <2>7 DEF CopyInv
  <1>16. CASE WriteDone
    <2> USE <1>0, <1>16, <1>z DEF WriteDone
    <2> DEFINE now(n) == [p \in 0 .. MaxSize |->
                             IF p \in aioOffset .. aioOffset + aioSize - 1
                             THEN rbuf[aioBuf][p - aioOffset + 1] ELSE parts[n][p]]
    <2>a. /\ aioSize \in 1 .. BUF_SIZE /\ aioOffset + aioSize \in 0 .. msiz
          /\ aioPart = splitPart
      <3>1. userData = PENDING /\ pc # "submit" /\ aioPart = splitPart
        BY DEF WritePending
      <3>2. CASE pc = "check"
        BY <3>1, <3>2 DEF Lag
      <3>3. CASE pc # "check"
        BY <3>1, <3>3 DEF Lag
      <3> QED
        BY <3>1, <3>2, <3>3
    <2>b. parts' = [parts EXCEPT ![aioPart] = now(aioPart)]
      BY DEF WriteDone
    <2>c. /\ \A p \in 0 .. MaxSize : now(aioPart)[p] =
                 IF p \in aioOffset .. aioOffset + aioSize - 1 THEN p + 1
                 ELSE parts[aioPart][p]
      BY <2>a DEF TypeOK, Stream
    <2>d. now(aioPart) \in [0 .. MaxSize -> Units]
      <3>1. ASSUME NEW p \in 0 .. MaxSize PROVE now(aioPart)[p] \in Units
        <4>1. parts[aioPart][p] \in Units
          BY <2>a DEF TypeOK
        <4>2. p \in aioOffset .. aioOffset + aioSize - 1 => p + 1 \in Units
          BY <2>a DEF TypeOK, Units
        <4> QED
          BY <2>c, <4>1, <4>2
      <3> QED
        BY <3>1
    <2> HIDE DEF now
    <2>1. TypeOK'
      <3>1. parts' \in [Units -> [0 .. MaxSize -> Units]]
        BY <2>b, <2>d DEF TypeOK
      <3> QED
        BY <2>a, <3>1 DEF TypeOK
    <2>2. WritePending'
      BY DEF TypeOK, WritePending, Halves
    <2>3. Lag'
      BY DEF TypeOK, WritePending, Lag, MinOf
    <2>4. Numbered'
      BY DEF TypeOK, Lag, Numbered
    <2>5. Stream'
      BY DEF TypeOK, WritePending, Lag, Stream
    <2>6. Placed'
      <3>1. ASSUME NEW n \in Units, NEW p \in 0 .. MaxSize
            PROVE  parts'[n][p] = IF n = splitPart
                                     /\ p \in aioOffset .. aioOffset + aioSize - 1
                                  THEN p + 1 ELSE parts[n][p]
        BY <2>a, <2>b, <2>c DEF TypeOK
      <3>2. aioOffset' = aioOffset + aioSize /\ splitPart' = splitPart
        OBVIOUS
      <3>3. \A n \in Units, p \in 0 .. MaxSize :
               parts'[n][p] # 0 =>
                  n <= splitPart' /\ p < aioOffset' /\ parts'[n][p] = p + 1
        <4> TAKE n \in Units, p \in 0 .. MaxSize
        <4>1. CASE n = splitPart /\ p \in aioOffset .. aioOffset + aioSize - 1
          <5>1. parts'[n][p] = p + 1
            BY <3>1, <4>1
          <5>2. p < aioOffset + aioSize
            BY <2>a, <4>1
          <5> QED
            BY <3>2, <4>1, <5>1, <5>2
        <4>2. CASE ~(n = splitPart /\ p \in aioOffset .. aioOffset + aioSize - 1)
          <5>1. parts'[n][p] = parts[n][p]
            BY <3>1, <4>2
          <5>2. p < aioOffset => p < aioOffset'
            BY <2>a, <3>2
          <5> QED
            BY <3>2, <5>1, <5>2 DEF Placed
        <4> QED
          BY <4>1, <4>2
      <3>4. \A p \in 0 .. MaxSize : p < aioOffset' => \E n \in Units : parts'[n][p] # 0
        <4> TAKE p \in 0 .. MaxSize
        <4>1. CASE p < aioOffset
          <5>1. PICK n \in Units : parts[n][p] # 0
            BY <4>1 DEF Placed
          <5>2. parts'[n][p] # 0
            BY <3>1, <4>1, <5>1 DEF TypeOK
          <5> QED
            BY <5>2
        <4>2. CASE p >= aioOffset
          <5>1. p < aioOffset' => p \in aioOffset .. aioOffset + aioSize - 1
            BY <2>a, <3>2, <4>2
          <5>2. p < aioOffset' => parts'[splitPart][p] # 0
            BY <3>1, <5>1
          <5> QED
            BY <5>2
        <4> QED
          BY <4>1, <4>2 DEF TypeOK
      <3>5. \A m, n \in Units, p \in 0 .. MaxSize :
               parts'[m][p] # 0 /\ parts'[n][p] # 0 => m = n
        <4> TAKE m, n \in Units, p \in 0 .. MaxSize
        <4>1. CASE p \in aioOffset .. aioOffset + aioSize - 1
          <5>1. \A k \in Units : parts[k][p] = 0
            BY <4>1 DEF Placed, TypeOK
          <5> QED
            BY <3>1, <4>1, <5>1
        <4>2. CASE p \notin aioOffset .. aioOffset + aioSize - 1
          <5>1. parts'[m][p] = parts[m][p] /\ parts'[n][p] = parts[n][p]
            BY <3>1, <4>2
          <5> QED
            BY <5>1 DEF Placed
        <4> QED
          BY <4>1, <4>2
      <3> QED
        BY <3>3, <3>4, <3>5 DEF Placed
    <2>7. KeptIffLastWriteDone'
      BY DEF TypeOK, WritePending, Lag, KeptIffLastWriteDone
    <2> QED
      BY <2>1, <2>2, <2>3, <2>4, <2>5, <2>6, <2>7 DEF CopyInv
  <1>17. CASE WriteFails
    <2> USE <1>0, <1>17, <1>z DEF WriteFails
    <2>1. TypeOK'
      BY DEF TypeOK, WritePending, Lag, Numbered, Halves, MinOf
    <2>2. WritePending'
      BY DEF TypeOK, WritePending, Halves
    <2>3. Lag'
      BY DEF TypeOK, WritePending, Lag, MinOf
    <2>4. Numbered'
      BY DEF TypeOK, Lag, Numbered
    <2>5. Stream'
      BY DEF TypeOK, WritePending, Lag, Stream
    <2>6. Placed'
      BY PlacedKept
    <2>7. KeptIffLastWriteDone'
      BY DEF TypeOK, WritePending, Lag, KeptIffLastWriteDone
    <2> QED
      BY <2>1, <2>2, <2>3, <2>4, <2>5, <2>6, <2>7 DEF CopyInv
  <1>18. CASE UNCHANGED vars
    <2> USE <1>0, <1>18, <1>z DEF vars
    <2>1. TypeOK'
      BY DEF TypeOK, WritePending, Lag, Numbered, Halves, MinOf
    <2>2. WritePending'
      BY DEF TypeOK, WritePending, Halves
    <2>3. Lag'
      BY DEF TypeOK, WritePending, Lag, MinOf
    <2>4. Numbered'
      BY DEF TypeOK, Lag, Numbered
    <2>5. Stream'
      BY DEF TypeOK, WritePending, Lag, Stream
    <2>6. Placed'
      BY PlacedKept
    <2>7. KeptIffLastWriteDone'
      BY DEF TypeOK, WritePending, Lag, KeptIffLastWriteDone
    <2> QED
      BY <2>1, <2>2, <2>3, <2>4, <2>5, <2>6, <2>7 DEF CopyInv
  <1> QED
    BY <1>1, <1>2, <1>3, <1>4, <1>5, <1>6, <1>7, <1>8, <1>9, <1>10, <1>11,
        <1>12, <1>13, <1>14, <1>15, <1>16, <1>17, <1>18
    DEF Next, CopyStep, AioStep

\* CopyInv holds throughout (all of file_copy(), toolbox.cpp:3851-4010).
THEOREM CopyInvariant == Spec => []CopyInv
  <1> QED
    BY InitInv, StepInv, PTL DEF Spec

\* file_copy() keeps its variables within their types: the offset of a write
\* within the source, the index of a half within the two, and fewer parts than
\* units.
THEOREM TypeCorrect == Spec => []TypeOK
  <1>1. CopyInv => TypeOK
    BY DEF CopyInv
  <1> QED
    BY <1>1, CopyInvariant, PTL

\* Nothing that a running write uses - its half, its part, the buffer - is
\* reused or closed before it ends.
THEOREM WritesUndisturbed == Spec => []WriteUndisturbed
  <1>1. CopyInv => WriteUndisturbed
    BY DEF CopyInv, TypeOK, WritePending, WriteUndisturbed, Halves
  <1> QED
    BY <1>1, CopyInvariant, PTL

\* A copy that is kept is complete exactly if the last write was seen to end
\* well.
THEOREM KeptMeaning == Spec => []KeptIffLastWriteDone
  <1>1. CopyInv => KeptIffLastWriteDone
    BY DEF CopyInv
  <1> QED
    BY <1>1, CopyInvariant, PTL

\* What is written of the source is at its own place, once.
LEMMA InPlace == CopyInv => UnitsInPlace
  <1> SUFFICES ASSUME CopyInv PROVE UnitsInPlace
    OBVIOUS
  <1> USE CopyAssumption
  <1>1. TypeOK /\ Placed
    BY DEF CopyInv
  <1>2. ASSUME NEW u \in 1 .. aioOffset
        PROVE  /\ \E n \in 0 .. splitPart : parts[n][u - 1] = u
               /\ \A m, n \in 0 .. splitPart :
                     parts[m][u - 1] # 0 /\ parts[n][u - 1] # 0 => m = n
    <2>1. u - 1 \in 0 .. MaxSize /\ u - 1 < aioOffset /\ u - 1 + 1 = u
      BY <1>1, <1>2 DEF TypeOK, Units
    <2>2. 0 .. splitPart \subseteq Units
      BY <1>1 DEF TypeOK, Units
    <2>3. PICK n \in Units : parts[n][u - 1] # 0
      BY <1>1, <2>1 DEF Placed
    <2>4. n \in 0 .. splitPart /\ parts[n][u - 1] = u
      <3>1. n <= splitPart /\ parts[n][u - 1] = u
        BY <1>1, <2>1, <2>3 DEF Placed
      <3> QED
        BY <1>1, <3>1, Numbers DEF Units
    <2> QED
      BY <1>1, <2>1, <2>2, <2>4 DEF Placed
  <1> QED
    BY <1>2 DEF UnitsInPlace

\* Every unit written of the source is at its own offset, whichever part and
\* half it went through, and in one part only.
THEOREM UnitsAreInPlace == Spec => []UnitsInPlace
  <1> QED
    BY InPlace, CopyInvariant, PTL

-----------------------------------------------------------------------------
(* The refinement *)

Sink == [u \in 1 .. aioOffset |->
           parts[CHOOSE n \in 0 .. splitPart : parts[n][u - 1] # 0][u - 1]]

Outcome == IF pc # "done" THEN "running" ELSE IF abortCopy THEN "failed" ELSE "ok"

\* What has been written, over all parts, is a prefix of the source.
LEMMA SinkIsPrefix == CopyInv => Sink = Transfer!Prefix(aioOffset)
  <1> SUFFICES ASSUME CopyInv PROVE Sink = Transfer!Prefix(aioOffset)
    OBVIOUS
  <1> USE CopyAssumption
  <1>1. ASSUME NEW u \in 1 .. aioOffset
        PROVE  parts[CHOOSE n \in 0 .. splitPart : parts[n][u - 1] # 0][u - 1] = u
    <2> DEFINE owner == CHOOSE n \in 0 .. splitPart : parts[n][u - 1] # 0
    <2>1. TypeOK /\ Placed /\ UnitsInPlace
      BY InPlace DEF CopyInv
    <2>2. u # 0 /\ u - 1 \in 0 .. MaxSize /\ u - 1 + 1 = u
      BY <2>1, <1>1 DEF TypeOK, Units
    <2>3. owner \in 0 .. splitPart /\ parts[owner][u - 1] # 0
      BY <2>1, <2>2 DEF UnitsInPlace
    <2>4. owner \in Units
      BY <2>1, <2>3 DEF TypeOK, Units
    <2> QED
      BY <2>1, <2>2, <2>3, <2>4 DEF Placed
  <1> QED
    BY <1>1 DEF Sink, Transfer!Prefix

\* The same of the next state.
LEMMA SinkStaysPrefix == CopyInv' => Sink' = Transfer!Prefix(aioOffset')
  <1> DEFINE IsPrefix == Sink = Transfer!Prefix(aioOffset)
  <1>1. CopyInv => IsPrefix
    BY SinkIsPrefix
  <1> HIDE DEF IsPrefix
  <1>2. CopyInv' => IsPrefix'
    BY <1>1, PTL
  <1> QED
    BY <1>2 DEF IsPrefix, Transfer!Prefix

\* The initial states are initial states of the abstract transfer.
LEMMA InitImplements == Init => Transfer!Init
  <1> SUFFICES ASSUME Init PROVE Transfer!Init
    OBVIOUS
  <1>1. msiz \in Nat /\ pc = "start" /\ aioOffset = 0
    BY CopyAssumption DEF Init
  <1>2. Sink = Transfer!Prefix(0)
    BY <1>1, InitInv, SinkIsPrefix
  <1> QED
    BY <1>1, <1>2 DEF Transfer!Init, Sink

\* A step that leaves what is written and the outcome alone is a stutter.
LEMMA Stutter ==
    ASSUME Sink' = Sink, msiz' = msiz, Outcome' = Outcome
    PROVE  UNCHANGED Transfer!ftVars
  BY DEF Transfer!ftVars, Sink, Outcome

\* Every step is a step of the abstract transfer or a stutter.
LEMMA StepImplements ==
    CopyInv /\ CopyInv' /\ [Next]_vars => [Transfer!Next]_(Transfer!ftVars)
  <1> SUFFICES ASSUME CopyInv, CopyInv', [Next]_vars
               PROVE  Transfer!Next \/ UNCHANGED Transfer!ftVars
    OBVIOUS
  <1> USE CopyAssumption DEF IDLE, PENDING, FAILED, source, progress, part, aioVars
  <1>1. TypeOK /\ WritePending /\ Lag
    BY DEF CopyInv
  <1>2. Sink = Transfer!Prefix(aioOffset)
    BY SinkIsPrefix
  <1>z. Sink' = Transfer!Prefix(aioOffset')
    BY SinkStaysPrefix
  <1>3. CASE Start \/ Read \/ ReadFails \/ LoopEnds \/ Dispatch \/ DispatchFailed
             \/ Submit \/ SubmitRefused \/ CheckFailed \/ Advance \/ Look
             \/ Waited \/ WaitedFailed \/ NextPart \/ WriteFails
    <2>1. /\ aioOffset' = aioOffset /\ msiz' = msiz
          /\ pc # "done" /\ pc' # "done"
      BY <1>1, <1>3 DEF Start, Read, ReadFails, LoopEnds, Dispatch,
         DispatchFailed, Submit, SubmitRefused, CheckFailed, Advance, Look,
         Waited, WaitedFailed, NextPart, WriteFails, WritePending
    <2> QED
      BY <1>2, <1>z, <2>1, Stutter DEF Outcome
  <1>4. CASE Finish
    <2>1. /\ Outcome = "running"
          /\ Outcome' = IF abortCopy' THEN "failed" ELSE "ok"
          /\ UNCHANGED <<msiz, aioOffset>>
      BY <1>4 DEF Finish, Outcome
    <2>2. Sink' = Sink
      BY <1>2, <1>z, <2>1
    <2>3. CASE abortCopy'
      <3>1. Transfer!Fail
        BY <2>1, <2>2, <2>3 DEF Transfer!Fail, Sink, Outcome
      <3> QED
        BY <3>1 DEF Transfer!Next
    <2>4. CASE ~abortCopy'
      <3>1. aioOffset \in 0 .. msiz /\ aioOffset + BUF_SIZE >= msiz
        <4>1. fsiz = msiz /\ ~abortCopy /\ userData \in {IDLE, FAILED}
          BY <1>1, <1>4, <2>4 DEF Finish, TypeOK, WritePending
        <4>2. aioOffset = fsiz \/ aioOffset + aioSize = fsiz
          BY <1>1, <1>4, <4>1 DEF Finish, Lag
        <4> QED
          BY <1>1, <4>1, <4>2, Numbers
      <3>2. Transfer!Complete
        BY <1>2, <2>1, <2>2, <2>4, <3>1 DEF Transfer!Complete, Sink, Outcome
      <3> QED
        BY <3>2 DEF Transfer!Next
    <2> QED
      BY <2>3, <2>4
  <1>5. CASE WriteDone
    <2>1. Outcome = "running" /\ Outcome' = "running" /\ msiz' = msiz
      BY <1>1, <1>5 DEF WriteDone, WritePending, Outcome
    <2>3. aioOffset \in 0 .. msiz /\ aioOffset' \in aioOffset + 1 .. msiz
      <3>1. aioSize \in 1 .. BUF_SIZE
        BY <1>1, <1>5 DEF WriteDone, WritePending, Lag
      <3>2. aioOffset' = aioOffset + aioSize
        BY <1>5 DEF WriteDone
      <3>3. aioOffset' <= msiz
        BY <1>5, <2>1 DEF CopyInv, TypeOK
      <3> QED
        BY <1>1, <3>1, <3>2, <3>3, Numbers
    <2>2. Transfer!Deliver
      BY <1>2, <1>z, <2>1, <2>3 DEF Transfer!Deliver, Sink, Outcome
    <2> QED
      BY <2>2 DEF Transfer!Next
  <1>6. CASE UNCHANGED vars
    BY <1>6, Stutter DEF vars, Sink, Outcome
  <1> QED
    BY <1>3, <1>4, <1>5, <1>6 DEF Next, CopyStep, AioStep

\* file_copy() implements the abstract transfer: at every moment the parts hold
\* a prefix of the source, and a copy that is kept lacks a chunk at most.
THEOREM CopyImplementsTransfer == Spec => TransferSpec
  <1> QED
    BY InitImplements, StepImplements, CopyInvariant, PTL
    DEF Spec, TransferSpec, Transfer!Spec
=============================================================================
