------------------------- MODULE Mt7697qWriteProofs -------------------------
(***************************************************************************)
(* Proofs about Mt7697qWrite, for every ring size, every set of message    *)
(* sizes and both values of SpiFails.                                      *)
(***************************************************************************)
EXTENDS Mt7697qWrite, Mt7697qRingProofs, SequenceTheorems, TLAPS

-----------------------------------------------------------------------------
(* The inductive invariant *)

\* The driver's copy after mt7697q_init satisfies the invariant.
LEMMA InitIInv == Init => WriteIInv
<1> SUFFICES ASSUME Init PROVE WriteIInv
  OBVIOUS
<1>1. TypeOK
  <2>1. Word(0, 0) \in (0 .. MaxCalls) \X Nat
    BY WriteAssumption DEF Word
  <2>2. /\ mem \in [Offsets -> (0 .. MaxCalls) \X Nat]
        /\ log \in [0 .. (MaxWords - 1) -> (0 .. MaxCalls) \X Nat]
        /\ size \in [Calls -> Nat]
        /\ ret \in [Calls -> Results]
    BY <2>1 DEF Init, Results
  <2>3. /\ srd \in Offsets /\ woff \in 0 .. N
        /\ hcnt \in 0 .. MaxWords /\ scnt \in 0 .. MaxWords
        /\ rcnt \in 0 .. MaxWords /\ call \in 0 .. MaxCalls
    BY NAssumption, WriteAssumption DEF Init, Offsets
  <2> QED
    BY <2>2, <2>3 DEF Init, TypeOK
<1>2. CountsInOrder /\ OffsetsMatchCounts /\ CachedRdIsSafe
  <2>1. srd \in Offsets /\ Advance(srd, 0) = srd /\ BufDiff(srd, srd) = 0
    BY NAssumption DEF Init, Advance, BufDiff, Offsets
  <2> QED
    BY <2>1, NAssumption
       DEF Init, CountsInOrder, OffsetsMatchCounts, CachedRdIsSafe, Capacity,
           NumWords
<1>3. ContentMatchesLog /\ CopyInProgress
  BY DEF Init, ContentMatchesLog, CopyInProgress
<1> QED
  BY <1>1, <1>2, <1>3 DEF WriteIInv

\* What the invariant says of the free slots: the slots the write under way may
\* still fill, counted from wr_offset, are none of those the slave has to read.
LEMMA FreeSlotsAreDisjoint ==
    ASSUME WriteIInv,
           NEW i \in 0 .. (hcnt - rcnt - 1),
           NEW j \in Nat, j < FreeWords(hrd, hwr)
    PROVE  /\ Advance(hwr, j) \in Offsets
           /\ Advance(srd, i) \in Offsets
           /\ Advance(srd, i) # Advance(hwr, j)
<1> DEFINE d == hcnt - rcnt
<1>1. /\ d \in Nat /\ d <= N - 1
      /\ hwr = Advance(srd, d) /\ srd \in Offsets /\ hwr \in Offsets
      /\ hrd \in Offsets
  BY NAssumption, WriteAssumption
     DEF WriteIInv, TypeOK, CountsInOrder, OffsetsMatchCounts, Capacity
<1>2. NumWords(srd, hwr) = d
  BY <1>1, BufDiffAdvance DEF NumWords
<1>3. d + j < N
  BY <1>1, <1>2, AdvanceBufDiff, NAssumption
     DEF WriteIInv, CachedRdIsSafe, FreeWords, Capacity, NumWords
<1>4. Advance(hwr, j) = Advance(srd, d + j)
  BY <1>1, <1>3, AdvanceAdd
<1>5. d + j \in 0 .. (N - 1) /\ i \in 0 .. (N - 1) /\ i # d + j
  BY <1>1, <1>3, NAssumption
<1>6. Advance(srd, i) # Advance(srd, d + j)
  BY <1>1, <1>5, AdvanceInjective
<1> QED
  BY <1>1, <1>4, <1>5, <1>6, AdvanceType, NAssumption

\* A copy of k words at the local write offset, inside the space the write
\* found free and up to the end of the ring, leaves the unread words alone and
\* extends the words already copied.
LEMMA CopyIsSafe ==
    ASSUME WriteIInv, pc \in {"run1", "run2"},
           NEW k \in Nat, k <= num, woff + k <= N
    PROVE  /\ Copy(woff, k) \in [Offsets -> (0 .. MaxCalls) \X Nat]
           /\ \A i \in 0 .. (hcnt - rcnt - 1) :
                 Copy(woff, k)[Advance(srd, i)] = mem[Advance(srd, i)]
           /\ \A j \in 0 .. (done + k - 1) :
                 Copy(woff, k)[Advance(hwr, j)] = Word(call, j)
<1>0. /\ woff = Advance(hwr, done)
      /\ \A j \in 0 .. (done - 1) : mem[Advance(hwr, j)] = Word(call, j)
      /\ call \in 0 .. MaxCalls /\ mem \in [Offsets -> (0 .. MaxCalls) \X Nat]
  BY DEF WriteIInv, TypeOK, CopyInProgress
<1>1. /\ hwr \in Offsets /\ hrd \in Offsets
      /\ num \in Nat /\ num + done <= FreeWords(hrd, hwr)
      /\ FreeWords(hrd, hwr) \in 0 .. (N - 1)
      /\ done \in 0 .. (N - 1)
  <2>1. /\ hwr \in Offsets /\ hrd \in Offsets /\ num \in Nat /\ done \in Nat
        /\ num + done <= FreeWords(hrd, hwr)
    BY DEF WriteIInv, TypeOK, CopyInProgress
  <2>2. FreeWords(hrd, hwr) \in 0 .. (N - 1)
    BY <2>1, FreeWordsType
  <2> QED
    BY <2>1, <2>2, NAssumption
<1>3. woff \in Offsets /\ woff \in Nat
  BY <1>0, <1>1, AdvanceType, NAssumption DEF Offsets
<1>2. Copy(woff, k) \in [Offsets -> (0 .. MaxCalls) \X Nat]
  <2> SUFFICES ASSUME NEW s \in Offsets
               PROVE  Copy(woff, k)[s] \in (0 .. MaxCalls) \X Nat
    BY DEF Copy
  <2>1. CASE s \in woff .. (woff + k - 1)
    <3>1. done + (s - woff) \in Nat
      BY <1>1, <1>3, <2>1 DEF Offsets
    <3> QED
      BY <1>0, <2>1, <3>1 DEF Copy, Word
  <2>2. CASE s \notin woff .. (woff + k - 1)
    BY <1>0, <2>2 DEF Copy
  <2> QED
    BY <2>1, <2>2
<1>4. ASSUME NEW s \in woff .. (woff + k - 1)
      PROVE  /\ s \in Offsets
             /\ done + (s - woff) \in Nat
             /\ done + (s - woff) < FreeWords(hrd, hwr)
             /\ s = Advance(hwr, done + (s - woff))
  <2>1. /\ s \in Offsets /\ s - woff \in Nat /\ s - woff < k
        /\ woff + (s - woff) < N /\ woff + (s - woff) = s
    BY <1>3, <1>4, NAssumption DEF Offsets
  <2>2. Advance(hwr, done + (s - woff)) = s
    BY <1>0, <1>1, <2>1, AdvanceWithin
  <2> QED
    BY <1>1, <2>1, <2>2
<1>5. ASSUME NEW i \in 0 .. (hcnt - rcnt - 1)
      PROVE  Copy(woff, k)[Advance(srd, i)] = mem[Advance(srd, i)]
  <2>1. Advance(srd, i) \in Offsets
    BY <1>1, NAssumption, WriteAssumption, AdvanceType
       DEF WriteIInv, TypeOK, CountsInOrder, Capacity
  <2>2. Advance(srd, i) \notin woff .. (woff + k - 1)
    BY <1>4, <1>5, FreeSlotsAreDisjoint
  <2> QED
    BY <2>1, <2>2 DEF Copy
<1>6. ASSUME NEW j \in 0 .. (done + k - 1)
      PROVE  Copy(woff, k)[Advance(hwr, j)] = Word(call, j)
  <2>1. Advance(hwr, j) \in Offsets
    BY <1>1, AdvanceType, NAssumption
  <2>2. CASE j >= done
    <3>1. /\ Advance(hwr, j) \in woff .. (woff + k - 1)
          /\ done + (Advance(hwr, j) - woff) = j
      <4>1. /\ j - done \in 0 .. (k - 1) /\ done \in 0 .. (N - 1)
            /\ woff + (j - done) < N /\ woff \in Int
        BY <1>1, <1>3, <2>2, NAssumption DEF Offsets
      <4>2. Advance(hwr, done + (j - done)) = woff + (j - done)
        BY <1>0, <1>1, <4>1, AdvanceWithin
      <4> QED
        BY <1>1, <4>1, <4>2
    <3> QED
      BY <2>1, <3>1 DEF Copy
  <2>3. CASE j < done
    <3>1. Advance(hwr, j) \notin woff .. (woff + k - 1)
      <4> SUFFICES ASSUME Advance(hwr, j) \in woff .. (woff + k - 1)
                   PROVE  FALSE
        OBVIOUS
      <4> DEFINE m == done + (Advance(hwr, j) - woff)
      <4>1. m \in Nat /\ m < FreeWords(hrd, hwr) /\ Advance(hwr, j) = Advance(hwr, m)
        BY <1>4
      <4>2. m \in 0 .. (N - 1) /\ m >= done /\ j \in 0 .. (N - 1)
        BY <1>1, <1>3, <2>1, <2>3, <4>1, NAssumption DEF Offsets
      <4> QED
        BY <1>1, <2>3, <4>1, <4>2, AdvanceInjective
    <3>2. j \in 0 .. (done - 1)
      BY <1>1, <2>3
    <3> QED
      BY <1>0, <2>1, <3>1, <3>2 DEF Copy
  <2>4. j >= done \/ j < done
    BY <1>1
  <2> QED
    BY <2>2, <2>3, <2>4
<1> QED
  BY <1>2, <1>5, <1>6

\* A run that copies its k words and goes on keeps the invariant...
LEMMA CopyRunKeeps ==
    ASSUME WriteIInv, pc \in {"run1", "run2"},
           NEW k \in Nat, k <= num, woff + k <= N,
           mem' = Copy(woff, k), done' = done + k,
           num' \in Nat, num' + done' = num + done,
           woff' = Advance(hwr, done'), woff' \in Offsets,
           pc' = "run2" => (num' > 0 => woff' < hrd /\ num' <= hrd - woff' - 1),
           pc' = "commit" => num' = 0,
           pc' \in {"run2", "commit"},
           UNCHANGED <<srd, swr, host, bell, call, size, ret, log, counts>>
    PROVE  WriteIInv'
<1>t. /\ TypeOK /\ CountsInOrder /\ OffsetsMatchCounts /\ CachedRdIsSafe
      /\ ContentMatchesLog /\ CopyInProgress
  BY DEF WriteIInv
<1>u. UNCHANGED <<srd, swr, hrd, hwr, blocked, mbx, irq, awake, call, size,
                  ret, log, hcnt, scnt, rcnt>>
  BY DEF host, bell, counts
<1>1. /\ mem' \in [Offsets -> (0 .. MaxCalls) \X Nat]
      /\ \A i \in 0 .. (hcnt - rcnt - 1) : mem'[Advance(srd, i)] = mem[Advance(srd, i)]
      /\ \A j \in 0 .. (done + k - 1) : mem'[Advance(hwr, j)] = Word(call, j)
  BY CopyIsSafe
<1>2. TypeOK'
  <2>1. done' \in Nat /\ woff' \in 0 .. N
    BY <1>t, NAssumption DEF TypeOK, Offsets
  <2> QED
    BY <1>t, <1>u, <1>1, <2>1 DEF TypeOK
<1>3. ContentMatchesLog'
  BY <1>t, <1>u, <1>1 DEF ContentMatchesLog, Advance
<1>4. CopyInProgress'
  <2>1. \A j \in 0 .. (done' - 1) : mem'[Advance(hwr', j)] = Word(call', j)
    <3> SUFFICES ASSUME NEW j \in 0 .. (done' - 1)
                 PROVE  mem'[Advance(hwr', j)] = Word(call', j)
      OBVIOUS
    <3>1. Advance(hwr', j) = Advance(hwr, j) /\ Word(call', j) = Word(call, j)
      BY <1>u
    <3>2. j \in 0 .. (done + k - 1)
      <4>1. done \in Nat /\ done' = done + k
        BY <1>t DEF TypeOK
      <4> QED
        BY <4>1
    <3> QED
      BY <1>1, <3>1, <3>2
  <2>2. num + done <= FreeWords(hrd, hwr) /\ hcnt + (num + done) <= MaxWords /\ call \in Calls
    BY <1>t DEF CopyInProgress
  <2>3. FreeWords(hrd', hwr') = FreeWords(hrd, hwr)
    BY <1>u
  <2>4. woff' = Advance(hwr', done')
    BY <1>u
  <2> QED
    BY <1>u, <2>1, <2>2, <2>3, <2>4 DEF CopyInProgress
<1>5. (CountsInOrder /\ OffsetsMatchCounts /\ CachedRdIsSafe)'
  BY <1>t, <1>u DEF CountsInOrder, OffsetsMatchCounts, CachedRdIsSafe
<1> QED
  BY <1>2, <1>3, <1>4, <1>5 DEF WriteIInv

\* ... and so does a run whose transfer fails after any part of it.
LEMMA CopyFailKeeps ==
    ASSUME WriteIInv, pc \in {"run1", "run2"},
           NEW k \in Nat, k <= num, woff + k <= N,
           mem' = Copy(woff, k), Return("error"),
           UNCHANGED <<done, num, woff>>,
           UNCHANGED <<srd, swr, host, bell, call, size, log, counts>>
    PROVE  WriteIInv'
<1>t. /\ TypeOK /\ CountsInOrder /\ OffsetsMatchCounts /\ CachedRdIsSafe
      /\ ContentMatchesLog /\ CopyInProgress
  BY DEF WriteIInv
<1>u. UNCHANGED <<srd, swr, hrd, hwr, blocked, mbx, irq, awake, call, size,
                  log, hcnt, scnt, rcnt, done, num, woff>>
  BY DEF host, bell, counts
<1>1. /\ mem' \in [Offsets -> (0 .. MaxCalls) \X Nat]
      /\ \A i \in 0 .. (hcnt - rcnt - 1) : mem'[Advance(srd, i)] = mem[Advance(srd, i)]
  BY CopyIsSafe
<1>2. TypeOK'
  <2>1. ret' \in [Calls -> Results] /\ pc' = "idle"
    BY <1>t DEF TypeOK, Results, Return
  <2> QED
    BY <1>t, <1>u, <1>1, <2>1 DEF TypeOK
<1>3. ContentMatchesLog'
  BY <1>t, <1>u, <1>1 DEF ContentMatchesLog, Advance
<1>4. CopyInProgress'
  BY DEF CopyInProgress, Return
<1>5. (CountsInOrder /\ OffsetsMatchCounts /\ CachedRdIsSafe)'
  BY <1>t, <1>u DEF CountsInOrder, OffsetsMatchCounts, CachedRdIsSafe
<1> QED
  BY <1>2, <1>3, <1>4, <1>5 DEF WriteIInv

\* Every step of the driver and of the slave keeps the invariant.
LEMMA NextIInv == WriteIInv /\ [Next]_vars => WriteIInv'
<1> SUFFICES ASSUME WriteIInv, [Next]_vars PROVE WriteIInv'
  OBVIOUS
<1>t. TypeOK /\ CountsInOrder /\ OffsetsMatchCounts /\ CachedRdIsSafe
      /\ ContentMatchesLog /\ CopyInProgress
  BY DEF WriteIInv
<1>1. ASSUME NEW n \in MsgSizes, Enter(n) PROVE WriteIInv'
  <2>1. n \in Nat /\ call + 1 \in Calls
    BY <1>t, <1>1, WriteAssumption DEF Enter, TypeOK, Calls
  <2>2. TypeOK'
    <3>1. size' \in [Calls -> Nat] /\ call' \in 0 .. MaxCalls
      BY <1>t, <1>1, <2>1 DEF Enter, TypeOK, Calls
    <3>2. pc' \in {"pull", "run1"} /\ num' \in Nat /\ done' \in Nat /\ woff' \in 0 .. N
      BY <1>t, <1>1, <2>1, NAssumption DEF Enter, TypeOK, Offsets
    <3>3. UNCHANGED <<mem, srd, swr, hrd, hwr, blocked, mbx, irq, awake, ret, log, hcnt, scnt, rcnt>>
      BY <1>1 DEF Enter, ring, host, bell, counts
    <3> QED
      BY <1>t, <3>1, <3>2, <3>3 DEF TypeOK
  <2>3. Advance(hwr, 0) = hwr
    BY <1>t, NAssumption DEF Advance, TypeOK, Offsets
  <2>4. CopyInProgress'
    <3>1. call' \in Calls /\ pc' \in {"pull", "run1"}
          /\ (pc' = "run1" => n <= FreeWords(hrd, hwr))
          /\ hcnt + n <= MaxWords /\ num' = n /\ done' = 0 /\ woff' = hwr
          /\ UNCHANGED <<hrd, hwr, hcnt>>
      <4>1. FreeWords(hrd, hwr) \in Int
        BY <1>t, FreeWordsType DEF TypeOK
      <4> QED
        BY <1>1, <2>1, <4>1 DEF Enter, host, counts
    <3>2. n + 0 = n /\ hcnt + (n + 0) = hcnt + n
      BY <2>1, <1>t DEF TypeOK
    <3> QED
      BY <2>1, <2>3, <3>1, <3>2 DEF CopyInProgress, FreeWords, NumWords
  <2>5. (CountsInOrder /\ OffsetsMatchCounts /\ CachedRdIsSafe /\ ContentMatchesLog)'
    BY <1>t, <1>1 DEF Enter, CountsInOrder, OffsetsMatchCounts, CachedRdIsSafe, ContentMatchesLog, ring, host, counts
  <2> QED
    BY <2>2, <2>4, <2>5 DEF WriteIInv
<1>2. CASE PullRdPtr
  <2>1. call \in Calls
    BY <1>t, <1>2 DEF PullRdPtr, CopyInProgress
  <2>2. TypeOK'
    <3>1. ret' \in [Calls -> Results] /\ hrd' \in Offsets /\ blocked' \in BOOLEAN /\ pc' = "idle"
      BY <1>t, <1>2, <2>1 DEF PullRdPtr, Return, TypeOK, Results
    <3>2. UNCHANGED <<ring, hwr, bell, num, done, woff, call, size, log, counts>>
      BY <1>2 DEF PullRdPtr
    <3> QED
      BY <1>t, <3>1, <3>2 DEF TypeOK, ring, bell, counts
  <2>3. CachedRdIsSafe'
    <3>1. NumWords(srd, hwr) \in Int
      BY <1>t, AdvanceBufDiff DEF TypeOK, NumWords
    <3>2. srd' = srd /\ hwr' = hwr /\ hrd' \in {hrd, srd}
      BY <1>2 DEF PullRdPtr, ring
    <3> QED
      BY <1>t, <3>1, <3>2 DEF CachedRdIsSafe, NumWords, BufDiff
  <2>4. (CountsInOrder /\ OffsetsMatchCounts /\ ContentMatchesLog /\ CopyInProgress)'
    BY <1>t, <1>2 DEF PullRdPtr, Return, CountsInOrder, OffsetsMatchCounts, ContentMatchesLog, CopyInProgress, ring, counts
  <2> QED
    BY <2>2, <2>3, <2>4 DEF WriteIInv
<1>3. CASE CopyRun1
  <2> DEFINE k == WriteRun1(hrd, woff, num)
  <2>0. pc = "run1" /\ done = 0 /\ call \in Calls /\ woff = Advance(hwr, 0) /\ num <= FreeWords(hrd, hwr)
    BY <1>t, <1>3, FreeWordsType DEF CopyRun1, CopyInProgress, TypeOK
  <2>1. woff = hwr /\ hwr \in Offsets /\ hrd \in Offsets /\ num \in Nat
    BY <1>t, <2>0, NAssumption DEF Advance, TypeOK, Offsets
  <2>2. /\ k \in 0 .. num /\ woff + k <= N
        /\ AfterRun(woff, k) = Advance(woff, k)
        /\ num - k > 0 => AfterRun(woff, k) < hrd /\ num - k <= hrd - AfterRun(woff, k) - 1
    BY <2>0, <2>1, TwoRunsSuffice
  <2> HIDE DEF k
  <2>u. UNCHANGED <<srd, swr, host, bell, call, size, log, counts>>
    BY <1>3 DEF CopyRun1
  <2>3. CASE /\ mem' = Copy(woff, k)
             /\ done' = done + k /\ num' = num - k
             /\ woff' = AfterRun(woff, k)
             /\ pc' = "run2" /\ UNCHANGED ret
    <3>1. /\ k \in Nat /\ num' \in Nat /\ done' = k
          /\ num' + done' = num + done
          /\ woff' = Advance(hwr, done')
          /\ woff' \in Offsets
      BY <2>0, <2>1, <2>2, <2>3, AdvanceType, FreeWordsType, NAssumption
    <3>3. num' > 0 => woff' < hrd /\ num' <= hrd - woff' - 1
      BY <2>2, <2>3
    <3> QED
      BY <2>0, <2>3, <2>u, <2>2, <3>1, <3>3, CopyRunKeeps
  <2>4. CASE \E j \in 0 .. k : mem' = Copy(woff, j) /\ Return("error") /\ UNCHANGED <<done, num, woff>>
    <3> PICK j \in 0 .. k : mem' = Copy(woff, j) /\ Return("error") /\ UNCHANGED <<done, num, woff>>
      BY <2>4
    <3>1. j \in Nat /\ j <= num /\ woff + j <= N
      BY <2>2, <2>1, NAssumption DEF Offsets
    <3> QED
      BY <2>0, <2>u, <3>1, CopyFailKeeps
  <2> QED
    BY <1>3, <2>3, <2>4 DEF CopyRun1, k
<1>4. CASE CopyRun2
  <2> DEFINE k == WriteRun2(hrd, woff, num)
  <2>0. /\ pc = "run2" /\ call \in Calls /\ woff = Advance(hwr, done)
        /\ num + done <= FreeWords(hrd, hwr)
        /\ num > 0 => woff < hrd /\ num <= hrd - woff - 1
        /\ hrd \in Offsets /\ hwr \in Offsets /\ num \in Nat /\ done \in Nat
        /\ done \in 0 .. (N - 1)
    <3>1. /\ pc = "run2" /\ call \in Calls /\ woff = Advance(hwr, done)
          /\ num + done <= FreeWords(hrd, hwr)
          /\ num > 0 => woff < hrd /\ num <= hrd - woff - 1
          /\ hrd \in Offsets /\ hwr \in Offsets /\ num \in Nat /\ done \in Nat
      BY <1>t, <1>4 DEF CopyRun2, CopyInProgress, TypeOK
    <3> QED
      BY <3>1, FreeWordsType, NAssumption
  <2>1. woff \in Offsets /\ woff \in Nat /\ hrd \in Nat
    BY <2>0, AdvanceType, NAssumption DEF Offsets
  <2>2. k = num /\ woff + k < N
    BY <2>0, <2>1, NAssumption DEF WriteRun2, Lesser, Offsets
  <2> HIDE DEF k
  <2>u. UNCHANGED <<srd, swr, host, bell, call, size, log, counts>>
    BY <1>4 DEF CopyRun2
  <2>3. CASE /\ mem' = Copy(woff, k)
             /\ done' = done + k /\ num' = num - k
             /\ woff' = woff + k
             /\ pc' = "commit" /\ UNCHANGED ret
    <3>1. num' = 0 /\ num' + done' = num + done /\ woff' \in Offsets
      BY <2>0, <2>1, <2>2, <2>3, NAssumption DEF Offsets
    <3>3. woff' = Advance(hwr, done')
      BY <2>0, <2>2, <2>3, AdvanceWithin
    <3> QED
      BY <2>0, <2>1, <2>2, <2>3, <2>u, <3>1, <3>3, CopyRunKeeps, NAssumption
  <2>4. CASE \E j \in 0 .. k : mem' = Copy(woff, j) /\ Return("error") /\ UNCHANGED <<done, num, woff>>
    <3> PICK j \in 0 .. k : mem' = Copy(woff, j) /\ Return("error") /\ UNCHANGED <<done, num, woff>>
      BY <2>4
    <3>1. j \in Nat /\ j <= num /\ woff + j <= N
      BY <2>0, <2>1, <2>2, NAssumption DEF Offsets
    <3> QED
      BY <2>0, <2>u, <3>1, CopyFailKeeps
  <2> QED
    BY <1>4, <2>3, <2>4 DEF CopyRun2, k
<1>5. CASE Commit
  <2>0. /\ pc = "commit" /\ call \in Calls /\ woff = Advance(hwr, done)
        /\ num = 0 /\ num + done <= FreeWords(hrd, hwr) /\ hcnt + (num + done) <= MaxWords
        /\ \A j \in 0 .. (done - 1) : mem[Advance(hwr, j)] = Word(call, j)
        /\ hrd \in Offsets /\ hwr \in Offsets /\ srd \in Offsets /\ done \in Nat
        /\ hcnt \in Nat /\ rcnt \in Nat /\ scnt \in Nat
    BY <1>t, <1>5, WriteAssumption DEF Commit, CopyInProgress, TypeOK
  <2>1. done <= FreeWords(hrd, hwr) /\ hcnt + done <= MaxWords /\ done \in 0 .. (N - 1)
        /\ FreeWords(hrd, hwr) \in 0 .. (N - 1)
    BY <2>0, FreeWordsType, NAssumption, WriteAssumption
  <2>2. woff \in Offsets /\ woff < N
    BY <2>0, <2>1, AdvanceType, NAssumption DEF Offsets
  <2>3. /\ hwr' = woff /\ hcnt' = hcnt + done /\ pc' = "push" /\ UNCHANGED ret
        /\ log' = [p \in DOMAIN log |->
                       IF p \in hcnt .. (hcnt + done - 1)
                       THEN Word(call, p - hcnt) ELSE log[p]]
        /\ UNCHANGED <<mem, srd, swr, hrd, blocked, mbx, irq, awake, num, done,
                       woff, call, size, scnt, rcnt>>
    BY <1>5, <2>2, NAssumption DEF Commit, ring, bell, Offsets
  <2> DEFINE d == hcnt - rcnt
             e == NumWords(hrd, hwr)
  <2>4. /\ d \in 0 .. (N - 1) /\ hwr = Advance(srd, d) /\ rcnt <= scnt /\ scnt <= hcnt
    BY <1>t, <2>0, NAssumption DEF CountsInOrder, OffsetsMatchCounts, Capacity
  <2>5. NumWords(srd, hwr) = d
    BY <2>0, <2>4, BufDiffAdvance DEF NumWords
  <2>6. e \in 0 .. (N - 1) /\ hwr = Advance(hrd, e) /\ d <= e /\ e + done <= N - 1
    BY <1>t, <2>0, <2>1, <2>5, AdvanceBufDiff, NAssumption
       DEF CachedRdIsSafe, NumWords, FreeWords, Capacity
  <2> HIDE DEF e
  <2>7. d + done \in 0 .. (N - 1) /\ e + done \in 0 .. (N - 1) /\ d + done = hcnt' - rcnt'
    BY <2>0, <2>1, <2>3, <2>4, <2>6, NAssumption
  <2>8. hwr' = Advance(srd, d + done) /\ hwr' = Advance(hrd, e + done)
    BY <2>0, <2>3, <2>4, <2>6, <2>7, AdvanceAdd, NAssumption
  <2>9. TypeOK'
    <3>1. log' \in [0 .. (MaxWords - 1) -> (0 .. MaxCalls) \X Nat]
      <4>1. log \in [0 .. (MaxWords - 1) -> (0 .. MaxCalls) \X Nat] /\ call \in 0 .. MaxCalls
        BY <1>t DEF TypeOK
      <4>2. ASSUME NEW p \in hcnt .. (hcnt + done - 1)
            PROVE  Word(call, p - hcnt) \in (0 .. MaxCalls) \X Nat
        <5>1. p - hcnt \in Nat
          BY <2>0
        <5> QED
          BY <4>1, <5>1 DEF Word
      <4> QED
        BY <2>3, <4>1, <4>2
    <3>2. hcnt' \in 0 .. MaxWords /\ hwr' \in Offsets
      BY <2>0, <2>1, <2>2, <2>3, WriteAssumption
    <3> QED
      BY <1>t, <2>3, <3>1, <3>2 DEF TypeOK
  <2>10. CountsInOrder'
    BY <2>0, <2>1, <2>3, <2>4, <2>7, NAssumption DEF CountsInOrder, Capacity
  <2>11. OffsetsMatchCounts'
    BY <1>t, <2>3, <2>7, <2>8 DEF OffsetsMatchCounts
  <2>12. CachedRdIsSafe'
    <3>1. NumWords(srd, hwr') = d + done /\ NumWords(hrd, hwr') = e + done
      BY <2>0, <2>7, <2>8, BufDiffAdvance DEF NumWords
    <3>2. d + done <= e + done
      BY <2>0, <2>4, <2>6
    <3>3. srd' = srd /\ hrd' = hrd
      BY <2>3
    <3> QED
      BY <3>1, <3>2, <3>3 DEF CachedRdIsSafe
  <2>13. ContentMatchesLog'
    <3> SUFFICES ASSUME NEW i \in 0 .. (hcnt' - rcnt' - 1)
                 PROVE  mem'[Advance(srd', i)] = log'[rcnt' + i]
      BY DEF ContentMatchesLog
    <3>1. i \in 0 .. (d + done - 1) /\ rcnt + i \in 0 .. (MaxWords - 1)
      BY <2>0, <2>1, <2>3, <2>4, <2>7, WriteAssumption
    <3>2. DOMAIN log = 0 .. (MaxWords - 1)
      BY <1>t DEF TypeOK
    <3>3. mem'[Advance(srd', i)] = mem[Advance(srd, i)] /\ log'[rcnt' + i] = log'[rcnt + i]
      BY <2>3
    <3>4. CASE i < d
      <4>1. i \in 0 .. (hcnt - rcnt - 1) /\ rcnt + i \notin hcnt .. (hcnt + done - 1)
        BY <2>0, <2>4, <3>1, <3>4
      <4>2. log'[rcnt + i] = log[rcnt + i]
        BY <2>3, <3>1, <3>2, <4>1
      <4> QED
        BY <1>t, <3>3, <4>1, <4>2 DEF ContentMatchesLog
    <3>5. CASE i >= d
      <4>1. /\ rcnt + i \in hcnt .. (hcnt + done - 1) /\ i - d \in 0 .. (done - 1)
            /\ (rcnt + i) - hcnt = i - d /\ d + (i - d) = i /\ i < N
        BY <2>0, <2>4, <2>7, <3>1, <3>5, NAssumption
      <4>2. log'[rcnt + i] = Word(call, i - d)
        BY <2>3, <3>1, <3>2, <4>1
      <4>3. Advance(hwr, i - d) = Advance(srd, i)
        BY <2>0, <2>4, <4>1, AdvanceAdd
      <4> QED
        BY <2>0, <3>3, <4>1, <4>2, <4>3
    <3> QED
      BY <2>4, <3>1, <3>4, <3>5
  <2>14. CopyInProgress'
    BY <2>0, <2>3 DEF CopyInProgress
  <2> QED
    BY <2>9, <2>10, <2>11, <2>12, <2>13, <2>14 DEF WriteIInv
<1>6. CASE PushWrPtr
  <2>1. call \in Calls
    BY <1>t, <1>6 DEF PushWrPtr, CopyInProgress
  <2>2. TypeOK'
    <3>1. ret' \in [Calls -> Results] /\ swr' \in Offsets
          /\ scnt' \in 0 .. MaxWords /\ pc' \in {"idle", "mbx"}
      BY <1>t, <1>6, <2>1 DEF PushWrPtr, Return, TypeOK, Results
    <3>2. UNCHANGED <<mem, srd, host, bell, num, done, woff, call, size, log,
                      hcnt, rcnt>>
      BY <1>6 DEF PushWrPtr
    <3> QED
      BY <1>t, <3>1, <3>2 DEF TypeOK, host, bell
  <2>3. (CountsInOrder /\ OffsetsMatchCounts)'
    <3>1. /\ \/ swr' = hwr /\ scnt' = hcnt
             \/ swr' = swr /\ scnt' = scnt
          /\ srd' = srd /\ hwr' = hwr /\ hcnt' = hcnt /\ rcnt' = rcnt
      BY <1>6 DEF PushWrPtr, host
    <3>2. hcnt \in Nat /\ scnt \in Nat /\ rcnt \in Nat
      BY <1>t, WriteAssumption DEF TypeOK
    <3>3. CountsInOrder'
      BY <1>t, <3>1, <3>2 DEF CountsInOrder
    <3>4. OffsetsMatchCounts'
      BY <1>t, <3>1 DEF OffsetsMatchCounts
    <3> QED
      BY <3>3, <3>4
  <2>4. (CachedRdIsSafe /\ ContentMatchesLog /\ CopyInProgress)'
    BY <1>t, <1>6, <2>1 DEF PushWrPtr, Return, CachedRdIsSafe, ContentMatchesLog, CopyInProgress, host
  <2> QED
    BY <2>2, <2>3, <2>4 DEF WriteIInv
<1>7. CASE WrM2sMbx
  <2>1. call \in Calls
    BY <1>t, <1>7 DEF WrM2sMbx, CopyInProgress
  <2>2. TypeOK'
    <3>1. ret' \in [Calls -> Results] /\ mbx' \in BOOLEAN /\ pc' \in {"idle", "trigger"}
      BY <1>t, <1>7, <2>1 DEF WrM2sMbx, Return, TypeOK, Results
    <3>2. UNCHANGED <<ring, host, irq, awake, num, done, woff, call, size, log, counts>>
      BY <1>7 DEF WrM2sMbx
    <3> QED
      BY <1>t, <3>1, <3>2 DEF TypeOK, host, ring, counts
  <2>3. (CountsInOrder /\ OffsetsMatchCounts /\ CachedRdIsSafe /\ ContentMatchesLog /\ CopyInProgress)'
    BY <1>t, <1>7, <2>1 DEF WrM2sMbx, Return, CountsInOrder, OffsetsMatchCounts, CachedRdIsSafe,
       ContentMatchesLog, CopyInProgress, host, ring, counts
  <2> QED
    BY <2>2, <2>3 DEF WriteIInv
<1>8. CASE TriggerIntr
  <2>1. call \in Calls
    BY <1>t, <1>8 DEF TriggerIntr, CopyInProgress
  <2>2. TypeOK'
    <3>1. ret' \in [Calls -> Results] /\ irq' \in BOOLEAN /\ pc' = "idle"
      BY <1>t, <1>8, <2>1 DEF TriggerIntr, Return, TypeOK, Results
    <3>2. UNCHANGED <<ring, host, mbx, awake, num, done, woff, call, size, log, counts>>
      BY <1>8 DEF TriggerIntr
    <3> QED
      BY <1>t, <3>1, <3>2 DEF TypeOK, host, ring, counts
  <2>3. (CountsInOrder /\ OffsetsMatchCounts /\ CachedRdIsSafe /\ ContentMatchesLog /\ CopyInProgress)'
    BY <1>t, <1>8 DEF TriggerIntr, Return, CountsInOrder, OffsetsMatchCounts, CachedRdIsSafe,
       ContentMatchesLog, CopyInProgress, host, ring, counts
  <2> QED
    BY <2>2, <2>3 DEF WriteIInv
<1>9. CASE UnblockWriter
  <2>1. /\ blocked' \in BOOLEAN
        /\ UNCHANGED <<mem, srd, swr, hrd, hwr, mbx, irq, awake, pc, num, done,
                       woff, call, size, ret, log, hcnt, scnt, rcnt>>
    BY <1>t, <1>9 DEF UnblockWriter, ring, bell, local, counts
  <2>2. TypeOK'
    BY <1>t, <2>1 DEF TypeOK
  <2>3. CountsInOrder' /\ OffsetsMatchCounts' /\ CachedRdIsSafe'
    BY <1>t, <2>1 DEF CountsInOrder, OffsetsMatchCounts, CachedRdIsSafe
  <2>4. ContentMatchesLog' /\ CopyInProgress'
    BY <1>t, <2>1 DEF ContentMatchesLog, CopyInProgress
  <2> QED
    BY <2>2, <2>3, <2>4 DEF WriteIInv
<1>10. CASE SlaveIsr
  <2>1. /\ mbx' \in BOOLEAN /\ irq' \in BOOLEAN /\ awake' \in BOOLEAN
        /\ UNCHANGED <<mem, srd, swr, hrd, hwr, blocked, pc, num, done,
                       woff, call, size, ret, log, hcnt, scnt, rcnt>>
    BY <1>t, <1>10 DEF SlaveIsr, TypeOK, ring, host, local, counts
  <2>2. TypeOK'
    BY <1>t, <2>1 DEF TypeOK
  <2>3. CountsInOrder' /\ OffsetsMatchCounts' /\ CachedRdIsSafe'
    BY <1>t, <2>1 DEF CountsInOrder, OffsetsMatchCounts, CachedRdIsSafe
  <2>4. ContentMatchesLog' /\ CopyInProgress'
    BY <1>t, <2>1 DEF ContentMatchesLog, CopyInProgress
  <2> QED
    BY <2>2, <2>3, <2>4 DEF WriteIInv
<1>11. CASE SlaveIdle
  <2>1. /\ awake' \in BOOLEAN
        /\ UNCHANGED <<mem, srd, swr, hrd, hwr, blocked, mbx, irq, pc, num, done,
                       woff, call, size, ret, log, hcnt, scnt, rcnt>>
    BY <1>t, <1>11 DEF SlaveIdle, ring, host, local, counts
  <2>2. TypeOK'
    BY <1>t, <2>1 DEF TypeOK
  <2>3. CountsInOrder' /\ OffsetsMatchCounts' /\ CachedRdIsSafe'
    BY <1>t, <2>1 DEF CountsInOrder, OffsetsMatchCounts, CachedRdIsSafe
  <2>4. ContentMatchesLog' /\ CopyInProgress'
    BY <1>t, <2>1 DEF ContentMatchesLog, CopyInProgress
  <2> QED
    BY <2>2, <2>3, <2>4 DEF WriteIInv
<1>12. CASE SlaveTake
  <2> DEFINE d == hcnt - rcnt
             c == scnt - rcnt
  <2>0. /\ srd \in Offsets /\ hrd \in Offsets /\ hwr \in Offsets
        /\ hcnt \in Nat /\ rcnt \in Nat /\ scnt \in Nat
        /\ hcnt <= MaxWords /\ srd # swr
        /\ srd' = Advance(srd, 1) /\ rcnt' = rcnt + 1
        /\ UNCHANGED <<mem, swr, hrd, hwr, blocked, mbx, irq, awake, pc, num,
                       done, woff, call, size, ret, log, hcnt, scnt>>
    BY <1>t, <1>12, WriteAssumption DEF SlaveTake, TypeOK, host, bell, local
  <2>1. /\ c \in Nat /\ d \in 0 .. (N - 1) /\ c <= d
        /\ swr = Advance(srd, c) /\ hwr = Advance(srd, d)
    BY <1>t, <2>0, NAssumption DEF CountsInOrder, OffsetsMatchCounts, Capacity
  <2>2. c >= 1
    <3>1. Advance(srd, 0) = srd
      BY <2>0, NAssumption DEF Advance, Offsets
    <3> QED
      BY <2>0, <2>1, <3>1
  <2>3. srd' \in Offsets /\ rcnt' \in 0 .. MaxWords /\ rcnt' <= scnt
    BY <2>0, <2>1, <2>2, AdvanceType, NAssumption, WriteAssumption
  <2>4. ASSUME NEW a \in Nat, a < d
        PROVE  Advance(srd', a) = Advance(srd, a + 1)
    <3>1. 1 \in Nat /\ 1 + a < N /\ 1 + a = a + 1
      BY <2>1, <2>4, NAssumption
    <3> QED
      BY <2>0, <3>1, AdvanceAdd
  <2>5. (TypeOK /\ CountsInOrder)'
    <3>1. TypeOK'
      BY <1>t, <2>0, <2>3 DEF TypeOK
    <3>2. hcnt' - rcnt' <= N - 1 /\ scnt' <= hcnt' /\ rcnt' <= scnt'
      BY <2>0, <2>1, <2>3, NAssumption
    <3> QED
      BY <3>1, <3>2 DEF CountsInOrder, Capacity
  <2>6. OffsetsMatchCounts'
    <3>1. /\ c - 1 \in Nat /\ d - 1 \in Nat /\ c - 1 < d /\ d - 1 < d
          /\ (c - 1) + 1 = c /\ (d - 1) + 1 = d
          /\ scnt' - rcnt' = c - 1 /\ hcnt' - rcnt' = d - 1
      BY <2>0, <2>1, <2>2
    <3>2. Advance(srd', c - 1) = swr /\ Advance(srd', d - 1) = hwr
      BY <2>1, <2>4, <3>1
    <3> QED
      BY <2>0, <3>1, <3>2 DEF OffsetsMatchCounts
  <2>7. CachedRdIsSafe'
    <3>1. NumWords(srd, hwr) = d
      BY <2>0, <2>1, BufDiffAdvance DEF NumWords
    <3>2. d - 1 \in 0 .. (N - 1) /\ hwr = Advance(srd', d - 1)
      <4>1. d - 1 \in 0 .. (N - 1) /\ hcnt' - rcnt' = d - 1
        BY <2>0, <2>1, <2>2, NAssumption
      <4> QED
        BY <2>0, <2>6, <4>1 DEF OffsetsMatchCounts
    <3>3. NumWords(srd', hwr) = d - 1
      BY <2>3, <3>2, BufDiffAdvance DEF NumWords
    <3>4. NumWords(hrd, hwr) \in Int /\ d <= NumWords(hrd, hwr)
      BY <1>t, <2>0, <3>1, AdvanceBufDiff DEF CachedRdIsSafe, NumWords
    <3>5. d - 1 <= NumWords(hrd, hwr) /\ NumWords(hrd', hwr') = NumWords(hrd, hwr)
          /\ NumWords(srd', hwr') = NumWords(srd', hwr)
      BY <2>0, <2>1, <3>4
    <3> QED
      BY <3>3, <3>5 DEF CachedRdIsSafe
  <2>8. ContentMatchesLog'
    <3> SUFFICES ASSUME NEW i \in 0 .. (hcnt' - rcnt' - 1)
                 PROVE  mem'[Advance(srd', i)] = log'[rcnt' + i]
      BY DEF ContentMatchesLog
    <3>1. /\ i \in Nat /\ i < d /\ i + 1 \in 0 .. (hcnt - rcnt - 1)
          /\ rcnt' + i = rcnt + (i + 1)
      BY <2>0, <2>1
    <3>2. mem[Advance(srd, i + 1)] = log[rcnt + (i + 1)]
      BY <1>t, <3>1 DEF ContentMatchesLog
    <3> QED
      BY <2>0, <2>4, <3>1, <3>2
  <2>9. CopyInProgress'
    BY <1>t, <2>0 DEF CopyInProgress
  <2> QED
    BY <2>5, <2>6, <2>7, <2>8, <2>9 DEF WriteIInv
<1>13. CASE UNCHANGED vars
  <2>1. UNCHANGED <<mem, srd, swr, hrd, hwr, blocked, mbx, irq, awake, pc, num, done,
                       woff, call, size, ret, log, hcnt, scnt, rcnt>>
    BY <1>t, <1>13 DEF vars, ring, host, bell, local, counts
  <2>2. TypeOK'
    BY <1>t, <2>1 DEF TypeOK
  <2>3. CountsInOrder' /\ OffsetsMatchCounts' /\ CachedRdIsSafe'
    BY <1>t, <2>1 DEF CountsInOrder, OffsetsMatchCounts, CachedRdIsSafe
  <2>4. ContentMatchesLog' /\ CopyInProgress'
    BY <1>t, <2>1 DEF ContentMatchesLog, CopyInProgress
  <2> QED
    BY <2>2, <2>3, <2>4 DEF WriteIInv
<1> QED
  BY <1>1, <1>2, <1>3, <1>4, <1>5, <1>6, <1>7, <1>8, <1>9, <1>10, <1>11,
     <1>12, <1>13 DEF Next, WriteStep, SlaveStep

-----------------------------------------------------------------------------
(* The theorems *)

\* The invariant holds in every reachable state.
THEOREM WriteInvariant == Spec => []WriteIInv
<1> QED
  BY InitIInv, NextIInv, PTL DEF Spec

\* Every offset stays in the ring and every counter in its range.
THEOREM WriteTypeCorrect == Spec => []TypeOK
<1>1. WriteIInv => TypeOK
  BY DEF WriteIInv
<1> QED
  BY <1>1, WriteInvariant, PTL

\* Whatever the slave has consumed since rd_offset was last pulled, the free
\* space mt7697q_write computes is really free.
THEOREM CachedReadPointerIsSafe == Spec => []CachedRdIsSafe
<1>1. WriteIInv => CachedRdIsSafe
  BY DEF WriteIInv
<1> QED
  BY <1>1, WriteInvariant, PTL

\* Both: the offsets are in the ring and what the driver believes of them is safe.
THEOREM RingIsSound == Spec => []RingSound
<1>1. TypeOK /\ CachedRdIsSafe => RingSound
  BY DEF RingSound
<1> QED
  BY <1>1, WriteTypeCorrect, CachedReadPointerIsSafe, PTL

\* The invariant implies that the slave reads the committed words only.
LEMMA SlaveSeesCommitted == WriteIInv => SlaveReadsCommitted
<1> SUFFICES ASSUME WriteIInv PROVE SlaveReadsCommitted
  OBVIOUS
<1>1. /\ srd \in Offsets /\ rcnt \in Nat /\ scnt \in Nat /\ hcnt \in Nat
      /\ rcnt <= scnt /\ scnt <= hcnt /\ scnt - rcnt \in 0 .. (N - 1)
      /\ swr = Advance(srd, scnt - rcnt)
  BY NAssumption, WriteAssumption
     DEF WriteIInv, TypeOK, CountsInOrder, OffsetsMatchCounts, Capacity
<1>2. NumWords(srd, swr) = scnt - rcnt
  BY <1>1, BufDiffAdvance DEF NumWords
<1>3. ASSUME NEW i \in 0 .. (scnt - rcnt - 1)
      PROVE  mem[Advance(srd, i)] = log[rcnt + i]
  <2>1. i \in 0 .. (hcnt - rcnt - 1)
    BY <1>1
  <2> QED
    BY <2>1 DEF WriteIInv, ContentMatchesLog
<1> QED
  BY <1>2, <1>3 DEF SlaveReadsCommitted

\* The slave reads exactly the committed words, in order, whatever the sizes
\* of ring and messages and wherever an SPI transfer fails.
THEOREM SlaveReadsOnlyCommitted == Spec => []SlaveReadsCommitted
<1> QED
  BY SlaveSeesCommitted, WriteInvariant, PTL

-----------------------------------------------------------------------------
(* Refinement: the ring implements WordFifo                                 *)

\* n words of a log, from position a on, as a sequence.
Segment(l, a, n) == [i \in 1 .. n |-> l[a + (i - 1)]]

\* A function on 1 .. n is a sequence of length n.
LEMMA FunctionIsSeq ==
    ASSUME NEW V, NEW s, NEW n \in Nat, s \in [1 .. n -> V]
    PROVE  s \in Seq(V) /\ Len(s) = n
BY SeqDef, LenProperties

\* A segment is as long as it says.
LEMMA SegmentLength ==
    ASSUME NEW l, NEW a \in Nat, NEW n \in Nat
    PROVE  Len(Segment(l, a, n)) = n
<1> DEFINE W == {l[a + (i - 1)] : i \in 1 .. n}
<1>1. Segment(l, a, n) \in [1 .. n -> W]
  BY DEF Segment
<1> QED
  BY <1>1, FunctionIsSeq

\* Taking the first word leaves the segment that starts one word later.
LEMMA SegmentTail ==
    ASSUME NEW l, NEW a \in Nat, NEW n \in Nat, n > 0
    PROVE  /\ Segment(l, a, n) # << >>
           /\ Tail(Segment(l, a, n)) = Segment(l, a + 1, n - 1)
<1> DEFINE s == Segment(l, a, n)
           t == Segment(l, a + 1, n - 1)
           V == {l[a + (i - 1)] : i \in 1 .. n}
<1>1. s \in [1 .. n -> V] /\ \A i \in 1 .. n : s[i] = l[a + (i - 1)]
  BY DEF Segment
<1>2. /\ t \in [1 .. (n - 1) -> V]
      /\ \A i \in 1 .. (n - 1) : t[i] = l[(a + 1) + (i - 1)]
  <2>1. ASSUME NEW i \in 1 .. (n - 1)
        PROVE  l[(a + 1) + (i - 1)] \in V
    BY i + 1 \in 1 .. n, (a + 1) + (i - 1) = a + ((i + 1) - 1)
  <2> QED
    BY <2>1 DEF Segment
<1> HIDE DEF s, t, V
<1>3. s \in Seq(V) /\ Len(s) = n /\ t \in Seq(V) /\ Len(t) = n - 1
  BY <1>1, <1>2, FunctionIsSeq
<1>4. s # << >>
  BY <1>3, EmptySeq
<1>5. /\ Tail(s) \in Seq(V) /\ Len(Tail(s)) = n - 1
      /\ \A i \in 1 .. (n - 1) : Tail(s)[i] = s[i + 1]
  BY <1>3, <1>4, HeadTailProperties
<1>6. ASSUME NEW i \in 1 .. (n - 1)
      PROVE  Tail(s)[i] = t[i]
  <2>1. i + 1 \in 1 .. n /\ a + ((i + 1) - 1) = (a + 1) + (i - 1)
    OBVIOUS
  <2> QED
    BY <1>1, <1>2, <1>5, <2>1
<1>7. Tail(s) = t
  BY <1>3, <1>5, <1>6, SeqEqual
<1> QED
  BY <1>4, <1>7 DEF s, t

\* A shorter segment from the same position is a prefix.
LEMMA SegmentPrefix ==
    ASSUME NEW l, NEW a \in Nat, NEW n \in Nat, NEW m \in Nat, m <= n
    PROVE  SubSeq(Segment(l, a, n), 1, m) = Segment(l, a, m)
<1> DEFINE s == Segment(l, a, n)
           t == Segment(l, a, m)
           u == SubSeq(s, 1, m)
           V == {l[a + (i - 1)] : i \in 1 .. n}
<1>1. s \in [1 .. n -> V] /\ \A i \in 1 .. n : s[i] = l[a + (i - 1)]
  BY DEF Segment
<1>2. t \in [1 .. m -> V] /\ \A i \in 1 .. m : t[i] = l[a + (i - 1)]
  BY DEF Segment
<1> HIDE DEF s, t, V
<1>3. t \in Seq(V) /\ Len(t) = m
  BY <1>2, FunctionIsSeq
<1>4. \A i \in 1 .. m : s[i] \in V
  BY <1>1
<1>5. /\ u \in Seq(V) /\ Len(u) = (IF 1 <= m THEN m - 1 + 1 ELSE 0)
      /\ \A i \in 1 .. (m - 1 + 1) : u[i] = s[1 + i - 1]
  BY <1>4, SubSeqProperties
<1>6. Len(u) = m /\ \A i \in 1 .. m : u[i] = t[i]
  BY <1>1, <1>2, <1>5
<1>7. u = t
  BY <1>3, <1>5, <1>6, SeqEqual
<1> QED
  BY <1>7 DEF s, t

\* In terms of the history, the slave sees the words from rcnt to scnt.
LEMMA VisibleIsPublished ==
    WriteIInv =>
      /\ scnt - rcnt \in Nat
      /\ Visible = Segment(log, rcnt, scnt - rcnt)
<1> SUFFICES ASSUME WriteIInv
             PROVE  /\ scnt - rcnt \in Nat
                    /\ Visible = Segment(log, rcnt, scnt - rcnt)
  OBVIOUS
<1>1. NumWords(srd, swr) = scnt - rcnt
  BY SlaveSeesCommitted DEF SlaveReadsCommitted
<1>2. scnt - rcnt \in Nat
  BY WriteAssumption DEF WriteIInv, TypeOK, CountsInOrder
<1>3. ASSUME NEW i \in 1 .. (scnt - rcnt)
      PROVE  mem[Advance(srd, i - 1)] = log[rcnt + (i - 1)]
  <2>1. i - 1 \in 0 .. (scnt - rcnt - 1)
    BY <1>2
  <2> QED
    BY <2>1, SlaveSeesCommitted DEF SlaveReadsCommitted
<1> QED
  BY <1>1, <1>2, <1>3 DEF Visible, Segment

\* The history of a step: the slave takes one word, or the driver publishes all
\* it has committed, or the published words stay what they are.
LEMMA StepOnHistory ==
    ASSUME WriteIInv, [Next]_vars
    PROVE  \/ /\ rcnt < scnt /\ rcnt' = rcnt + 1 /\ scnt' = scnt /\ log' = log
           \/ rcnt' = rcnt /\ scnt' = hcnt /\ log' = log
           \/ /\ rcnt' = rcnt /\ scnt' = scnt
              /\ \A p \in rcnt .. (scnt - 1) : log'[p] = log[p]
<1>0. /\ rcnt \in Nat /\ scnt \in Nat /\ hcnt \in Nat
      /\ rcnt <= scnt /\ scnt <= hcnt /\ hcnt <= MaxWords
      /\ DOMAIN log = 0 .. (MaxWords - 1)
  BY WriteAssumption DEF WriteIInv, TypeOK, CountsInOrder
<1>1. CASE SlaveTake
  <2>1. srd # swr /\ rcnt' = rcnt + 1 /\ scnt' = scnt /\ log' = log
    BY <1>1 DEF SlaveTake
  <2>2. rcnt # scnt
    BY <2>1, NAssumption
       DEF WriteIInv, TypeOK, OffsetsMatchCounts, Advance, Offsets
  <2> QED
    BY <1>0, <2>1, <2>2
<1>2. CASE PushWrPtr
  BY <1>2 DEF PushWrPtr
<1>3. CASE Commit
  <2>1. /\ rcnt' = rcnt /\ scnt' = scnt
        /\ \/ log' = log
           \/ log' = [p \in DOMAIN log |->
                         IF p \in hcnt .. (hcnt + done - 1)
                         THEN Word(call, p - hcnt) ELSE log[p]]
    BY <1>3 DEF Commit
  <2>2. ASSUME NEW p \in rcnt .. (scnt - 1)
        PROVE  log'[p] = log[p]
    <3>1. p \in DOMAIN log /\ p \notin hcnt .. (hcnt + done - 1)
      BY <1>0, WriteAssumption
    <3> QED
      BY <2>1, <3>1
  <2> QED
    BY <2>1, <2>2
<1>4. CASE \/ \E n \in MsgSizes : Enter(n)
           \/ PullRdPtr \/ CopyRun1 \/ CopyRun2 \/ WrM2sMbx \/ TriggerIntr
           \/ UnblockWriter \/ SlaveIsr \/ SlaveIdle \/ UNCHANGED vars
  <2>1. UNCHANGED <<rcnt, scnt, log>>
    BY <1>4 DEF Enter, PullRdPtr, CopyRun1, CopyRun2, WrM2sMbx, TriggerIntr,
                UnblockWriter, SlaveIsr, SlaveIdle, vars, counts
  <2> QED
    BY <2>1
<1> QED
  BY <1>1, <1>2, <1>3, <1>4 DEF Next, WriteStep, SlaveStep

\* Every step of the driver and of the slave is a step of the FIFO or leaves
\* the words the slave can take as they are.
LEMMA StepIsFifoStep ==
    ASSUME WriteIInv, WriteIInv', [Next]_vars
    PROVE  [Fifo!Put \/ Fifo!Take]_Visible
<1> DEFINE n == scnt - rcnt
<1>1. /\ n \in Nat /\ Visible = Segment(log, rcnt, n)
      /\ n' \in Nat /\ Visible' = Segment(log', rcnt', n')
  <2>1. (WriteIInv => n \in Nat /\ Visible = Segment(log, rcnt, n))'
    BY VisibleIsPublished, PTL
  <2>2. n' \in Nat /\ Visible' = Segment(log, rcnt, n)'
    BY <2>1
  <2> QED
    BY <2>2, VisibleIsPublished DEF Segment
<1>2. /\ rcnt \in Nat /\ scnt \in Nat /\ hcnt \in Nat
      /\ rcnt <= scnt /\ scnt <= hcnt /\ hcnt - rcnt <= Capacity
      /\ Capacity \in Nat
  BY NAssumption, WriteAssumption
     DEF WriteIInv, TypeOK, CountsInOrder, Capacity
<1> HIDE DEF n
<1>5. CASE rcnt < scnt /\ rcnt' = rcnt + 1 /\ scnt' = scnt /\ log' = log
  <2>1. n > 0 /\ n' = n - 1
    BY <1>2, <1>5 DEF n
  <2>2. /\ Segment(log, rcnt, n) # << >>
        /\ Tail(Segment(log, rcnt, n)) = Segment(log, rcnt + 1, n - 1)
    BY <1>1, <1>2, <2>1, SegmentTail
  <2>3. Visible # << >> /\ Visible' = Tail(Visible)
    BY <1>1, <1>5, <2>1, <2>2
  <2> QED
    BY <2>3 DEF Fifo!Take
<1>6. CASE rcnt' = rcnt /\ scnt' = hcnt /\ log' = log
  <2>1. n <= n' /\ n' <= Capacity
    BY <1>1, <1>2, <1>6 DEF n
  <2>2. SubSeq(Segment(log, rcnt, n'), 1, n) = Segment(log, rcnt, n)
    <3>1. rcnt \in Nat /\ n \in Nat /\ n' \in Nat /\ n <= n'
      BY <1>1, <1>2, <2>1
    <3> QED
      BY <3>1, SegmentPrefix, Zenon
  <2>3. Len(Visible) = n /\ Len(Visible') = n'
    BY <1>1, <1>2, <1>6, SegmentLength
  <2>4. CASE n = n'
    BY <1>1, <1>6, <2>4
  <2>5. CASE n < n'
    <3>1. SubSeq(Visible', 1, Len(Visible)) = Visible
      BY <1>1, <1>6, <2>2, <2>3
    <3>2. Len(Visible) < Len(Visible') /\ Len(Visible') <= Capacity
      BY <2>1, <2>3, <2>5
    <3> QED
      BY <3>1, <3>2 DEF Fifo!Put
  <2> QED
    BY <1>1, <2>1, <2>4, <2>5
<1>7. CASE /\ rcnt' = rcnt /\ scnt' = scnt
           /\ \A p \in rcnt .. (scnt - 1) : log'[p] = log[p]
  <2>1. n' = n
    BY <1>7 DEF n
  <2>2. ASSUME NEW i \in 1 .. n
        PROVE  log'[rcnt + (i - 1)] = log[rcnt + (i - 1)]
    <3>1. rcnt + (i - 1) \in rcnt .. (scnt - 1)
      BY <1>2 DEF n
    <3> QED
      BY <1>7, <3>1
  <2>3. Segment(log', rcnt', n') = Segment(log, rcnt, n)
    BY <1>7, <2>1, <2>2 DEF Segment
  <2> QED
    BY <1>1, <2>3
<1> QED
  BY <1>5, <1>6, <1>7, StepOnHistory

\* An empty ring is an empty queue.
LEMMA InitIsFifoInit == Init => Fifo!FifoInit
<1> SUFFICES ASSUME Init PROVE Visible = << >>
  BY DEF Fifo!FifoInit
<1>1. NumWords(srd, swr) = 0
  BY DEF Init, NumWords, BufDiff, Offsets
<1>2. Visible \in [1 .. 0 -> {}]
  BY <1>1 DEF Visible
<1>3. Visible \in Seq({}) /\ Len(Visible) = 0
  BY <1>2, FunctionIsSeq
<1> QED
  BY <1>3, EmptySeq

\* For every ring size, every set of message sizes and every pattern of SPI
\* failures, mt7697q_write and the slave between them implement the bounded
\* FIFO of WordFifo.
THEOREM WriteImplementsFifo == Spec => ImplementsFifo
<1>1. WriteIInv /\ WriteIInv' /\ [Next]_vars => [Fifo!Put \/ Fifo!Take]_Visible
  BY StepIsFifoStep
<1> QED
  BY <1>1, InitIsFifoInit, WriteInvariant, PTL DEF Spec, ImplementsFifo, Fifo!FifoSpec

-----------------------------------------------------------------------------
(* Whole messages and honest results                                       *)

\* The ranges of the history that the lemmas below need.
LEMMA HistoryTypes ==
    ASSUME WriteIInv
    PROVE  /\ hcnt \in Nat /\ scnt \in Nat /\ scnt <= hcnt /\ hcnt <= MaxWords
           /\ call \in Nat /\ call <= MaxCalls
           /\ size \in [Calls -> Nat] /\ ret \in [Calls -> Results]
           /\ log \in [0 .. (MaxWords - 1) -> (0 .. MaxCalls) \X Nat]
           /\ (pc # "idle" => call \in Calls)
           /\ num \in Nat /\ done \in Nat
<1>1. TypeOK /\ CountsInOrder /\ CopyInProgress
  BY DEF WriteIInv
<1>2. /\ hcnt \in Nat /\ scnt \in Nat /\ hcnt <= MaxWords
      /\ call \in Nat /\ call <= MaxCalls
  BY <1>1, WriteAssumption DEF TypeOK
<1>3. scnt <= hcnt /\ (pc # "idle" => call \in Calls)
  BY <1>1 DEF CountsInOrder, CopyInProgress
<1> QED
  BY <1>1, <1>2, <1>3 DEF TypeOK

\* A longer history has the positions of a shorter one.
LEMMA PrefixGrows ==
    ASSUME NEW a \in Nat, NEW b \in Nat, NEW c \in {a, b}, a <= b
    PROVE  \A p \in 0 .. (a - 1) : p \in 0 .. (c - 1)
<1> TAKE p \in 0 .. (a - 1)
<1>1. c \in Nat /\ a <= c
  OBVIOUS
<1> QED
  BY <1>1

\* Before the first call the history is empty.
LEMMA InitHistory == Init => HistoryIInv
<1> SUFFICES ASSUME Init PROVE HistoryIInv
  OBVIOUS
<1>1. LogIsWhole
  BY DEF Init, LogIsWhole
<1>2. CallMatchesLog
  BY DEF Init, CallMatchesLog
<1>3. ResultsMatchLog
  BY DEF Init, ResultsMatchLog
<1> QED
  BY <1>1, <1>2, <1>3 DEF HistoryIInv

\* A step that commits nothing keeps the log whole, also when the slave's
\* wr_offset catches up with the driver's.
LEMMA LogKept ==
    ASSUME WriteIInv, LogIsWhole, UNCHANGED <<log, hcnt>>,
           scnt' \in {scnt, hcnt}, call' \in {call, call + 1},
           \A c \in 1 .. call : size'[c] = size[c]
    PROVE  LogIsWhole'
<1>t. /\ hcnt \in Nat /\ scnt \in Nat /\ scnt <= hcnt /\ call \in Nat
  BY HistoryTypes
<1>1. ASSUME NEW p \in 0 .. (hcnt - 1)
      PROVE  /\ log[p][1] \in 1 .. call /\ log[p][1] \in 1 .. call'
             /\ size'[log[p][1]] = size[log[p][1]]
  BY <1>t DEF LogIsWhole
<1>2. \A p \in 0 .. (hcnt' - 1) :
        LET c == log'[p][1]
            first == p - log'[p][2]
        IN /\ c \in 1 .. call'
           /\ first >= 0 /\ first + size'[c] <= hcnt'
           /\ \A j \in 0 .. (size'[c] - 1) : log'[first + j] = Word(c, j)
  BY <1>1 DEF LogIsWhole
<1>3. ASSUME NEW cnt \in {hcnt', scnt'}, cnt > 0
      PROVE  log'[cnt - 1][2] = size'[log'[cnt - 1][1]] - 1
  <2>1. cnt \in {hcnt, scnt} /\ cnt - 1 \in 0 .. (hcnt - 1)
    BY <1>t, <1>3
  <2> QED
    BY <1>1, <1>3, <2>1 DEF LogIsWhole
<1> QED
  BY <1>2, <1>3 DEF LogIsWhole

\* A call that returns keeps the history, if its result is what happened.
LEMMA ReturnKeeps ==
    ASSUME WriteIInv, HistoryIInv, pc # "idle", NEW r \in {"ok", "again", "error"},
           UNCHANGED <<log, hcnt, call, size>>, scnt' \in {scnt, hcnt},
           Return(r),
           r = "ok" => \E p \in 0 .. (scnt - 1) : log[p][1] = call,
           r = "again" => \A p \in 0 .. (hcnt - 1) : log[p][1] # call
    PROVE  HistoryIInv'
<1>t. /\ hcnt \in Nat /\ scnt \in Nat /\ scnt <= hcnt /\ call \in Calls
      /\ ret \in [Calls -> Results]
  BY HistoryTypes
<1>h. LogIsWhole /\ CallMatchesLog /\ ResultsMatchLog
  BY DEF HistoryIInv
<1>1. LogIsWhole'
  BY <1>h, LogKept
<1>2. /\ pc' = "idle" /\ ret'[call] = r
      /\ \A c \in Calls : c # call => ret'[c] = ret[c]
  BY <1>t DEF Return
<1>3. CallMatchesLog'
  <2> SUFFICES ASSUME NEW c \in Calls, c > call PROVE ret'[c] = "none"
    BY <1>2 DEF CallMatchesLog
  <2>1. c # call
    BY <1>t DEF Calls
  <2> QED
    BY <1>h, <1>2, <2>1 DEF CallMatchesLog
<1>4. ResultsMatchLog'
  <2> SUFFICES ASSUME NEW c \in Calls
               PROVE  /\ ret'[c] = "ok" => \E p \in 0 .. (scnt' - 1) : log[p][1] = c
                      /\ ret'[c] = "again" => \A p \in 0 .. (hcnt - 1) : log[p][1] # c
    BY DEF ResultsMatchLog
  <2>1. \A p \in 0 .. (scnt - 1) : p \in 0 .. (scnt' - 1)
    BY <1>t, PrefixGrows
  <2>2. CASE c = call
    BY <1>2, <2>1, <2>2
  <2>3. CASE c # call
    BY <1>h, <1>2, <2>1, <2>3 DEF ResultsMatchLog
  <2> QED
    BY <2>2, <2>3
<1> QED
  BY <1>1, <1>3, <1>4 DEF HistoryIInv

\* A call that goes on keeps it too, if it is where its words are.
LEMMA GoOnKeeps ==
    ASSUME WriteIInv, HistoryIInv, pc # "idle",
           UNCHANGED <<log, hcnt, call, size, ret>>, scnt' \in {scnt, hcnt},
           \/ pc \in {"run1", "run2"} /\ pc' \in {"run2", "commit"} /\ num' + done' = num + done
           \/ pc = "push" /\ pc' = "mbx" /\ scnt' = hcnt
           \/ pc = "mbx" /\ pc' = "trigger"
    PROVE  HistoryIInv'
<1>t. /\ hcnt \in Nat /\ scnt \in Nat /\ scnt <= hcnt /\ call \in Calls
  BY HistoryTypes
<1>h. LogIsWhole /\ CallMatchesLog /\ ResultsMatchLog
  BY DEF HistoryIInv
<1>1. LogIsWhole'
  BY <1>h, LogKept
<1>0. \A p \in 0 .. (scnt - 1) : p \in 0 .. (scnt' - 1)
  BY <1>t, PrefixGrows
<1>2. CallMatchesLog'
  BY <1>h, <1>0 DEF CallMatchesLog
<1>3. ResultsMatchLog'
  BY <1>h, <1>0 DEF ResultsMatchLog
<1> QED
  BY <1>1, <1>2, <1>3 DEF HistoryIInv

\* The commit appends the whole message of the call under way, which was not
\* there before.
LEMMA CommitAppends ==
    ASSUME WriteIInv, HistoryIInv, Commit, pc' = "push"
    PROVE  HistoryIInv'
<1>t. /\ hcnt \in Nat /\ scnt \in Nat /\ scnt <= hcnt /\ call \in Nat
      /\ hcnt <= MaxWords /\ MaxWords \in Nat
      /\ DOMAIN log = 0 .. (MaxWords - 1)
      /\ size \in [Calls -> Nat] /\ call \in Calls /\ done \in Nat
  BY HistoryTypes, WriteAssumption DEF Commit
<1>h. LogIsWhole /\ CallMatchesLog /\ ResultsMatchLog
  BY DEF HistoryIInv
<1>1. /\ pc = "commit"
      /\ log' = [p \in DOMAIN log |->
                    IF p \in hcnt .. (hcnt + done - 1)
                    THEN Word(call, p - hcnt) ELSE log[p]]
      /\ hcnt' = hcnt + done
      /\ UNCHANGED <<call, size, ret, scnt>>
  BY DEF Commit, Return
<1>2. done = size[call] /\ done > 0 /\ hcnt + done <= MaxWords
  BY <1>t, <1>h, <1>1 DEF CallMatchesLog, WriteIInv, CopyInProgress
<1>3. \A p \in 0 .. (hcnt - 1) : log'[p] = log[p]
  BY <1>t, <1>1
<1>4. \A j \in 0 .. (done - 1) : log'[hcnt + j] = <<call, j>>
  <2> TAKE j \in 0 .. (done - 1)
  <2>1. hcnt + j \in DOMAIN log /\ hcnt + j \in hcnt .. (hcnt + done - 1)
        /\ (hcnt + j) - hcnt = j
    BY <1>t, <1>2
  <2> QED
    BY <1>1, <2>1 DEF Word
<1>5. ASSUME NEW p \in 0 .. (hcnt' - 1)
      PROVE  p \in 0 .. (hcnt - 1) \/ \E j \in 0 .. (done - 1) : p = hcnt + j
  <2>1. CASE p >= hcnt
    <3>1. p - hcnt \in 0 .. (done - 1) /\ p = hcnt + (p - hcnt)
      BY <1>t, <1>1, <2>1
    <3> QED
      BY <3>1
  <2> QED
    BY <1>t, <1>1, <2>1
<1>n. \A p \in 0 .. (hcnt - 1) : log[p][1] # call
  BY <1>h, <1>1 DEF CallMatchesLog
<1>6. LogIsWhole'
  <2>1. ASSUME NEW p \in 0 .. (hcnt' - 1)
        PROVE  LET c == log'[p][1]
                   first == p - log'[p][2]
               IN /\ c \in 1 .. call'
                  /\ first >= 0 /\ first + size'[c] <= hcnt'
                  /\ \A j \in 0 .. (size'[c] - 1) : log'[first + j] = Word(c, j)
    <3>1. CASE p \in 0 .. (hcnt - 1)
      <4> DEFINE c == log[p][1]
                 first == p - log[p][2]
      <4>0. /\ c \in 1 .. call
            /\ first >= 0 /\ first + size[c] <= hcnt
            /\ \A j \in 0 .. (size[c] - 1) : log[first + j] = Word(c, j)
        BY <1>h, <3>1 DEF LogIsWhole
      <4>1. c \in Calls
        BY <1>t, <4>0, HistoryTypes, WriteAssumption DEF Calls
      <4>2. log[p][2] \in Nat
        BY <1>t, <3>1, HistoryTypes
      <4>3. size[c] \in Nat /\ first \in Int
        <5>1. first \in Int
          BY <3>1, <4>2
        <5> QED
          BY <1>t, <4>1, <5>1
      <4>6. log'[p][1] = c /\ p - log'[p][2] = first
        BY <1>3, <3>1
      <4> HIDE DEF c, first
      <4>4. \A j \in 0 .. (size[c] - 1) : first + j \in 0 .. (hcnt - 1)
        BY <1>t, <4>0, <4>3
      <4>5. first + size[c] <= hcnt'
        BY <1>1, <1>t, <4>0, <4>3
      <4> QED
        BY <1>1, <1>3, <4>0, <4>4, <4>5, <4>6
    <3>2. ASSUME NEW j \in 0 .. (done - 1), p = hcnt + j
          PROVE  LET c == log'[p][1]
                     first == p - log'[p][2]
                 IN /\ c \in 1 .. call'
                    /\ first >= 0 /\ first + size'[c] <= hcnt'
                    /\ \A i \in 0 .. (size'[c] - 1) : log'[first + i] = Word(c, i)
      <4>1. log'[p] = <<call, j>>
        BY <1>4, <3>2
      <4>2. log'[p][1] = call /\ log'[p][2] = j
        BY <4>1
      <4>3. p - j = hcnt
        BY <1>t, <3>2
      <4>4. /\ call \in 1 .. call' /\ size'[call] = done /\ hcnt >= 0
            /\ hcnt + done <= hcnt'
        BY <1>t, <1>1, <1>2 DEF Calls
      <4>5. \A i \in 0 .. (done - 1) : log'[hcnt + i] = Word(call, i)
        BY <1>4 DEF Word
      <4> QED
        BY <4>2, <4>3, <4>4, <4>5
    <3> QED
      BY <1>5, <3>1, <3>2
  <2>2. hcnt' > 0 => log'[hcnt' - 1][2] = size'[log'[hcnt' - 1][1]] - 1
    <3>1. done - 1 \in 0 .. (done - 1) /\ hcnt' - 1 = hcnt + (done - 1)
      BY <1>t, <1>1, <1>2
    <3>2. log'[hcnt' - 1] = <<call, done - 1>>
      BY <1>4, <3>1
    <3>3. log'[hcnt' - 1][1] = call /\ log'[hcnt' - 1][2] = done - 1
      BY <3>2
    <3>4. size'[call] = done
      BY <1>1, <1>2
    <3> QED
      BY <3>3, <3>4
  <2>3. scnt' > 0 => log'[scnt' - 1][2] = size'[log'[scnt' - 1][1]] - 1
    <3>1. scnt > 0 => scnt - 1 \in 0 .. (hcnt - 1)
      BY <1>t
    <3> QED
      BY <1>h, <1>1, <1>3, <3>1 DEF LogIsWhole
  <2>4. ASSUME NEW p \in 0 .. (hcnt' - 1), NEW q \in 0 .. (hcnt' - 1), log'[p] = log'[q]
        PROVE  p = q
    <3>1. CASE p \in 0 .. (hcnt - 1) /\ q \in 0 .. (hcnt - 1)
      BY <1>h, <1>3, <2>4, <3>1 DEF LogIsWhole
    <3>2. ASSUME NEW i \in 0 .. (done - 1), NEW j \in 0 .. (done - 1), p = hcnt + i, q = hcnt + j
          PROVE  p = q
      BY <1>4, <2>4, <3>2
    <3>3. ASSUME NEW a \in 0 .. (hcnt - 1), NEW j \in 0 .. (done - 1), log'[a] = log'[hcnt + j]
          PROVE  FALSE
      BY <1>3, <1>4, <1>n, <3>3
    <3> QED
      BY <1>5, <2>4, <3>1, <3>2, <3>3
  <2> QED
    BY <2>1, <2>2, <2>3, <2>4 DEF LogIsWhole
<1>7. CallMatchesLog'
  <2>1. hcnt \in 0 .. (hcnt' - 1) /\ log'[hcnt][1] = call'
    <3>1. 0 \in 0 .. (done - 1) /\ hcnt + 0 = hcnt /\ hcnt \in 0 .. (hcnt' - 1)
      BY <1>t, <1>1, <1>2
    <3>2. log'[hcnt + 0] = <<call, 0>>
      BY <1>4, <3>1
    <3> QED
      BY <1>1, <3>1, <3>2
  <2> QED
    BY <1>h, <1>1, <2>1 DEF CallMatchesLog
<1>8. ResultsMatchLog'
  <2> SUFFICES ASSUME NEW c \in Calls
               PROVE  /\ ret[c] = "ok" => \E p \in 0 .. (scnt - 1) : log'[p][1] = c
                      /\ ret[c] = "again" => \A p \in 0 .. (hcnt' - 1) : log'[p][1] # c
    BY <1>1 DEF ResultsMatchLog
  <2>1. \A p \in 0 .. (scnt - 1) : p \in 0 .. (hcnt - 1)
    BY <1>t
  <2>2. ret[c] = "ok" => \E p \in 0 .. (scnt - 1) : log'[p][1] = c
    BY <1>h, <1>3, <2>1 DEF ResultsMatchLog
  <2>3. ASSUME ret[c] = "again", NEW p \in 0 .. (hcnt' - 1) PROVE log'[p][1] # c
    <3>1. c # call
      BY <1>h, <1>1, <2>3 DEF CallMatchesLog
    <3>2. CASE p \in 0 .. (hcnt - 1)
      BY <1>h, <1>3, <2>3, <3>2 DEF ResultsMatchLog
    <3>3. ASSUME NEW j \in 0 .. (done - 1), p = hcnt + j PROVE log'[p][1] # c
      BY <1>4, <3>1, <3>3
    <3> QED
      BY <1>5, <3>2, <3>3
  <2> QED
    BY <2>2, <2>3
<1> QED
  BY <1>6, <1>7, <1>8 DEF HistoryIInv

\* Every step of the driver and of the slave keeps the history invariant.
LEMMA NextHistory == WriteIInv /\ HistoryIInv /\ [Next]_vars => HistoryIInv'
<1> SUFFICES ASSUME WriteIInv, HistoryIInv, [Next]_vars PROVE HistoryIInv'
  OBVIOUS
<1>t. /\ hcnt \in Nat /\ scnt \in Nat /\ scnt <= hcnt /\ call \in Nat
      /\ size \in [Calls -> Nat] /\ ret \in [Calls -> Results]
      /\ num \in Nat /\ done \in Nat
  BY HistoryTypes
<1>h. LogIsWhole /\ CallMatchesLog /\ ResultsMatchLog
  BY DEF HistoryIInv
<1>1. ASSUME NEW n \in MsgSizes, Enter(n) PROVE HistoryIInv'
  <2>1. /\ pc = "idle" /\ n \in Nat /\ n > 0 /\ call' = call + 1 /\ call' \in Calls
        /\ num' = n /\ done' = 0 /\ pc' \in {"pull", "run1"}
        /\ size' = [size EXCEPT ![call + 1] = n]
        /\ UNCHANGED <<ret, log, hcnt, scnt, rcnt>>
    BY <1>t, <1>1, WriteAssumption DEF Enter, Calls, counts
  <2>2. size'[call'] = n /\ \A c \in 1 .. call : size'[c] = size[c]
    BY <1>t, <2>1 DEF Calls
  <2>3. LogIsWhole'
    BY <1>h, <2>1, <2>2, LogKept
  <2>4. CallMatchesLog'
    <3>1. \A p \in 0 .. (hcnt' - 1) : log'[p][1] # call'
      BY <1>t, <1>h, <2>1 DEF LogIsWhole
    <3>2. num' + done' = size'[call'] /\ size'[call'] > 0
      BY <2>1, <2>2
    <3>3. \A c \in Calls : c > call' \/ c = call' => ret'[c] = "none"
      BY <1>t, <1>h, <2>1 DEF CallMatchesLog, Calls
    <3> QED
      BY <2>1, <3>1, <3>2, <3>3 DEF CallMatchesLog
  <2>5. ResultsMatchLog'
    BY <1>h, <2>1 DEF ResultsMatchLog
  <2> QED
    BY <2>3, <2>4, <2>5 DEF HistoryIInv
<1>2. CASE PullRdPtr
  <2>1. /\ pc = "pull" /\ UNCHANGED <<log, hcnt, scnt, call, size>>
        /\ (Return("again") \/ Return("error"))
    BY <1>2 DEF PullRdPtr, counts
  <2>2. \A p \in 0 .. (hcnt - 1) : log[p][1] # call
    BY <1>h, <2>1 DEF CallMatchesLog
  <2> QED
    BY <2>1, <2>2, ReturnKeeps
<1>3. CASE CopyRun1
  <2> DEFINE k == WriteRun1(hrd, woff, num)
  <2>1. /\ pc = "run1" /\ UNCHANGED <<log, hcnt, scnt, call, size>>
        /\ \/ UNCHANGED ret /\ pc' = "run2" /\ done' = done + k /\ num' = num - k
           \/ Return("error")
    BY <1>3 DEF CopyRun1, counts
  <2>2. k \in Int
    BY NAssumption, <1>t DEF WriteIInv, TypeOK, Offsets, WriteRun1, Lesser
  <2>3. UNCHANGED ret /\ pc' = "run2" => num' + done' = num + done
    BY <1>t, <2>1, <2>2 DEF Return
  <2> QED
    BY <2>1, <2>3, ReturnKeeps, GoOnKeeps
<1>4. CASE CopyRun2
  <2> DEFINE k == WriteRun2(hrd, woff, num)
  <2>1. /\ pc = "run2" /\ UNCHANGED <<log, hcnt, scnt, call, size>>
        /\ \/ UNCHANGED ret /\ pc' = "commit" /\ done' = done + k /\ num' = num - k
           \/ Return("error")
    BY <1>4 DEF CopyRun2, counts
  <2>2. k \in Int
    BY NAssumption, <1>t DEF WriteIInv, TypeOK, Offsets, WriteRun2, Lesser
  <2>3. UNCHANGED ret /\ pc' = "commit" => num' + done' = num + done
    BY <1>t, <2>1, <2>2 DEF Return
  <2> QED
    BY <2>1, <2>3, ReturnKeeps, GoOnKeeps
<1>5. CASE Commit
  <2>1. \/ pc' = "push"
        \/ pc # "idle" /\ Return("error") /\ UNCHANGED <<log, hcnt, scnt, call, size>>
    BY <1>5 DEF Commit
  <2> QED
    BY <1>5, <2>1, CommitAppends, ReturnKeeps
<1>6. CASE PushWrPtr
  <2>1. /\ pc = "push" /\ scnt' \in {scnt, hcnt} /\ UNCHANGED <<log, hcnt, call, size>>
        /\ \/ UNCHANGED ret /\ pc' = "mbx" /\ scnt' = hcnt
           \/ Return("error")
    BY <1>6 DEF PushWrPtr
  <2> QED
    BY <2>1, ReturnKeeps, GoOnKeeps
<1>7. CASE WrM2sMbx
  <2>1. /\ pc = "mbx" /\ UNCHANGED <<log, hcnt, scnt, call, size>>
        /\ \/ UNCHANGED ret /\ pc' = "trigger"
           \/ Return("error")
    BY <1>7 DEF WrM2sMbx, counts
  <2> QED
    BY <2>1, ReturnKeeps, GoOnKeeps
<1>8. CASE TriggerIntr
  <2>1. /\ pc = "trigger" /\ UNCHANGED <<log, hcnt, scnt, call, size>>
        /\ (Return("ok") \/ Return("error"))
    BY <1>8 DEF TriggerIntr, counts
  <2>2. \E p \in 0 .. (scnt - 1) : log[p][1] = call
    BY <1>h, <2>1 DEF CallMatchesLog
  <2> QED
    BY <2>1, <2>2, ReturnKeeps
<1>9. CASE UnblockWriter \/ SlaveIsr \/ SlaveTake \/ SlaveIdle \/ UNCHANGED vars
  <2>1. UNCHANGED <<pc, num, done, call, size, ret, log, hcnt, scnt>>
    BY <1>9 DEF UnblockWriter, SlaveIsr, SlaveTake, SlaveIdle, vars, local, counts
  <2>2. LogIsWhole'
    BY <1>h, <2>1, LogKept
  <2> QED
    BY <1>h, <2>1, <2>2 DEF HistoryIInv, CallMatchesLog, ResultsMatchLog
<1> QED
  BY <1>1, <1>2, <1>3, <1>4, <1>5, <1>6, <1>7, <1>8, <1>9 DEF Next, WriteStep, SlaveStep

\* The history invariant holds in every reachable state.
THEOREM HistoryInvariant == Spec => []HistoryIInv
<1> QED
  BY InitHistory, NextHistory, WriteInvariant, PTL DEF Spec

\* mt7697q_write is all or nothing for every ring size and wherever a transfer
\* fails: the log is made of whole messages and the slave's wr_offset is never
\* inside one.
THEOREM MessagesAreWhole == Spec => []WholeMessages
<1>1. HistoryIInv => WholeMessages
  BY DEF HistoryIInv, LogIsWhole, WholeMessages
<1> QED
  BY <1>1, HistoryInvariant, PTL

\* What a call of mt7697q_write returned is what happened to its words.
THEOREM ResultsAreHonest == Spec => []ResultIsHonest
<1>1. HistoryIInv => ResultIsHonest
  BY DEF HistoryIInv, LogIsWhole, ResultsMatchLog, ResultIsHonest
<1> QED
  BY <1>1, HistoryInvariant, PTL
=============================================================================
