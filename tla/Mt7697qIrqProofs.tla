-------------------------- MODULE Mt7697qIrqProofs --------------------------
(***************************************************************************)
(* Proofs about Mt7697qIrq, for every ring size, all body lengths that fit *)
(* it, and both values of Pieces and Faults.                               *)
(***************************************************************************)
EXTENDS Mt7697qIrq, Mt7697qRingProofs, SequenceTheorems

\* The ranges the lemmas below need, one by one.
LEMMA IrqTypes ==
    ASSUME TypeOK
    PROVE  /\ srd \in Offsets /\ swr \in Offsets /\ hrd \in Offsets /\ hwr \in Offsets
           /\ mem \in [Offsets -> (0 .. MaxMsgs) \X Nat]
           /\ avail \in Nat /\ req \in Nat /\ hcnt \in Nat /\ depth \in Nat
           /\ delivered \in Nat /\ left \in Nat /\ cur \in 0 .. MaxMsgs
           /\ rsp \in [len : Nat, word : (0 .. MaxMsgs) \X Nat]
           /\ rsp.len \in Nat
           /\ stream \in Seq(Msgs \X Nat) /\ Len(stream) \in Nat
           /\ blen \in [Msgs -> Bodies \cup {0}]
           /\ \A m \in Msgs : blen[m] \in Nat
<1>1. /\ srd \in Offsets /\ swr \in Offsets /\ hrd \in Offsets /\ hwr \in Offsets
      /\ mem \in [Offsets -> (0 .. MaxMsgs) \X Nat]
      /\ avail \in Nat /\ req \in Nat /\ hcnt \in Nat /\ depth \in Nat
      /\ delivered \in Nat /\ left \in Nat /\ cur \in 0 .. MaxMsgs
      /\ rsp \in [len : Nat, word : (0 .. MaxMsgs) \X Nat]
      /\ stream \in Seq(Msgs \X Nat)
      /\ blen \in [Msgs -> Bodies \cup {0}]
  BY DEF TypeOK
<1>2. Bodies \cup {0} \subseteq Nat
  BY IrqAssumption, NAssumption DEF Capacity, HdrWords
<1>3. Len(stream) \in Nat
  BY <1>1, LenProperties
<1> QED
  BY <1>1, <1>2, <1>3

-----------------------------------------------------------------------------
(* The ring and the stream *)

\* A function on 1 .. n is a sequence.
LEMMA IsASeqOfWords ==
    ASSUME NEW V, NEW n \in Nat, NEW s \in [1 .. n -> V]
    PROVE  s \in Seq(V) /\ DOMAIN s = 1 .. n
BY SeqDef

\* mt7697q_read of n words that are there takes n words.
LEMMA ReadEndIs ==
    ASSUME TypeOK, NEW n \in Nat, n <= NumWords(hrd, hwr)
    PROVE  /\ ReadEnd(n).offset = Advance(hrd, n)
           /\ ReadEnd(n).words = n
BY IrqTypes, ReadRunsSuffice DEF ReadEnd

\* Reading words that are there moves rd_offset along the stream.
LEMMA ConsumeKeepsRing ==
    ASSUME TypeOK, RingMatchesStream, NEW n \in Nat, n <= NumWords(hrd, hwr),
           Consume(n), UNCHANGED <<mem, srd, swr, hwr, stream>>
    PROVE  /\ RingMatchesStream'
           /\ hrd' \in Offsets /\ hcnt' = hcnt + n
           /\ NumWords(hrd', hwr') = NumWords(hrd, hwr) - n
           /\ NumWords(hrd', swr') = NumWords(hrd, swr) - n
<1> DEFINE a == NumWords(srd, hrd)
           d == NumWords(hrd, swr)
           e == NumWords(hrd, hwr)
<1>t. /\ srd \in Offsets /\ swr \in Offsets /\ hrd \in Offsets /\ hwr \in Offsets
      /\ hcnt \in Nat
  BY IrqTypes
<1>1. /\ a \in Nat /\ d \in Nat /\ e \in Nat /\ NumWords(srd, swr) \in Nat
      /\ d < N /\ NumWords(srd, swr) < N
      /\ a + d = NumWords(srd, swr) /\ e <= d /\ hcnt + d = Len(stream)
  BY <1>t, NumWordsType DEF RingMatchesStream
<1>c. \A i \in 0 .. (d - 1) : mem[Advance(hrd, i)] = stream[hcnt + i + 1]
  BY DEF RingMatchesStream
<1>2. hrd' = Advance(hrd, n) /\ hcnt' = hcnt + n
  BY ReadEndIs DEF Consume
<1>3. hrd' \in Offsets /\ NumWords(hrd', hwr) = e - n /\ NumWords(hrd', swr) = d - n
  BY <1>t, <1>1, <1>2, BufDiffShrinks DEF NumWords
<1>4. NumWords(srd, hrd') = a + n
  BY <1>t, <1>1, <1>2, BufDiffGrows, NAssumption DEF NumWords
<1> HIDE DEF a, d, e
<1>5. ASSUME NEW i \in 0 .. (d - n - 1)
      PROVE  mem[Advance(hrd', i)] = stream[hcnt' + i + 1]
  <2>1. n + i \in 0 .. (d - 1) /\ n + i < N /\ i \in Nat
    BY <1>1, NAssumption DEF e
  <2>2. Advance(hrd', i) = Advance(hrd, n + i)
    BY <1>t, <1>2, <2>1, AdvanceAdd
  <2>3. mem[Advance(hrd, n + i)] = stream[hcnt + (n + i) + 1]
    BY <1>c, <2>1
  <2>4. hcnt + (n + i) + 1 = hcnt' + i + 1
    BY <1>t, <1>2
  <2> QED
    BY <2>2, <2>3, <2>4
<1>6. /\ a + n + (d - n) = NumWords(srd, swr)
      /\ e - n <= d - n
      /\ hcnt' + (d - n) = Len(stream)
  BY <1>t, <1>1, <1>2
<1>7. RingMatchesStream'
  BY <1>3, <1>4, <1>5, <1>6 DEF RingMatchesStream, d, e
<1> QED
  BY <1>2, <1>3, <1>7 DEF d, e

\* What k words put at the slave's wr_offset do to the ring: they go behind the
\* unread words, and the stream grows by them.
LEMMA PublishKeepsRing ==
    ASSUME TypeOK, RingMatchesStream, NEW k \in Nat, NEW m \in Msgs, NEW p \in Nat,
           Publish(m, p, k)
    PROVE  /\ RingMatchesStream'
           /\ mem' \in [Offsets -> (0 .. MaxMsgs) \X Nat]
           /\ swr' \in Offsets
           /\ stream' \in Seq(Msgs \X Nat)
           /\ Len(stream') = Len(stream) + k
           /\ \A i \in 1 .. Len(stream) : stream'[i] = stream[i]
           /\ \A i \in 1 .. k : stream'[Len(stream) + i] = <<m, p + i - 1>>
           /\ UNCHANGED <<srd, hrd, hwr, hcnt>>
<1> DEFINE a == NumWords(srd, hrd)
           d == NumWords(hrd, swr)
           e == NumWords(hrd, hwr)
           new == [i \in 1 .. k |-> Word(m, p + i - 1)]
<1>t. /\ srd \in Offsets /\ swr \in Offsets /\ hrd \in Offsets /\ hwr \in Offsets
      /\ hcnt \in Nat /\ stream \in Seq(Msgs \X Nat) /\ Len(stream) \in Nat
      /\ mem \in [Offsets -> (0 .. MaxMsgs) \X Nat]
  BY IrqTypes
<1>u. /\ UNCHANGED <<srd, hrd, hwr, hcnt>>
      /\ k <= FreeWords(srd, swr)
      /\ mem' = [s \in Offsets |->
                   IF BufDiff(swr, s) < k THEN Word(m, p + BufDiff(swr, s))
                   ELSE mem[s]]
      /\ swr' = Advance(swr, k)
      /\ stream' = stream \o new
  BY DEF Publish, host, history
<1>1. /\ a \in Nat /\ d \in Nat /\ e \in Nat /\ NumWords(srd, swr) \in Nat
      /\ d < N /\ NumWords(srd, swr) < N
      /\ a + d = NumWords(srd, swr) /\ e <= d /\ hcnt + d = Len(stream)
  BY <1>t, NumWordsType DEF RingMatchesStream
<1>c. \A i \in 0 .. (d - 1) : mem[Advance(hrd, i)] = stream[hcnt + i + 1]
  BY DEF RingMatchesStream
<1>2. NumWords(srd, swr) + k < N /\ d + k < N
  BY <1>1, <1>u, NAssumption DEF FreeWords, Capacity
<1>3. swr' \in Offsets /\ NumWords(srd, swr') = NumWords(srd, swr) + k /\ NumWords(hrd, swr') = d + k
  BY <1>t, <1>u, <1>2, BufDiffGrows DEF NumWords
<1>4. new \in Seq(Msgs \X Nat) /\ Len(new) = k /\ \A i \in 1 .. k : new[i] = <<m, p + i - 1>>
  <2>1. \A i \in 1 .. k : Word(m, p + i - 1) \in Msgs \X Nat
    BY DEF Word
  <2>2. new \in [1 .. k -> Msgs \X Nat]
    BY <2>1
  <2>3. new \in Seq(Msgs \X Nat) /\ DOMAIN new = 1 .. k
    BY <2>2, IsASeqOfWords
  <2> QED
    BY <2>3, LenProperties DEF Word
<1> HIDE DEF new
<1>5. /\ stream' \in Seq(Msgs \X Nat)
      /\ Len(stream') = Len(stream) + k
      /\ \A i \in 1 .. Len(stream) : stream'[i] = stream[i]
      /\ \A i \in 1 .. k : stream'[Len(stream) + i] = <<m, p + i - 1>>
  <2>1. /\ stream' \in Seq(Msgs \X Nat)
        /\ Len(stream') = Len(stream) + k
        /\ \A i \in 1 .. (Len(stream) + Len(new)) :
              stream'[i] = IF i <= Len(stream) THEN stream[i] ELSE new[i - Len(stream)]
    BY <1>t, <1>u, <1>4, ConcatProperties
  <2>2. ASSUME NEW i \in 1 .. k PROVE stream'[Len(stream) + i] = new[i]
    <3>1. /\ Len(stream) + i \in 1 .. (Len(stream) + Len(new))
          /\ ~ (Len(stream) + i <= Len(stream))
          /\ (Len(stream) + i) - Len(stream) = i
      BY <1>t, <1>4
    <3> QED
      BY <2>1, <3>1
  <2>3. ASSUME NEW i \in 1 .. Len(stream) PROVE stream'[i] = stream[i]
    <3>1. i \in 1 .. (Len(stream) + Len(new)) /\ i <= Len(stream)
      BY <1>t, <1>4
    <3> QED
      BY <2>1, <3>1
  <2> QED
    BY <1>4, <2>1, <2>2, <2>3
<1> HIDE DEF a, d, e
<1>6. mem' \in [Offsets -> (0 .. MaxMsgs) \X Nat]
  <2> SUFFICES ASSUME NEW s \in Offsets
               PROVE  mem'[s] \in (0 .. MaxMsgs) \X Nat
    BY <1>u
  <2>1. BufDiff(swr, s) \in Nat
    BY <1>t, AdvanceBufDiff
  <2>2. Word(m, p + BufDiff(swr, s)) \in (0 .. MaxMsgs) \X Nat
    BY <2>1 DEF Word, Msgs
  <2> QED
    BY <1>t, <1>u, <2>2
<1>l. hcnt \in Nat /\ d \in Nat /\ Len(stream) = hcnt + d
  BY <1>t, <1>1
<1>7. ASSUME NEW i \in 0 .. (d + k - 1)
      PROVE  mem'[Advance(hrd, i)] = stream'[hcnt + i + 1]
  <2>1. i \in 0 .. (N - 1)
    BY <1>1, <1>2, NAssumption
  <2>2. /\ Advance(hrd, i) \in Offsets
        /\ BufDiff(swr, Advance(hrd, i)) = IF i < d THEN N - (d - i) ELSE i - d
    BY <1>t, <2>1, SeenFromEnd DEF NumWords, d
  <2>3. CASE i < d
    <3>1. ~ (N - (d - i) < k) /\ i \in 0 .. (d - 1) /\ hcnt + i + 1 \in 1 .. Len(stream)
      <4> HIDE DEF d
      <4>1. ~ (N - (d - i) < k) /\ i \in 0 .. (d - 1)
        BY <1>1, <1>2, <2>3, NAssumption
      <4>2. hcnt + i + 1 \in 1 .. Len(stream)
        BY <1>t, <1>1, <4>1
      <4> QED
        BY <4>1, <4>2
    <3>2. mem'[Advance(hrd, i)] = mem[Advance(hrd, i)]
      BY <1>u, <2>2, <2>3, <3>1
    <3> QED
      BY <1>c, <1>5, <3>1, <3>2
  <2>4. CASE ~ (i < d)
    <3>1. /\ i - d < k /\ i - d \in Nat /\ i - d + 1 \in 1 .. k
          /\ hcnt + i + 1 = Len(stream) + (i - d + 1)
          /\ p + (i - d + 1) - 1 = p + (i - d)
      <4>1. i - d < k /\ i - d \in Nat
        BY <1>1, <2>4
      <4>2. hcnt + i + 1 = Len(stream) + (i - d + 1)
        BY <1>l
      <4> QED
        BY <4>1, <4>2
    <3>2. mem'[Advance(hrd, i)] = Word(m, p + (i - d))
      BY <1>u, <2>2, <2>4, <3>1
    <3>3. stream'[Len(stream) + (i - d + 1)] = <<m, p + (i - d + 1) - 1>>
      BY <1>5, <3>1
    <3> QED
      BY <3>1, <3>2, <3>3 DEF Word
  <2> QED
    BY <2>3, <2>4
<1>8. /\ NumWords(srd, hrd) + NumWords(hrd, swr') = NumWords(srd, swr')
      /\ NumWords(hrd, hwr) <= NumWords(hrd, swr')
      /\ hcnt + NumWords(hrd, swr') = Len(stream')
  <2>1. Len(stream') = Len(stream) + k
    BY <1>5
  <2>2. NumWords(srd, swr') = NumWords(srd, swr) + k /\ NumWords(hrd, swr') = d + k
    BY <1>3
  <2>3. a + (d + k) = NumWords(srd, swr) + k /\ e <= d + k /\ hcnt + (d + k) = Len(stream) + k
    BY <1>1, <1>l
  <2> QED
    BY <2>1, <2>2, <2>3 DEF a, e
<1>9. RingMatchesStream'
  <2>1. \A i \in 0 .. (NumWords(hrd, swr') - 1) :
          mem'[Advance(hrd, i)] = stream'[hcnt + i + 1]
    <3>1. NumWords(hrd, swr') = d + k
      BY <1>3
    <3> TAKE i \in 0 .. (NumWords(hrd, swr') - 1)
    <3>2. i \in 0 .. (d + k - 1)
      BY <1>l, <3>1
    <3> QED
      BY <1>7, <3>2
  <2> QED
    BY <1>u, <1>8, <2>1 DEF RingMatchesStream
<1> QED
  BY <1>u, <1>3, <1>5, <1>6, <1>9

\* Pulling wr_offset or pushing rd_offset keeps the ring's relation to the stream.
LEMMA PointersKeepRing ==
    ASSUME TypeOK, RingMatchesStream, UNCHANGED <<mem, swr, hrd, hcnt, stream>>,
           hwr' \in {hwr, swr}, srd' \in {srd, hrd}
    PROVE  RingMatchesStream'
<1>t. /\ srd \in Offsets /\ swr \in Offsets /\ hrd \in Offsets /\ hwr \in Offsets
  BY IrqTypes
<1>1. /\ NumWords(hrd, swr) \in Int /\ NumWords(hrd, hrd) = 0
  BY <1>t, AdvanceBufDiff DEF NumWords, BufDiff, Offsets
<1>2. NumWords(srd', hrd) + NumWords(hrd, swr) = NumWords(srd', swr)
  BY <1>1 DEF RingMatchesStream
<1>3. NumWords(hrd, hwr') <= NumWords(hrd, swr)
  BY <1>1 DEF RingMatchesStream
<1> QED
  BY <1>2, <1>3 DEF RingMatchesStream

-----------------------------------------------------------------------------
(* The inductive invariant behind IrqSound *)

\* The initialised queue, empty wherever it stands, satisfies the invariant.
LEMMA InitIrq == Init => IrqIInv
<1> SUFFICES ASSUME Init PROVE IrqIInv
  OBVIOUS
<1>0. srd \in Offsets /\ NumWords(srd, srd) = 0
  BY IrqAssumption, NAssumption DEF Init, NumWords, BufDiff, Offsets
<1>1. TypeOK
  <2>1. NoWord \in (0 .. MaxMsgs) \X Nat
    BY IrqAssumption DEF NoWord, Word
  <2>2. /\ mem \in [Offsets -> (0 .. MaxMsgs) \X Nat]
        /\ rsp \in [len : Nat, word : (0 .. MaxMsgs) \X Nat]
        /\ blen \in [Msgs -> Bodies \cup {0}]
    BY <2>1 DEF Init
  <2>3. cur \in 0 .. MaxMsgs /\ left \in Nat /\ depth \in Nat /\ avail \in Nat
        /\ req \in Nat /\ hcnt \in Nat /\ delivered \in Nat
    BY IrqAssumption DEF Init
  <2>4. stream \in Seq(Msgs \X Nat)
    BY DEF Init
  <2> QED
    BY <1>0, <2>2, <2>3, <2>4 DEF Init, TypeOK
<1>2. RingMatchesStream
  <2>1. stream = << >> /\ Len(stream) = 0
    BY DEF Init
  <2> QED
    BY <1>0, <2>1 DEF Init, RingMatchesStream
<1>3. ReadsPublished /\ IrqBalanced
  BY <1>2 DEF Init, ReadsPublished, IrqBalanced, Working
<1>4. OneWorkItem /\ LocalsMatchRing /\ SendingInRange
  BY DEF Init, OneWorkItem, LocalsMatchRing, SendingInRange, Working
<1> QED
  BY <1>1, <1>3, <1>4 DEF IrqIInv, IrqSound

\* A step of the interrupt, of the worker outside mt7697q_proc_data or of the
\* doorbell leaves ring, stream and locals alone.
LEMMA OutsideProcKeeps ==
    ASSUME IrqIInv, UNCHANGED <<ring, host, locals, rsp, blen, cur, left, stream, hcnt>>,
           wpc' \in {wpc, "idle", "rdmbx", "clrmbx", "tx", "pull"}
    PROVE  /\ RingMatchesStream' /\ ReadsPublished' /\ LocalsMatchRing' /\ SendingInRange'
<1>1. UNCHANGED <<mem, srd, swr, hrd, hwr, avail, req, rsp, blen, cur, left, stream, hcnt>>
  BY DEF ring, host, locals
<1>2. RingMatchesStream /\ ReadsPublished /\ LocalsMatchRing /\ SendingInRange
  BY DEF IrqIInv, IrqSound, ReadsPublished
<1>3. RingMatchesStream'
  BY <1>1, <1>2 DEF RingMatchesStream
<1>4. ReadsPublished'
  BY <1>1, <1>2, <1>3 DEF ReadsPublished
<1>5. LocalsMatchRing'
  BY <1>1, <1>2 DEF LocalsMatchRing, Needed
<1>6. SendingInRange'
  BY <1>1, <1>2 DEF SendingInRange
<1> QED
  BY <1>3, <1>4, <1>5, <1>6

\* A step of mt7697q_proc_data leaves the interrupt and the slave alone: the
\* poll is pending, so the interrupt stays disabled also when the step ends it.
LEMMA ProcKeepsBalance ==
    ASSUME IrqIInv, ProcUnchanged,
           wpc \in {"pull", "header", "more", "deliver", "again", "push"},
           wpc' \in {"idle", "header", "more", "deliver", "again", "push"},
           deaf' = deaf
    PROVE  IrqBalanced' /\ OneWorkItem' /\ SendingInRange'
<1>1. UNCHANGED <<mbx, edge, depth, queued, delayed, got, blen, cur, left, bell, stream>>
  BY DEF ProcUnchanged, irqs, slave
<1>2. IrqBalanced /\ OneWorkItem /\ SendingInRange
  BY DEF IrqIInv, IrqSound
<1>3. delayed /\ ~ deaf /\ ~ queued /\ depth = 1
  BY <1>2 DEF OneWorkItem, IrqBalanced, Working
<1> QED
  BY <1>1, <1>2, <1>3 DEF IrqBalanced, OneWorkItem, SendingInRange, Working

\* A transfer of mt7697q_proc_data that fails ends it and changes nothing else.
LEMMA ProcFailsKeeps ==
    ASSUME IrqIInv, ProcUnchanged, ProcFails,
           wpc \in {"pull", "header", "more", "deliver", "again", "push"}
    PROVE  IrqIInv'
<1>1. /\ UNCHANGED <<mem, srd, swr, hrd, hwr, avail, req, rsp, hcnt, delivered, deaf>>
      /\ UNCHANGED <<mbx, edge, depth, queued, delayed, got, blen, cur, left, bell, stream>>
      /\ wpc' = "idle" /\ faulty' = TRUE
  BY DEF ProcFails, ProcUnchanged, ring, host, locals, irqs, slave
<1>2. TypeOK'
  BY <1>1 DEF IrqIInv, IrqSound, TypeOK
<1>3. ReadsPublished' /\ LocalsMatchRing'
  BY <1>1, OutsideProcKeeps DEF ring, host, locals
<1>4. IrqBalanced' /\ OneWorkItem' /\ SendingInRange'
  BY <1>1, ProcKeepsBalance
<1> QED
  BY <1>2, <1>3, <1>4 DEF IrqIInv, IrqSound

\* The interrupt and the worker's steps outside mt7697q_proc_data.
LEMMA IrqStepsKeep ==
    ASSUME IrqIInv,
           Isr \/ StartWork \/ RdS2mMbx \/ ClrS2mMbx \/ IrqNotifyTx
    PROVE  IrqIInv'
<1>i. TypeOK /\ IrqBalanced /\ OneWorkItem
  BY DEF IrqIInv, IrqSound
<1>u. /\ UNCHANGED <<mem, srd, swr, hrd, hwr, avail, req, rsp, hcnt, delivered>>
      /\ UNCHANGED <<blen, cur, left, bell, stream>>
  BY DEF Isr, StartWork, RdS2mMbx, ClrS2mMbx, IrqNotifyTx, MbxFails,
         ring, host, locals, slave, history
<1>1. wpc' \in {wpc, "idle", "rdmbx", "clrmbx", "tx", "pull"}
  BY DEF Isr, StartWork, RdS2mMbx, ClrS2mMbx, IrqNotifyTx, MbxFails
<1>2. ReadsPublished' /\ LocalsMatchRing' /\ SendingInRange'
  BY <1>u, <1>1, OutsideProcKeeps DEF ring, host, locals
<1>3. CASE Isr
  <2>1. /\ depth = 0 /\ depth' = 1 /\ queued' = TRUE /\ edge' = FALSE
        /\ UNCHANGED <<mbx, delayed, wpc, got, faulty, deaf>>
    BY <1>3 DEF Isr, history
  <2>2. TypeOK'
    BY <1>i, <1>u, <2>1 DEF TypeOK
  <2>3. ~ deaf /\ ~ Working
    BY <1>i, <2>1 DEF IrqBalanced, OneWorkItem
  <2>4. IrqBalanced' /\ OneWorkItem'
    BY <1>i, <2>1, <2>3 DEF IrqBalanced, OneWorkItem, Working
  <2> QED
    BY <1>2, <2>2, <2>4 DEF IrqIInv, IrqSound
<1>4. CASE StartWork
  <2>1. /\ wpc = "idle" /\ wpc' = "rdmbx"
        /\ \/ queued /\ queued' = FALSE /\ UNCHANGED delayed
           \/ delayed /\ delayed' = FALSE /\ UNCHANGED queued
        /\ UNCHANGED <<mbx, edge, depth, got, faulty, deaf>>
    BY <1>4 DEF StartWork, history
  <2>2. TypeOK'
    BY <1>i, <1>u, <2>1 DEF TypeOK
  <2>3. IrqBalanced' /\ OneWorkItem'
    BY <1>i, <2>1 DEF IrqBalanced, OneWorkItem, Working
  <2> QED
    BY <1>2, <2>2, <2>3 DEF IrqIInv, IrqSound
<1>5. CASE RdS2mMbx
  <2>1. /\ wpc = "rdmbx" /\ UNCHANGED <<mbx, edge, depth, queued, delayed>>
        /\ \/ wpc' = "clrmbx" /\ got' = mbx /\ UNCHANGED <<faulty, deaf>>
           \/ wpc' = "idle" /\ got' = got /\ faulty' = TRUE /\ deaf' = TRUE
    BY <1>5 DEF RdS2mMbx, MbxFails, history
  <2>2. TypeOK'
    BY <1>i, <1>u, <2>1 DEF TypeOK
  <2>3. IrqBalanced' /\ OneWorkItem'
    BY <1>i, <2>1 DEF IrqBalanced, OneWorkItem, Working
  <2> QED
    BY <1>2, <2>2, <2>3 DEF IrqIInv, IrqSound
<1>6. CASE ClrS2mMbx
  <2>1. /\ wpc = "clrmbx" /\ UNCHANGED <<edge, queued>>
        /\ mbx' \in {mbx, mbx \ got}
        /\ \/ /\ wpc' = "tx" /\ delayed' = TRUE /\ UNCHANGED <<depth, got, faulty, deaf>>
           \/ /\ wpc' = "idle" /\ depth' = depth - 1
              /\ UNCHANGED <<delayed, got, faulty, deaf>>
           \/ /\ wpc' = "idle" /\ faulty' = TRUE /\ deaf' = TRUE
              /\ UNCHANGED <<depth, delayed, got>>
    BY <1>6 DEF ClrS2mMbx, MbxFails, history
  <2>2. depth = 1 /\ ~ queued /\ ~ delayed /\ ~ deaf
    BY <1>i, <2>1 DEF IrqBalanced, OneWorkItem, Working
  <2>3. TypeOK'
    <3>1. mbx' \subseteq Bits /\ depth' \in Nat
      BY <1>i, <2>1, <2>2 DEF TypeOK
    <3>2. /\ got' = got /\ edge' = edge /\ queued' = queued
          /\ {delayed', faulty', deaf'} \subseteq BOOLEAN /\ wpc' \in {"tx", "idle"}
      BY <1>i, <2>1 DEF TypeOK
    <3> QED
      BY <1>i, <1>u, <3>1, <3>2 DEF TypeOK
  <2>4. IrqBalanced' /\ OneWorkItem'
    BY <1>i, <2>1, <2>2 DEF IrqBalanced, OneWorkItem, Working
  <2> QED
    BY <1>2, <2>3, <2>4 DEF IrqIInv, IrqSound
<1>7. CASE IrqNotifyTx
  <2>1. /\ wpc = "tx" /\ wpc' \in {"pull", "idle"}
        /\ UNCHANGED <<mbx, edge, depth, queued, delayed, got, faulty, deaf>>
    BY <1>7 DEF IrqNotifyTx, irqs, history
  <2>2. TypeOK'
    BY <1>i, <1>u, <2>1 DEF TypeOK
  <2>3. IrqBalanced' /\ OneWorkItem'
    BY <1>i, <2>1 DEF IrqBalanced, OneWorkItem, Working
  <2> QED
    BY <1>2, <2>2, <2>3 DEF IrqIInv, IrqSound
<1> QED
  BY <1>3, <1>4, <1>5, <1>6, <1>7

\* The slave's doorbell and its words.
LEMMA SlaveStepsKeep ==
    ASSUME IrqIInv,
           \/ SlaveDrained \/ Doorbell
           \/ \E b \in Bodies, k \in 1 .. Capacity : SlaveStarts(b, k)
           \/ \E k \in 1 .. Capacity : SlaveContinues(k)
    PROVE  IrqIInv'
<1>i. /\ TypeOK /\ IrqBalanced /\ OneWorkItem /\ RingMatchesStream /\ LocalsMatchRing
      /\ SendingInRange /\ ReadsPublished
  BY DEF IrqIInv, IrqSound, ReadsPublished
<1>1. CASE SlaveDrained \/ Doorbell
  <2>1. /\ UNCHANGED <<mem, srd, swr, hrd, hwr, depth, queued, delayed, wpc, got, avail, req,
                       rsp, blen, cur, left, stream, hcnt, delivered, faulty, deaf>>
        /\ edge' \in {edge, TRUE}
    BY <1>1 DEF SlaveDrained, Doorbell, SlaveSetsBit, SlaveInterrupts, ring, host, irqs,
                locals, history
  <2>2. mbx' \subseteq Bits /\ bell' \subseteq Bits \cup {"irq"}
    BY <1>i, <1>1 DEF SlaveDrained, Doorbell, SlaveSetsBit, SlaveInterrupts, TypeOK, Bits
  <2>3. TypeOK'
    BY <1>i, <2>1, <2>2 DEF TypeOK
  <2>4. ReadsPublished' /\ LocalsMatchRing' /\ SendingInRange'
    BY <2>1, OutsideProcKeeps DEF ring, host, locals
  <2>5. IrqBalanced' /\ OneWorkItem'
    BY <1>i, <2>1 DEF IrqBalanced, OneWorkItem, Working
  <2> QED
    BY <2>3, <2>4, <2>5 DEF IrqIInv, IrqSound
<1>2. ASSUME NEW m \in Msgs, NEW p \in Nat, NEW k \in Nat, Publish(m, p, k),
             blen' \in [Msgs -> Bodies \cup {0}], cur' \in 0 .. MaxMsgs, left' \in Nat,
             SendingInRange'
      PROVE  IrqIInv'
  <2>1. /\ UNCHANGED <<srd, hrd, hwr, mbx, edge, depth, queued, delayed, wpc, got, avail, req,
                       rsp, hcnt, delivered, faulty, deaf>>
        /\ bell' = bell \cup {"rx"}
    BY <1>2 DEF Publish, host, irqs, locals, history
  <2>2. /\ RingMatchesStream' /\ mem' \in [Offsets -> (0 .. MaxMsgs) \X Nat]
        /\ swr' \in Offsets /\ stream' \in Seq(Msgs \X Nat)
    BY <1>i, <1>2, PublishKeepsRing
  <2>3. TypeOK'
    BY <1>i, <1>2, <2>1, <2>2 DEF TypeOK, Bits
  <2>4. ReadsPublished' /\ LocalsMatchRing'
    BY <1>i, <2>1, <2>2 DEF ReadsPublished, LocalsMatchRing, Needed
  <2>5. IrqBalanced' /\ OneWorkItem'
    BY <1>i, <2>1 DEF IrqBalanced, OneWorkItem, Working
  <2> QED
    BY <1>2, <2>3, <2>4, <2>5 DEF IrqIInv, IrqSound
<1>t. /\ cur \in Nat /\ cur <= MaxMsgs /\ MaxMsgs \in Nat /\ left \in Nat
      /\ blen \in [Msgs -> Bodies \cup {0}] /\ \A m \in Msgs : blen[m] \in Nat
      /\ Bodies \subseteq Nat /\ Capacity \in Nat
  <2>1. MaxMsgs \in Nat /\ Bodies \subseteq Nat /\ Capacity \in Nat
    BY IrqAssumption, NAssumption DEF Capacity, HdrWords
  <2>2. cur \in 0 .. MaxMsgs /\ left \in Nat
        /\ blen \in [Msgs -> Bodies \cup {0}] /\ \A m \in Msgs : blen[m] \in Nat
    BY <1>i, IrqTypes
  <2> QED
    BY <2>1, <2>2
<1>3. ASSUME NEW b \in Bodies, NEW k \in 1 .. Capacity, SlaveStarts(b, k)
      PROVE  IrqIInv'
  <2>1. /\ b \in Nat /\ k \in Nat /\ cur + 1 \in Msgs /\ k <= HdrWords + b
        /\ cur' = cur + 1 /\ left' = HdrWords + b - k
        /\ blen' = [blen EXCEPT ![cur + 1] = b] /\ Publish(cur + 1, 0, k)
    BY <1>t, <1>3 DEF SlaveStarts, Msgs
  <2>2. /\ blen' \in [Msgs -> Bodies \cup {0}] /\ blen'[cur + 1] = b
        /\ cur' \in 0 .. MaxMsgs /\ cur' \in Msgs
    BY <1>t, <2>1 DEF Msgs
  <2>3. left' \in Nat /\ left' <= HdrWords + b
    BY <1>t, <2>1 DEF HdrWords
  <2>4. SendingInRange'
    BY <2>1, <2>2, <2>3 DEF SendingInRange
  <2> QED
    BY <1>2, <2>1, <2>2, <2>3, <2>4
<1>4. ASSUME NEW k \in 1 .. Capacity, SlaveContinues(k)
      PROVE  IrqIInv'
  <2>1. /\ k \in Nat /\ k > 0 /\ k <= left /\ left' = left - k /\ UNCHANGED <<blen, cur>>
        /\ Publish(cur, HdrWords + blen[cur] - left, k)
    BY <1>t, <1>4 DEF SlaveContinues
  <2>2. cur \in Msgs /\ left <= HdrWords + blen[cur] /\ blen[cur] \in Nat
    BY <1>i, <1>t, <2>1 DEF SendingInRange
  <2>3. /\ HdrWords + blen[cur] - left \in Nat /\ left' \in Nat /\ left' <= HdrWords + blen[cur]
        /\ cur' \in 0 .. MaxMsgs
    BY <1>t, <2>1, <2>2 DEF HdrWords
  <2>4. SendingInRange'
    BY <2>1, <2>2, <2>3 DEF SendingInRange
  <2> QED
    BY <1>2, <1>t, <2>1, <2>2, <2>3, <2>4
<1> QED
  BY <1>1, <1>3, <1>4

\* A header read from the ring is a header of some length.
LEMMA HeaderType ==
    ASSUME TypeOK, NEW l \in Lengths(mem[hrd])
    PROVE  [len |-> l, word |-> mem[hrd]] \in [len : Nat, word : (0 .. MaxMsgs) \X Nat]
<1>1. /\ mem[hrd] \in (0 .. MaxMsgs) \X Nat /\ Bodies \subseteq Nat
      /\ \A m \in Msgs : blen[m] \in Nat
  BY IrqTypes, IrqAssumption, NAssumption DEF Capacity, HdrWords
<1>2. mem[hrd][1] > 0 => mem[hrd][1] \in Msgs
  BY <1>1 DEF Msgs
<1>3. l \in Nat
  BY <1>1, <1>2 DEF Lengths, HdrWords
<1> QED
  BY <1>1, <1>3

\* Whatever the length says, the number of words needed is a number.
LEMMA NeededType ==
    ASSUME NEW l \in Nat
    PROVE  Needed(l) \in Nat /\ Huge \in Nat
BY NAssumption DEF Needed, Huge, HdrWords

\* The steps of mt7697q_proc_data.
LEMMA ProcStepsKeep ==
    ASSUME IrqIInv,
           PullWrPtr \/ ReadHeader \/ NeedMoreData \/ Deliver \/ PullAgain \/ PushRdPtr
    PROVE  IrqIInv'
<1>i. /\ TypeOK /\ RingMatchesStream /\ LocalsMatchRing
  BY DEF IrqIInv, IrqSound, ReadsPublished
<1>t. /\ srd \in Offsets /\ swr \in Offsets /\ hrd \in Offsets /\ hwr \in Offsets
      /\ avail \in Nat /\ req \in Nat /\ hcnt \in Nat
      /\ delivered \in Nat /\ rsp.len \in Nat /\ HdrWords \in Nat
      /\ rsp \in [len : Nat, word : (0 .. MaxMsgs) \X Nat]
  BY <1>i, IrqTypes DEF HdrWords
<1>n. NumWords(hrd, hwr) \in Nat /\ NumWords(hrd, swr) \in Nat
  BY <1>t, NumWordsType
<1>p. ProcUnchanged
  BY DEF PullWrPtr, ReadHeader, NeedMoreData, Deliver, PullAgain, PushRdPtr
<1>w. /\ wpc \in {"pull", "header", "more", "deliver", "again", "push"}
      /\ wpc' \in {"idle", "header", "more", "deliver", "again", "push"}
      /\ deaf' = deaf /\ faulty' \in {faulty, TRUE}
      /\ UNCHANGED <<mem, swr>>
  BY DEF PullWrPtr, ReadHeader, NeedMoreData, Deliver, PullAgain, PushRdPtr, ProcFails,
         history, ring
<1>u. UNCHANGED <<mbx, edge, depth, queued, delayed, got, blen, cur, left, bell, stream>>
  BY <1>p DEF ProcUnchanged, irqs, slave
<1>b. IrqBalanced' /\ OneWorkItem' /\ SendingInRange'
  BY <1>p, <1>w, ProcKeepsBalance
\* What is left to show of each step.
<1>s. ASSUME RingMatchesStream', LocalsMatchRing',
             srd' \in Offsets, hrd' \in Offsets, hwr' \in Offsets,
             avail' \in Nat, req' \in Nat, hcnt' \in Nat, delivered' \in Nat,
             rsp' \in [len : Nat, word : (0 .. MaxMsgs) \X Nat]
      PROVE  IrqIInv'
  <2>1. TypeOK'
    BY <1>i, <1>u, <1>w, <1>s DEF TypeOK
  <2>2. ReadsPublished'
    BY <1>s DEF ReadsPublished, LocalsMatchRing
  <2> QED
    BY <1>b, <1>s, <2>1, <2>2 DEF IrqIInv, IrqSound
<1>1. CASE PullWrPtr
  <2>1. CASE ProcFails
    BY <1>p, <1>w, <2>1, ProcFailsKeeps
  <2>2. CASE ~ ProcFails
    <3>1. /\ hwr' = swr /\ avail' = NumWords(hrd, swr) /\ req' = Needed(rsp.len)
          /\ wpc' = IF avail' >= req' THEN "header" ELSE "idle"
          /\ UNCHANGED <<mem, srd, swr, hrd, rsp, hcnt, delivered>>
      BY <1>1, <2>2 DEF PullWrPtr, ring, history
    <3>2. RingMatchesStream'
      BY <1>i, <1>u, <3>1, PointersKeepRing
    <3>3. avail' \in Nat /\ req' \in Nat
      BY <1>t, <1>n, <3>1, NeededType
    <3>4. LocalsMatchRing'
      BY <1>n, <3>1, <3>3 DEF LocalsMatchRing
    <3> QED
      BY <1>s, <1>t, <3>1, <3>2, <3>3, <3>4
  <2> QED
    BY <2>1, <2>2
<1>2. CASE ReadHeader
  <2>0. wpc = "header" /\ avail >= req /\ req = Needed(rsp.len) /\ avail <= NumWords(hrd, hwr)
    BY <1>i, <1>2 DEF ReadHeader, LocalsMatchRing
  <2>1. CASE rsp.len = 0 /\ wpc' = "more"
    <3>1. /\ Consume(HdrWords)
          /\ \E l \in Lengths(mem[hrd]) : rsp' = [len |-> l, word |-> mem[hrd]]
          /\ avail' = avail - HdrWords
          /\ req' = IF rsp'.len = 0 THEN Huge ELSE Needed(rsp'.len)
          /\ UNCHANGED <<mem, srd, swr, hwr, delivered>>
      BY <1>2, <2>1 DEF ReadHeader, ring
    <3>2. avail >= HdrWords /\ HdrWords <= NumWords(hrd, hwr)
      BY <1>t, <1>n, <2>0, <2>1 DEF Needed
    <3>3. /\ RingMatchesStream' /\ hrd' \in Offsets /\ hcnt' = hcnt + HdrWords
          /\ NumWords(hrd', hwr') = NumWords(hrd, hwr) - HdrWords
      BY <1>i, <1>t, <1>u, <3>1, <3>2, ConsumeKeepsRing
    <3>4. rsp' \in [len : Nat, word : (0 .. MaxMsgs) \X Nat]
      BY <1>i, <3>1, HeaderType
    <3>5. avail' \in Nat /\ req' \in Nat /\ hcnt' \in Nat
      BY <1>t, <3>1, <3>2, <3>3, <3>4, NeededType
    <3>6. avail' <= NumWords(hrd', hwr')
      BY <1>t, <1>n, <2>0, <3>1, <3>3
    <3>7. LocalsMatchRing'
      BY <2>1, <3>6 DEF LocalsMatchRing
    <3> QED
      BY <1>s, <1>t, <3>1, <3>3, <3>4, <3>5, <3>7
  <2>2. CASE ~ (rsp.len = 0 /\ wpc' = "more")
    <3>1. /\ UNCHANGED <<mem, srd, swr, hrd, hwr, avail, req, hcnt, delivered>>
          /\ \/ rsp' = rsp /\ wpc' \in {"more", "idle"}
             \/ wpc' = "idle" /\ \E l \in Lengths(mem[hrd]) : rsp' = [len |-> l, word |-> mem[hrd]]
      BY <1>2, <2>2 DEF ReadHeader, ring, host, locals, history
    <3>2. RingMatchesStream'
      BY <1>i, <1>u, <3>1, PointersKeepRing
    <3>3. rsp' \in [len : Nat, word : (0 .. MaxMsgs) \X Nat]
      BY <1>i, <1>t, <3>1, HeaderType
    <3>4. LocalsMatchRing'
      BY <1>i, <2>0, <3>1 DEF LocalsMatchRing
    <3> QED
      BY <1>s, <1>t, <3>1, <3>2, <3>3, <3>4
  <2> QED
    BY <2>1, <2>2
<1>3. CASE NeedMoreData
  <2>0. wpc = "more" /\ avail <= NumWords(hrd, hwr)
    BY <1>i, <1>3 DEF NeedMoreData, LocalsMatchRing
  <2>1. CASE ProcFails
    BY <1>p, <1>w, <2>1, ProcFailsKeeps
  <2>2. CASE ~ ProcFails
    <3>1. /\ \/ avail >= req /\ wpc' = "deliver" /\ UNCHANGED <<hwr, avail>>
             \/ /\ hwr' = swr /\ avail' = NumWords(hrd, swr)
                /\ wpc' = IF avail' >= req THEN "deliver" ELSE "idle"
          /\ UNCHANGED <<mem, srd, swr, hrd, req, rsp, hcnt, delivered>>
      BY <1>3, <2>2 DEF NeedMoreData, ring, host, locals, history
    <3>2. RingMatchesStream'
      BY <1>i, <1>u, <3>1, PointersKeepRing
    <3>3. LocalsMatchRing' /\ avail' \in Nat
      BY <1>t, <1>n, <2>0, <3>1 DEF LocalsMatchRing
    <3> QED
      BY <1>s, <1>t, <3>1, <3>2, <3>3
  <2> QED
    BY <2>1, <2>2
<1>4. CASE Deliver
  <2>0. wpc = "deliver" /\ avail >= req /\ avail <= NumWords(hrd, hwr)
    BY <1>i, <1>4 DEF Deliver, LocalsMatchRing
  <2>1. CASE ProcFails
    BY <1>p, <1>w, <2>1, ProcFailsKeeps
  <2>2. CASE ~ ProcFails
    <3>1. /\ \/ Consume(req) /\ delivered' = delivered + 1
             \/ UNCHANGED <<hrd, hcnt, delivered>>
          /\ avail' = avail - req /\ req' = HdrWords
          /\ rsp' = [rsp EXCEPT !.len = 0]
          /\ wpc' = IF avail' < req' THEN "again" ELSE "push"
          /\ UNCHANGED <<mem, srd, swr, hwr>>
      BY <1>4, <2>2 DEF Deliver, ring
    <3>2. /\ RingMatchesStream' /\ hrd' \in Offsets /\ hcnt' \in Nat
          /\ avail' <= NumWords(hrd', hwr')
      <4>1. CASE Consume(req)
        <5>1. /\ RingMatchesStream' /\ hrd' \in Offsets /\ hcnt' = hcnt + req
              /\ NumWords(hrd', hwr') = NumWords(hrd, hwr) - req
          BY <1>i, <1>t, <1>n, <1>u, <2>0, <3>1, <4>1, ConsumeKeepsRing
        <5> QED
          BY <1>t, <1>n, <2>0, <3>1, <5>1
      <4>2. CASE UNCHANGED <<hrd, hcnt>>
        <5>1. RingMatchesStream'
          BY <1>i, <1>u, <3>1, <4>2, PointersKeepRing
        <5> QED
          BY <1>t, <1>n, <2>0, <3>1, <4>2, <5>1
      <4> QED
        BY <3>1, <4>1, <4>2
    <3>3. avail' \in Nat /\ delivered' \in Nat
      BY <1>t, <2>0, <3>1
    <3>4. rsp' \in [len : Nat, word : (0 .. MaxMsgs) \X Nat] /\ rsp'.len = 0
      BY <1>t, <3>1
    <3>5. LocalsMatchRing'
      BY <3>1, <3>2, <3>4 DEF LocalsMatchRing
    <3> QED
      BY <1>s, <1>t, <3>1, <3>2, <3>3, <3>4, <3>5
  <2> QED
    BY <2>1, <2>2
<1>5. CASE PullAgain
  <2>0. wpc = "again" /\ req = HdrWords /\ rsp.len = 0
    BY <1>i, <1>5 DEF PullAgain, LocalsMatchRing
  <2>1. CASE ProcFails
    BY <1>p, <1>w, <2>1, ProcFailsKeeps
  <2>2. CASE ~ ProcFails
    <3>1. /\ hwr' = swr /\ avail' = NumWords(hrd, swr) /\ wpc' = "push"
          /\ UNCHANGED <<mem, srd, swr, hrd, req, rsp, hcnt, delivered>>
      BY <1>5, <2>2 DEF PullAgain, ring, history
    <3>2. RingMatchesStream'
      BY <1>i, <1>u, <3>1, PointersKeepRing
    <3>3. LocalsMatchRing' /\ avail' \in Nat
      BY <1>t, <1>n, <2>0, <3>1 DEF LocalsMatchRing
    <3> QED
      BY <1>s, <1>t, <3>1, <3>2, <3>3
  <2> QED
    BY <2>1, <2>2
<1>6. CASE PushRdPtr
  <2>0. wpc = "push" /\ req = HdrWords /\ rsp.len = 0 /\ avail <= NumWords(hrd, hwr)
    BY <1>i, <1>6 DEF PushRdPtr, LocalsMatchRing
  <2>1. /\ srd' \in {srd, hrd} /\ wpc' \in {"header", "idle"}
        /\ wpc' = "header" => avail >= req
        /\ UNCHANGED <<mem, swr, hrd, hwr, avail, req, rsp, hcnt, delivered>>
    BY <1>6 DEF PushRdPtr, host, locals, history
  <2>2. RingMatchesStream'
    BY <1>i, <1>u, <2>1, PointersKeepRing
  <2>3. LocalsMatchRing'
    BY <2>0, <2>1 DEF LocalsMatchRing, Needed
  <2> QED
    BY <1>s, <1>t, <2>1, <2>2, <2>3
<1> QED
  BY <1>1, <1>2, <1>3, <1>4, <1>5, <1>6

\* Every step keeps the invariant.
LEMMA NextIrq == IrqIInv /\ [Next]_vars => IrqIInv'
<1> SUFFICES ASSUME IrqIInv, [Next]_vars PROVE IrqIInv'
  OBVIOUS
<1>1. CASE Isr \/ StartWork \/ RdS2mMbx \/ ClrS2mMbx \/ IrqNotifyTx
  BY <1>1, IrqStepsKeep
<1>2. CASE PullWrPtr \/ ReadHeader \/ NeedMoreData \/ Deliver \/ PullAgain \/ PushRdPtr
  BY <1>2, ProcStepsKeep
<1>3. CASE \/ SlaveDrained \/ Doorbell
           \/ \E b \in Bodies, k \in 1 .. Capacity : SlaveStarts(b, k)
           \/ \E k \in 1 .. Capacity : SlaveContinues(k)
  BY <1>3, SlaveStepsKeep
<1>4. CASE UNCHANGED vars
  <2>1. UNCHANGED <<mem, srd, swr, hrd, hwr, mbx, edge, depth, queued, delayed, wpc, got,
                    avail, req, rsp, blen, cur, left, bell, stream, hcnt, delivered, faulty,
                    deaf>>
    BY <1>4 DEF vars, ring, host, irqs, locals, slave, history
  <2>2. TypeOK'
    BY <2>1 DEF IrqIInv, IrqSound, TypeOK
  <2>3. ReadsPublished' /\ LocalsMatchRing' /\ SendingInRange'
    BY <2>1, OutsideProcKeeps DEF ring, host, locals
  <2>4. IrqBalanced' /\ OneWorkItem'
    BY <2>1 DEF IrqIInv, IrqSound, IrqBalanced, OneWorkItem, Working
  <2> QED
    BY <2>2, <2>3, <2>4 DEF IrqIInv, IrqSound
<1> QED
  BY <1>1, <1>2, <1>3, <1>4 DEF Next, Work

\* The invariant holds in every reachable state.
THEOREM IrqInvariant == Spec => []IrqIInv
<1> QED
  BY InitIrq, NextIrq, PTL DEF Spec

\* The receive direction is sound for every ring size, however the slave cuts its
\* responses into pieces and whatever transfer fails: the driver reads published words
\* only and never passes wr_offset, the slave overwrites nothing unread, and the
\* disables and enables of the interrupt are balanced.
THEOREM IrqIsSound == Spec => []IrqSound
<1>1. IrqIInv => IrqSound
  BY DEF IrqIInv
<1> QED
  BY <1>1, IrqInvariant, PTL

-----------------------------------------------------------------------------
(* The stream of responses *)

\* Response m starts at position f; either all of it is there, or it is the one the
\* slave is sending, of which as much is missing as the slave has left.
Placed(s, L, B, c, l, f, m, j) ==
    /\ m \in 1 .. c /\ B[m] \in Nat /\ f >= 1 /\ j < HdrWords + B[m]
    /\ ResponseAt(s, L, B, f, m)
    /\ f + (HdrWords + B[m]) > L => m = c /\ f + (HdrWords + B[m]) = L + l + 1

\* Every word of the stream is placed.
LEMMA PlaceOfWord ==
    ASSUME NEW s, NEW L \in Nat, NEW B, NEW c \in Nat, NEW l \in Nat,
           \A r \in 1 .. c : B[r] \in Nat,
           Responses(s, L, B, c, l),
           NEW i \in 1 .. L, NEW m, NEW j \in Nat, s[i] = <<m, j>>
    PROVE  Placed(s, L, B, c, l, i - j, m, j)
<1>1. s[i][1] = m /\ s[i][2] = j
  OBVIOUS
<1>2. /\ m \in 1 .. c /\ i - j >= 1 /\ j < HdrWords + B[m]
      /\ ResponseAt(s, L, B, i - j, m)
  BY <1>1 DEF Responses
<1>3. B[m] \in Nat
  BY <1>2
<1>4. ASSUME (i - j) + (HdrWords + B[m]) > L
      PROVE  m = c /\ (i - j) + (HdrWords + B[m]) = L + l + 1
  <2> DEFINE R == HdrWords + B[m]
             n == L - (i - j)
  <2>0. R \in Nat
    BY <1>3 DEF HdrWords
  <2>w. \A r \in 0 .. (R - 1) : (i - j) + r <= L => s[(i - j) + r] = <<m, r>>
    BY <1>2 DEF ResponseAt, Word
  <2>e. s[L] = <<c, (HdrWords + B[c]) - l - 1>>
    BY DEF Responses, Word
  <2>a. (i - j) + R > L /\ i - j >= 1 /\ j < R
    BY <1>2, <1>4
  <2> HIDE DEF R
  <2>1. n \in 0 .. (R - 1) /\ (i - j) + n = L /\ (i - j) + n <= L
    BY <2>0, <2>a
  <2> HIDE DEF n
  <2>2. s[(i - j) + n] = <<m, n>>
    BY <2>w, <2>1
  <2>3. m = c /\ n = (HdrWords + B[c]) - l - 1
    BY <2>1, <2>2, <2>e
  <2>4. n = R - l - 1
    BY <2>3 DEF R
  <2>5. (i - j) + R = L + l + 1
    BY <2>0, <2>1, <2>4
  <2> QED
    BY <2>3, <2>5 DEF R
<1> QED
  BY <1>2, <1>3, <1>4 DEF Placed

\* k words of response m, from its word p on, are the end of the longer stream t.
Appends(s, t, L, m, p, k) ==
    /\ \A i \in 1 .. L : t[i] = s[i]
    /\ \A i \in 1 .. k : t[L + i] = <<m, p + i - 1>>

\* They continue the response being sent, or start the next one after a whole one.
Continues(m, p, k, c, l, l1) ==
    \/ m = c + 1 /\ l = 0 /\ p = 0
    \/ m = c /\ l = k + l1 /\ p > 0

\* Where word n of a response that starts at position f stands in the new stream.
LEMMA AppendedPlace ==
    ASSUME NEW L \in Nat, NEW k \in Nat, NEW p \in Nat, NEW f \in Nat, NEW n \in Nat,
           NEW R \in Nat, NEW l \in Nat, NEW l1 \in Nat,
           n < R, f + n <= L + k, f + n > L,
           f + R = L + l + 1, l = k + l1, R = p + k + l1
    PROVE  (f + n) - L \in 1 .. k /\ p + ((f + n) - L) - 1 = n /\ L + ((f + n) - L) = f + n
OBVIOUS

\* The places in the longer stream, seen from a word of the shorter one.
LEMMA OldPlaceKept ==
    ASSUME NEW s, NEW t, NEW L \in Nat, NEW B, NEW B1, NEW c \in Nat, NEW l \in Nat,
           NEW l1 \in Nat, NEW m \in Nat, NEW p \in Nat, NEW k \in Nat, k > 0,
           \A r \in 1 .. c : B[r] \in Nat /\ B1[r] = B[r],
           HdrWords + B1[m] = p + k + l1,
           Responses(s, L, B, c, l), Appends(s, t, L, m, p, k),
           Continues(m, p, k, c, l, l1),
           NEW i \in 1 .. L, NEW a, NEW j \in Nat, s[i] = <<a, j>>
    PROVE  /\ a \in 1 .. c /\ i - j >= 1 /\ j < HdrWords + B1[a]
           /\ ResponseAt(t, L + k, B1, i - j, a)
<1> DEFINE f == i - j
           R == HdrWords + B[a]
<1>0. \A r \in 1 .. c : B[r] \in Nat
  OBVIOUS
<1>1. /\ a \in 1 .. c /\ B[a] \in Nat /\ i - j >= 1 /\ j < HdrWords + B[a]
      /\ ResponseAt(s, L, B, i - j, a)
      /\ (i - j) + (HdrWords + B[a]) > L =>
            a = c /\ (i - j) + (HdrWords + B[a]) = L + l + 1
  <2>1. Placed(s, L, B, c, l, i - j, a, j)
    BY <1>0, PlaceOfWord
  <2> QED
    BY <2>1 DEF Placed
<1>2. HdrWords + B1[a] = R
  BY <1>1
<1>3. R \in Nat /\ f \in Nat /\ f >= 1 /\ f <= L
  BY <1>1 DEF HdrWords
<1>w. \A n \in 0 .. (R - 1) : f + n <= L => s[f + n] = <<a, n>>
  BY <1>1 DEF ResponseAt, Word
<1>x. f + R <= L => s[f + R] = <<a + 1, 0>>
  BY <1>1 DEF ResponseAt, Word
<1>y. f + R > L => a = c /\ f + R = L + l + 1
  BY <1>1
<1>a. \A n \in 1 .. L : t[n] = s[n]
  BY DEF Appends
<1>b. \A n \in 1 .. k : t[L + n] = <<m, p + n - 1>>
  BY DEF Appends
<1>o. \/ m = c + 1 /\ l = 0 /\ p = 0
      \/ m = c /\ l = k + l1 /\ p > 0
  BY DEF Continues
<1>z. a \in 1 .. c /\ f >= 1 /\ j < R
  BY <1>1
<1> HIDE DEF f, R
<1>4. ASSUME NEW n \in 0 .. (R - 1), f + n <= L + k
      PROVE  t[f + n] = <<a, n>>
  <2>0. n \in Nat /\ n < R
    BY <1>3, <1>4
  <2>1. CASE f + n <= L
    <3>1. f + n \in 1 .. L
      BY <1>3, <2>0, <2>1
    <3> QED
      BY <1>a, <1>w, <2>1, <3>1
  <2>2. CASE f + n > L
    <3>1. f + R > L
      BY <1>3, <2>0, <2>2
    <3>2. a = c /\ f + R = L + l + 1
      BY <1>y, <3>1
    <3>3. l > 0
      BY <1>3, <2>0, <2>2, <3>2
    <3>4. m = c /\ l = k + l1
      BY <1>o, <3>3
    <3>5. R = p + k + l1
      BY <1>2, <3>2, <3>4
    <3>6. (f + n) - L \in 1 .. k /\ p + ((f + n) - L) - 1 = n /\ L + ((f + n) - L) = f + n
      BY <1>3, <1>4, <2>0, <2>2, <3>2, <3>4, <3>5, AppendedPlace
    <3>7. t[L + ((f + n) - L)] = <<m, p + ((f + n) - L) - 1>>
      BY <1>b, <3>6
    <3> QED
      BY <3>2, <3>4, <3>6, <3>7
  <2> QED
    BY <1>3, <2>0, <2>1, <2>2
<1>5. ASSUME f + R <= L + k PROVE t[f + R] = <<a + 1, 0>>
  <2>1. CASE f + R <= L
    <3>1. f + R \in 1 .. L
      BY <1>3, <2>1
    <3> QED
      BY <1>a, <1>x, <2>1, <3>1
  <2>2. CASE f + R > L
    <3>1. a = c /\ f + R = L + l + 1
      BY <1>y, <2>2
    <3>2. l < k
      BY <1>3, <1>5, <3>1
    <3>3. m = c + 1 /\ l = 0 /\ p = 0
      BY <1>o, <3>2
    <3>4. 1 \in 1 .. k /\ p + 1 - 1 = 0 /\ f + R = L + 1
      BY <3>1, <3>3
    <3>5. t[L + 1] = <<m, p + 1 - 1>>
      BY <1>b, <3>4
    <3> QED
      BY <3>1, <3>3, <3>4, <3>5
  <2> QED
    BY <1>3, <2>1, <2>2
<1>6. ASSUME NEW n \in 0 .. ((HdrWords + B1[a]) - 1), f + n <= L + k
      PROVE  t[f + n] = <<a, n>>
  <2>1. n \in 0 .. (R - 1)
    BY <1>2
  <2> QED
    BY <1>4, <1>6, <2>1
<1>7. f + (HdrWords + B1[a]) <= L + k => t[f + (HdrWords + B1[a])] = <<a + 1, 0>>
  BY <1>2, <1>5
<1>8. j < HdrWords + B1[a]
  BY <1>2, <1>z
<1>9. ResponseAt(t, L + k, B1, f, a)
  BY <1>6, <1>7 DEF ResponseAt, Word
<1> QED
  BY <1>8, <1>9, <1>z DEF f

\* Words that continue the response being sent, or start the next one after a
\* whole one, keep the stream a stream of responses.
LEMMA AppendKeepsResponses ==
    ASSUME NEW s, NEW t, NEW L \in Nat, NEW B, NEW B1, NEW c \in Nat, NEW l \in Nat,
           NEW l1 \in Nat, NEW m \in Nat, NEW p \in Nat, NEW k \in Nat, k > 0,
           \A i \in 1 .. L : s[i] \in Msgs \X Nat,
           \A r \in 1 .. c : B[r] \in Nat /\ B1[r] = B[r],
           HdrWords + B1[m] = p + k + l1,
           Responses(s, L, B, c, l), Appends(s, t, L, m, p, k),
           Continues(m, p, k, c, l, l1)
    PROVE  Responses(t, L + k, B1, m, l1)
<1>a. \A i \in 1 .. L : t[i] = s[i]
  BY DEF Appends
<1>b. \A i \in 1 .. k : t[L + i] = <<m, p + i - 1>>
  BY DEF Appends
<1>o. \/ m = c + 1 /\ l = 0 /\ p = 0
      \/ m = c /\ l = k + l1 /\ p > 0
  BY DEF Continues
<1>e. /\ L = 0 => c = 0 /\ l = 0
      /\ L > 0 => /\ c > 0 /\ s[1] = <<1, 0>>
                  /\ s[L] = <<c, (HdrWords + B[c]) - l - 1>>
  BY DEF Responses, Word
<1>m. m > 0 /\ c <= m /\ (m = c => L > 0)
  BY <1>e, <1>o
<1> DEFINE Fits(f, a) ==
             a \in 1 .. m /\ f >= 1 /\ ResponseAt(t, L + k, B1, f, a)
\* The places seen from an old word ...
<1>1. ASSUME NEW i \in 1 .. L, NEW a, NEW j \in Nat, s[i] = <<a, j>>
      PROVE  Fits(i - j, a) /\ j < HdrWords + B1[a]
  <2>1. /\ a \in 1 .. c /\ i - j >= 1 /\ j < HdrWords + B1[a]
        /\ ResponseAt(t, L + k, B1, i - j, a)
    BY <1>1, OldPlaceKept
  <2>2. a \in 1 .. m
    BY <1>m, <2>1
  <2> QED
    BY <2>1, <2>2
\* ... and from a new word, whose response starts at L + 1 - p.
<1>2. Fits((L + 1) - p, m)
  <2>1. CASE m = c + 1 /\ l = 0 /\ p = 0
    <3>1. (L + 1) - p = L + 1
      BY <2>1
    <3>2. ASSUME NEW n \in 0 .. ((HdrWords + B1[m]) - 1), (L + 1) + n <= L + k
          PROVE  t[(L + 1) + n] = <<m, n>>
      <4>1. n \in Nat
        BY DEF HdrWords
      <4>2. n + 1 \in 1 .. k /\ p + (n + 1) - 1 = n /\ L + (n + 1) = (L + 1) + n
        BY <2>1, <3>2, <4>1
      <4>3. t[L + (n + 1)] = <<m, p + (n + 1) - 1>>
        BY <1>b, <4>2
      <4> QED
        BY <4>2, <4>3
    <3>3. ~ ((L + 1) + (HdrWords + B1[m]) <= L + k)
      BY <2>1
    <3>4. L + 1 >= 1 /\ m \in 1 .. m
      BY <1>m
    <3>5. ResponseAt(t, L + k, B1, L + 1, m)
      BY <3>2, <3>3 DEF ResponseAt, Word
    <3> QED
      BY <3>1, <3>4, <3>5
  <2>2. CASE m = c /\ l = k + l1 /\ p > 0
    <3>1. L > 0 /\ L \in 1 .. L /\ c \in 1 .. c
      BY <1>m, <2>2
    <3>2. B[c] \in Nat /\ HdrWords + B[c] = p + k + l1
      BY <2>2, <3>1
    <3>3. (HdrWords + B[c]) - l - 1 = p - 1 /\ p - 1 \in Nat /\ L - (p - 1) = (L + 1) - p
      BY <2>2, <3>2 DEF HdrWords
    <3>4. s[L] = <<c, p - 1>>
      BY <1>e, <3>1, <3>3
    <3>5. Fits(L - (p - 1), c)
      BY <1>1, <3>1, <3>3, <3>4
    <3> HIDE DEF Fits
    <3> QED
      BY <2>2, <3>3, <3>5
  <2> QED
    BY <1>o, <2>1, <2>2
<1>3. ASSUME NEW i \in 1 .. (L + k)
      PROVE  Fits(i - t[i][2], t[i][1]) /\ t[i][2] < HdrWords + B1[t[i][1]]
  <2>1. CASE i <= L
    <3>1. i \in 1 .. L
      BY <2>1
    <3>2. t[i] = s[i] /\ s[i] \in Msgs \X Nat
      BY <1>a, <3>1
    <3>3. t[i][2] \in Nat /\ s[i] = <<t[i][1], t[i][2]>>
      BY <3>2
    <3> HIDE DEF Fits
    <3> QED
      BY <1>1, <3>1, <3>3
  <2>2. CASE i > L
    <3> DEFINE q == i - L
    <3>1. q \in 1 .. k /\ i = L + q
      BY <2>2
    <3> HIDE DEF q
    <3>2. t[i] = <<m, p + q - 1>>
      BY <1>b, <3>1
    <3>3. t[i][1] = m /\ t[i][2] = p + q - 1
      BY <3>2
    <3>4. i - (p + q - 1) = (L + 1) - p /\ p + q - 1 < HdrWords + B1[m]
      BY <3>1
    <3> HIDE DEF Fits
    <3> QED
      BY <1>2, <3>3, <3>4
  <2> QED
    BY <2>1, <2>2
<1>4. t[1] = <<1, 0>>
  <2>1. CASE L > 0
    <3>1. 1 \in 1 .. L
      BY <2>1
    <3> QED
      BY <1>a, <1>e, <2>1, <3>1
  <2>2. CASE L = 0
    <3>1. c = 0 /\ l = 0 /\ m = 1 /\ p = 0
      BY <1>m, <1>o, <1>e, <2>2
    <3>2. 1 \in 1 .. k /\ L + 1 = 1 /\ p + 1 - 1 = 0
      BY <2>2, <3>1
    <3>3. t[L + 1] = <<m, p + 1 - 1>>
      BY <1>b, <3>2
    <3> QED
      BY <3>1, <3>2, <3>3
  <2> QED
    BY <2>1, <2>2
<1>5. t[L + k] = <<m, (HdrWords + B1[m]) - l1 - 1>>
  <2>1. k \in 1 .. k /\ p + k - 1 = (HdrWords + B1[m]) - l1 - 1
    OBVIOUS
  <2>2. t[L + k] = <<m, p + k - 1>>
    BY <1>b, <2>1
  <2> QED
    BY <2>1, <2>2
<1> QED
  <2>1. L + k > 0
    OBVIOUS
  <2> QED
    <3>1. \A i \in 1 .. (L + k) :
             /\ t[i][1] \in 1 .. m /\ i - t[i][2] >= 1 /\ t[i][2] < HdrWords + B1[t[i][1]]
             /\ ResponseAt(t, L + k, B1, i - t[i][2], t[i][1])
      BY <1>3
    <3> QED
      BY <1>4, <1>5, <1>m, <2>1, <3>1 DEF Responses, Word

\* Lengths of the responses sent so far, and the words of the stream, have their types.
LEMMA StreamTypes ==
    ASSUME TypeOK
    PROVE  /\ Len(stream) \in Nat /\ left \in Nat /\ cur \in Nat /\ cur <= MaxMsgs
           /\ MaxMsgs \in Nat
           /\ \A r \in 1 .. cur : r \in Msgs /\ blen[r] \in Nat
           /\ \A i \in 1 .. Len(stream) : stream[i] \in Msgs \X Nat
<1>1. MaxMsgs \in Nat
  BY IrqAssumption
<1>2. /\ Len(stream) \in Nat /\ left \in Nat /\ cur \in 0 .. MaxMsgs
      /\ stream \in Seq(Msgs \X Nat)
  BY IrqTypes
<1>3. \A m \in Msgs : blen[m] \in Nat
  BY IrqTypes
<1>4. ASSUME NEW r \in 1 .. cur PROVE r \in Msgs
  BY <1>1, <1>2 DEF Msgs
<1>5. \A i \in 1 .. Len(stream) : stream[i] \in Msgs \X Nat
  <2>1. stream \in [1 .. Len(stream) -> Msgs \X Nat]
    BY <1>2, LenProperties
  <2> QED
    BY <2>1
<1>6. cur \in Nat /\ cur <= MaxMsgs
  BY <1>1, <1>2
<1> QED
  BY <1>1, <1>2, <1>3, <1>4, <1>5, <1>6

\* The same for the words of the stream itself.
LEMMA StreamPlace ==
    ASSUME TypeOK, StreamIsResponses, NEW i \in 1 .. Len(stream), NEW m, NEW j \in Nat,
           stream[i] = <<m, j>>
    PROVE  /\ m \in 1 .. cur /\ m \in Msgs /\ blen[m] \in Nat
           /\ ResponseAt(stream, Len(stream), blen, i - j, m)
<1>1. /\ Len(stream) \in Nat /\ left \in Nat /\ cur \in Nat
      /\ \A r \in 1 .. cur : r \in Msgs /\ blen[r] \in Nat
  BY StreamTypes
<1>2. Placed(stream, Len(stream), blen, cur, left, i - j, m, j)
  BY <1>1, PlaceOfWord DEF StreamIsResponses
<1> QED
  BY <1>1, <1>2 DEF Placed

\* What the slave publishes keeps the stream a stream of responses.
LEMMA PublishKeepsStream ==
    ASSUME IrqIInv, StreamIsResponses,
           \/ \E b \in Bodies, k \in 1 .. Capacity : SlaveStarts(b, k)
           \/ \E k \in 1 .. Capacity : SlaveContinues(k)
    PROVE  /\ StreamIsResponses'
           /\ \A i \in 1 .. Len(stream) : stream'[i] = stream[i]
           /\ \A r \in 1 .. cur : blen'[r] = blen[r]
           /\ UNCHANGED <<srd, hrd, hwr, hcnt, rsp, delivered, faulty, wpc, got, avail, req,
                          mbx, edge, queued, delayed>>
           /\ bell' = bell \cup {"rx"}
<1>i. TypeOK /\ RingMatchesStream /\ SendingInRange
  BY DEF IrqIInv, IrqSound, ReadsPublished
<1>t. /\ Len(stream) \in Nat /\ left \in Nat /\ cur \in Nat /\ cur <= MaxMsgs
      /\ MaxMsgs \in Nat /\ Bodies \subseteq Nat /\ Capacity \in Nat
      /\ blen \in [Msgs -> Bodies \cup {0}]
  <2>1. MaxMsgs \in Nat /\ Bodies \subseteq Nat /\ Capacity \in Nat
    BY IrqAssumption, NAssumption DEF Capacity, HdrWords
  <2>2. /\ Len(stream) \in Nat /\ left \in Nat /\ cur \in 0 .. MaxMsgs
        /\ blen \in [Msgs -> Bodies \cup {0}]
    BY <1>i, IrqTypes
  <2> QED
    BY <2>1, <2>2
<1>b. \A r \in 1 .. cur : r \in Msgs /\ blen[r] \in Nat
  BY <1>i, StreamTypes
<1>w. \A i \in 1 .. Len(stream) : stream[i] \in Msgs \X Nat
  BY <1>i, StreamTypes
\* What is common to both.
<1>1. ASSUME NEW m \in Msgs, NEW p \in Nat, NEW k \in Nat, k > 0, Publish(m, p, k),
             m = cur', left' \in Nat, blen'[m] \in Nat,
             \A r \in 1 .. cur : blen'[r] = blen[r],
             HdrWords + blen'[m] = p + k + left',
             Continues(m, p, k, cur, left, left')
      PROVE  /\ StreamIsResponses'
             /\ \A i \in 1 .. Len(stream) : stream'[i] = stream[i]
             /\ UNCHANGED <<srd, hrd, hwr, hcnt, rsp, delivered, faulty, wpc, got, avail, req,
                          mbx, edge, queued, delayed>>
             /\ bell' = bell \cup {"rx"}
  <2>1. /\ UNCHANGED <<srd, hrd, hwr, hcnt, rsp, delivered, faulty, wpc, got, avail, req,
                       mbx, edge, queued, delayed>>
        /\ bell' = bell \cup {"rx"}
    BY <1>1 DEF Publish, host, irqs, locals, history
  <2>2. /\ Len(stream') = Len(stream) + k
        /\ \A i \in 1 .. Len(stream) : stream'[i] = stream[i]
        /\ \A i \in 1 .. k : stream'[Len(stream) + i] = <<m, p + i - 1>>
    BY <1>i, <1>1, PublishKeepsRing
  <2>3. Appends(stream, stream', Len(stream), m, p, k)
    BY <2>2 DEF Appends
  <2>4. Responses(stream, Len(stream), blen, cur, left)
    BY DEF StreamIsResponses
  <2>5. m \in Nat /\ \A r \in 1 .. cur : blen[r] \in Nat /\ blen'[r] = blen[r]
    BY <1>b, <1>1 DEF Msgs
  <2>6. Responses(stream', Len(stream) + k, blen', m, left')
    BY <1>1, <1>t, <1>w, <2>3, <2>4, <2>5, AppendKeepsResponses
  <2>7. StreamIsResponses'
    BY <1>1, <2>2, <2>6 DEF StreamIsResponses
  <2> QED
    BY <2>1, <2>2, <2>7
<1>2. ASSUME NEW b \in Bodies, NEW k \in 1 .. Capacity, SlaveStarts(b, k)
      PROVE  /\ StreamIsResponses'
             /\ \A i \in 1 .. Len(stream) : stream'[i] = stream[i]
             /\ \A r \in 1 .. cur : blen'[r] = blen[r]
             /\ UNCHANGED <<srd, hrd, hwr, hcnt, rsp, delivered, faulty, wpc, got, avail, req,
                          mbx, edge, queued, delayed>>
             /\ bell' = bell \cup {"rx"}
  <2>1. /\ b \in Nat /\ k \in Nat /\ k > 0 /\ cur + 1 \in Msgs /\ k <= HdrWords + b
        /\ left = 0 /\ cur' = cur + 1 /\ left' = HdrWords + b - k
        /\ blen' = [blen EXCEPT ![cur + 1] = b] /\ Publish(cur + 1, 0, k)
    BY <1>t, <1>2 DEF SlaveStarts, Msgs
  <2>2. blen'[cur + 1] = b /\ \A r \in 1 .. cur : blen'[r] = blen[r]
    BY <1>b, <1>t, <2>1
  <2>3. left' \in Nat /\ HdrWords + blen'[cur + 1] = 0 + k + left'
    BY <2>1, <2>2 DEF HdrWords
  <2>4. Continues(cur + 1, 0, k, cur, left, left')
    BY <2>1 DEF Continues
  <2> QED
    BY <1>1, <2>1, <2>2, <2>3, <2>4
<1>3. ASSUME NEW k \in 1 .. Capacity, SlaveContinues(k)
      PROVE  /\ StreamIsResponses'
             /\ \A i \in 1 .. Len(stream) : stream'[i] = stream[i]
             /\ \A r \in 1 .. cur : blen'[r] = blen[r]
             /\ UNCHANGED <<srd, hrd, hwr, hcnt, rsp, delivered, faulty, wpc, got, avail, req,
                          mbx, edge, queued, delayed>>
             /\ bell' = bell \cup {"rx"}
  <2> DEFINE p == HdrWords + blen[cur] - left
  <2>1. /\ k \in Nat /\ k > 0 /\ k <= left /\ left' = left - k /\ UNCHANGED <<blen, cur>>
        /\ Publish(cur, p, k)
    BY <1>t, <1>3 DEF SlaveContinues
  <2>2. cur \in Msgs /\ cur \in 1 .. cur /\ left <= HdrWords + blen[cur] /\ blen[cur] \in Nat
    <3>1. cur \in Msgs /\ left <= HdrWords + blen[cur]
      BY <1>i, <1>t, <2>1 DEF SendingInRange
    <3> QED
      BY <1>b, <1>t, <3>1 DEF Msgs
  <2>3. p \in Nat /\ p > 0
    <3>1. Len(stream) > 0
      BY <1>t, <2>1 DEF StreamIsResponses, Responses
    <3>2. stream[Len(stream)] = <<cur, (HdrWords + blen[cur]) - left - 1>>
      BY <3>1 DEF StreamIsResponses, Responses, Word
    <3>3. (HdrWords + blen[cur]) - left - 1 \in Nat
      <4>1. Len(stream) \in 1 .. Len(stream)
        BY <1>t, <3>1
      <4>2. stream[Len(stream)] \in Msgs \X Nat
        BY <1>w, <4>1
      <4> QED
        BY <3>2, <4>2
    <3> QED
      BY <1>t, <2>2, <3>3 DEF HdrWords
  <2>4. left' \in Nat /\ left = k + left' /\ HdrWords + blen'[cur] = p + k + left'
    BY <1>t, <2>1, <2>2 DEF HdrWords
  <2> HIDE DEF p
  <2>5. Continues(cur, p, k, cur, left, left')
    BY <2>3, <2>4 DEF Continues
  <2>6. blen'[cur] \in Nat /\ cur = cur' /\ \A r \in 1 .. cur : blen'[r] = blen[r]
    BY <2>1, <2>2
  <2> QED
    BY <1>1, <2>1, <2>2, <2>3, <2>4, <2>5, <2>6
<1> QED
  BY <1>2, <1>3

\* The driver never stands beyond the stream.
LEMMA ConsumedIsPublished ==
    ASSUME IrqIInv
    PROVE  /\ hcnt \in Nat /\ Len(stream) \in Nat /\ NumWords(hrd, swr) \in Nat
           /\ hcnt + NumWords(hrd, swr) = Len(stream)
           /\ NumWords(hrd, hwr) \in Nat /\ NumWords(hrd, hwr) <= NumWords(hrd, swr)
<1>1. TypeOK /\ RingMatchesStream
  BY DEF IrqIInv, IrqSound, ReadsPublished
<1> QED
  BY <1>1, IrqTypes, NumWordsType DEF RingMatchesStream

\* The word the driver reads next.
LEMMA NextWordIs ==
    ASSUME IrqIInv, StreamIsResponses, CutBetweenResponses, ~ faulty, hcnt < Len(stream)
    PROVE  stream[hcnt + 1] = IF rsp.len = 0 THEN Word(delivered + 1, 0)
                              ELSE IF rsp.len = HdrWords THEN Word(delivered + 2, 0)
                              ELSE Word(delivered + 1, HdrWords)
<1>i. TypeOK
  BY DEF IrqIInv, IrqSound
<1>t. hcnt \in Nat /\ Len(stream) \in Nat /\ delivered \in Nat /\ rsp.len \in Nat
  BY <1>i, IrqTypes
<1>1. CASE rsp.len = 0 /\ hcnt = 0
  BY <1>t, <1>1 DEF CutBetweenResponses, StreamIsResponses, Responses
<1>2. CASE rsp.len = 0 /\ hcnt # 0
  <2> DEFINE R == HdrWords + blen[delivered]
  <2>1. stream[hcnt] = <<delivered, R - 1>> /\ delivered \in Msgs
    BY <1>2 DEF CutBetweenResponses, Word
  <2>2. R \in Nat /\ R - 1 \in Nat /\ hcnt \in 1 .. Len(stream)
    <3>1. blen[delivered] \in Nat
      BY <1>i, <2>1, IrqTypes
    <3> QED
      BY <1>t, <1>2, <3>1 DEF HdrWords
  <2>3. ResponseAt(stream, Len(stream), blen, hcnt - (R - 1), delivered)
    BY <1>i, <2>1, <2>2, StreamPlace
  <2>4. (hcnt - (R - 1)) + R = hcnt + 1 /\ hcnt + 1 <= Len(stream)
    BY <1>t, <2>2
  <2>5. stream[(hcnt - (R - 1)) + R] = Word(delivered + 1, 0)
    BY <2>3, <2>4 DEF ResponseAt
  <2> QED
    BY <1>2, <2>4, <2>5
<1>3. CASE rsp.len # 0
  <2> DEFINE R == HdrWords + blen[delivered + 1]
  <2>1. /\ stream[hcnt] = <<delivered + 1, 1>> /\ delivered + 1 \in Msgs
        /\ rsp.len = R /\ hcnt >= HdrWords
    BY <1>3 DEF CutBetweenResponses, Word, HdrWords
  <2>2. R \in Nat /\ R >= HdrWords /\ hcnt \in 1 .. Len(stream) /\ 1 \in Nat
    <3>1. blen[delivered + 1] \in Nat
      BY <1>i, <2>1, IrqTypes
    <3> QED
      BY <1>t, <2>1, <3>1 DEF HdrWords
  <2>3. ResponseAt(stream, Len(stream), blen, hcnt - 1, delivered + 1)
    BY <1>i, <2>1, <2>2, StreamPlace
  <2>4. (hcnt - 1) + HdrWords = hcnt + 1 /\ hcnt + 1 <= Len(stream)
        /\ (R # HdrWords => HdrWords \in 0 .. (R - 1))
    BY <1>t, <2>2 DEF HdrWords
  <2>5. R # HdrWords => stream[(hcnt - 1) + HdrWords] = Word(delivered + 1, HdrWords)
    BY <2>3, <2>4 DEF ResponseAt
  <2>6. R = HdrWords => stream[(hcnt - 1) + R] = Word((delivered + 1) + 1, 0)
    BY <2>3, <2>4 DEF ResponseAt
  <2>7. (delivered + 1) + 1 = delivered + 2
    BY <1>t
  <2> QED
    BY <1>3, <2>1, <2>4, <2>5, <2>6, <2>7
<1> QED
  BY <1>1, <1>2, <1>3

-----------------------------------------------------------------------------
(* The inductive invariant behind StreamSound *)

\* It holds of the empty ring.
LEMMA InitStream == Init => StreamIInv
<1> SUFFICES ASSUME Init PROVE StreamIInv
  OBVIOUS
<1>0. srd \in Offsets /\ NumWords(srd, srd) = 0 /\ stream = << >> /\ Len(stream) = 0
  BY IrqAssumption, NAssumption DEF Init, NumWords, BufDiff, Offsets
<1>1. StreamIsResponses
  BY <1>0 DEF Init, StreamIsResponses, Responses
<1>2. CutBetweenResponses /\ EdgeIsKept
  BY DEF Init, CutBetweenResponses, EdgeIsKept
<1>3. NoLostDoorbell
  BY <1>0 DEF Init, NoLostDoorbell, Needed, HdrWords
<1> QED
  BY <1>1, <1>2, <1>3 DEF StreamIInv

\* A step that neither publishes nor reads keeps the cut.
LEMMA CutKept ==
    ASSUME StreamIsResponses, CutBetweenResponses,
           UNCHANGED <<stream, blen, cur, left, hcnt, rsp, delivered, req>>,
           faulty' \in {faulty, TRUE},
           wpc' \notin {"more", "deliver"} \/ wpc' = wpc
    PROVE  StreamIsResponses' /\ CutBetweenResponses'
<1>1. StreamIsResponses'
  BY DEF StreamIsResponses
<1>2. CutBetweenResponses'
  BY DEF CutBetweenResponses, Needed
<1> QED
  BY <1>1, <1>2

\* The interrupt and the worker's steps outside mt7697q_proc_data.
LEMMA IrqStepsKeepStream ==
    ASSUME IrqIInv, StreamIInv,
           Isr \/ StartWork \/ RdS2mMbx \/ ClrS2mMbx \/ IrqNotifyTx
    PROVE  StreamIInv'
<1>i. /\ IrqBalanced /\ OneWorkItem /\ StreamIsResponses /\ CutBetweenResponses
      /\ EdgeIsKept /\ NoLostDoorbell
  BY DEF IrqIInv, IrqSound, StreamIInv
<1>u. /\ UNCHANGED <<mem, srd, swr, hrd, hwr, avail, req, rsp, hcnt, delivered>>
      /\ UNCHANGED <<blen, cur, left, bell, stream>>
  BY DEF Isr, StartWork, RdS2mMbx, ClrS2mMbx, IrqNotifyTx, MbxFails,
         ring, host, locals, slave, history
<1>w. /\ wpc' \notin {"more", "deliver"} \/ wpc' = wpc
      /\ faulty' \in {faulty, TRUE}
  BY DEF Isr, StartWork, RdS2mMbx, ClrS2mMbx, IrqNotifyTx, MbxFails, history
<1>1. StreamIsResponses' /\ CutBetweenResponses'
  BY <1>i, <1>u, <1>w, CutKept
<1> DEFINE P == hwr # swr \/ NumWords(hrd, swr) >= Needed(rsp.len)
<1>2. P' <=> P
  BY <1>u DEF Needed
<1>3. ~ faulty => /\ P => Announced
                  /\ mbx # {} => edge \/ "irq" \in bell \/ Working
  BY <1>i DEF NoLostDoorbell
<1>4. ASSUME faulty' \/ (/\ P => Announced'
                         /\ mbx' # {} => edge' \/ "irq" \in bell' \/ Working')
      PROVE  NoLostDoorbell'
  BY <1>2, <1>4 DEF NoLostDoorbell
<1> HIDE DEF P
<1>5. CASE Isr
  <2>1. /\ wpc' = wpc /\ queued' = TRUE /\ depth = 0
        /\ UNCHANGED <<mbx, delayed, got, faulty>>
    BY <1>5 DEF Isr, history
  <2>2. wpc = "idle"
    BY <1>i, <2>1 DEF IrqBalanced, OneWorkItem, Working
  <2>3. EdgeIsKept'
    BY <2>1, <2>2 DEF EdgeIsKept
  <2>4. NoLostDoorbell'
    BY <1>3, <1>4, <1>u, <2>1 DEF Announced, Working
  <2> QED
    BY <1>1, <2>3, <2>4 DEF StreamIInv
<1>6. CASE StartWork
  <2>1. wpc = "idle" /\ wpc' = "rdmbx" /\ UNCHANGED <<mbx, edge, got, faulty>>
    BY <1>6 DEF StartWork, history
  <2>2. EdgeIsKept'
    BY <2>1 DEF EdgeIsKept
  <2>3. NoLostDoorbell'
    BY <1>3, <1>4, <1>u, <2>1 DEF Announced, Working
  <2> QED
    BY <1>1, <2>2, <2>3 DEF StreamIInv
<1>7. CASE RdS2mMbx
  <2>1. /\ wpc = "rdmbx" /\ UNCHANGED <<mbx, edge>>
        /\ \/ wpc' = "clrmbx" /\ got' = mbx /\ UNCHANGED faulty
           \/ wpc' = "idle" /\ faulty' = TRUE
    BY <1>7 DEF RdS2mMbx, MbxFails, history
  <2>2. EdgeIsKept'
    BY <2>1 DEF EdgeIsKept
  <2>3. NoLostDoorbell'
    BY <1>3, <1>4, <1>u, <2>1 DEF Announced, Working
  <2> QED
    BY <1>1, <2>2, <2>3 DEF StreamIInv
<1>8. CASE ClrS2mMbx
  <2>1. /\ wpc = "clrmbx" /\ UNCHANGED edge /\ got' = got
        /\ \/ faulty' = TRUE /\ wpc' = "idle"
           \/ /\ mbx' = mbx \ got /\ UNCHANGED faulty
              /\ \/ got # {} /\ wpc' = "tx"
                 \/ got = {} /\ wpc' = "idle"
    BY <1>8 DEF ClrS2mMbx, MbxFails, history
  <2>2. EdgeIsKept'
    BY <2>1 DEF EdgeIsKept
  <2>3. CASE faulty'
    BY <1>1, <1>4, <2>2, <2>3 DEF StreamIInv
  <2>4. CASE ~ faulty'
    <3>0. faulty' # TRUE
      BY <2>4
    <3>1. /\ mbx' = mbx \ got /\ faulty' = faulty
          /\ (got # {} /\ wpc' = "tx") \/ (got = {} /\ wpc' = "idle")
      BY <2>1, <3>0
    <3>f. ~ faulty
      BY <2>4, <3>1
    <3>2. Announced => Announced'
      BY <1>u, <2>1, <3>1 DEF Announced
    <3>3. mbx' # {} => edge' \/ "irq" \in bell' \/ Working'
      BY <1>i, <1>u, <2>1, <3>1, <3>f DEF EdgeIsKept, Working
    <3>4. NoLostDoorbell'
      BY <1>3, <1>4, <3>f, <3>2, <3>3
    <3> QED
      BY <1>1, <2>2, <3>4 DEF StreamIInv
  <2> QED
    BY <2>3, <2>4
<1>9. CASE IrqNotifyTx
  <2>1. /\ wpc = "tx" /\ wpc' = IF "rx" \in got THEN "pull" ELSE "idle"
        /\ UNCHANGED <<mbx, edge, queued, delayed, got, faulty>>
    BY <1>9 DEF IrqNotifyTx, irqs, history
  <2>2. delayed
    BY <1>i, <2>1 DEF OneWorkItem
  <2>3. EdgeIsKept'
    BY <2>1 DEF EdgeIsKept
  <2>4. NoLostDoorbell'
    BY <1>3, <1>4, <1>u, <2>1, <2>2 DEF Announced, Working
  <2> QED
    BY <1>1, <2>3, <2>4 DEF StreamIInv
<1> QED
  BY <1>5, <1>6, <1>7, <1>8, <1>9

\* The slave's steps: what it publishes, and the doorbell that says so.
LEMMA SlaveStepsKeepStream ==
    ASSUME IrqIInv, IrqIInv', StreamIInv,
           \/ SlaveDrained \/ Doorbell
           \/ \E b \in Bodies, k \in 1 .. Capacity : SlaveStarts(b, k)
           \/ \E k \in 1 .. Capacity : SlaveContinues(k)
    PROVE  StreamIInv'
<1>i. /\ TypeOK /\ StreamIsResponses /\ CutBetweenResponses /\ EdgeIsKept /\ NoLostDoorbell
  BY DEF IrqIInv, IrqSound, StreamIInv
<1>1. CASE SlaveDrained \/ Doorbell
  <2>1. /\ UNCHANGED <<mem, srd, swr, hrd, hwr, depth, queued, delayed, wpc, got, avail, req,
                       rsp, blen, cur, left, stream, hcnt, delivered, faulty, deaf>>
    BY <1>1 DEF SlaveDrained, Doorbell, SlaveSetsBit, SlaveInterrupts, ring, host, irqs,
                locals, history
  <2>2. StreamIsResponses' /\ CutBetweenResponses'
    BY <1>i, <2>1, CutKept
  <2>3. \/ mbx' = mbx /\ edge' = edge /\ bell' = bell \cup {"tx"}
        \/ \E c \in Bits : mbx' = mbx \cup {c} /\ bell' = (bell \ {c}) \cup {"irq"} /\ edge' = edge
        \/ mbx' = mbx /\ edge' = TRUE /\ bell' = bell \ {"irq"}
    BY <1>1 DEF SlaveDrained, Doorbell, SlaveSetsBit, SlaveInterrupts, irqs
  <2>4. EdgeIsKept'
    BY <1>i, <2>1, <2>3 DEF EdgeIsKept
  <2>5. "rx" \in bell \cup mbx => "rx" \in bell' \cup mbx'
    BY <2>3
  <2>6. Announced => Announced'
    BY <2>1, <2>5 DEF Announced
  <2>7. ~ faulty /\ mbx' # {} => edge' \/ "irq" \in bell' \/ Working'
    BY <1>i, <2>1, <2>3 DEF NoLostDoorbell, Working
  <2>8. NoLostDoorbell'
    BY <1>i, <2>1, <2>6, <2>7 DEF NoLostDoorbell, Needed
  <2> QED
    BY <2>2, <2>4, <2>8 DEF StreamIInv
<1>2. CASE \/ \E b \in Bodies, k \in 1 .. Capacity : SlaveStarts(b, k)
           \/ \E k \in 1 .. Capacity : SlaveContinues(k)
  <2>1. /\ StreamIsResponses'
        /\ \A i \in 1 .. Len(stream) : stream'[i] = stream[i]
        /\ \A r \in 1 .. cur : blen'[r] = blen[r]
        /\ UNCHANGED <<srd, hrd, hwr, hcnt, rsp, delivered, faulty, wpc, got, avail, req,
                       mbx, edge, queued, delayed>>
        /\ bell' = bell \cup {"rx"}
    BY <1>i, <1>2, PublishKeepsStream
  <2>2. EdgeIsKept' /\ NoLostDoorbell'
    BY <1>i, <2>1 DEF EdgeIsKept, NoLostDoorbell, Announced, Working
  <2>3. CutBetweenResponses'
    <3>t. hcnt \in Nat /\ Len(stream) \in Nat /\ hcnt <= Len(stream)
      BY ConsumedIsPublished
    <3>1. ASSUME NEW m, NEW j \in Nat, hcnt # 0, stream[hcnt] = <<m, j>>
          PROVE  stream'[hcnt] = <<m, j>> /\ blen'[m] = blen[m]
      <4>1. hcnt \in 1 .. Len(stream)
        BY <3>t, <3>1
      <4>2. m \in 1 .. cur
        BY <1>i, <3>1, <4>1, StreamPlace
      <4> QED
        BY <2>1, <3>1, <4>1, <4>2
    <3>2. CASE ~ faulty /\ rsp.len = 0 /\ hcnt # 0
      <4>1. stream[hcnt] = <<delivered, (HdrWords + blen[delivered]) - 1>> /\ delivered \in Msgs
        BY <1>i, <3>2 DEF CutBetweenResponses, Word
      <4>2. (HdrWords + blen[delivered]) - 1 \in Nat
        <5>1. blen[delivered] \in Nat
          BY <1>i, <4>1, IrqTypes
        <5> QED
          BY <5>1 DEF HdrWords
      <4>3. stream'[hcnt] = <<delivered, (HdrWords + blen[delivered]) - 1>> /\ blen'[delivered] = blen[delivered]
        BY <3>1, <3>2, <4>1, <4>2
      <4> QED
        BY <1>i, <2>1, <3>2, <4>1, <4>3 DEF CutBetweenResponses, Word
    <3>3. CASE ~ faulty /\ rsp.len # 0
      <4>1. stream[hcnt] = <<delivered + 1, HdrWords - 1>> /\ hcnt # 0 /\ HdrWords - 1 \in Nat
        BY <1>i, <3>t, <3>3 DEF CutBetweenResponses, Word, HdrWords
      <4>2. stream'[hcnt] = <<delivered + 1, HdrWords - 1>> /\ blen'[delivered + 1] = blen[delivered + 1]
        BY <3>1, <4>1
      <4> QED
        BY <1>i, <2>1, <3>3, <4>2 DEF CutBetweenResponses, Word, Needed
    <3>4. CASE faulty \/ (rsp.len = 0 /\ hcnt = 0)
      BY <1>i, <2>1, <3>4 DEF CutBetweenResponses, Needed
    <3> QED
      BY <3>2, <3>3, <3>4
  <2> QED
    BY <2>1, <2>2, <2>3 DEF StreamIInv
<1> QED
  BY <1>1, <1>2

\* The steps of mt7697q_proc_data that read nothing.
LEMMA PullStepsKeepStream ==
    ASSUME IrqIInv, StreamIInv,
           PullWrPtr \/ NeedMoreData \/ PullAgain \/ PushRdPtr
    PROVE  StreamIInv'
<1>i. /\ TypeOK /\ OneWorkItem /\ LocalsMatchRing /\ StreamIsResponses /\ CutBetweenResponses
      /\ NoLostDoorbell
  BY DEF IrqIInv, IrqSound, StreamIInv
<1>t. /\ NumWords(hrd, swr) \in Nat /\ Needed(rsp.len) \in Nat /\ req \in Nat /\ avail \in Nat
      /\ HdrWords \in Nat
  <2>1. rsp.len \in Nat /\ hrd \in Offsets /\ swr \in Offsets /\ req \in Nat /\ avail \in Nat
    BY <1>i, IrqTypes
  <2> QED
    BY <2>1, NumWordsType, NeededType DEF HdrWords
<1>u. /\ UNCHANGED <<mbx, edge, queued, delayed, got, blen, cur, left, bell, stream>>
      /\ UNCHANGED <<mem, swr, hrd, rsp, hcnt, delivered>>
      /\ faulty' \in {faulty, TRUE}
  BY DEF PullWrPtr, NeedMoreData, PullAgain, PushRdPtr, ProcUnchanged, ProcFails, irqs, slave,
         ring, host, history
<1>w. /\ wpc \in {"pull", "more", "again", "push"}
      /\ wpc' \in {"idle", "header", "deliver", "push"}
      /\ wpc' = "deliver" => wpc = "more"
      /\ req' # req => wpc = "pull"
  BY DEF PullWrPtr, NeedMoreData, PullAgain, PushRdPtr, ProcFails, locals
<1>1. StreamIsResponses' /\ EdgeIsKept'
  BY <1>i, <1>u, <1>w DEF StreamIsResponses, EdgeIsKept
<1>2. CutBetweenResponses'
  BY <1>i, <1>u, <1>w DEF CutBetweenResponses, Needed
<1>3. delayed
  BY <1>i, <1>w DEF OneWorkItem
<1>4. ASSUME ~ faulty' PROVE (hwr' # swr' \/ NumWords(hrd', swr') >= Needed(rsp'.len)) => Announced'
  <2>0. ~ faulty
    BY <1>u, <1>4
  <2>1. CASE PullWrPtr
    <3>1. /\ hwr' = swr /\ avail' = NumWords(hrd, swr) /\ req' = Needed(rsp.len)
          /\ wpc' = IF avail' >= req' THEN "header" ELSE "idle"
      BY <1>4, <2>0, <2>1 DEF PullWrPtr, ProcFails
    <3> QED
      BY <1>t, <1>u, <3>1 DEF Announced, Needed
  <2>2. CASE NeedMoreData
    <3>1. req = Needed(rsp.len)
      BY <1>i, <2>0, <2>2 DEF NeedMoreData, CutBetweenResponses
    <3>2. \/ wpc' = "deliver"
          \/ hwr' = swr /\ wpc' = "idle" /\ ~ (NumWords(hrd, swr) >= req)
      BY <1>4, <2>0, <2>2 DEF NeedMoreData, ProcFails
    <3> QED
      BY <1>t, <1>u, <3>1, <3>2 DEF Announced, Needed
  <2>3. CASE PullAgain
    <3>1. req = Needed(rsp.len)
      BY <1>i, <2>3 DEF PullAgain, LocalsMatchRing, Needed
    <3>2. hwr' = swr /\ avail' = NumWords(hrd, swr) /\ wpc' = "push" /\ req' = req
      BY <1>4, <2>0, <2>3 DEF PullAgain, ProcFails
    <3> QED
      BY <1>t, <1>u, <3>1, <3>2 DEF Announced, Needed
  <2>4. CASE PushRdPtr
    <3>1. /\ wpc = "push" /\ UNCHANGED <<hwr, avail, req>>
          /\ wpc' = IF avail >= req THEN "header" ELSE "idle"
      BY <1>4, <2>0, <2>4 DEF PushRdPtr, host, locals
    <3>2. (hwr # swr \/ NumWords(hrd, swr) >= Needed(rsp.len)) => Announced
      BY <1>i, <2>0 DEF NoLostDoorbell
    <3> QED
      BY <1>u, <3>1, <3>2 DEF Announced, Needed
  <2> QED
    BY <2>1, <2>2, <2>3, <2>4
<1>5. NoLostDoorbell'
  BY <1>3, <1>4, <1>u DEF NoLostDoorbell, Working
<1> QED
  BY <1>1, <1>2, <1>5 DEF StreamIInv

\* The header mt7697q_proc_data reads is the one of the next response.
LEMMA ReadHeaderKeepsStream ==
    ASSUME IrqIInv, StreamIInv, ReadHeader
    PROVE  StreamIInv'
<1>i. /\ TypeOK /\ RingMatchesStream /\ OneWorkItem /\ LocalsMatchRing /\ StreamIsResponses
      /\ CutBetweenResponses
  BY DEF IrqIInv, IrqSound, ReadsPublished, StreamIInv
<1>t. /\ hrd \in Offsets /\ hwr \in Offsets /\ swr \in Offsets /\ hcnt \in Nat
      /\ Len(stream) \in Nat /\ delivered \in Nat /\ avail \in Nat
      /\ rsp.len \in Nat /\ HdrWords \in Nat
  BY <1>i, IrqTypes DEF HdrWords
<1>n. /\ NumWords(hrd, hwr) \in Nat /\ NumWords(hrd, swr) \in Nat
      /\ NumWords(hrd, hwr) <= NumWords(hrd, swr)
      /\ hcnt + NumWords(hrd, swr) = Len(stream)
  BY ConsumedIsPublished
<1>u. UNCHANGED <<mbx, edge, queued, delayed, got, blen, cur, left, bell, stream, mem, swr, hwr>>
  BY DEF ReadHeader, ProcUnchanged, irqs, slave, ring, host
<1>w. /\ wpc = "header" /\ wpc' \in {"more", "idle"} /\ faulty' \in {faulty, TRUE}
      /\ delivered' = delivered
      /\ avail >= req /\ req = Needed(rsp.len) /\ avail <= NumWords(hrd, hwr)
  BY <1>i DEF ReadHeader, LocalsMatchRing, history
<1>d. delayed
  BY <1>i, <1>w DEF OneWorkItem
<1>1. StreamIsResponses' /\ EdgeIsKept'
  BY <1>i, <1>u, <1>w DEF StreamIsResponses, EdgeIsKept
<1>2. CASE faulty'
  BY <1>1, <1>2 DEF StreamIInv, CutBetweenResponses, NoLostDoorbell
<1>3. CASE ~ faulty'
  <2>0. ~ faulty /\ faulty' # TRUE
    <3>1. faulty' # TRUE
      BY <1>3
    <3>2. faulty' = faulty
      BY <1>w, <3>1
    <3> QED
      BY <1>3, <3>1, <3>2
  <2>1. wpc' = "more"
    BY <2>0 DEF ReadHeader
  <2>2. NoLostDoorbell'
    BY <1>d, <1>u, <2>1 DEF NoLostDoorbell, Announced, Working
  <2>3. CutBetweenResponses'
    <3>1. CASE rsp.len # 0
      <4>1. UNCHANGED <<hcnt, rsp, req>>
        BY <3>1 DEF ReadHeader, locals, history
      <4> QED
        BY <1>i, <1>u, <1>w, <2>0, <3>1, <4>1 DEF CutBetweenResponses, Needed
    <3>2. CASE rsp.len = 0
      <4>1. /\ Consume(HdrWords)
            /\ \E l \in Lengths(mem[hrd]) : rsp' = [len |-> l, word |-> mem[hrd]]
            /\ req' = IF rsp'.len = 0 THEN Huge ELSE Needed(rsp'.len)
        BY <2>0, <3>2 DEF ReadHeader
      <4>2. HdrWords <= NumWords(hrd, hwr) /\ HdrWords <= NumWords(hrd, swr)
        BY <1>t, <1>n, <1>w, <3>2 DEF Needed
      <4>3. hcnt' = hcnt + HdrWords
        BY <1>i, <1>t, <4>1, <4>2, ReadEndIs DEF Consume
      <4>4. /\ hcnt + 1 \in 1 .. Len(stream) /\ hcnt < Len(stream)
            /\ hcnt + 2 <= Len(stream)
            /\ 0 \in 0 .. (NumWords(hrd, swr) - 1)
        BY <1>t, <1>n, <4>2 DEF HdrWords
      <4>5. stream[hcnt + 1] = <<delivered + 1, 0>>
        BY <1>i, <2>0, <3>2, <4>4, NextWordIs DEF Word
      <4>6. mem[hrd] = <<delivered + 1, 0>>
        <5>1. Advance(hrd, 0) = hrd /\ hcnt + 0 + 1 = hcnt + 1
          BY <1>t, NAssumption DEF Advance, Offsets
        <5>2. mem[Advance(hrd, 0)] = stream[hcnt + 0 + 1]
          BY <1>i, <4>4 DEF RingMatchesStream
        <5> QED
          BY <4>5, <5>1, <5>2
      <4>7. /\ delivered + 1 \in Msgs /\ blen[delivered + 1] \in Nat
            /\ ResponseAt(stream, Len(stream), blen, (hcnt + 1) - 0, delivered + 1)
        BY <1>i, <4>4, <4>5, StreamPlace
      <4>8. stream[hcnt + 2] = <<delivered + 1, 1>>
        <5>1. /\ 1 \in 0 .. ((HdrWords + blen[delivered + 1]) - 1)
              /\ ((hcnt + 1) - 0) + 1 = hcnt + 2
          BY <1>t, <4>7 DEF HdrWords
        <5> QED
          BY <4>4, <4>7, <5>1 DEF ResponseAt, Word
      <4>9. Lengths(mem[hrd]) = {HdrWords + blen[delivered + 1]}
        <5>1. mem[hrd][1] = delivered + 1 /\ mem[hrd][2] = 0 /\ delivered + 1 > 0
          BY <1>t, <4>6
        <5> QED
          BY <5>1 DEF Lengths
      <4>10. rsp' = [len |-> HdrWords + blen[delivered + 1], word |-> <<delivered + 1, 0>>]
        BY <4>1, <4>6, <4>9
      <4>11. rsp'.len # 0 /\ req' = Needed(rsp'.len)
        <5>1. rsp'.len = HdrWords + blen[delivered + 1]
          BY <4>10
        <5>2. rsp'.len # 0
          BY <4>7, <5>1 DEF HdrWords
        <5> QED
          BY <4>1, <5>2
      <4>12. hcnt' = hcnt + 2 /\ hcnt' >= HdrWords
        BY <1>t, <4>3 DEF HdrWords
      <4>13. stream'[hcnt'] = <<delivered + 1, HdrWords - 1>>
        BY <1>u, <4>8, <4>12 DEF HdrWords
      <4> QED
        BY <1>u, <1>w, <4>7, <4>10, <4>11, <4>12, <4>13 DEF CutBetweenResponses, Word, Needed
    <3> QED
      BY <3>1, <3>2
  <2> QED
    BY <1>1, <2>2, <2>3 DEF StreamIInv
<1> QED
  BY <1>2, <1>3

\* Delivering the body leaves the driver behind the last word of the response.
LEMMA DeliverKeepsStream ==
    ASSUME IrqIInv, StreamIInv, Deliver
    PROVE  StreamIInv'
<1>i. /\ TypeOK /\ OneWorkItem /\ LocalsMatchRing /\ StreamIsResponses /\ CutBetweenResponses
  BY DEF IrqIInv, IrqSound, StreamIInv
<1>t. /\ hcnt \in Nat /\ Len(stream) \in Nat /\ delivered \in Nat /\ avail \in Nat /\ req \in Nat
      /\ HdrWords \in Nat /\ rsp \in [len : Nat, word : (0 .. MaxMsgs) \X Nat]
  BY <1>i, IrqTypes DEF HdrWords
<1>n. /\ NumWords(hrd, hwr) \in Nat /\ NumWords(hrd, swr) \in Nat
      /\ NumWords(hrd, hwr) <= NumWords(hrd, swr)
      /\ hcnt + NumWords(hrd, swr) = Len(stream)
  BY ConsumedIsPublished
<1>u. UNCHANGED <<mbx, edge, queued, delayed, got, blen, cur, left, bell, stream, mem, swr, hwr>>
  BY DEF Deliver, ProcUnchanged, ProcFails, irqs, slave, ring, host
<1>w. /\ wpc = "deliver" /\ wpc' \in {"again", "push", "idle"} /\ faulty' \in {faulty, TRUE}
      /\ avail >= req /\ avail <= NumWords(hrd, hwr)
  BY <1>i DEF Deliver, ProcFails, LocalsMatchRing
<1>d. delayed
  BY <1>i, <1>w DEF OneWorkItem
<1>1. StreamIsResponses' /\ EdgeIsKept'
  BY <1>i, <1>u, <1>w DEF StreamIsResponses, EdgeIsKept
<1>2. CASE faulty'
  BY <1>1, <1>2 DEF StreamIInv, CutBetweenResponses, NoLostDoorbell
<1>3. CASE ~ faulty'
  <2>0. ~ faulty /\ faulty' # TRUE
    <3>1. faulty' # TRUE
      BY <1>3
    <3>2. faulty' = faulty
      BY <1>w, <3>1
    <3> QED
      BY <1>3, <3>1, <3>2
  <2>1. /\ Consume(req) /\ delivered' = delivered + 1
        /\ avail' = avail - req /\ req' = HdrWords /\ rsp' = [rsp EXCEPT !.len = 0]
        /\ wpc' = IF avail' < req' THEN "again" ELSE "push"
    BY <2>0 DEF Deliver, ProcFails
  <2>2. NoLostDoorbell'
    <3>1. wpc' = "again" \/ (wpc' = "push" /\ avail' >= req')
      <4>1. avail' \in Int /\ req' \in Int
        BY <1>t, <2>1
      <4> QED
        BY <2>1, <4>1
    <3> QED
      BY <1>d, <1>u, <3>1 DEF NoLostDoorbell, Announced, Working
  <2> DEFINE b == blen[delivered + 1]
  <2>3. /\ rsp.len # 0 /\ req = Needed(rsp.len) /\ rsp.len = HdrWords + b
        /\ hcnt >= HdrWords /\ delivered + 1 \in Msgs
        /\ stream[hcnt] = <<delivered + 1, 1>>
    BY <1>i, <1>w, <2>0 DEF CutBetweenResponses, Word, HdrWords
  <2>4. hcnt \in 1 .. Len(stream) /\ 1 \in Nat
    BY <1>t, <1>n, <2>3 DEF HdrWords
  <2>5. b \in Nat /\ ResponseAt(stream, Len(stream), blen, hcnt - 1, delivered + 1)
    BY <1>i, <2>3, <2>4, StreamPlace
  <2>6. req = b
    BY <2>3, <2>5 DEF Needed, HdrWords
  <2>7. hcnt' = hcnt + b /\ hcnt + b <= Len(stream)
    <3>1. req <= NumWords(hrd, hwr)
      BY <1>t, <1>n, <1>w
    <3>2. hcnt' = hcnt + req
      BY <1>i, <1>t, <2>1, <3>1, ReadEndIs DEF Consume
    <3> QED
      BY <1>t, <1>n, <2>6, <3>1, <3>2, SMTT(30)
  <2>8. stream[hcnt + b] = <<delivered + 1, (HdrWords + b) - 1>>
    <3>1. /\ (HdrWords + b) - 1 \in 0 .. ((HdrWords + b) - 1)
          /\ (hcnt - 1) + ((HdrWords + b) - 1) = hcnt + b
      BY <1>t, <2>5, SMTT(30) DEF HdrWords
    <3>2. \A j \in 0 .. ((HdrWords + b) - 1) :
             (hcnt - 1) + j <= Len(stream) => stream[(hcnt - 1) + j] = <<delivered + 1, j>>
      BY <2>5 DEF ResponseAt, Word
    <3> HIDE DEF b
    <3> QED
      BY <2>7, <3>1, <3>2
  <2>9. rsp'.len = 0 /\ hcnt' # 0
    BY <1>t, <2>1, <2>3, <2>5, <2>7, SMTT(30) DEF HdrWords
  <2>10. stream'[hcnt'] = <<delivered', (HdrWords + blen'[delivered']) - 1>> /\ delivered' \in Msgs
    BY <1>u, <2>1, <2>3, <2>7, <2>8
  <2>11. wpc' \notin {"more", "deliver"}
    BY <1>w
  <2>12. CutBetweenResponses'
    BY <2>9, <2>10, <2>11 DEF CutBetweenResponses, Word
  <2> QED
    BY <1>1, <2>2, <2>12 DEF StreamIInv
<1> QED
  BY <1>2, <1>3

\* Every step keeps the invariant.
LEMMA NextStream == IrqIInv /\ IrqIInv' /\ StreamIInv /\ [Next]_vars => StreamIInv'
<1> SUFFICES ASSUME IrqIInv, IrqIInv', StreamIInv, [Next]_vars PROVE StreamIInv'
  OBVIOUS
<1>1. CASE Isr \/ StartWork \/ RdS2mMbx \/ ClrS2mMbx \/ IrqNotifyTx
  BY <1>1, IrqStepsKeepStream
<1>2. CASE PullWrPtr \/ NeedMoreData \/ PullAgain \/ PushRdPtr
  BY <1>2, PullStepsKeepStream
<1>3. CASE ReadHeader
  BY <1>3, ReadHeaderKeepsStream
<1>4. CASE Deliver
  BY <1>4, DeliverKeepsStream
<1>5. CASE \/ SlaveDrained \/ Doorbell
           \/ \E b \in Bodies, k \in 1 .. Capacity : SlaveStarts(b, k)
           \/ \E k \in 1 .. Capacity : SlaveContinues(k)
  BY <1>5, SlaveStepsKeepStream
<1>6. CASE UNCHANGED vars
  <2>1. UNCHANGED <<mem, srd, swr, hrd, hwr, mbx, edge, depth, queued, delayed, wpc, got,
                    avail, req, rsp, blen, cur, left, bell, stream, hcnt, delivered, faulty,
                    deaf>>
    BY <1>6 DEF vars, ring, host, irqs, locals, slave, history
  <2>2. StreamIsResponses' /\ CutBetweenResponses'
    BY <2>1, CutKept DEF StreamIInv
  <2>3. EdgeIsKept' /\ NoLostDoorbell'
    BY <2>1 DEF StreamIInv, EdgeIsKept, NoLostDoorbell, Announced, Working, Needed
  <2> QED
    BY <2>2, <2>3 DEF StreamIInv
<1> QED
  BY <1>1, <1>2, <1>3, <1>4, <1>5, <1>6 DEF Next, Work

\* The invariant holds in every reachable state.
THEOREM StreamInvariant == Spec => []StreamIInv
<1> QED
  BY IrqInvariant, InitStream, NextStream, PTL DEF Spec

\* For every ring size and every sequence of responses, as long as no transfer failed and
\* rx_fcn took every body: mt7697q_proc_data cuts the stream where the slave cut it, and
\* no doorbell is lost in the races between the slave, the interrupt and the poll.
THEOREM StreamIsSound == Spec => []StreamSound
<1>1. ASSUME IrqIInv, StreamIInv PROVE StreamSound
  <2>1. TypeOK /\ StreamIsResponses /\ CutBetweenResponses /\ NoLostDoorbell
    BY <1>1 DEF IrqIInv, IrqSound, StreamIInv
  <2>2. rsp.len \in Nat
    BY <2>1, IrqTypes
  <2>3. ASSUME ~ faulty, rsp.len > 0
        PROVE  rsp.word = Word(delivered + 1, 0) /\ rsp.len = HdrWords + blen[delivered + 1]
    BY <2>1, <2>2, <2>3 DEF CutBetweenResponses
  <2>4. InFrame
    BY <1>1, <2>1, <2>3, NextWordIs DEF InFrame
  <2> QED
    BY <2>1, <2>4 DEF StreamSound
<1> QED
  BY <1>1, IrqInvariant, StreamInvariant, PTL
=============================================================================
