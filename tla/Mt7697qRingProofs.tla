-------------------------- MODULE Mt7697qRingProofs --------------------------
(***************************************************************************)
(* Facts about the offset arithmetic of queue.c, for every ring size: what *)
(* both directions' proofs rest on.                                        *)
(***************************************************************************)
EXTENDS Mt7697qRing, TLAPS

\* Advancing by at most one turn stays in the ring (the offsets of queue.c).
LEMMA AdvanceType ==
    ASSUME NEW o \in Offsets, NEW k \in 0 .. N
    PROVE  Advance(o, k) \in Offsets
BY NAssumption DEF Advance, Offsets

\* Two advances in a row are one.
LEMMA AdvanceAdd ==
    ASSUME NEW o \in Offsets, NEW a \in Nat, NEW b \in Nat, a + b < N
    PROVE  Advance(Advance(o, a), b) = Advance(o, a + b)
BY NAssumption DEF Advance, Offsets

\* As long as the end of the ring is not reached, advancing is adding.
LEMMA AdvanceWithin ==
    ASSUME NEW o \in Offsets, NEW a \in 0 .. (N - 1), NEW t \in Nat,
           Advance(o, a) + t < N
    PROVE  Advance(o, a + t) = Advance(o, a) + t
BY NAssumption DEF Advance, Offsets

\* Within one turn, different distances reach different slots.
LEMMA AdvanceInjective ==
    ASSUME NEW o \in Offsets, NEW a \in 0 .. (N - 1), NEW b \in 0 .. (N - 1),
           Advance(o, a) = Advance(o, b)
    PROVE  a = b
BY NAssumption DEF Advance, Offsets

\* mt7697q_buf_diff undoes an advance.
LEMMA BufDiffAdvance ==
    ASSUME NEW o \in Offsets, NEW k \in 0 .. (N - 1)
    PROVE  BufDiff(o, Advance(o, k)) = k
BY NAssumption DEF Advance, BufDiff, Offsets

\* ... and an advance undoes mt7697q_buf_diff.
LEMMA AdvanceBufDiff ==
    ASSUME NEW o \in Offsets, NEW p \in Offsets
    PROVE  BufDiff(o, p) \in 0 .. (N - 1) /\ Advance(o, BufDiff(o, p)) = p
BY NAssumption DEF Advance, BufDiff, Offsets

\* mt7697q_get_num_words never exceeds the capacity.
LEMMA NumWordsType ==
    ASSUME NEW rd \in Offsets, NEW wr \in Offsets
    PROVE  NumWords(rd, wr) \in Nat /\ NumWords(rd, wr) < N
BY AdvanceBufDiff, NAssumption DEF NumWords

\* mt7697q_get_free_words never exceeds the capacity.
LEMMA FreeWordsType ==
    ASSUME NEW rd \in Offsets, NEW wr \in Offsets
    PROVE  FreeWords(rd, wr) \in 0 .. (N - 1)
BY AdvanceBufDiff, NAssumption DEF FreeWords, NumWords, Capacity

\* The two runs of mt7697q_write together always take all the words of a
\* message that fits: after the first, what is left fits before the reader.
LEMMA TwoRunsSuffice ==
    ASSUME NEW rd \in Offsets, NEW wr \in Offsets, NEW n \in Nat,
           n <= FreeWords(rd, wr)
    PROVE  LET k == WriteRun1(rd, wr, n)
               w == AfterRun(wr, k)
           IN /\ k \in 0 .. n
              /\ wr + k <= N
              /\ w = Advance(wr, k)
              /\ n - k > 0 => w < rd /\ n - k <= rd - w - 1
BY NAssumption DEF FreeWords, NumWords, Capacity, BufDiff, WriteRun1, AfterRun,
                   Lesser, Advance, Offsets

\* Moving the far end of a stretch forward makes it longer ...
LEMMA BufDiffGrows ==
    ASSUME NEW o \in Offsets, NEW p \in Offsets, NEW k \in Nat,
           BufDiff(o, p) + k < N
    PROVE  Advance(p, k) \in Offsets /\ BufDiff(o, Advance(p, k)) = BufDiff(o, p) + k
BY NAssumption DEF Advance, BufDiff, Offsets

\* ... and moving its near end makes it shorter.
LEMMA BufDiffShrinks ==
    ASSUME NEW o \in Offsets, NEW p \in Offsets, NEW k \in Nat,
           k <= BufDiff(o, p)
    PROVE  Advance(o, k) \in Offsets /\ BufDiff(Advance(o, k), p) = BufDiff(o, p) - k
BY NAssumption DEF Advance, BufDiff, Offsets

\* The slots of a stretch, seen from its end: those before it are a full turn
\* ahead, those behind it are counted from it.
LEMMA SeenFromEnd ==
    ASSUME NEW o \in Offsets, NEW p \in Offsets, NEW i \in 0 .. (N - 1)
    PROVE  /\ Advance(o, i) \in Offsets
           /\ BufDiff(p, Advance(o, i)) = IF i < BufDiff(o, p)
                                          THEN N - (BufDiff(o, p) - i)
                                          ELSE i - BufDiff(o, p)
BY NAssumption DEF Advance, BufDiff, Offsets

\* The two runs of mt7697q_read together take all the words asked for when they
\* are there, and rd_offset ends that many words further on, inside the ring.
LEMMA ReadRunsSuffice ==
    ASSUME NEW rd \in Offsets, NEW wr \in Offsets, NEW n \in Nat,
           n <= NumWords(rd, wr)
    PROVE  LET k1 == ReadRun1(rd, wr, n)
               o  == IF rd > wr THEN AfterRun(rd, k1) ELSE rd
               k2 == IF k1 < n THEN ReadRun2(o, wr, n - k1) ELSE 0
           IN o + k2 = Advance(rd, n) /\ k1 + k2 = n
BY NAssumption DEF NumWords, BufDiff, ReadRun1, ReadRun2, AfterRun, Lesser,
                   Advance, Offsets
=============================================================================
