---------------------------- MODULE Mt7697qRing ----------------------------
(***************************************************************************)
(* The offset arithmetic of one MT7697 SPI queue (mt7697q/queue.c).  A     *)
(* queue is a ring of N words in the slave's memory; rd_offset and         *)
(* wr_offset are word offsets in 0..N-1 and one word always stays free, so *)
(* that equal offsets mean "empty".                                        *)
(***************************************************************************)
EXTENDS Integers

CONSTANT N   \* NUM_WORDS field of the queue's flags: words in the ring

\* The field is 16 bits wide; a ring of one word could never hold anything.
ASSUME NAssumption == N \in Nat /\ N >= 2

Offsets == 0 .. (N - 1)

\* mt7697q_buf_diff: words from one offset forward to another.
BufDiff(from, to) == IF from <= to THEN to - from ELSE (N - from) + to

\* mt7697q_get_capacity: one slot stays free.
Capacity == N - 1

\* mt7697q_get_num_words and mt7697q_get_free_words.
NumWords(rd, wr)  == BufDiff(rd, wr)

\* Mutant: the slot that tells full from empty is forgotten.
FreeWordsNoGap(rd, wr) == N - NumWords(rd, wr)

FreeWords(rd, wr) == Capacity - NumWords(rd, wr)

\* The offset k words further on (k <= N): what the copy loops reach.
Advance(o, k) == IF o + k < N THEN o + k ELSE o + k - N

Lesser(a, b) == IF a <= b THEN a ELSE b

(***************************************************************************)
(* mt7697q_write copies in at most two runs.  The first one starts at      *)
(* wr_offset and stops at the end of the ring, or one word before it when  *)
(* the reader stands at offset 0; it happens only when wr >= rd.  The      *)
(* second one stops one word before rd_offset and happens only when, after *)
(* the first, wr < rd.                                                     *)
(***************************************************************************)
WriteRun1(rd, wr, num) ==
    IF wr >= rd
    THEN Lesser(num, IF rd = 0 THEN N - wr - 1 ELSE N - wr)
    ELSE 0

\* The write offset after the first run: back to 0 at the end of the ring.
AfterRun(o, k) == IF o + k = N THEN 0 ELSE o + k

WriteRun2(rd, wr, num) ==
    IF wr < rd THEN Lesser(num, rd - wr - 1) ELSE 0

(***************************************************************************)
(* mt7697q_read, likewise: to the end of the ring when rd > wr, then from  *)
(* there to wr.                                                            *)
(***************************************************************************)
ReadRun1(rd, wr, num) == IF rd > wr THEN Lesser(num, N - rd) ELSE 0

ReadRun2(rd, wr, num) == Lesser(num, wr - rd)
=============================================================================
