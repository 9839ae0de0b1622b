----------------------------- MODULE BoardProofs -----------------------------
(***************************************************************************)
(* Proofs about what a board carries besides its sensors: its clock, its   *)
(* IoT slot, its power-up and its CAN controller.                          *)
(***************************************************************************)
EXTENDS Rtc, IotSlot, BoardProbe, Mcp251x, FiniteSetTheorems, SequenceTheorems, TLAPS

-----------------------------------------------------------------------------
(* Rtc: the registers                                                        *)

LEMMA BcdReadsBack == ASSUME NEW n \in Nat, n < 100 PROVE bcd2bin(bin2bcd(n)) = n /\ bin2bcd(n) \in 0 .. 153
  BY DEF bcd2bin, bin2bcd

LEMMA BcdSeconds == ASSUME NEW n \in Nat, n < 60 PROVE bin2bcd(n) \in 0 .. 89
  BY DEF bin2bcd

\* What pcf85063_rtc_set_time writes is what pcf85063_rtc_read_time reads, in the chip's
\* century.
LEMMA RegistersReadBack ==
    ASSUME NEW t \in Nat, t < 6000
    PROVE  /\ SetRegs(Tm(t)) \in [sc : 0 .. 127, yr : 0 .. 255]
           /\ Seconds(ReadRegs(SetRegs(Tm(t)))) = t
<1>1. PICK sec \in Nat : sec < 60 /\ sec = t % 60
  OBVIOUS
<1>2. PICK yr \in Nat : yr < 100 /\ yr = t \div 60
  OBVIOUS
<1>3. t = sec + (60 * yr)
  BY <1>1, <1>2
<1>4. Tm(t) = [tm_sec |-> sec, tm_year |-> 100 + yr]
  BY <1>1, <1>2 DEF Tm
<1>5. bin2bcd(sec) \in 0 .. 89 /\ bcd2bin(bin2bcd(sec)) = sec
  BY <1>1, BcdSeconds, BcdReadsBack
<1>6. bin2bcd(yr) \in 0 .. 153 /\ bcd2bin(bin2bcd(yr)) = yr
  BY <1>2, BcdReadsBack
<1>7. (100 + yr) - 100 = yr /\ bin2bcd(sec) % 128 = bin2bcd(sec) /\ bin2bcd(yr) % 256 = bin2bcd(yr)
  BY <1>2, <1>5, <1>6
<1>8. SetRegs(Tm(t)) = [sc |-> bin2bcd(sec), yr |-> bin2bcd(yr)]
  BY <1>4, <1>7 DEF SetRegs
<1>9. ReadRegs(SetRegs(Tm(t))) = [tm_sec |-> sec, tm_year |-> yr + 100]
  BY <1>5, <1>6, <1>7, <1>8 DEF ReadRegs
<1>10. Seconds(ReadRegs(SetRegs(Tm(t)))) = t
  BY <1>1, <1>2, <1>3, <1>9 DEF Seconds
<1> QED
  BY <1>5, <1>6, <1>8, <1>10

LEMMA SecondsOfRegs ==
    ASSUME NEW r \in [sc : 0 .. 255, yr : 0 .. 255]
    PROVE  Seconds(ReadRegs(r)) \in Nat
<1>1. r.sc \in 0 .. 255 /\ r.yr \in 0 .. 255
  OBVIOUS
<1>2. bcd2bin(r.sc % 128) \in Nat /\ bcd2bin(r.yr) \in Nat
  BY <1>1 DEF bcd2bin
<1>3. /\ ReadRegs(r).tm_sec = bcd2bin(r.sc % 128)
      /\ ReadRegs(r).tm_year = bcd2bin(r.yr) + 100
  BY DEF ReadRegs
<1> QED
  BY <1>2, <1>3 DEF Seconds

LEMMA TmType == ASSUME NEW t \in Int PROVE Tm(t) \in [tm_sec : Int, tm_year : Int]
<1>1. t % 60 \in Int /\ t \div 60 \in Int
  OBVIOUS
<1> QED
  BY <1>1 DEF Tm

\* The chip counts.
LEMMA ChipCounts ==
    ASSUME NEW c \in [regs : [sc : 0 .. 255, yr : 0 .. 255], stop : BOOLEAN, other : Int],
           NEW n \in Nat
    PROVE  /\ ClockRuns(c, n) \in [regs : [sc : 0 .. 255, yr : 0 .. 255], stop : BOOLEAN, other : Int]
           /\ ClockRuns(c, n).stop = c.stop
           /\ ~c.stop /\ ~Lost(c.regs) =>
                /\ ~Lost(ClockRuns(c, n).regs)
                /\ Seconds(ReadRegs(c.regs)) + n < 6000 =>
                     Seconds(ReadRegs(ClockRuns(c, n).regs)) = Seconds(ReadRegs(c.regs)) + n
<1> DEFINE x == Seconds(ReadRegs(c.regs)) + n
<1>1. c.regs \in [sc : 0 .. 255, yr : 0 .. 255]
  OBVIOUS
<1>2. x \in Nat
  BY <1>1, SecondsOfRegs
<1>3. PICK t \in Nat : t < 6000 /\ t = x % 6000
  <2> HIDE DEF x
  <2> QED
    BY <1>2
<1>9. x < 6000 => t = x
  <2> HIDE DEF x
  <2> QED
    BY <1>2, <1>3
<1>4. /\ SetRegs(Tm(t)) \in [sc : 0 .. 127, yr : 0 .. 255]
      /\ Seconds(ReadRegs(SetRegs(Tm(t)))) = t
  BY <1>3, RegistersReadBack
<1>5. SetRegs(Tm(t)) \in [sc : 0 .. 255, yr : 0 .. 255] /\ ~Lost(SetRegs(Tm(t)))
  BY <1>4 DEF Lost
<1>6. ClockRuns(c, n) = IF c.stop \/ Lost(c.regs) THEN c ELSE [c EXCEPT !.regs = SetRegs(Tm(t))]
  BY <1>3 DEF ClockRuns
<1>7. CASE c.stop \/ Lost(c.regs)
  BY <1>6, <1>7
<1>8. CASE ~(c.stop \/ Lost(c.regs))
  <2>1. ClockRuns(c, n) = [c EXCEPT !.regs = SetRegs(Tm(t))]
    BY <1>6, <1>8
  <2>2. ClockRuns(c, n).regs = SetRegs(Tm(t)) /\ ClockRuns(c, n).stop = c.stop
    BY <2>1
  <2>3. ClockRuns(c, n) \in [regs : [sc : 0 .. 255, yr : 0 .. 255], stop : BOOLEAN, other : Int]
    BY <1>5, <2>1
  <2> QED
    BY <1>4, <1>5, <1>9, <2>2, <2>3 DEF x
<1> QED
  BY <1>7, <1>8

-----------------------------------------------------------------------------
(* Rtc: the steps                                                            *)

\* The types, apart.
RtcPcs == {"unloaded", "check", "sleep", "awake", "ends", "stop", "set", "start"}
SyncOK(y) == y \in [pc : RtcPcs, before : Int, tm : [tm_sec : Int, tm_year : Int],
                    stopping : BOOLEAN, late : BOOLEAN]
ChipOK(c) == c \in [regs : [sc : 0 .. 255, yr : 0 .. 255], stop : BOOLEAN, other : Int]

LEMMA RtcTypes ==
    /\ RtcTypeOK <=> sysclock \in Int /\ missed \in BOOLEAN /\ SyncOK(sync) /\ ChipOK(rtc)
    /\ RtcTypeOK' <=> sysclock' \in Int /\ missed' \in BOOLEAN /\ SyncOK(sync') /\ ChipOK(rtc')
  BY DEF RtcTypeOK, SyncOK, ChipOK, RtcPcs

\* The thread goes on to p and nothing else of it changes.
LEMMA SyncMoves ==
    ASSUME SyncOK(sync), NEW p \in RtcPcs, sync' = [sync EXCEPT !.pc = p]
    PROVE  /\ SyncOK(sync') /\ sync'.pc = p /\ sync'.before = sync.before /\ sync'.tm = sync.tm
           /\ sync'.stopping = sync.stopping /\ sync'.late = sync.late
  BY DEF SyncOK

\* Where the clocks may differ by something that was missed, only what is being written matters.
LEMMA MissedIsSound ==
    ASSUME RtcTypeOK', missed' = TRUE, sync'.pc \notin {"stop", "set", "start"}
    PROVE  RtcIInv'
  BY DEF RtcIInv, ClocksAgree, ChipRuns, NotedAgrees, WritesNow

LEMMA HctosysKeepsClocks == ASSUME RtcIInv, NEW ok \in Transfer, rtc_hctosys(ok) PROVE RtcIInv'
<1>1. sync' = [sync EXCEPT !.pc = "check"] /\ rtc' = rtc
  BY DEF rtc_hctosys, Pc
<1>2. SyncOK(sync) /\ ChipOK(rtc) /\ sysclock \in Int
  BY RtcTypes DEF RtcIInv
<1>3. SyncOK(sync') /\ sync'.pc = "check"
  BY <1>1, <1>2, SyncMoves DEF RtcPcs
<1>4. rtc.regs \in [sc : 0 .. 255, yr : 0 .. 255] /\ rtc.stop \in BOOLEAN
  BY <1>2 DEF ChipOK
<1> DEFINE r == Seconds(ReadRegs(rtc.regs))
<1>5. r \in Nat
  BY <1>4, SecondsOfRegs
<1> HIDE DEF r
<1>6. CASE ok /\ ~Lost(rtc.regs)
  <2>1. sysclock' = (2 * r) + 1 /\ missed' = rtc.stop
    BY <1>6 DEF rtc_hctosys, r
  <2>2. RtcTypeOK'
    BY <1>1, <1>2, <1>3, <1>4, <1>5, <2>1, RtcTypes
  <2>3. sysclock' - (2 * r) = 1
    BY <1>5, <2>1
  <2>4. ClocksAgree'
    BY <1>1, <2>3 DEF ClocksAgree, Agrees, r
  <2>5. ChipRuns'
    BY <1>1, <1>6, <2>1 DEF ChipRuns
  <2>6. NotedAgrees' /\ WritesNow'
    BY <1>3 DEF NotedAgrees, WritesNow
  <2> QED
    BY <2>2, <2>4, <2>5, <2>6 DEF RtcIInv
<1>7. CASE ~(ok /\ ~Lost(rtc.regs))
  <2>1. sysclock' = sysclock /\ missed' = TRUE
    BY <1>7 DEF rtc_hctosys
  <2>2. RtcTypeOK'
    BY <1>1, <1>2, <1>3, <2>1, RtcTypes
  <2> QED
    BY <1>3, <2>1, <2>2, MissedIsSound
<1> QED
  BY <1>6, <1>7

LEMMA BeforeKeepsClocks == ASSUME RtcIInv, Before PROVE RtcIInv'
<1>1. /\ sync.pc = "check" /\ sync' = [sync EXCEPT !.pc = "sleep", !.before = sysclock]
      /\ sysclock' = sysclock /\ rtc' = rtc /\ missed' = missed
  BY DEF Before
<1>2. SyncOK(sync) /\ ChipOK(rtc) /\ sysclock \in Int /\ missed \in BOOLEAN
  BY RtcTypes DEF RtcIInv
<1>3. SyncOK(sync') /\ sync'.pc = "sleep" /\ sync'.before = sysclock
  BY <1>1, <1>2 DEF SyncOK, RtcPcs
<1>4. RtcTypeOK'
  BY <1>1, <1>2, <1>3, RtcTypes
<1>5. NotedAgrees'
  BY <1>1, <1>3 DEF RtcIInv, ClocksAgree, NotedAgrees, Agrees
<1>6. ChipRuns'
  BY <1>1, <1>3 DEF RtcIInv, ChipRuns
<1>7. ClocksAgree' /\ WritesNow'
  BY <1>3 DEF ClocksAgree, WritesNow
<1> QED
  BY <1>4, <1>5, <1>6, <1>7 DEF RtcIInv

\* Both clocks run while the thread sleeps.
LEMMA SleepKeepsClocks == ASSUME RtcIInv, Sleeps PROVE RtcIInv'
<1>1. /\ sync.pc = "sleep" /\ sync' = [sync EXCEPT !.pc = "awake"]
      /\ sysclock' = sysclock + (2 * Interval) /\ rtc' = ClockRuns(rtc, Interval) /\ missed' = missed
  BY DEF Sleeps, Pc
<1>2. SyncOK(sync) /\ ChipOK(rtc) /\ sysclock \in Int /\ missed \in BOOLEAN
  BY RtcTypes DEF RtcIInv
<1>3. SyncOK(sync') /\ sync'.pc = "awake" /\ sync'.before = sync.before
  BY <1>1, <1>2, SyncMoves DEF RtcPcs
<1>4. Interval \in Nat
  BY RtcAssumption
<1>5. /\ ChipOK(rtc') /\ rtc'.stop = rtc.stop
      /\ ~rtc.stop /\ ~Lost(rtc.regs) =>
           /\ ~Lost(rtc'.regs)
           /\ Seconds(ReadRegs(rtc.regs)) + Interval < 6000 =>
                Seconds(ReadRegs(rtc'.regs)) = Seconds(ReadRegs(rtc.regs)) + Interval
  BY <1>1, <1>2, <1>4, ChipCounts DEF ChipOK
<1>6. sysclock + (2 * Interval) \in Int
  BY <1>2, <1>4
<1>7. RtcTypeOK'
  BY <1>1, <1>2, <1>3, <1>5, <1>6, RtcTypes
<1>8. ASSUME ~missed PROVE ~rtc.stop /\ ~Lost(rtc.regs) /\ Agrees(sync.before)
  BY <1>1, <1>8 DEF RtcIInv, ChipRuns, NotedAgrees
<1>9. ChipRuns'
  BY <1>1, <1>5, <1>8 DEF ChipRuns
<1>10. ASSUME ~missed, sync.before + (2 * Interval) < CenturyEnd
       PROVE  (sync.before + (2 * Interval)) - (2 * Seconds(ReadRegs(rtc'.regs))) \in -1 .. 1
  <2> DEFINE r == Seconds(ReadRegs(rtc.regs))
             b == sync.before
  <2>1. r \in Nat
    <3>1. rtc.regs \in [sc : 0 .. 255, yr : 0 .. 255]
      BY <1>2 DEF ChipOK
    <3> QED
      BY <3>1, SecondsOfRegs
  <2>2. b \in Int
    BY <1>2 DEF SyncOK
  <2>3. b < CenturyEnd
    <3> HIDE DEF b
    <3> QED
      BY <1>4, <1>10, <2>2 DEF CenturyEnd, b
  <2>4. b - (2 * r) \in -1 .. 1
    BY <1>8, <1>10, <2>3 DEF Agrees
  <2>5. r + Interval < 6000 => Seconds(ReadRegs(rtc'.regs)) = r + Interval
    BY <1>5, <1>8, <1>10
  <2>6. b + (2 * Interval) < 11999
    BY <1>10 DEF CenturyEnd
  <2> HIDE DEF r, b
  <2>7. r + Interval < 6000
    BY <1>4, <2>1, <2>2, <2>4, <2>6
  <2>8. (b + (2 * Interval)) - (2 * (r + Interval)) \in -1 .. 1
    BY <1>4, <2>1, <2>2, <2>4
  <2> QED
    BY <2>5, <2>7, <2>8 DEF b
<1>11. NotedAgrees'
  BY <1>1, <1>3, <1>10 DEF NotedAgrees, Agrees
<1>12. ClocksAgree' /\ WritesNow'
  BY <1>3 DEF ClocksAgree, WritesNow
<1> QED
  BY <1>7, <1>9, <1>11, <1>12 DEF RtcIInv

\* time_check: what changed is to be written, what did not agrees.
LEMMA AfterKeepsClocks == ASSUME RtcIInv, After PROVE RtcIInv'
<1> DEFINE delta == sysclock - sync.before - 2 * Interval
           changed == delta > 2 \/ delta < -2
           tm == Tm((sysclock + 1) \div 2)
<1>1. /\ sync.pc = "awake"
      /\ sync' = [sync EXCEPT !.pc = IF changed THEN "stop" ELSE "ends", !.tm = tm, !.late = FALSE]
      /\ missed' = (missed \/ (~changed /\ delta # 0))
      /\ sysclock' = sysclock /\ rtc' = rtc
  BY DEF After
<1>2. SyncOK(sync) /\ ChipOK(rtc) /\ sysclock \in Int /\ missed \in BOOLEAN
  BY RtcTypes DEF RtcIInv
<1>3. tm \in [tm_sec : Int, tm_year : Int]
  <2>1. (sysclock + 1) \div 2 \in Int
    BY <1>2
  <2> QED
    BY <2>1, TmType
<1>4. delta \in Int /\ (delta = 0 => sysclock = sync.before + (2 * Interval))
  <2>1. sync.before \in Int /\ Interval \in Int
    BY <1>2, RtcAssumption DEF SyncOK
  <2> QED
    BY <1>2, <2>1
<1> HIDE DEF delta, tm
<1>5. CASE changed
  <2>1. sync' = [sync EXCEPT !.pc = "stop", !.tm = tm, !.late = FALSE]
    BY <1>1, <1>5
  <2>2. SyncOK(sync') /\ sync'.pc = "stop" /\ sync'.tm = tm
    BY <2>1, <1>2, <1>3 DEF SyncOK, RtcPcs
  <2>3. missed' = missed
    BY <1>1, <1>2, <1>5
  <2>4. RtcTypeOK'
    BY <1>1, <1>2, <2>2, <2>3, RtcTypes
  <2>5. WritesNow'
    BY <1>1, <2>2 DEF WritesNow, tm
  <2>6. ClocksAgree' /\ ChipRuns' /\ NotedAgrees'
    BY <2>2 DEF ClocksAgree, ChipRuns, NotedAgrees
  <2> QED
    BY <2>4, <2>5, <2>6 DEF RtcIInv
<1>6. CASE ~changed
  <2>1. sync' = [sync EXCEPT !.pc = "ends", !.tm = tm, !.late = FALSE]
    BY <1>1, <1>6
  <2>2. SyncOK(sync') /\ sync'.pc = "ends"
    BY <2>1, <1>2, <1>3 DEF SyncOK, RtcPcs
  <2>3. missed' \in BOOLEAN
    BY <1>1
  <2>4. RtcTypeOK'
    BY <1>1, <1>2, <2>2, <2>3, RtcTypes
  <2>5. ~missed' => ~missed /\ delta = 0
    BY <1>1, <1>6
  <2>6. ChipRuns'
    BY <1>1, <2>5 DEF RtcIInv, ChipRuns
  <2>7. ClocksAgree'
    BY <1>1, <1>4, <2>5 DEF RtcIInv, NotedAgrees, ClocksAgree, Agrees
  <2>8. NotedAgrees' /\ WritesNow'
    BY <2>2 DEF NotedAgrees, WritesNow
  <2> QED
    BY <2>4, <2>6, <2>7, <2>8 DEF RtcIInv
<1> QED
  BY <1>5, <1>6

LEMMA RoundKeepsClocks == ASSUME RtcIInv, RoundEnds PROVE RtcIInv'
<1> DEFINE p == IF sync.stopping THEN "unloaded" ELSE "check"
<1>1. /\ sync.pc = "ends" /\ sync' = [sync EXCEPT !.pc = p, !.stopping = FALSE]
      /\ sysclock' = sysclock /\ rtc' = rtc /\ missed' = missed
  BY DEF RoundEnds
<1>2. SyncOK(sync) /\ ChipOK(rtc) /\ sysclock \in Int /\ missed \in BOOLEAN
  BY RtcTypes DEF RtcIInv
<1>3. p \in {"unloaded", "check"}
  OBVIOUS
<1> HIDE DEF p
<1>4. SyncOK(sync') /\ sync'.pc = p
  BY <1>1, <1>2, <1>3 DEF SyncOK, RtcPcs
<1>5. RtcTypeOK'
  BY <1>1, <1>2, <1>4, RtcTypes
<1>6. ClocksAgree' /\ ChipRuns'
  BY <1>1 DEF RtcIInv, ClocksAgree, ChipRuns, Agrees
<1>7. NotedAgrees' /\ WritesNow'
  BY <1>3, <1>4 DEF NotedAgrees, WritesNow
<1> QED
  BY <1>5, <1>6, <1>7 DEF RtcIInv

LEMMA ExitKeepsClocks == ASSUME RtcIInv, Exit PROVE RtcIInv'
<1>1. sync' = [sync EXCEPT !.stopping = TRUE] /\ sysclock' = sysclock /\ rtc' = rtc /\ missed' = missed
  BY DEF Exit
<1>2. SyncOK(sync) /\ ChipOK(rtc) /\ sysclock \in Int /\ missed \in BOOLEAN
  BY RtcTypes DEF RtcIInv
<1>3. /\ SyncOK(sync') /\ sync'.pc = sync.pc /\ sync'.before = sync.before /\ sync'.tm = sync.tm
      /\ sync'.late = sync.late
  BY <1>1, <1>2 DEF SyncOK
<1>4. RtcTypeOK'
  BY <1>1, <1>2, <1>3, RtcTypes
<1> QED
  BY <1>1, <1>3, <1>4 DEF RtcIInv, ClocksAgree, ChipRuns, NotedAgrees, WritesNow, Agrees

LEMMA FailureKeepsClocks == ASSUME RtcIInv, Failed PROVE RtcIInv'
<1>1. /\ sync' = [sync EXCEPT !.pc = "ends"] /\ missed' = TRUE
      /\ sysclock' = sysclock /\ rtc' = rtc
  BY DEF Failed, Pc
<1>2. SyncOK(sync) /\ ChipOK(rtc) /\ sysclock \in Int
  BY RtcTypes DEF RtcIInv
<1>3. SyncOK(sync') /\ sync'.pc = "ends"
  BY <1>1, <1>2, SyncMoves DEF RtcPcs
<1>4. RtcTypeOK'
  BY <1>1, <1>2, <1>3, RtcTypes
<1> QED
  BY <1>1, <1>3, <1>4, MissedIsSound

\* pcf85063_stop_clock: a year in the chip's century goes on.
LEMMA StopKeepsClocks == ASSUME RtcIInv, NEW ok \in Transfer, StopClock(ok) PROVE RtcIInv'
<1>1. CASE Failed
  BY <1>1, FailureKeepsClocks
<1>2. CASE ~Failed
  <2>1. /\ sync.pc = "stop" /\ sync.tm.tm_year >= 100 /\ sync.tm.tm_year <= 199
        /\ rtc' = [rtc EXCEPT !.stop = TRUE] /\ sync' = [sync EXCEPT !.pc = "set"]
        /\ sysclock' = sysclock /\ missed' = missed
    <3>1. SyncOK(sync)
      BY RtcTypes DEF RtcIInv
    <3>2. sync.tm.tm_year \in Int
      BY <3>1 DEF SyncOK
    <3>3. sync.pc = "stop" /\ ~(~ok \/ sync.tm.tm_year < 100 \/ sync.tm.tm_year > 199)
      BY <1>2 DEF StopClock
    <3>4. /\ rtc' = [rtc EXCEPT !.stop = TRUE] /\ sync' = [sync EXCEPT !.pc = "set"]
          /\ sysclock' = sysclock /\ missed' = missed
      BY <3>3 DEF StopClock, Pc
    <3> QED
      BY <3>2, <3>3, <3>4
  <2>2. SyncOK(sync) /\ ChipOK(rtc) /\ sysclock \in Int /\ missed \in BOOLEAN
    BY RtcTypes DEF RtcIInv
  <2>3. SyncOK(sync') /\ sync'.pc = "set" /\ sync'.tm = sync.tm /\ sync'.late = sync.late
    BY <2>1, <2>2, SyncMoves DEF RtcPcs
  <2>4. ChipOK(rtc')
    BY <2>1, <2>2 DEF ChipOK
  <2>5. RtcTypeOK'
    BY <2>1, <2>2, <2>3, <2>4, RtcTypes
  <2>6. sync.tm.tm_year \in Int
    BY <2>2 DEF SyncOK
  <2>7. WritesNow'
    BY <2>1, <2>3, <2>6 DEF RtcIInv, WritesNow
  <2>8. ClocksAgree' /\ ChipRuns' /\ NotedAgrees'
    BY <2>3 DEF ClocksAgree, ChipRuns, NotedAgrees
  <2> QED
    BY <2>5, <2>7, <2>8 DEF RtcIInv
<1> QED
  BY <1>1, <1>2

LEMMA RegsType == ASSUME NEW tm \in [tm_sec : Int, tm_year : 100 .. 199]
                  PROVE  SetRegs(tm) \in [sc : 0 .. 255, yr : 0 .. 255]
<1>1. bin2bcd(tm.tm_sec) \in Int /\ bin2bcd(tm.tm_year - 100) \in Int
  BY DEF bin2bcd
<1>2. bin2bcd(tm.tm_sec) % 128 \in 0 .. 255 /\ bin2bcd(tm.tm_year - 100) % 256 \in 0 .. 255
  BY <1>1
<1> QED
  BY <1>2 DEF SetRegs

LEMMA SetKeepsClocks == ASSUME RtcIInv, NEW ok \in Transfer, SetTime(ok) PROVE RtcIInv'
<1>1. CASE Failed
  BY <1>1, FailureKeepsClocks
<1>2. CASE ~Failed
  <2>1. /\ sync.pc = "set" /\ rtc' = [rtc EXCEPT !.regs = SetRegs(sync.tm)]
        /\ sync' = [sync EXCEPT !.pc = "start"] /\ sysclock' = sysclock /\ missed' = missed
    BY <1>2 DEF SetTime, Pc
  <2>2. SyncOK(sync) /\ ChipOK(rtc) /\ sysclock \in Int /\ missed \in BOOLEAN
    BY RtcTypes DEF RtcIInv
  <2>3. SyncOK(sync') /\ sync'.pc = "start" /\ sync'.tm = sync.tm /\ sync'.late = sync.late
    BY <2>1, <2>2, SyncMoves DEF RtcPcs
  <2>4. sync.tm \in [tm_sec : Int, tm_year : 100 .. 199]
    BY <2>1, <2>2 DEF RtcIInv, WritesNow, SyncOK
  <2>5. SetRegs(sync.tm) \in [sc : 0 .. 255, yr : 0 .. 255]
    BY <2>4, RegsType
  <2>6. ChipOK(rtc') /\ rtc'.regs = SetRegs(sync.tm)
    BY <2>1, <2>2, <2>5 DEF ChipOK
  <2>7. RtcTypeOK'
    BY <2>1, <2>2, <2>3, <2>6, RtcTypes
  <2>8. WritesNow'
    BY <2>1, <2>3, <2>6 DEF RtcIInv, WritesNow
  <2>9. ClocksAgree' /\ ChipRuns' /\ NotedAgrees'
    BY <2>3 DEF ClocksAgree, ChipRuns, NotedAgrees
  <2> QED
    BY <2>7, <2>8, <2>9 DEF RtcIInv
<1> QED
  BY <1>1, <1>2

\* The clock that was written agrees with the one it was taken from, rounded up.
LEMMA WrittenAgrees ==
    ASSUME NEW c \in Int, Tm((c + 1) \div 2).tm_year \in 100 .. 199
    PROVE  /\ ~Lost(SetRegs(Tm((c + 1) \div 2)))
           /\ c - (2 * Seconds(ReadRegs(SetRegs(Tm((c + 1) \div 2))))) \in -1 .. 1
<1>1. PICK t \in Int : t = (c + 1) \div 2
  OBVIOUS
<1>2. c - (2 * t) \in -1 .. 1
  BY <1>1
<1>3. t \in Nat /\ t < 6000
  <2>1. 100 + (t \div 60) \in 100 .. 199
    BY <1>1 DEF Tm
  <2>2. t \div 60 \in 0 .. 99
    BY <2>1
  <2> QED
    BY <2>2
<1>4. /\ SetRegs(Tm(t)) \in [sc : 0 .. 127, yr : 0 .. 255]
      /\ Seconds(ReadRegs(SetRegs(Tm(t)))) = t
  BY <1>3, RegistersReadBack
<1>5. ~Lost(SetRegs(Tm(t)))
  BY <1>4 DEF Lost
<1> QED
  BY <1>1, <1>2, <1>4, <1>5

LEMMA StartKeepsClocks == ASSUME RtcIInv, NEW ok \in Transfer, StartClock(ok) PROVE RtcIInv'
<1>1. CASE Failed
  BY <1>1, FailureKeepsClocks
<1>2. CASE ~Failed
  <2>1. /\ sync.pc = "start" /\ rtc' = [rtc EXCEPT !.stop = FALSE, !.other = 0]
        /\ missed' = sync.late /\ sync' = [sync EXCEPT !.pc = "ends"] /\ sysclock' = sysclock
    BY <1>2 DEF StartClock, Pc
  <2>2. SyncOK(sync) /\ ChipOK(rtc) /\ sysclock \in Int /\ sync.late \in BOOLEAN
    BY RtcTypes DEF RtcIInv, SyncOK
  <2>3. SyncOK(sync') /\ sync'.pc = "ends"
    BY <2>1, <2>2, SyncMoves DEF RtcPcs
  <2>4. ChipOK(rtc') /\ rtc'.regs = rtc.regs /\ rtc'.stop = FALSE
    <3>1. rtc.regs \in [sc : 0 .. 255, yr : 0 .. 255]
      BY <2>2 DEF ChipOK
    <3>2. rtc' = [regs |-> rtc.regs, stop |-> FALSE, other |-> 0]
      BY <2>1, <2>2 DEF ChipOK
    <3> QED
      BY <3>1, <3>2 DEF ChipOK
  <2>5. RtcTypeOK'
    BY <2>1, <2>2, <2>3, <2>4, RtcTypes
  <2>6. ASSUME ~sync.late
        PROVE  ~Lost(rtc.regs) /\ sysclock - (2 * Seconds(ReadRegs(rtc.regs))) \in -1 .. 1
    <3>1. /\ sync.tm = Tm((sysclock + 1) \div 2) /\ sync.tm.tm_year \in 100 .. 199
          /\ rtc.regs = SetRegs(sync.tm)
      BY <2>1, <2>6 DEF RtcIInv, WritesNow
    <3> QED
      BY <2>2, <3>1, WrittenAgrees
  <2>7. ClocksAgree' /\ ChipRuns'
    BY <2>1, <2>4, <2>6 DEF ClocksAgree, ChipRuns, Agrees
  <2>8. NotedAgrees' /\ WritesNow'
    BY <2>3 DEF NotedAgrees, WritesNow
  <2> QED
    BY <2>5, <2>7, <2>8 DEF RtcIInv
<1> QED
  BY <1>1, <1>2

\* A setting that the thread will see is in the noted clock's difference; any other is missed
\* or makes the write late.
LEMMA SettingKeepsClocks ==
    ASSUME RtcIInv, NEW d \in ClockSteps, SetSystemClock(d)
    PROVE  RtcIInv'
<1>1. /\ sysclock' = sysclock + d /\ rtc' = rtc
      /\ missed' = (missed \/ sync.pc \notin {"sleep", "awake"})
      /\ sync' = [sync EXCEPT !.late = @ \/ sync.pc \in {"stop", "set", "start"}]
  BY DEF SetSystemClock
<1>2. SyncOK(sync) /\ ChipOK(rtc) /\ sysclock \in Int /\ missed \in BOOLEAN /\ d \in Int
  BY RtcTypes, RtcAssumption DEF RtcIInv
<1> DEFINE late == sync.late \/ sync.pc \in {"stop", "set", "start"}
<1>3. sync' = [sync EXCEPT !.late = late] /\ late \in BOOLEAN
  BY <1>1, <1>2 DEF SyncOK
<1> HIDE DEF late
<1>4. /\ SyncOK(sync') /\ sync'.pc = sync.pc /\ sync'.before = sync.before /\ sync'.tm = sync.tm
      /\ sync'.late = late
  BY <1>2, <1>3 DEF SyncOK
<1>5. missed' \in BOOLEAN /\ (~missed' => ~missed /\ sync.pc \in {"sleep", "awake"})
  BY <1>1
<1>6. RtcTypeOK'
  BY <1>1, <1>2, <1>4, <1>5, RtcTypes
<1>7. ClocksAgree'
  BY <1>4, <1>5 DEF ClocksAgree
<1>8. ChipRuns'
  BY <1>1, <1>4, <1>5 DEF RtcIInv, ChipRuns
<1>9. NotedAgrees'
  BY <1>1, <1>4, <1>5 DEF RtcIInv, NotedAgrees, Agrees
<1>10. WritesNow'
  BY <1>1, <1>4 DEF RtcIInv, WritesNow, late
<1> QED
  BY <1>6, <1>7, <1>8, <1>9, <1>10 DEF RtcIInv

LEMMA RebootKeepsClocks == ASSUME RtcIInv, NEW battery \in BOOLEAN, Reboot(battery) PROVE RtcIInv'
<1>1. /\ sysclock' = BootTime /\ missed' = TRUE
      /\ rtc' = IF battery THEN ClockRuns(rtc, Interval) ELSE [rtc EXCEPT !.regs.sc = 128]
      /\ sync' = [pc |-> "unloaded", before |-> 0, tm |-> Tm(0), stopping |-> FALSE, late |-> FALSE]
  BY DEF Reboot
<1>2. ChipOK(rtc)
  BY RtcTypes DEF RtcIInv
<1>3. SyncOK(sync') /\ sync'.pc = "unloaded"
  BY <1>1, TmType DEF SyncOK, RtcPcs
<1>4. ChipOK(rtc')
  <2>1. CASE battery
    BY <1>1, <1>2, <2>1, ChipCounts, RtcAssumption, SMTT(30) DEF ChipOK
  <2>2. CASE ~battery
    <3> DEFINE r == rtc.regs
    <3>1. r \in [sc : 0 .. 255, yr : 0 .. 255]
      BY <1>2 DEF ChipOK
    <3>2. [rtc EXCEPT !.regs.sc = 128] = [rtc EXCEPT !.regs = [r EXCEPT !.sc = 128]]
      BY Zenon
    <3> HIDE DEF r
    <3>3. [r EXCEPT !.sc = 128] \in [sc : 0 .. 255, yr : 0 .. 255]
      BY <3>1
    <3> QED
      BY <1>1, <1>2, <2>2, <3>2, <3>3 DEF ChipOK
  <2> QED
    BY <2>1, <2>2
<1>5. RtcTypeOK'
  BY <1>1, <1>3, <1>4, RtcTypes DEF BootTime
<1> QED
  BY <1>1, <1>3, <1>5, MissedIsSound

LEMMA RtcStep == ASSUME RtcIInv, [RtcNext]_rtcVars PROVE RtcIInv'
<1>1. CASE UNCHANGED <<sysclock, rtc, sync, missed>>
  BY <1>1 DEF RtcIInv, RtcTypeOK, ClocksAgree, ChipRuns, NotedAgrees, WritesNow, Agrees
<1>2. ASSUME NEW ok \in Transfer, set_clkout_freq(1, ok) PROVE RtcIInv'
  BY <1>1, <1>2 DEF set_clkout_freq
<1>3. CASE UNCHANGED rtcVars
  BY <1>1, <1>3 DEF rtcVars
<1> QED
  BY <1>2, <1>3, HctosysKeepsClocks, StopKeepsClocks, SetKeepsClocks, StartKeepsClocks,
     BeforeKeepsClocks, SleepKeepsClocks, AfterKeepsClocks, RoundKeepsClocks, ExitKeepsClocks,
     SettingKeepsClocks, RebootKeepsClocks DEF RtcNext

\* What the thread noted agrees with the chip while it sleeps, and what it writes is the
\* clock as it is, unless it was set meanwhile.
THEOREM RtcInvariant == RtcSpec => []RtcIInv
<1>1. RtcInit => RtcIInv
  <2> SUFFICES ASSUME RtcInit PROVE RtcIInv
    OBVIOUS
  <2>1. SyncOK(sync) /\ ChipOK(rtc) /\ sysclock \in Int
    BY TmType DEF RtcInit, SyncOK, RtcPcs, ChipOK, BootTime
  <2>2. missed = TRUE /\ sync.pc = "unloaded"
    BY DEF RtcInit
  <2>3. RtcTypeOK
    BY <2>1, <2>2, RtcTypes
  <2> QED
    BY <2>2, <2>3 DEF RtcIInv, ClocksAgree, ChipRuns, NotedAgrees, WritesNow
<1> QED
  BY <1>1, RtcStep, PTL DEF RtcSpec

\* At the end of a round the two clocks agree to half a second unless something was missed
\* (time_check, pcf85063_rtc_set_time), for every period of the thread, every change of the
\* system clock and whatever transfers fail.
THEOREM ClocksStayAgreed == RtcSpec => []ClocksAgree
<1>1. RtcIInv => ClocksAgree
  BY DEF RtcIInv
<1> QED
  BY <1>1, RtcInvariant, PTL

-----------------------------------------------------------------------------
(* IotSlot: what the list of recorded interfaces says                        *)

Positions(s, t) == {k \in DOMAIN s : s[k][1] = t}

LEMMA PositionsOfAppend ==
    ASSUME NEW s \in Seq(IfItems), NEW item \in IfItems, NEW t
    PROVE  Positions(Append(s, item), t)
               = Positions(s, t) \cup (IF item[1] = t THEN {Len(s) + 1} ELSE {})
<1> DEFINE a == Append(s, item)
<1>1. /\ Len(s) \in Nat
      /\ DOMAIN a = 1 .. (Len(s) + 1) /\ DOMAIN s = 1 .. Len(s)
      /\ \A k \in 1 .. Len(s) : a[k] = s[k]
      /\ a[Len(s) + 1] = item
  BY AppendProperties
<1> QED
  BY <1>1 DEF Positions

LEMMA OneMore ==
    ASSUME NEW S, NEW x, IsFiniteSet(S), x \notin S
    PROVE  Cardinality(S \cup {x}) = Cardinality(S) + 1
  BY FS_AddElement, Zenon

LEMMA UpTo == ASSUME NEW n \in Nat PROVE IsFiniteSet(1 .. n) /\ Cardinality(1 .. n) = n
<1>1. 1 \in Int /\ n \in Int
  OBVIOUS
<1>2. IsFiniteSet(1 .. n) /\ Cardinality(1 .. n) = IF 1 > n THEN 0 ELSE n-1+1
  BY <1>1, FS_Interval, Zenon
<1> QED
  BY <1>2

LEMMA PositionsFinite ==
    ASSUME NEW s \in Seq(IfItems), NEW t
    PROVE  /\ IsFiniteSet(Positions(s, t))
           /\ Cardinality(Positions(s, t)) \in 0 .. Len(s)
<1>1. Len(s) \in Nat /\ Positions(s, t) \in SUBSET (1 .. Len(s))
  BY DEF Positions
<1>2. IsFiniteSet(1 .. Len(s)) /\ Cardinality(1 .. Len(s)) = Len(s)
  BY <1>1, UpTo
<1>3. IsFiniteSet(Positions(s, t)) /\ Cardinality(Positions(s, t)) <= Len(s)
  BY <1>1, <1>2, FS_Subset
<1>4. Cardinality(Positions(s, t)) \in Nat
  BY <1>3, FS_CardinalityType, Zenon
<1>5. Cardinality(Positions(s, t)) <= Len(s)
  BY <1>1, <1>2, <1>3
<1> QED
  BY <1>1, <1>3, <1>4

LEMMA CountOfAppend ==
    ASSUME NEW s \in Seq(IfItems), NEW item \in IfItems, NEW t
    PROVE  Cardinality(Positions(Append(s, item), t))
               = Cardinality(Positions(s, t)) + (IF item[1] = t THEN 1 ELSE 0)
<1>1. Len(s) + 1 \notin Positions(s, t)
  BY DEF Positions
<1>2. CASE item[1] = t
  <2>1. Positions(Append(s, item), t) = Positions(s, t) \cup {Len(s) + 1}
    BY <1>2, PositionsOfAppend
  <2>2. IsFiniteSet(Positions(s, t))
    BY PositionsFinite
  <2>3. Cardinality(Positions(s, t) \cup {Len(s) + 1}) = Cardinality(Positions(s, t)) + 1
    BY <1>1, <2>2, OneMore
  <2> QED
    BY <1>2, <2>1, <2>3
<1>3. CASE item[1] # t
  <2>0. Positions(Append(s, item), t) = Positions(s, t) \cup {}
    BY <1>3, PositionsOfAppend
  <2>1. Positions(Append(s, item), t) = Positions(s, t)
    BY <2>0
  <2>2. Cardinality(Positions(s, t)) \in 0 .. Len(s)
    BY PositionsFinite
  <2> QED
    BY <1>3, <2>1, <2>2
<1> QED
  BY <1>2, <1>3

\* The number of interfaces of a type lies within the list.
LEMMA Counted == SlotListsOK => \A t : Count(t) \in 0 .. Len(interfaces)
<1> SUFFICES ASSUME SlotListsOK, NEW t PROVE Count(t) \in 0 .. Len(interfaces)
  OBVIOUS
<1>1. Count(t) = Cardinality(Positions(interfaces, t))
  BY DEF Count, Positions, Type
<1> QED
  BY <1>1, PositionsFinite DEF SlotListsOK

\* What the list says, of one list, and after an interface was recorded.
Says(s, addresses, spiThere, num) ==
    /\ addresses = {s[k][2] : k \in {j \in DOMAIN s : s[j][1] = "i2c"}}
    /\ spiThere = (\E k \in DOMAIN s : s[k][1] = "spi")
    /\ num = [m \in Muxes |-> Cardinality(Positions(s, m))]

Numbers == [m \in Muxes |-> Count(m)]

LEMMA ListSays == Says(interfaces, Addresses, Has("spi"), Numbers)
  BY DEF Says, Addresses, Has, Numbers, Count, Type, Positions

LEMMA ListSaysNext == Says(interfaces', Addresses', Has("spi")', Numbers')
  BY DEF Says, Addresses, Has, Numbers, Count, Type, Positions

LEMMA AppendSays ==
    ASSUME NEW s \in Seq(IfItems), NEW item \in IfItems, NEW a, NEW b, NEW n,
           Says(s, a, b, n)
    PROVE  Says(Append(s, item),
                a \cup (IF item[1] = "i2c" THEN {item[2]} ELSE {}),
                b \/ item[1] = "spi",
                [m \in Muxes |-> n[m] + (IF item[1] = m THEN 1 ELSE 0)])
<1> DEFINE r == Append(s, item)
<1>1. /\ Len(s) \in Nat
      /\ DOMAIN r = 1 .. (Len(s) + 1) /\ DOMAIN s = 1 .. Len(s)
      /\ \A k \in 1 .. Len(s) : r[k] = s[k]
      /\ r[Len(s) + 1] = item
  BY AppendProperties
<1> HIDE DEF r
<1>2. {r[k][2] : k \in {j \in DOMAIN r : r[j][1] = "i2c"}}
         = a \cup (IF item[1] = "i2c" THEN {item[2]} ELSE {})
  <2>1. a = {s[k][2] : k \in {j \in DOMAIN s : s[j][1] = "i2c"}}
    BY DEF Says
  <2> DEFINE old == {j \in DOMAIN s : s[j][1] = "i2c"}
             new == {j \in DOMAIN r : r[j][1] = "i2c"}
  <2>2. new = old \cup (IF item[1] = "i2c" THEN {Len(s) + 1} ELSE {})
    BY <1>1
  <2>3. \A k \in old : r[k][2] = s[k][2]
    BY <1>1
  <2>4. r[Len(s) + 1][2] = item[2]
    BY <1>1
  <2>5. {r[k][2] : k \in new} = {s[k][2] : k \in old} \cup (IF item[1] = "i2c" THEN {item[2]} ELSE {})
    <3> HIDE DEF old, new
    <3> QED
      BY <2>2, <2>3, <2>4
  <2> QED
    BY <2>1, <2>5
<1>3. (\E k \in DOMAIN r : r[k][1] = "spi") = (b \/ item[1] = "spi")
  <2>1. b \in BOOLEAN /\ (b <=> \E k \in DOMAIN s : s[k][1] = "spi")
    BY DEF Says
  <2>2. (\E k \in DOMAIN r : r[k][1] = "spi") <=> (b \/ item[1] = "spi")
    BY <1>1, <2>1
  <2> QED
    BY <2>1, <2>2
<1>4. \A m \in Muxes : Cardinality(Positions(r, m)) = n[m] + (IF item[1] = m THEN 1 ELSE 0)
  BY CountOfAppend DEF Says, r
<1> QED
  BY <1>2, <1>3, <1>4 DEF Says, r

LEMMA EmptySays ==
    ASSUME NEW a, NEW b, NEW n, Says(<<>>, a, b, n)
    PROVE  a = {} /\ b = FALSE /\ n = [m \in Muxes |-> 0]
<1>1. DOMAIN <<>> = {}
  OBVIOUS
<1>2. \A m \in Muxes : Positions(<<>>, m) = {}
  BY <1>1 DEF Positions
<1> QED
  BY <1>1, <1>2, FS_EmptySet DEF Says

LEMMA SameSays ==
    ASSUME NEW s, NEW a, NEW b, NEW n, NEW c, NEW d, NEW o, Says(s, a, b, n), Says(s, c, d, o)
    PROVE  a = c /\ b = d /\ n = o
  BY DEF Says

LEMMA ListKept ==
    ASSUME interfaces' = interfaces
    PROVE  Addresses' = Addresses /\ Has("spi")' = Has("spi") /\ Numbers' = Numbers
  BY DEF Addresses, Has, Numbers, Count, Type

LEMMA ListEmptied ==
    ASSUME interfaces' = <<>>
    PROVE  Addresses' = {} /\ Has("spi")' = FALSE /\ Numbers' = [m \in Muxes |-> 0]
  BY ListSaysNext, EmptySays

LEMMA ListExtended ==
    ASSUME SlotListsOK, NEW item \in IfItems, interfaces' = Append(interfaces, item)
    PROVE  /\ Addresses' = Addresses \cup (IF item[1] = "i2c" THEN {item[2]} ELSE {})
           /\ Has("spi")' = (Has("spi") \/ item[1] = "spi")
           /\ Numbers' = [m \in Muxes |-> Numbers[m] + (IF item[1] = m THEN 1 ELSE 0)]
<1>1. interfaces \in Seq(IfItems)
  BY DEF SlotListsOK
<1>2. Says(interfaces', Addresses \cup (IF item[1] = "i2c" THEN {item[2]} ELSE {}),
           Has("spi") \/ item[1] = "spi",
           [m \in Muxes |-> Numbers[m] + (IF item[1] = m THEN 1 ELSE 0)])
  BY <1>1, ListSays, AppendSays
<1> QED
  BY <1>2, ListSaysNext, SameSays

-----------------------------------------------------------------------------
(* IotSlot: the steps of a probe                                             *)

\* RecordedIsHeld's first part, about one list.
Held ==
    /\ devs \ {EepromAddr} = Addresses
    /\ spi = Has("spi")
    /\ \A m \in Muxes \ Absent : mux[m].num = Numbers[m] /\ (Numbers[m] > 0 => mux[m].sel = "iot")

LEMMA RecordedHeld == RecordedIsHeld <=> (slotPc # "unload" \/ ~ ret => Held) /\ ~ releaseError
  BY DEF RecordedIsHeld, Held, Numbers

LEMMA RecordedHeldNext ==
    RecordedIsHeld' <=> (slotPc' # "unload" \/ ~ ret' => Held') /\ ~ releaseError'
  BY DEF RecordedIsHeld, Held, Numbers

LEMMA HeldKept ==
    ASSUME Held, devs' \ {EepromAddr} = devs \ {EepromAddr}, UNCHANGED <<spi, mux, interfaces>>
    PROVE  Held'
  BY ListKept DEF Held

\* With nothing recorded, nothing is held but perhaps the EEPROM's client.
LEMMA NothingIsHeld ==
    ASSUME NothingHeld', interfaces' = <<>>, spi' \in BOOLEAN
    PROVE  Held'
<1>1. Addresses' = {} /\ Has("spi")' = FALSE /\ \A m \in Muxes : Numbers'[m] = 0
  BY ListEmptied
<1>2. devs' \ {EepromAddr} = {} /\ spi' = FALSE
  BY DEF NothingHeld
<1>3. \A m \in Muxes \ Absent : mux'[m].num = 0
  BY DEF NothingHeld
<1>4. \A m \in Muxes \ Absent :
        mux'[m].num = Numbers'[m] /\ (Numbers'[m] > 0 => mux'[m].sel = "iot")
  BY <1>1, <1>3
<1> QED
  BY <1>1, <1>2, <1>4 DEF Held

\* And the other way round.
LEMMA NothingRecorded == ASSUME Held, interfaces = <<>> PROVE NothingHeld
<1>1. Addresses = {} /\ Has("spi") = FALSE /\ \A m \in Muxes : Numbers[m] = 0
  <2>1. Says(<<>>, Addresses, Has("spi"), Numbers)
    BY ListSays
  <2>2. Addresses = {} /\ Has("spi") = FALSE /\ Numbers = [m \in Muxes |-> 0]
    BY <2>1, EmptySays
  <2> QED
    BY <2>2
<1>2. devs \ {EepromAddr} = {} /\ spi = FALSE
  BY <1>1 DEF Held
<1>3. \A m \in Muxes \ Absent : mux[m].num = 0
  BY <1>1 DEF Held
<1> QED
  BY <1>2, <1>3 DEF NothingHeld

LEMMA NumbersType == SlotListsOK => Numbers \in [Muxes -> 0 .. Len(interfaces)]
  BY Counted DEF Numbers

LEMMA ChangeCardKeeps == ASSUME SlotIInv, ChangeCard PROVE SlotIInv'
<1>1. Held'
  BY RecordedHeld, HeldKept DEF SlotIInv, ChangeCard, slotBus
<1>2. SlotTypeOK' /\ SlotListsOK' /\ ProbeInOrder' /\ AdapterCounted'
  BY DEF SlotIInv, ChangeCard, slotBus, history, SlotTypeOK, SlotListsOK, ProbeInOrder, NothingHeld,
         AdapterCounted
<1> QED
  BY <1>1, <1>2, RecordedHeld, RecordedHeldNext DEF SlotIInv, ChangeCard, history

LEMMA RequestKeeps == ASSUME SlotIInv, RequestEssential PROVE SlotIInv'
<1>1. interfaces = <<>>
  BY DEF SlotIInv, RequestEssential, ProbeInOrder
<1>2. Held'
  BY <1>1, RecordedHeld, HeldKept DEF SlotIInv, RequestEssential
<1>3. /\ probes' = probes + 1 /\ interfaces' = interfaces /\ ret' = FALSE
      /\ slotPc = "idle" /\ bound = FALSE /\ ~ detectOut
      /\ UNCHANGED <<card, bound, devs, spi, mux, detectOut, list, detectFailed, releaseError>>
      /\ adapterRefs \in 0 .. probes /\ probes \in Nat
  BY <1>1 DEF SlotIInv, RequestEssential, history, ProbeInOrder, SlotTypeOK, SlotListsOK
<1>4. SlotTypeOK'
  <2>1. CASE slotPc' = "detect"
    BY <1>3, <2>1 DEF SlotIInv, RequestEssential, SlotTypeOK
  <2>2. CASE slotPc' # "detect"
    BY <1>3, <2>2 DEF SlotIInv, RequestEssential, SlotTypeOK
  <2> QED
    BY <2>1, <2>2
<1>5. SlotListsOK'
  <2>1. probes' = probes + 1 /\ probes \in Nat
    BY DEF SlotIInv, SlotListsOK, RequestEssential
  <2>2. probes' \in Nat
    BY <2>1
  <2>3. ret' \in BOOLEAN
    BY <1>3
  <2> QED
    BY <1>3, <2>2, <2>3 DEF SlotIInv, SlotListsOK
<1>6. ProbeInOrder'
  BY <1>1, <1>3 DEF RequestEssential, ProbeInOrder
<1>7. AdapterCounted'
  BY <1>3 DEF SlotIInv, RequestEssential, AdapterCounted
<1> QED
  BY <1>2, <1>4, <1>5, <1>6, <1>7, RecordedHeld, RecordedHeldNext DEF SlotIInv, RequestEssential, history

LEMMA DetectKeeps == ASSUME SlotIInv, DetectCard PROVE SlotIInv'
<1>1. Held'
  BY RecordedHeld, HeldKept DEF SlotIInv, DetectCard, slotBus
<1>2. SlotTypeOK' /\ SlotListsOK' /\ ProbeInOrder' /\ AdapterCounted'
  BY DEF SlotIInv, DetectCard, slotBus, SlotTypeOK, SlotListsOK, ProbeInOrder, NothingHeld,
         AdapterCounted
<1> QED
  BY <1>1, <1>2, RecordedHeld, RecordedHeldNext DEF SlotIInv, DetectCard

LEMMA LoadedKeeps == ASSUME SlotIInv, EepromLoaded PROVE SlotIInv'
<1>1. Held'
  BY RecordedHeld, HeldKept DEF SlotIInv, EepromLoaded
<1>2. IfList(card) \in Seq(IfItems)
  <2>1. NoCard \in Seq(IfItems) /\ LastItem \in IfItems
    <3>1. {"none", "last"} \subseteq IfTypes \cup {"none", "unreadable"}
      BY DEF IfTypes
    <3>2. <<"none", 0>> \in IfItems /\ LastItem \in IfItems
      BY <3>1 DEF LastItem, IfItems
    <3> HIDE DEF IfItems
    <3>3. \A item \in IfItems : <<item>> \in Seq(IfItems)
      OBVIOUS
    <3> QED
      BY <3>2, <3>3 DEF NoCard
  <2>2. card \in Seq(IfItems)
    BY <2>1, SlotAssumption DEF SlotIInv, SlotListsOK
  <2> QED
    BY <2>1, <2>2, AppendProperties DEF IfList
<1>3. ProbeInOrder'
  <2>1. NothingHeld
    BY NothingRecorded, RecordedHeld DEF SlotIInv, EepromLoaded, ProbeInOrder
  <2>2. NothingHeld'
    BY <2>1 DEF EepromLoaded, NothingHeld
  <2> QED
    BY <2>2 DEF SlotIInv, EepromLoaded, ProbeInOrder
<1>4. SlotTypeOK' /\ SlotListsOK' /\ AdapterCounted'
  BY <1>2 DEF SlotIInv, EepromLoaded, history, SlotTypeOK, SlotListsOK, AdapterCounted
<1> QED
  BY <1>1, <1>3, <1>4, RecordedHeld, RecordedHeldNext DEF SlotIInv, EepromLoaded, history

LEMMA InvalidKeeps == ASSUME SlotIInv, EepromInvalid PROVE SlotIInv'
<1>1. interfaces = <<>> /\ interfaces' = <<>>
  BY DEF SlotIInv, EepromInvalid, ProbeInOrder, Return
<1>2. Held'
  BY <1>1, RecordedHeld, HeldKept DEF SlotIInv, EepromInvalid
<1>3. SlotTypeOK' /\ SlotListsOK' /\ ProbeInOrder' /\ AdapterCounted'
  BY <1>1 DEF SlotIInv, EepromInvalid, Return, RestoreCardDetect, history, SlotTypeOK,
              SlotListsOK, ProbeInOrder, AdapterCounted
<1> QED
  BY <1>2, <1>3, RecordedHeld, RecordedHeldNext DEF SlotIInv, EepromInvalid, history

\* The steps that change neither what is held nor what is recorded.
LEMMA WaitKeeps ==
    ASSUME SlotIInv, SkipItem \/ TooMany \/ Enumerated
    PROVE  SlotIInv'
<1>1. Held'
  BY RecordedHeld, HeldKept DEF SlotIInv, SkipItem, TooMany, Enumerated, Is, Adding, slotBus
<1>2. list' \in Seq(IfItems)
  <2>1. list \in Seq(IfItems)
    BY DEF SlotIInv, SlotListsOK
  <2>2. SkipItem => list # <<>> /\ list' = Tail(list)
    BY DEF SkipItem, Is, Adding
  <2>3. TooMany \/ Enumerated => list' = list
    BY DEF TooMany, Enumerated
  <2> QED
    BY <2>1, <2>2, <2>3, HeadTailProperties
<1>3. /\ UNCHANGED <<card, probes, bound, pins, slotBus, mux, detectOut, interfaces, history>>
      /\ slotPc = "add" /\ slotPc' \in {"add", "fail", "unload"}
      /\ ret' \in {ret, TRUE} /\ (slotPc' # "fail" => ret' = ret) /\ (slotPc' = "fail" => ret')
  BY DEF SkipItem, TooMany, Enumerated, Is, Adding
<1>4. SlotTypeOK' /\ SlotListsOK'
  BY <1>2, <1>3 DEF SlotIInv, slotBus, history, SlotTypeOK, SlotListsOK
<1>5. ProbeInOrder' /\ AdapterCounted'
  BY <1>3 DEF SlotIInv, slotBus, history, ProbeInOrder, NothingHeld, AdapterCounted
<1> QED
  BY <1>1, <1>3, <1>4, <1>5, RecordedHeld, RecordedHeldNext DEF SlotIInv, history

-----------------------------------------------------------------------------
(* IotSlot: the interfaces, one by one                                       *)

\* What an add function does to the slot's state around the bus, with ret.
AddDone(item) ==
    /\ slotPc = "add" /\ Len(interfaces) < MaxInterfaces
    /\ item \in IfItems
    /\ Acquired(item)

LEMMA HeadIs == ASSUME SlotIInv, NEW types, Is(types)
                PROVE  /\ Head(list) \in IfItems /\ Tail(list) \in Seq(IfItems)
                       /\ slotPc = "add" /\ Len(interfaces) < MaxInterfaces
                       /\ Head(list)[1] \in types /\ Head(list)[2] \in Nat
<1>1. list \in Seq(IfItems) /\ list # <<>>
  BY DEF SlotIInv, SlotListsOK, Is, Adding
<1>2. Head(list) \in IfItems /\ Tail(list) \in Seq(IfItems)
  BY <1>1, HeadTailProperties
<1> QED
  BY <1>2 DEF Is, Adding, Type, IfItems

\* A step that records an interface, given what it did to the bus and the multiplexers.
LEMMA AcquiredKeeps ==
    ASSUME SlotIInv, NEW item \in IfItems, AddDone(item), list # <<>>,
           pins' \subseteq SlotPins \cup {"reset", "detect"},
           mux' \in [Muxes -> [sel : {"other", "iot"}, num : 0 .. MaxInterfaces]],
           ret' \in BOOLEAN, spi' \in BOOLEAN, EepromAddr \in devs',
           ret' => ret /\ NothingHeld',
           Held'
    PROVE  SlotIInv'
<1>1. /\ interfaces' = Append(interfaces, item) /\ list' = Tail(list)
      /\ UNCHANGED <<card, probes, slotPc, bound, adapter, adapterRefs, detectOut>>
      /\ UNCHANGED <<detectFailed, releaseError, nullCall>>
      /\ slotPc = "add"
  BY DEF AddDone, Acquired, history
<1>2. /\ interfaces' \in Seq(IfItems) /\ list' \in Seq(IfItems)
      /\ Len(interfaces') <= MaxInterfaces
  <2>1. interfaces \in Seq(IfItems) /\ list \in Seq(IfItems)
    BY DEF SlotIInv, SlotListsOK
  <2>2. Len(interfaces') = Len(interfaces) + 1 /\ interfaces' \in Seq(IfItems)
    BY <1>1, <2>1, AppendProperties
  <2>3. list' \in Seq(IfItems)
    BY <1>1, <2>1, HeadTailProperties
  <2>4. Len(interfaces) \in Nat /\ MaxInterfaces \in Nat /\ Len(interfaces) < MaxInterfaces
    BY <2>1, SlotAssumption DEF AddDone
  <2> QED
    BY <2>2, <2>3, <2>4
<1>3. SlotTypeOK'
  BY <1>1, <1>2 DEF SlotIInv, SlotTypeOK
<1>4. SlotListsOK'
  BY <1>1, <1>2 DEF SlotIInv, SlotListsOK
<1>5. ProbeInOrder'
  BY <1>1 DEF ProbeInOrder
<1>6. AdapterCounted'
  BY <1>1 DEF SlotIInv, AdapterCounted
<1> QED
  BY <1>1, <1>3, <1>4, <1>5, <1>6, RecordedHeld, RecordedHeldNext DEF SlotIInv

LEMMA RefusedKeeps ==
    ASSUME SlotIInv, slotPc = "add", Refused, UNCHANGED <<devs, spi, mux>>,
           pins' \subseteq SlotPins \cup {"reset", "detect"}
    PROVE  SlotIInv'
<1>1. /\ UNCHANGED <<card, probes, bound, adapter, adapterRefs, detectOut, list, interfaces>>
      /\ UNCHANGED <<detectFailed, releaseError, nullCall>>
      /\ ret' = TRUE /\ slotPc' = "fail"
  BY DEF Refused, history
<1>2. Held'
  BY <1>1, RecordedHeld, HeldKept DEF SlotIInv
<1>3. SlotTypeOK'
  BY <1>1 DEF SlotIInv, SlotTypeOK
<1>4. SlotListsOK'
  BY <1>1 DEF SlotIInv, SlotListsOK
<1>5. ProbeInOrder' /\ AdapterCounted'
  BY <1>1 DEF SlotIInv, ProbeInOrder, AdapterCounted
<1> QED
  BY <1>1, <1>2, <1>3, <1>4, <1>5, RecordedHeld, RecordedHeldNext DEF SlotIInv

\* What the list says after an interface of neither the bus nor a multiplexer.
LEMMA PlainHeld ==
    ASSUME SlotIInv, NEW item \in IfItems, AddDone(item),
           item[1] \notin {"i2c", "spi"} \cup Muxes \/ item[1] \in Absent \ {"i2c", "spi"},
           UNCHANGED <<devs, spi, mux>>
    PROVE  Held'
<1>1. SlotListsOK /\ Held /\ interfaces' = Append(interfaces, item)
  BY RecordedHeld DEF SlotIInv, AddDone, Acquired
<1>2. /\ Addresses' = Addresses \cup (IF item[1] = "i2c" THEN {item[2]} ELSE {})
      /\ Has("spi")' = (Has("spi") \/ item[1] = "spi")
      /\ Numbers' = [m \in Muxes |-> Numbers[m] + (IF item[1] = m THEN 1 ELSE 0)]
  BY <1>1, ListExtended
<1>3. Addresses' = Addresses \cup {}
  BY <1>2
<1>4. spi' = Has("spi")'
  <2>1. spi \in BOOLEAN /\ spi = Has("spi") /\ spi' = spi
    BY <1>1 DEF SlotListsOK, Held
  <2>2. Has("spi")' = (spi \/ FALSE)
    BY <1>2, <2>1
  <2> QED
    BY <2>1, <2>2
<1>5. \A m \in Muxes \ Absent : item[1] # m
  OBVIOUS
<1>6. \A m \in Muxes : Numbers[m] \in Nat
  BY <1>1, NumbersType
<1>7. \A m \in Muxes \ Absent : Numbers'[m] = Numbers[m]
  BY <1>2, <1>5, <1>6
<1>8. devs' \ {EepromAddr} = Addresses'
  BY <1>1, <1>3 DEF Held
<1>9. \A m \in Muxes \ Absent :
        mux'[m].num = Numbers'[m] /\ (Numbers'[m] > 0 => mux'[m].sel = "iot")
  BY <1>1, <1>7 DEF Held
<1> QED
  BY <1>4, <1>8, <1>9 DEF Held

LEMMA GpioKeeps == ASSUME SlotIInv, AddGpio PROVE SlotIInv'
<1> DEFINE item == Head(list)
<1>1. /\ item \in IfItems /\ item[1] = "gpio" /\ list # <<>>
      /\ slotPc = "add" /\ Len(interfaces) < MaxInterfaces
      /\ UNCHANGED <<devs, spi, mux>>
  BY HeadIs DEF AddGpio, Is, Adding, Type
<1>2. /\ pins \subseteq SlotPins \cup {"reset", "detect"} /\ spi \in BOOLEAN
      /\ mux \in [Muxes -> [sel : {"other", "iot"}, num : 0 .. MaxInterfaces]]
      /\ EepromAddr \in devs
  BY <1>1 DEF SlotIInv, SlotTypeOK, SlotListsOK, ProbeInOrder
<1>3. pins' \subseteq SlotPins \cup {"reset", "detect"}
  <2> DEFINE pin == <<"g0", "g1", "g2", "g3">>
  <2>1. \A k \in 1 .. 3 : {pin[i] : i \in 1 .. k} \subseteq SlotPins
    BY DEF SlotPins
  <2> HIDE DEF pin
  <2>2. \/ \E refused : pins' = pins \cup (SlotPins \ refused)
        \/ \E refused : \E k \in 1 .. 3 :
               pins' = (pins \cup ({pin[i] : i \in 1 .. k} \ refused)) \ {"g0"}
    BY DEF AddGpio, pin
  <2>3. CASE \E refused : pins' = pins \cup (SlotPins \ refused)
    BY <1>2, <2>3
  <2>4. CASE \E refused : \E k \in 1 .. 3 :
               pins' = (pins \cup ({pin[i] : i \in 1 .. k} \ refused)) \ {"g0"}
    BY <1>2, <2>1, <2>4
  <2> QED
    BY <2>2, <2>3, <2>4
<1>4. CASE Refused
  BY <1>1, <1>3, <1>4, RefusedKeeps
<1>5. CASE ret' = FALSE /\ Acquired(item)
  <2>1. AddDone(item)
    BY <1>1, <1>5 DEF AddDone
  <2>2. Held'
    <3> HIDE DEF item
    <3>1. item[1] \notin {"i2c", "spi"} \cup Muxes
      BY <1>1 DEF Muxes
    <3> QED
      BY <1>1, <2>1, <3>1, PlainHeld
  <2> HIDE DEF item
  <2> QED
    BY <1>1, <1>2, <1>3, <1>5, <2>1, <2>2, AcquiredKeeps
<1> QED
  BY <1>4, <1>5 DEF AddGpio

LEMMA I2cKeeps == ASSUME SlotIInv, AddI2c PROVE SlotIInv'
<1> DEFINE item == Head(list)
<1>1. /\ item \in IfItems /\ item[1] = "i2c" /\ list # <<>>
      /\ slotPc = "add" /\ Len(interfaces) < MaxInterfaces
      /\ UNCHANGED <<pins, spi, mux>>
  BY HeadIs DEF AddI2c, Is, Adding, Type
<1>2. /\ pins \subseteq SlotPins \cup {"reset", "detect"} /\ spi \in BOOLEAN
      /\ mux \in [Muxes -> [sel : {"other", "iot"}, num : 0 .. MaxInterfaces]]
      /\ EepromAddr \in devs /\ SlotListsOK /\ Held
  BY <1>1, RecordedHeld DEF SlotIInv, SlotTypeOK, SlotListsOK, ProbeInOrder
<1>3. CASE Refused /\ UNCHANGED devs
  BY <1>1, <1>2, <1>3, RefusedKeeps
<1>4. CASE item[2] \notin devs /\ devs' = devs \cup {item[2]} /\ ret' = FALSE /\ Acquired(item)
  <2>1. AddDone(item) /\ interfaces' = Append(interfaces, item)
    BY <1>1, <1>4 DEF AddDone, Acquired
  <2> HIDE DEF item
  <2>2. /\ Addresses' = Addresses \cup {item[2]}
        /\ Has("spi")' = (Has("spi") \/ FALSE)
        /\ \A m \in Muxes : Numbers'[m] = Numbers[m]
    <3>1. /\ Addresses' = Addresses \cup (IF item[1] = "i2c" THEN {item[2]} ELSE {})
          /\ Has("spi")' = (Has("spi") \/ item[1] = "spi")
          /\ Numbers' = [m \in Muxes |-> Numbers[m] + (IF item[1] = m THEN 1 ELSE 0)]
      BY <1>1, <1>2, <2>1, ListExtended
    <3>2. \A m \in Muxes : Numbers[m] \in Nat
      BY <1>2, NumbersType
    <3>3. \A m \in Muxes : Numbers'[m] = Numbers[m]
      BY <1>1, <3>1, <3>2 DEF Muxes
    <3> QED
      BY <1>1, <3>1, <3>3
  <2>3. devs' \ {EepromAddr} = Addresses'
    BY <1>2, <1>4, <2>2 DEF Held
  <2>4. spi' = Has("spi")'
    <3>1. spi \in BOOLEAN /\ spi = Has("spi") /\ spi' = spi
      BY <1>1, <1>2 DEF Held
    <3>2. Has("spi")' = (spi \/ FALSE)
      BY <2>2, <3>1
    <3> QED
      BY <3>1, <3>2
  <2>5. Held'
    BY <1>1, <1>2, <2>2, <2>3, <2>4 DEF Held
  <2> QED
    BY <1>1, <1>2, <1>4, <2>1, <2>5, AcquiredKeeps
<1> QED
  BY <1>3, <1>4 DEF AddI2c

LEMMA SpiKeeps == ASSUME SlotIInv, AddSpi PROVE SlotIInv'
<1> DEFINE item == Head(list)
<1>1. /\ item \in IfItems /\ item[1] = "spi" /\ list # <<>>
      /\ slotPc = "add" /\ Len(interfaces) < MaxInterfaces
      /\ UNCHANGED <<pins, devs, mux>>
  BY HeadIs DEF AddSpi, Is, Adding, Type
<1>2. /\ pins \subseteq SlotPins \cup {"reset", "detect"}
      /\ mux \in [Muxes -> [sel : {"other", "iot"}, num : 0 .. MaxInterfaces]]
      /\ EepromAddr \in devs /\ SlotListsOK /\ Held
  BY <1>1, RecordedHeld DEF SlotIInv, SlotTypeOK, ProbeInOrder
<1>3. CASE Refused /\ UNCHANGED spi
  BY <1>1, <1>2, <1>3, RefusedKeeps
<1>4. CASE spi' = TRUE /\ ret' = FALSE /\ Acquired(item)
  <2>1. AddDone(item) /\ interfaces' = Append(interfaces, item)
    BY <1>1, <1>4 DEF AddDone, Acquired
  <2> HIDE DEF item
  <2>2. /\ Addresses' = Addresses \cup {}
        /\ Has("spi")' = TRUE
        /\ \A m \in Muxes : Numbers'[m] = Numbers[m]
    <3>1. /\ Addresses' = Addresses \cup (IF item[1] = "i2c" THEN {item[2]} ELSE {})
          /\ Has("spi")' = (Has("spi") \/ item[1] = "spi")
          /\ Numbers' = [m \in Muxes |-> Numbers[m] + (IF item[1] = m THEN 1 ELSE 0)]
      BY <1>1, <1>2, <2>1, ListExtended
    <3>2. \A m \in Muxes : Numbers[m] \in Nat
      BY <1>2, NumbersType
    <3>3. \A m \in Muxes : Numbers'[m] = Numbers[m]
      BY <1>1, <3>1, <3>2 DEF Muxes
    <3>4. Has("spi")' = TRUE
      BY <1>1, <3>1
    <3> QED
      BY <1>1, <3>1, <3>3, <3>4
  <2>3. devs' \ {EepromAddr} = Addresses'
    BY <1>1, <1>2, <2>2 DEF Held
  <2>4. spi' = Has("spi")'
    BY <1>4, <2>2
  <2>5. Held'
    BY <1>1, <1>2, <2>2, <2>3, <2>4 DEF Held
  <2> QED
    BY <1>1, <1>2, <1>4, <2>1, <2>5, AcquiredKeeps
<1> QED
  BY <1>3, <1>4 DEF AddSpi

\* A request to a multiplexer, and the interface recorded for it.
LEMMA SelectKeeps ==
    ASSUME SlotIInv, NEW m \in Muxes \ Absent, NEW item \in IfItems, item[1] = m,
           AddDone(item), Select(m), UNCHANGED <<devs, spi>>
    PROVE  /\ Held'
           /\ mux' \in [Muxes -> [sel : {"other", "iot"}, num : 0 .. MaxInterfaces]]
<1>1. /\ SlotListsOK /\ Held /\ interfaces' = Append(interfaces, item)
      /\ Len(interfaces) < MaxInterfaces /\ Len(interfaces) \in Nat /\ MaxInterfaces \in Nat
      /\ mux \in [Muxes -> [sel : {"other", "iot"}, num : 0 .. MaxInterfaces]]
      /\ spi \in BOOLEAN
  BY RecordedHeld, SlotAssumption DEF SlotIInv, SlotTypeOK, SlotListsOK, AddDone, Acquired
<1>2. \A n \in Muxes : Numbers[n] \in 0 .. Len(interfaces)
  BY <1>1, NumbersType
<1>3. /\ Addresses' = Addresses \cup (IF item[1] = "i2c" THEN {item[2]} ELSE {})
      /\ Has("spi")' = (Has("spi") \/ item[1] = "spi")
      /\ Numbers' = [n \in Muxes |-> Numbers[n] + (IF item[1] = n THEN 1 ELSE 0)]
  BY <1>1, ListExtended
<1>4. item[1] \notin {"i2c", "spi"}
  BY DEF Muxes
<1>5. devs' \ {EepromAddr} = Addresses'
  BY <1>1, <1>3, <1>4 DEF Held
<1>6. spi' = Has("spi")'
  <2>1. spi = Has("spi") /\ spi' = spi
    BY <1>1 DEF Held
  <2>2. Has("spi")' = (spi \/ FALSE)
    BY <1>3, <1>4, <2>1
  <2> QED
    BY <1>1, <2>1, <2>2
<1>7. mux' = [mux EXCEPT ![m] = [sel |-> "iot", num |-> mux[m].num + 1]]
  BY DEF Select
<1>8. mux[m].num = Numbers[m]
  BY <1>1 DEF Held
<1>9. mux' \in [Muxes -> [sel : {"other", "iot"}, num : 0 .. MaxInterfaces]]
  <2>1. [sel |-> "iot", num |-> mux[m].num + 1] \in [sel : {"other", "iot"}, num : 0 .. MaxInterfaces]
    BY <1>1, <1>2, <1>8
  <2> QED
    BY <1>1, <1>7, <2>1
<1>10. \A n \in Muxes \ Absent :
        mux'[n].num = Numbers'[n] /\ (Numbers'[n] > 0 => mux'[n].sel = "iot")
  <2> SUFFICES ASSUME NEW n \in Muxes \ Absent
               PROVE  mux'[n].num = Numbers'[n] /\ (Numbers'[n] > 0 => mux'[n].sel = "iot")
    OBVIOUS
  <2>1. CASE n = m
    <3>1. mux'[n] = [sel |-> "iot", num |-> mux[m].num + 1]
      BY <1>1, <1>7, <2>1
    <3>2. Numbers'[n] = Numbers[m] + 1
      BY <1>3, <2>1
    <3> QED
      BY <1>8, <3>1, <3>2
  <2>2. CASE n # m
    <3>1. mux'[n] = mux[n]
      BY <1>1, <1>7, <2>2
    <3>2. Numbers'[n] = Numbers[n]
      BY <1>2, <1>3, <2>2
    <3> QED
      BY <1>1, <3>1, <3>2 DEF Held
  <2> QED
    BY <2>1, <2>2
<1> QED
  BY <1>5, <1>6, <1>9, <1>10 DEF Held

LEMMA RequestedKeeps == ASSUME SlotIInv, AddRequested PROVE SlotIInv'
<1> DEFINE item == Head(list)
<1>1. /\ item \in IfItems /\ item[1] \in {"sdio", "adc", "pcm", "uart"} /\ list # <<>>
      /\ slotPc = "add" /\ Len(interfaces) < MaxInterfaces
      /\ UNCHANGED <<pins, devs, spi>>
  BY HeadIs DEF AddRequested, Is, Adding, Type
<1>2. /\ pins \subseteq SlotPins \cup {"reset", "detect"} /\ spi \in BOOLEAN
      /\ mux \in [Muxes -> [sel : {"other", "iot"}, num : 0 .. MaxInterfaces]]
      /\ EepromAddr \in devs
  BY <1>1 DEF SlotIInv, SlotTypeOK, SlotListsOK, ProbeInOrder
<1>3. CASE Refused /\ UNCHANGED mux
  BY <1>1, <1>2, <1>3, RefusedKeeps
<1>4. CASE /\ ret' = FALSE /\ Acquired(item)
           /\ IF item[1] \in Muxes \ Absent THEN Select(item[1]) ELSE UNCHANGED mux
  <2>1. AddDone(item)
    BY <1>1, <1>4 DEF AddDone
  <2> HIDE DEF item
  <2>2. CASE item[1] \in Muxes \ Absent
    <3>1. Held' /\ mux' \in [Muxes -> [sel : {"other", "iot"}, num : 0 .. MaxInterfaces]]
      BY <1>1, <1>4, <2>1, <2>2, SelectKeeps
    <3> QED
      BY <1>1, <1>2, <1>4, <2>1, <3>1, AcquiredKeeps
  <2>3. CASE item[1] \notin Muxes \ Absent
    <3>1. item[1] \notin {"i2c", "spi"} \cup Muxes \/ item[1] \in Absent \ {"i2c", "spi"}
      BY <1>1, <2>3
    <3>2. UNCHANGED mux
      BY <1>4, <2>3
    <3>3. Held'
      BY <1>1, <2>1, <3>1, <3>2, PlainHeld
    <3> QED
      BY <1>1, <1>2, <1>4, <2>1, <3>2, <3>3, AcquiredKeeps
  <2> QED
    BY <2>2, <2>3
<1> QED
  BY <1>3, <1>4 DEF AddRequested, Type

LEMMA PlainKeeps == ASSUME SlotIInv, AddPlain PROVE SlotIInv'
<1> DEFINE item == IF Type(Head(list)) = "usb" THEN <<"clk", 0>> ELSE Head(list)
<1>1. /\ Head(list) \in IfItems /\ Head(list)[1] \in {"usb", "clk", "plat"} /\ list # <<>>
      /\ slotPc = "add" /\ Len(interfaces) < MaxInterfaces
      /\ UNCHANGED <<pins, devs, spi, mux, ret>> /\ Acquired(item)
  BY HeadIs DEF AddPlain, Is, Adding, Type
<1>2. item \in IfItems /\ item[1] \in {"clk", "plat"}
  BY <1>1 DEF Type, IfItems, IfTypes
<1>3. /\ pins \subseteq SlotPins \cup {"reset", "detect"} /\ spi \in BOOLEAN /\ ret \in BOOLEAN
      /\ mux \in [Muxes -> [sel : {"other", "iot"}, num : 0 .. MaxInterfaces]]
      /\ EepromAddr \in devs /\ (ret => NothingHeld)
  BY <1>1 DEF SlotIInv, SlotTypeOK, SlotListsOK, ProbeInOrder
<1> HIDE DEF item
<1>4. AddDone(item)
  BY <1>1, <1>2 DEF AddDone
<1>5. Held'
  <2>1. item[1] \notin {"i2c", "spi"} \cup Muxes
    BY <1>2 DEF Muxes
  <2> QED
    BY <1>1, <1>2, <1>4, <2>1, PlainHeld
<1>6. ret' => ret /\ NothingHeld'
  BY <1>1, <1>3 DEF NothingHeld
<1> QED
  BY <1>1, <1>2, <1>3, <1>4, <1>5, <1>6, AcquiredKeeps

-----------------------------------------------------------------------------
(* IotSlot: the release                                                      *)

\* iot_slot_release_resources gives back all that is recorded, without an error.
LEMMA ReleaseIsComplete ==
    ASSUME SlotIInv, Held, ReleaseResources
    PROVE  /\ NothingHeld' /\ spi' \in BOOLEAN
           /\ mux' \in [Muxes -> [sel : {"other", "iot"}, num : 0 .. MaxInterfaces]]
           /\ releaseError' = FALSE
           /\ adapter' = FALSE /\ adapterRefs' = IF adapter THEN adapterRefs - 1 ELSE adapterRefs
<1>1. /\ mux \in [Muxes -> [sel : {"other", "iot"}, num : 0 .. MaxInterfaces]]
      /\ SlotListsOK /\ ~ releaseError /\ spi \in BOOLEAN /\ MaxInterfaces \in Nat
  BY SlotAssumption, RecordedHeld DEF SlotIInv, SlotTypeOK, SlotListsOK
<1>2. \A m \in Muxes \ Absent :
        /\ mux[m].num = Count(m) /\ Count(m) \in Nat
        /\ Count(m) > 0 => mux[m].sel = "iot"
  BY <1>1, Counted DEF Held, Numbers
<1>3. mux' = [m \in Muxes |-> IF m \in Absent THEN mux[m] ELSE Released(m, Count(m))]
  BY DEF ReleaseResources
<1>4. \A m \in Muxes \ Absent : Released(m, Count(m)) = [sel |-> mux[m].sel, num |-> 0]
  <2> SUFFICES ASSUME NEW m \in Muxes \ Absent
               PROVE  Released(m, Count(m)) = [sel |-> mux[m].sel, num |-> 0]
    OBVIOUS
  <2>1. mux[m] \in [sel : {"other", "iot"}, num : 0 .. MaxInterfaces]
    BY <1>1
  <2>2. mux[m].num = Count(m) /\ Count(m) \in Nat /\ (Count(m) > 0 => mux[m].sel = "iot")
    BY <1>2
  <2>3. CASE Count(m) > 0
    <3>1. Released(m, Count(m)) = [mux[m] EXCEPT !.num = 0]
      BY <2>2, <2>3 DEF Released
    <3> QED
      BY <2>1, <3>1
  <2>4. CASE Count(m) = 0
    <3>1. Released(m, 0) \in {mux[m], [mux[m] EXCEPT !.num = 0]}
      BY <2>1, <2>2, <2>4 DEF Released
    <3>2. mux[m] = [sel |-> mux[m].sel, num |-> 0]
      BY <2>1, <2>2, <2>4
    <3> QED
      BY <2>1, <2>4, <3>1, <3>2
  <2> QED
    BY <2>2, <2>3, <2>4
<1>5. mux' \in [Muxes -> [sel : {"other", "iot"}, num : 0 .. MaxInterfaces]]
  <2>1. \A m \in Muxes \ Absent :
          [sel |-> mux[m].sel, num |-> 0] \in [sel : {"other", "iot"}, num : 0 .. MaxInterfaces]
    BY <1>1
  <2> QED
    BY <1>1, <1>3, <1>4, <2>1
<1>6. \A m \in Muxes \ Absent : mux'[m].num = 0
  BY <1>3, <1>4
<1>7. devs' \subseteq {EepromAddr}
  BY DEF ReleaseResources, ClientsLeft, Held
<1>8. spi' = FALSE
  <2>1. spi' = (spi /\ ~ Has("spi")) /\ spi = Has("spi")
    BY DEF ReleaseResources, Held
  <2> QED
    BY <1>1, <2>1
<1>9. \A m \in Muxes \ Absent : ~ ReleaseFails(m, Count(m))
  BY <1>2 DEF ReleaseFails
<1>10. releaseError' = FALSE
  <2>1. releaseError' = (FALSE \/ \E m \in Muxes \ Absent : ReleaseFails(m, Count(m)))
    BY <1>1 DEF ReleaseResources, SlotListsOK
  <2> QED
    BY <1>9, <2>1
<1> QED
  BY <1>5, <1>6, <1>7, <1>8, <1>10 DEF ReleaseResources, NothingHeld

LEMMA FailKeeps == ASSUME SlotIInv, EnumerationFail PROVE SlotIInv'
<1>1. /\ UNCHANGED <<card, probes, bound, detectOut, list, interfaces, ret, detectFailed>>
      /\ pins' = PinsLeft /\ slotPc = "fail" /\ slotPc' = "unload" /\ ReleaseResources
  BY DEF EnumerationFail
<1>2. Held /\ ret = TRUE /\ adapter = TRUE
  BY <1>1, RecordedHeld DEF SlotIInv, ProbeInOrder, SlotListsOK, AdapterCounted, SlotTypeOK
<1>3. /\ NothingHeld' /\ spi' \in BOOLEAN
      /\ mux' \in [Muxes -> [sel : {"other", "iot"}, num : 0 .. MaxInterfaces]]
      /\ releaseError' = FALSE /\ adapter' = FALSE /\ adapterRefs' = adapterRefs - 1
  BY <1>1, <1>2, ReleaseIsComplete
<1>4. /\ adapterRefs \in 0 .. probes /\ adapterRefs > 0 /\ probes \in Nat
      /\ ~ detectFailed => adapterRefs = 1
  BY <1>2 DEF SlotIInv, SlotTypeOK, SlotListsOK, AdapterCounted
<1>5. SlotTypeOK'
  <2>1. pins' \subseteq SlotPins \cup {"reset", "detect"}
    BY <1>1 DEF SlotIInv, SlotTypeOK, PinsLeft
  <2>2. adapterRefs' \in 0 .. probes
    BY <1>3, <1>4
  <2> QED
    BY <1>1, <1>3, <2>1, <2>2 DEF SlotIInv, SlotTypeOK
<1>6. SlotListsOK'
  BY <1>1, <1>3 DEF SlotIInv, SlotListsOK
<1>7. ProbeInOrder'
  BY <1>1, <1>3 DEF ProbeInOrder
<1>8. AdapterCounted'
  BY <1>1, <1>2, <1>3, <1>4 DEF AdapterCounted
<1> QED
  BY <1>1, <1>2, <1>3, <1>5, <1>6, <1>7, <1>8, RecordedHeldNext DEF SlotIInv

LEMMA UnloadKeeps == ASSUME SlotIInv, UnloadEeprom PROVE SlotIInv'
<1>1. /\ UNCHANGED <<card, probes, adapter, adapterRefs, spi, mux, ret>>
      /\ UNCHANGED <<detectFailed, releaseError, nullCall>>
      /\ slotPc = "unload" /\ slotPc' = "idle" /\ bound' = ~ ret
      /\ devs' = devs \ {EepromAddr} /\ list' = <<>> /\ detectOut' = FALSE
      /\ pins' \in {pins, {}}
      /\ interfaces' = IF ret THEN <<>> ELSE interfaces
      /\ ret \in BOOLEAN
  BY DEF UnloadEeprom, Return, RestoreCardDetect, history, SlotIInv, SlotListsOK
<1>2. /\ interfaces' \in Seq(IfItems) /\ Len(interfaces') <= MaxInterfaces
  BY <1>1, SlotAssumption DEF SlotIInv, SlotListsOK, SlotTypeOK
<1>3. Held'
  <2>1. CASE ret
    <3>1. NothingHeld /\ spi \in BOOLEAN
      BY <1>1, <2>1 DEF SlotIInv, ProbeInOrder, SlotListsOK
    <3>2. NothingHeld'
      BY <1>1, <3>1 DEF NothingHeld
    <3> QED
      BY <1>1, <2>1, <3>1, <3>2, NothingIsHeld
  <2>2. CASE ~ ret
    BY <1>1, <2>2, RecordedHeld, HeldKept DEF SlotIInv
  <2> QED
    BY <1>1, <2>1, <2>2
<1>4. SlotTypeOK'
  BY <1>1, <1>2 DEF SlotIInv, SlotTypeOK
<1>5. SlotListsOK'
  <2>1. <<>> \in Seq(IfItems)
    OBVIOUS
  <2>2. list' \in Seq(IfItems)
    BY <1>1, <2>1
  <2>3. bound' \in BOOLEAN /\ detectOut' \in BOOLEAN
    BY <1>1
  <2> QED
    BY <1>1, <1>2, <2>2, <2>3 DEF SlotIInv, SlotListsOK
<1>6. ProbeInOrder'
  BY <1>1 DEF ProbeInOrder
<1>7. AdapterCounted'
  BY <1>1 DEF SlotIInv, AdapterCounted
<1> QED
  BY <1>1, <1>3, <1>4, <1>5, <1>6, <1>7, RecordedHeld, RecordedHeldNext DEF SlotIInv

LEMMA RemoveKeeps == ASSUME SlotIInv, SlotRemove PROVE SlotIInv'
<1>1. /\ UNCHANGED <<card, probes, slotPc, detectOut, list, ret, detectFailed>>
      /\ slotPc = "idle" /\ bound /\ bound' = FALSE /\ pins' = {} /\ interfaces' = <<>>
      /\ ReleaseResources
  BY DEF SlotRemove
<1>2. Held
  BY <1>1, RecordedHeld DEF SlotIInv
<1>3. /\ NothingHeld' /\ spi' \in BOOLEAN
      /\ mux' \in [Muxes -> [sel : {"other", "iot"}, num : 0 .. MaxInterfaces]]
      /\ releaseError' = FALSE /\ adapter' = FALSE
      /\ adapterRefs' = IF adapter THEN adapterRefs - 1 ELSE adapterRefs
  BY <1>1, <1>2, ReleaseIsComplete
<1>4. /\ adapterRefs \in 0 .. probes /\ probes \in Nat /\ (adapter => adapterRefs > 0)
      /\ ~ detectFailed => adapter /\ adapterRefs = 1
  BY <1>1 DEF SlotIInv, SlotTypeOK, SlotListsOK, AdapterCounted
<1>5. Held'
  BY <1>1, <1>3, NothingIsHeld
<1>6. SlotTypeOK'
  <2>1. Len(interfaces') <= MaxInterfaces
    BY <1>1, SlotAssumption
  <2>2. adapterRefs' \in 0 .. probes
    BY <1>3, <1>4
  <2> QED
    BY <1>1, <1>3, <2>1, <2>2 DEF SlotIInv, SlotTypeOK
<1>7. SlotListsOK'
  <2>1. <<>> \in Seq(IfItems)
    OBVIOUS
  <2>2. interfaces' \in Seq(IfItems)
    BY <1>1, <2>1
  <2>3. bound' \in BOOLEAN
    BY <1>1
  <2> QED
    BY <1>1, <1>3, <2>2, <2>3 DEF SlotIInv, SlotListsOK
<1>8. ProbeInOrder'
  BY <1>1 DEF SlotIInv, ProbeInOrder
<1>9. AdapterCounted'
  BY <1>1, <1>3, <1>4 DEF AdapterCounted
<1> QED
  BY <1>1, <1>3, <1>5, <1>6, <1>7, <1>8, <1>9, RecordedHeldNext DEF SlotIInv

LEMMA SlotStep == ASSUME SlotIInv, [SlotNext]_slotVars PROVE SlotIInv'
<1>1. CASE UNCHANGED slotVars
  <2>1. /\ UNCHANGED <<card, probes, slotPc, bound, pins, adapter, adapterRefs, devs, spi>>
        /\ UNCHANGED <<mux, detectOut, list, interfaces, ret>>
        /\ UNCHANGED <<detectFailed, releaseError, nullCall>>
    BY <1>1 DEF slotVars, slotBus, history
  <2>2. SlotTypeOK' /\ SlotListsOK' /\ ProbeInOrder' /\ AdapterCounted'
    BY <2>1 DEF SlotIInv, SlotTypeOK, SlotListsOK, ProbeInOrder, NothingHeld, AdapterCounted
  <2>3. Held <=> Held'
    BY <2>1, ListKept DEF Held
  <2> QED
    BY <2>1, <2>2, <2>3, RecordedHeld, RecordedHeldNext DEF SlotIInv
<1> QED
  BY <1>1, ChangeCardKeeps, RequestKeeps, DetectKeeps, LoadedKeeps, InvalidKeeps, WaitKeeps,
     GpioKeeps, I2cKeeps, SpiKeeps, RequestedKeeps, PlainKeeps, FailKeeps, UnloadKeeps,
     RemoveKeeps DEF SlotNext

\* What is recorded, what is held and the parts of a probe stay in step.
THEOREM SlotInvariant == SlotSpec => []SlotIInv
<1>1. SlotInit => SlotIInv
  <2> SUFFICES ASSUME SlotInit PROVE SlotIInv
    OBVIOUS
  <2>1. Addresses = {} /\ Has("spi") = FALSE /\ Numbers = [m \in Muxes |-> 0]
    <3>1. Says(<<>>, Addresses, Has("spi"), Numbers)
      BY ListSays DEF SlotInit
    <3> QED
      BY <3>1, EmptySays
  <2>2. Held
    <3>1. \A m \in Muxes \ Absent : mux[m].num = 0 /\ Numbers[m] = 0
      BY <2>1 DEF SlotInit
    <3>2. \A m \in Muxes \ Absent : mux[m].num = Numbers[m] /\ (Numbers[m] > 0 => mux[m].sel = "iot")
      BY <3>1
    <3>3. devs \ {EepromAddr} = Addresses
      BY <2>1 DEF SlotInit
    <3>4. spi = Has("spi")
      BY <2>1 DEF SlotInit
    <3> QED
      BY <3>2, <3>3, <3>4 DEF Held
  <2>3. SlotTypeOK
    <3>1. [sel |-> "other", num |-> 0] \in [sel : {"other", "iot"}, num : 0 .. MaxInterfaces]
      BY SlotAssumption
    <3>2. mux \in [Muxes -> [sel : {"other", "iot"}, num : 0 .. MaxInterfaces]]
      BY <3>1 DEF SlotInit
    <3>3. Len(interfaces) <= MaxInterfaces /\ adapterRefs \in 0 .. probes
      BY SlotAssumption DEF SlotInit
    <3> QED
      BY <3>2, <3>3 DEF SlotInit, SlotTypeOK
  <2>4. SlotListsOK
    <3>1. list \in Seq(IfItems) /\ interfaces \in Seq(IfItems)
      BY DEF SlotInit
    <3> QED
      BY <3>1 DEF SlotInit, SlotListsOK
  <2>5. ProbeInOrder
    BY DEF SlotInit, ProbeInOrder
  <2>6. AdapterCounted
    BY DEF SlotInit, AdapterCounted
  <2> QED
    BY <2>2, <2>3, <2>4, <2>5, <2>6, RecordedHeld DEF SlotIInv, SlotInit
<1> QED
  BY <1>1, SlotStep, PTL DEF SlotSpec

\* What a slot holds of its card's interfaces is what it has recorded, no release function
\* reports an error, the adapter is referenced exactly while the slot is bound and the card
\* detect line is given back (iot_slot_probe, iot_slot_enumerate,
\* iot_slot_release_resources): for every set of cards, whatever requests fail.
THEOREM SlotIsSound == SlotSpec => []SlotSound
<1>1. SlotIInv => SlotSound
  <2> SUFFICES ASSUME SlotIInv PROVE SlotSound
    OBVIOUS
  <2>1. AdapterReleased
    BY DEF SlotIInv, AdapterCounted, AdapterReleased, SlotListsOK
  <2>2. CardDetectRestored
    BY DEF SlotIInv, ProbeInOrder, CardDetectRestored
  <2> QED
    BY <2>1, <2>2 DEF SlotIInv, SlotSound
<1> QED
  BY <1>1, SlotInvariant, PTL

-----------------------------------------------------------------------------
(* IotSlot: the order of what is recorded                                    *)

SupportedUpTo(items, n) == {k \in 1 .. n : Supported(items[k])}

\* The place of an entry grows by one with each supported one before it.
LEMMA PlaceIs ==
    ASSUME NEW items, NEW n \in Nat
    PROVE  /\ IsFiniteSet(SupportedUpTo(items, n))
           /\ Place(items, n) = Cardinality(SupportedUpTo(items, n))
           /\ Place(items, n) \in Nat
<1>1. IsFiniteSet(1 .. n)
  BY UpTo
<1>2. SupportedUpTo(items, n) \subseteq 1 .. n
  BY DEF SupportedUpTo
<1>3. IsFiniteSet(SupportedUpTo(items, n))
  BY <1>1, <1>2, FS_Subset
<1>4. Cardinality(SupportedUpTo(items, n)) \in Nat
  BY <1>3, FS_CardinalityType
<1> QED
  BY <1>3, <1>4 DEF Place, SupportedUpTo

LEMMA PlaceNext ==
    ASSUME NEW items, NEW n \in Nat
    PROVE  Place(items, n + 1) = Place(items, n) + (IF Supported(items[n + 1]) THEN 1 ELSE 0)
<1>1. /\ IsFiniteSet(SupportedUpTo(items, n))
      /\ Place(items, n) = Cardinality(SupportedUpTo(items, n)) /\ Place(items, n) \in Nat
      /\ Place(items, n + 1) = Cardinality(SupportedUpTo(items, n + 1))
  BY PlaceIs, n + 1 \in Nat
<1>2. 1 .. (n + 1) = 1 .. n \cup {n + 1}
  OBVIOUS
<1>3. CASE Supported(items[n + 1])
  <2>1. SupportedUpTo(items, n + 1) = SupportedUpTo(items, n) \cup {n + 1}
    BY <1>2, <1>3 DEF SupportedUpTo
  <2>2. n + 1 \notin SupportedUpTo(items, n)
    BY DEF SupportedUpTo
  <2>3. Cardinality(SupportedUpTo(items, n) \cup {n + 1}) = Cardinality(SupportedUpTo(items, n)) + 1
    BY <1>1, <2>2, OneMore
  <2> QED
    BY <1>1, <1>3, <2>1, <2>3
<1>4. CASE ~ Supported(items[n + 1])
  <2>1. SupportedUpTo(items, n + 1) = SupportedUpTo(items, n)
    BY <1>2, <1>4 DEF SupportedUpTo
  <2> QED
    BY <1>1, <1>4, <2>1
<1> QED
  BY <1>3, <1>4

\* No two supported entries have the same place, and each place is within the record.
LEMMA PlaceWithin ==
    ASSUME NEW items, NEW n \in Nat, NEW k \in 1 .. n, Supported(items[k])
    PROVE  Place(items, k) \in 1 .. Place(items, n)
<1>1. k \in Nat
  OBVIOUS
<1>2. /\ IsFiniteSet(SupportedUpTo(items, n))
      /\ Place(items, n) = Cardinality(SupportedUpTo(items, n)) /\ Place(items, n) \in Nat
  BY PlaceIs
<1>3. /\ IsFiniteSet(SupportedUpTo(items, k))
      /\ Place(items, k) = Cardinality(SupportedUpTo(items, k)) /\ Place(items, k) \in Nat
  BY <1>1, PlaceIs
<1>4. SupportedUpTo(items, k) \subseteq SupportedUpTo(items, n)
  BY DEF SupportedUpTo
<1>5. Cardinality(SupportedUpTo(items, k)) <= Cardinality(SupportedUpTo(items, n))
  BY <1>2, <1>4, FS_Subset
<1>6. k \in SupportedUpTo(items, k)
  BY DEF SupportedUpTo
<1>7. Cardinality(SupportedUpTo(items, k)) # 0
  BY <1>3, <1>6, FS_EmptySet
<1> QED
  BY <1>2, <1>3, <1>5, <1>7

LEMMA NoneRecorded == ASSUME NEW items PROVE RecordedUpTo(items, 0, <<>>)
<1>1. SupportedUpTo(items, 0) = {}
  BY DEF SupportedUpTo
<1>2. Place(items, 0) = Cardinality(SupportedUpTo(items, 0))
  BY PlaceIs
<1>3. Place(items, 0) = 0
  BY <1>1, <1>2, FS_EmptySet
<1> QED
  BY <1>3 DEF RecordedUpTo

LEMMA OneRecorded ==
    ASSUME NEW items, NEW n \in Nat, NEW record \in Seq(IfItems), RecordedUpTo(items, n, record),
           Supported(items[n + 1]), Recorded(items[n + 1]) \in IfItems
    PROVE  RecordedUpTo(items, n + 1, Append(record, Recorded(items[n + 1])))
<1> DEFINE after == Append(record, Recorded(items[n + 1]))
<1>1. /\ Len(after) = Len(record) + 1 /\ after[Len(record) + 1] = Recorded(items[n + 1])
      /\ \A p \in 1 .. Len(record) : after[p] = record[p]
  BY AppendProperties
<1>2. Len(record) = Place(items, n) /\ Place(items, n + 1) = Place(items, n) + 1
  BY PlaceNext DEF RecordedUpTo
<1> HIDE DEF after
<1>3. ASSUME NEW k \in 1 .. (n + 1), Supported(items[k])
      PROVE  after[Place(items, k)] = Recorded(items[k])
  <2>1. CASE k = n + 1
    BY <1>1, <1>2, <2>1
  <2>2. CASE k # n + 1
    <3>1. k \in 1 .. n
      BY <2>2
    <3>2. Place(items, k) \in 1 .. Place(items, n)
      BY <1>3, <3>1, PlaceWithin
    <3>3. record[Place(items, k)] = Recorded(items[k])
      BY <1>3, <3>1 DEF RecordedUpTo
    <3> QED
      BY <1>1, <1>2, <3>2, <3>3
  <2> QED
    BY <2>1, <2>2
<1>4. Len(after) = Place(items, n + 1)
  BY <1>1, <1>2
<1>5. RecordedUpTo(items, n + 1, after)
  BY <1>3, <1>4 DEF RecordedUpTo
<1> QED
  BY <1>5 DEF after

LEMMA OneSkipped ==
    ASSUME NEW items, NEW n \in Nat, NEW record, RecordedUpTo(items, n, record),
           ~ Supported(items[n + 1])
    PROVE  RecordedUpTo(items, n + 1, record)
<1>1. Place(items, n) \in Nat
  BY PlaceIs
<1>2. Place(items, n + 1) = Place(items, n)
  BY <1>1, PlaceNext
<1>3. 1 .. (n + 1) = 1 .. n \cup {n + 1}
  OBVIOUS
<1> QED
  BY <1>2, <1>3 DEF RecordedUpTo

\* The entry that ends the list is no interface: what is recorded is the card's.
LEMMA RecordedOfCard ==
    ASSUME NEW c \in Seq(IfItems), NEW record, RecordedUpTo(IfList(c), Len(IfList(c)), record)
    PROVE  RecordedUpTo(c, Len(c), record)
<1>1. LastItem \in IfItems
  BY DEF LastItem, IfItems, IfTypes
<1>2. /\ Len(c) \in Nat /\ Len(IfList(c)) = Len(c) + 1
      /\ \A k \in 1 .. Len(c) : IfList(c)[k] = c[k]
      /\ IfList(c)[Len(c) + 1] = LastItem
  BY <1>1, AppendProperties DEF IfList
<1>3. ~ Supported(LastItem)
  BY DEF Supported, LastItem, Type
<1>4. \A k \in 1 .. Len(c) : Place(IfList(c), k) = Place(c, k)
  <2> TAKE k \in 1 .. Len(c)
  <2>1. k \in Nat
    BY <1>2
  <2>2. SupportedUpTo(IfList(c), k) = SupportedUpTo(c, k)
    BY <1>2 DEF SupportedUpTo
  <2> QED
    BY <2>1, <2>2, PlaceIs
<1>5. Place(IfList(c), Len(c)) = Place(c, Len(c))
  <2>1. SupportedUpTo(IfList(c), Len(c)) = SupportedUpTo(c, Len(c))
    BY <1>2 DEF SupportedUpTo
  <2> QED
    BY <1>2, <2>1, PlaceIs
<1>6. Place(IfList(c), Len(c) + 1) = Place(IfList(c), Len(c))
  <2>1. Place(IfList(c), Len(c)) \in Nat
    BY <1>2, PlaceIs
  <2> QED
    BY <1>2, <1>3, <2>1, PlaceNext
<1>7. Len(record) = Place(c, Len(c))
  BY <1>2, <1>5, <1>6 DEF RecordedUpTo
<1>8. \A k \in 1 .. Len(c) : Supported(c[k]) => record[Place(c, k)] = Recorded(c[k])
  BY <1>2, <1>4 DEF RecordedUpTo
<1> QED
  BY <1>7, <1>8 DEF RecordedUpTo

-----------------------------------------------------------------------------
(* IotSlot: the enumeration                                                  *)

\* n entries of the card's list have been gone through.
GoneThrough(n) ==
    /\ n \in 0 .. Len(IfList(card))
    /\ Len(list) = Len(IfList(card)) - n
    /\ \A k \in 1 .. Len(list) : list[k] = IfList(card)[n + k]
    /\ RecordedUpTo(IfList(card), n, interfaces)

GpioHasPins == Has("gpio") => {"g1", "g2", "g3"} \subseteq pins

LEMMA CardIsList ==
    ASSUME SlotListsOK PROVE card \in Seq(IfItems) /\ Len(IfList(card)) \in Nat
<1>1. <<"none", 0>> \in IfItems /\ LastItem \in IfItems
  BY DEF IfItems, IfTypes, LastItem
<1>2. NoCard \in Seq(IfItems)
  BY <1>1 DEF NoCard
<1>3. card \in Seq(IfItems)
  BY <1>2, SlotAssumption DEF SlotListsOK
<1> QED
  BY <1>1, <1>3, AppendProperties DEF IfList

LEMMA InOrderIs ==
    ASSUME SlotIInv, EnumerationInOrder
    PROVE  /\ slotPc = "add" => \E n \in Nat : GoneThrough(n)
           /\ slotPc = "unload" /\ ~ ret =>
                RecordedUpTo(IfList(card), Len(IfList(card)), interfaces)
           /\ slotPc = "add" \/ (slotPc = "unload" /\ ~ ret) => GpioHasPins
<1>1. Len(IfList(card)) \in Nat
  BY CardIsList DEF SlotIInv
<1>2. slotPc = "add" => \E n \in 0 .. Len(IfList(card)) : GoneThrough(n)
  BY DEF EnumerationInOrder, GoneThrough
<1>3. slotPc = "add" => \E n \in Nat : GoneThrough(n)
  BY <1>1, <1>2
<1> QED
  BY <1>3 DEF EnumerationInOrder, GpioHasPins

LEMMA InOrderNext ==
    ASSUME slotPc' = "add" => \E n \in Nat : GoneThrough(n)',
           slotPc' = "unload" /\ ~ ret' =>
                RecordedUpTo(IfList(card'), Len(IfList(card')), interfaces'),
           slotPc' = "add" \/ (slotPc' = "unload" /\ ~ ret') => GpioHasPins'
    PROVE  EnumerationInOrder'
<1>1. slotPc' = "add" => \E n \in 0 .. Len(IfList(card')) : GoneThrough(n)'
  BY DEF GoneThrough
<1> QED
  BY <1>1 DEF EnumerationInOrder, GoneThrough, GpioHasPins

\* The list's first entry is the next of the card's list, and the rest follows on it.
LEMMA NextGone ==
    ASSUME SlotIInv, NEW n \in Nat, GoneThrough(n), list # <<>>, card' = card, list' = Tail(list),
           RecordedUpTo(IfList(card), n + 1, interfaces')
    PROVE  GoneThrough(n + 1)'
<1>1. list \in Seq(IfItems)
  BY DEF SlotIInv, SlotListsOK
<1>2. /\ Len(list) \in Nat /\ Len(list) > 0 /\ Len(list') = Len(list) - 1
      /\ \A k \in 1 .. Len(list') : list'[k] = list[k + 1]
  BY <1>1, HeadTailProperties
<1>3. Len(IfList(card)) \in Nat
  BY CardIsList DEF SlotIInv
<1>4. n + 1 \in 0 .. Len(IfList(card)) /\ Len(list') = Len(IfList(card)) - (n + 1)
  BY <1>2, <1>3 DEF GoneThrough
<1>5. \A k \in 1 .. Len(list') : list'[k] = IfList(card)[(n + 1) + k]
  <2> TAKE k \in 1 .. Len(list')
  <2>1. k + 1 \in 1 .. Len(list) /\ n + (k + 1) = (n + 1) + k
    BY <1>2
  <2>2. list[k + 1] = IfList(card)[n + (k + 1)]
    BY <2>1 DEF GoneThrough
  <2> QED
    BY <1>2, <2>1, <2>2
<1> QED
  BY <1>4, <1>5 DEF GoneThrough

LEMMA HeadIsNext ==
    ASSUME SlotIInv, NEW n \in Nat, GoneThrough(n), list # <<>>
    PROVE  Head(list) = IfList(card)[n + 1]
<1>1. list \in Seq(IfItems)
  BY DEF SlotIInv, SlotListsOK
<1>2. Len(list) \in Nat /\ Len(list) > 0 /\ Head(list) = list[1]
  BY <1>1, HeadTailProperties
<1> QED
  BY <1>2 DEF GoneThrough

\* A step that records the head of the list.
LEMMA AcquiredInOrder ==
    ASSUME SlotIInv, EnumerationInOrder, slotPc = "add", list # <<>>,
           Supported(Head(list)), Recorded(Head(list)) \in IfItems,
           Acquired(Recorded(Head(list))), GpioHasPins'
    PROVE  EnumerationInOrder'
<1>1. PICK n \in Nat : GoneThrough(n)
  BY InOrderIs
<1>2. /\ interfaces' = Append(interfaces, Recorded(Head(list))) /\ list' = Tail(list)
      /\ card' = card /\ slotPc' = "add"
  BY DEF Acquired
<1>3. Head(list) = IfList(card)[n + 1]
  BY <1>1, HeadIsNext
<1>4. RecordedUpTo(IfList(card), n + 1, interfaces')
  <2>1. interfaces \in Seq(IfItems) /\ RecordedUpTo(IfList(card), n, interfaces)
    BY <1>1 DEF SlotIInv, SlotListsOK, GoneThrough
  <2>2. RecordedUpTo(IfList(card), n + 1, Append(interfaces, Recorded(IfList(card)[n + 1])))
    BY <1>3, <2>1, OneRecorded
  <2> QED
    BY <1>2, <1>3, <2>2
<1>5. GoneThrough(n + 1)'
  BY <1>1, <1>2, <1>4, NextGone
<1> QED
  BY <1>2, <1>5, n + 1 \in Nat, InOrderNext

\* An interface of another type leaves the pins to the one that has them.
LEMMA PinsStay ==
    ASSUME SlotIInv, EnumerationInOrder, slotPc = "add", NEW item \in IfItems,
           item[1] # "gpio", interfaces' = Append(interfaces, item), pins' = pins
    PROVE  GpioHasPins'
<1>1. GpioHasPins
  BY InOrderIs
<1>2. Has("gpio")' => Has("gpio")
  <2>1. interfaces \in Seq(IfItems)
    BY DEF SlotIInv, SlotListsOK
  <2>2. Positions(interfaces', "gpio") = Positions(interfaces, "gpio")
    <3>1. Positions(Append(interfaces, item), "gpio") = Positions(interfaces, "gpio") \cup {}
      BY <2>1, PositionsOfAppend
    <3> QED
      BY <3>1
  <2>3. Has("gpio")' <=> Positions(interfaces', "gpio") # {}
    BY DEF Has, Positions, Type
  <2>4. Has("gpio") <=> Positions(interfaces, "gpio") # {}
    BY DEF Has, Positions, Type
  <2> QED
    BY <2>2, <2>3, <2>4
<1> QED
  BY <1>1, <1>2 DEF GpioHasPins

LEMMA SupportedHead ==
    ASSUME SlotIInv, NEW types, Is(types), types \cap {"reserved", "last"} = {}
    PROVE  /\ slotPc = "add" /\ list # <<>> /\ Supported(Head(list)) /\ Head(list) \in IfItems
           /\ Recorded(Head(list)) \in IfItems
           /\ "usb" \notin types => Recorded(Head(list)) = Head(list)
<1>1. Head(list) \in IfItems /\ Head(list)[1] \in types /\ slotPc = "add" /\ list # <<>>
  BY HeadIs DEF Is, Adding
<1> QED
  BY <1>1 DEF Supported, Recorded, Type, IfItems, IfTypes

LEMMA GpioInOrder == ASSUME SlotIInv, EnumerationInOrder, AddGpio PROVE EnumerationInOrder'
<1>1. /\ slotPc = "add" /\ list # <<>> /\ Supported(Head(list)) /\ Recorded(Head(list)) \in IfItems
      /\ Recorded(Head(list)) = Head(list)
  BY SupportedHead DEF AddGpio
<1>2. PICK refused \in SUBSET SlotPins :
       \/ /\ refused \subseteq {"g0"}
          /\ pins' = pins \cup (SlotPins \ refused)
          /\ Acquired(Head(list))
       \/ Refused
  BY DEF AddGpio
<1>3. CASE Refused
  BY <1>3, InOrderNext DEF Refused
<1>4. CASE /\ refused \subseteq {"g0"}
           /\ pins' = pins \cup (SlotPins \ refused)
           /\ Acquired(Head(list))
  <2>1. GpioHasPins'
    BY <1>4 DEF GpioHasPins, SlotPins
  <2> QED
    BY <1>1, <1>4, <2>1, AcquiredInOrder
<1> QED
  BY <1>2, <1>3, <1>4

LEMMA OtherInOrder ==
    ASSUME SlotIInv, EnumerationInOrder, AddI2c \/ AddSpi \/ AddRequested PROVE EnumerationInOrder'
<1>1. /\ Is({"i2c", "spi", "sdio", "adc", "pcm", "uart"})
      /\ Acquired(Head(list)) \/ Refused
      /\ pins' = pins
  BY DEF AddI2c, AddSpi, AddRequested, Is
<1>2. /\ slotPc = "add" /\ list # <<>> /\ Supported(Head(list)) /\ Recorded(Head(list)) \in IfItems
      /\ Recorded(Head(list)) = Head(list) /\ Head(list)[1] # "gpio"
  BY <1>1, SupportedHead, HeadIs
<1>3. CASE Refused
  BY <1>3, InOrderNext DEF Refused
<1>4. CASE Acquired(Head(list))
  <2>1. interfaces' = Append(interfaces, Head(list))
    BY <1>4 DEF Acquired
  <2>2. GpioHasPins'
    BY <1>1, <1>2, <2>1, PinsStay
  <2> QED
    BY <1>2, <1>4, <2>2, AcquiredInOrder
<1> QED
  BY <1>1, <1>3, <1>4

LEMMA PlainInOrder == ASSUME SlotIInv, EnumerationInOrder, AddPlain PROVE EnumerationInOrder'
<1>1. Is({"usb", "clk", "plat"}) /\ Acquired(Recorded(Head(list))) /\ pins' = pins
  BY DEF AddPlain, Recorded
<1>2. /\ slotPc = "add" /\ list # <<>> /\ Supported(Head(list)) /\ Recorded(Head(list)) \in IfItems
      /\ Recorded(Head(list))[1] # "gpio"
  BY <1>1, SupportedHead DEF Is, Type, Recorded
<1>3. interfaces' = Append(interfaces, Recorded(Head(list)))
  BY <1>1 DEF Acquired
<1>4. GpioHasPins'
  BY <1>1, <1>2, <1>3, PinsStay
<1> QED
  BY <1>1, <1>2, <1>4, AcquiredInOrder

LEMMA SkipInOrder == ASSUME SlotIInv, EnumerationInOrder, SkipItem PROVE EnumerationInOrder'
<1>1. PICK n \in Nat : GoneThrough(n)
  BY InOrderIs DEF SkipItem, Is, Adding
<1>2. /\ list' = Tail(list) /\ list # <<>>
      /\ UNCHANGED <<card, interfaces, pins, slotPc, ret>> /\ slotPc = "add"
      /\ ~ Supported(Head(list))
  BY DEF SkipItem, Is, Adding, Supported
<1>3. Head(list) = IfList(card)[n + 1]
  BY <1>1, <1>2, HeadIsNext
<1>4. RecordedUpTo(IfList(card), n + 1, interfaces')
  BY <1>1, <1>2, <1>3, OneSkipped DEF GoneThrough
<1>5. GoneThrough(n + 1)'
  BY <1>1, <1>2, <1>4, NextGone
<1>6. GpioHasPins'
  BY <1>2, InOrderIs DEF GpioHasPins, Has
<1> QED
  BY <1>2, <1>5, <1>6, n + 1 \in Nat, InOrderNext

LEMMA LoadedInOrder == ASSUME SlotIInv, EepromLoaded PROVE EnumerationInOrder'
<1>1. /\ list' = IfList(card) /\ slotPc' = "add" /\ UNCHANGED <<card, interfaces>>
      /\ interfaces = <<>>
  BY DEF EepromLoaded, SlotIInv, ProbeInOrder
<1>2. Len(IfList(card)) \in Nat
  BY CardIsList DEF SlotIInv
<1>3. RecordedUpTo(IfList(card), 0, interfaces')
  BY <1>1, NoneRecorded
<1>4. \A k \in 1 .. Len(list') : list'[k] = IfList(card)[0 + k]
  BY <1>1, <1>2
<1>5. GoneThrough(0)'
  BY <1>1, <1>2, <1>3, <1>4 DEF GoneThrough
<1>6. GpioHasPins'
  BY <1>1 DEF GpioHasPins, Has
<1> QED
  BY <1>1, <1>5, <1>6, InOrderNext

LEMMA EnumeratedInOrder == ASSUME SlotIInv, EnumerationInOrder, Enumerated PROVE EnumerationInOrder'
<1>1. PICK n \in Nat : GoneThrough(n)
  BY InOrderIs DEF Enumerated
<1>2. /\ UNCHANGED <<card, interfaces, pins, ret, list>> /\ slotPc' = "unload" /\ slotPc = "add"
      /\ list = <<>>
  BY DEF Enumerated
<1>3. Len(IfList(card)) \in Nat
  BY CardIsList DEF SlotIInv
<1>4. n = Len(IfList(card))
  BY <1>1, <1>2, <1>3 DEF GoneThrough
<1>5. RecordedUpTo(IfList(card'), Len(IfList(card')), interfaces')
  BY <1>1, <1>2, <1>4 DEF GoneThrough
<1>6. GpioHasPins'
  BY <1>2, InOrderIs DEF GpioHasPins, Has
<1> QED
  BY <1>2, <1>5, <1>6, InOrderNext

\* Every other step leaves the enumeration, or comes from a failure of it.
LEMMA RestInOrder ==
    ASSUME SlotIInv,
           \/ ChangeCard \/ RequestEssential \/ DetectCard \/ EepromInvalid \/ TooMany
           \/ EnumerationFail \/ UnloadEeprom \/ SlotRemove
    PROVE  EnumerationInOrder'
<1>1. slotPc' \notin {"add", "unload"} \/ (slotPc' = "unload" /\ ret')
  BY DEF ChangeCard, RequestEssential, DetectCard, EepromInvalid, TooMany, EnumerationFail,
         UnloadEeprom, SlotRemove, Return, SlotIInv, ProbeInOrder, SlotListsOK
<1> QED
  BY <1>1, InOrderNext

LEMMA InOrderStep ==
    ASSUME SlotIInv, EnumerationInOrder, [SlotNext]_slotVars PROVE EnumerationInOrder'
<1>1. CASE UNCHANGED slotVars
  <2>1. UNCHANGED <<card, slotPc, pins, list, interfaces, ret>>
    BY <1>1 DEF slotVars
  <2> QED
    BY <2>1 DEF EnumerationInOrder, Has
<1> QED
  BY <1>1, GpioInOrder, OtherInOrder, PlainInOrder, SkipInOrder, LoadedInOrder,
     EnumeratedInOrder, RestInOrder DEF SlotNext

\* What is recorded of a card and what is left of its list make up the card.
THEOREM EnumerationStaysInOrder == SlotSpec => []EnumerationInOrder
<1>1. SlotInit => EnumerationInOrder
  BY DEF SlotInit, EnumerationInOrder
<1>2. SlotIInv /\ EnumerationInOrder /\ [SlotNext]_slotVars => EnumerationInOrder'
  BY InOrderStep
<1> QED
  BY <1>1, <1>2, SlotInvariant, PTL DEF SlotSpec

\* A probe that succeeds on a card whose EEPROM was read has recorded every supported
\* interface of it, in the card's order, and holds the pins of a GPIO interface; one that
\* fails has recorded none (iot_slot_enumerate, iot_slot_probe): for every set of cards,
\* whatever requests fail.
THEOREM EnumerationIsAllOrNothing == SlotSpec => AllOrNothing
<1>1. SlotIInv /\ EnumerationInOrder /\ [SlotNext]_slotVars =>
        [slotPc = "unload" /\ slotPc' = "idle" =>
            \/ ~ bound' /\ interfaces' = <<>>
            \/ /\ bound'
               /\ RecordedUpTo(card, Len(card), interfaces')
               /\ Has("gpio") => {"g1", "g2", "g3"} \subseteq pins']_slotVars
  <2> SUFFICES ASSUME SlotIInv, EnumerationInOrder, SlotNext, slotPc = "unload", slotPc' = "idle"
               PROVE  \/ ~ bound' /\ interfaces' = <<>>
                      \/ /\ bound'
                         /\ RecordedUpTo(card, Len(card), interfaces')
                         /\ Has("gpio") => {"g1", "g2", "g3"} \subseteq pins'
    OBVIOUS
  <2>1. UnloadEeprom
    BY DEF SlotNext, ChangeCard, RequestEssential, DetectCard, EepromLoaded, EepromInvalid,
           AddGpio, AddI2c, AddSpi, AddRequested, AddPlain, SkipItem, TooMany, EnumerationFail,
           Enumerated, SlotRemove, Is, Adding
  <2>2. /\ bound' = ~ ret
        /\ pins' = (IF ret THEN {} ELSE pins)
        /\ interfaces' = (IF ret THEN <<>> ELSE interfaces)
    BY <2>1 DEF UnloadEeprom, Return
  <2>3. CASE ret
    BY <2>2, <2>3
  <2>4. CASE ~ ret
    <3>1. RecordedUpTo(IfList(card), Len(IfList(card)), interfaces) /\ GpioHasPins
      BY <2>4, InOrderIs
    <3>2. card \in Seq(IfItems)
      BY CardIsList DEF SlotIInv
    <3>3. RecordedUpTo(card, Len(card), interfaces)
      BY <3>1, <3>2, RecordedOfCard
    <3> QED
      BY <2>2, <2>4, <3>1, <3>3 DEF GpioHasPins
  <2> QED
    BY <2>3, <2>4
<1> QED
  BY <1>1, SlotInvariant, EnumerationStaysInOrder, PTL DEF SlotSpec, AllOrNothing

-----------------------------------------------------------------------------
(* BoardProbe: the three tables                                              *)

Row(s, kind, what, on, end) == s.kind = kind /\ s.what = what /\ s.on = on /\ s.exit = end

\* What the proofs need of a board's tables: devices are registered once each and removed
\* once each, and behind the switch, in front of which it stands, nothing is removed later.
TableOK(steps, order) ==
    /\ Len(steps) \in Nat /\ DOMAIN steps = 1 .. Len(steps)
    /\ Len(order) \in Nat /\ DOMAIN order = 1 .. Len(order) /\ Len(order) <= Len(steps)
    /\ \A i \in DOMAIN steps :
        IsDevice(steps[i]) => \E k \in DOMAIN order : order[k] = steps[i].what
    /\ \A i, j \in DOMAIN steps :
        IsDevice(steps[i]) /\ IsDevice(steps[j]) /\ steps[i].what = steps[j].what => i = j
    /\ \A i, j \in DOMAIN order : order[i] = order[j] => i = j
    /\ \A i, j \in DOMAIN order : i < j /\ order[i] = "i2c_switch" => order[j] = "eeprom"
    /\ \A i \in DOMAIN steps : steps[i].what = "eeprom" => steps[i].on = "primary"
    /\ \A i \in DOMAIN steps : steps[i].what = "mux" => ~ IsDevice(steps[i])
    /\ \A i \in DOMAIN steps : steps[i].exit \in {"cleanup", "leave"}

HasRevision(steps) == \E i \in DOMAIN steps : steps[i].kind = "rev"

LEMMA GreenRows ==
    /\ Row(GreenSteps[1], "adapters", "none", "primary", "leave")
    /\ Row(GreenSteps[2], "i2c", "i2c_switch", "primary", "cleanup")
    /\ Row(GreenSteps[3], "i2c", "accelerometer", "primary", "cleanup")
  BY DEF GreenSteps, Row, I2c, Plat, Get, Other, Downstream

LEMMA GreenTable == TableOK(GreenSteps, GreenRemove)
<1>1. Len(GreenSteps) = 3 /\ DOMAIN GreenSteps = 1 .. 3
  BY DEF GreenSteps
<1>2. Len(GreenRemove) = 2 /\ DOMAIN GreenRemove = 1 .. 2
  BY DEF GreenRemove
<1>3. \A i \in 1 .. 3 :
          i = 1 \/ i = 2 \/ i = 3
  OBVIOUS
<1>4. \A i \in 1 .. 3 :
        IsDevice(GreenSteps[i]) => \E k \in 1 .. 2 : GreenRemove[k] = GreenSteps[i].what
  BY <1>3, GreenRows DEF Row, IsDevice, GreenRemove
<1>5. \A i, j \in 1 .. 3 :
        IsDevice(GreenSteps[i]) /\ IsDevice(GreenSteps[j]) /\ GreenSteps[i].what = GreenSteps[j].what
            => i = j
  BY <1>3, GreenRows DEF Row, IsDevice
<1>6. \A i, j \in 1 .. 2 : GreenRemove[i] = GreenRemove[j] => i = j
  BY DEF GreenRemove
<1>7. \A i, j \in 1 .. 2 : i < j /\ GreenRemove[i] = "i2c_switch" => GreenRemove[j] = "eeprom"
  BY DEF GreenRemove
<1>8. \A i \in 1 .. 3 :
        /\ GreenSteps[i].what = "eeprom" => GreenSteps[i].on = "primary"
        /\ GreenSteps[i].what = "mux" => ~ IsDevice(GreenSteps[i])
        /\ GreenSteps[i].exit \in {"cleanup", "leave"}
  BY <1>3, GreenRows DEF Row, IsDevice
<1> QED
  BY <1>1, <1>2, <1>4, <1>5, <1>6, <1>7, <1>8 DEF TableOK

LEMMA RedRows ==
    /\ Row(RedSteps[1], "adapters", "none", "primary", "leave")
    /\ Row(RedSteps[2], "i2c", "eeprom", "primary", "cleanup")
    /\ Row(RedSteps[3], "rev", "rev", "none", "leave")
    /\ Row(RedSteps[4], "i2c", "i2c_switch", "primary", "cleanup")
    /\ Row(RedSteps[5], "adapters", "none", "switch", "cleanup")
    /\ Row(RedSteps[6], "i2c", "gpio_expander", "gpio_exp", "cleanup")
    /\ Row(RedSteps[7], "mux", "mux", "none", "cleanup")
    /\ Row(RedSteps[8], "plat", "iot_slot", "none", "cleanup")
    /\ Row(RedSteps[9], "plat", "led", "none", "cleanup")
    /\ Row(RedSteps[10], "i2c", "accelerometer", "primary", "leave")
    /\ Row(RedSteps[11], "i2c", "pressure", "primary", "leave")
    /\ Row(RedSteps[12], "i2c", "battery_charger", "batt_charger", "cleanup")
    /\ Row(RedSteps[13], "i2c", "battery_gauge", "batt_charger", "cleanup")
  BY DEF RedSteps, Row, I2c, Plat, Get, Other, Downstream

LEMMA RedTable == TableOK(RedSteps, RedRemove) /\ HasRevision(RedSteps)
<1>1. Len(RedSteps) = 13 /\ DOMAIN RedSteps = 1 .. 13
  BY DEF RedSteps
<1>2. Len(RedRemove) = 10 /\ DOMAIN RedRemove = 1 .. 10
  BY DEF RedRemove
<1>3. \A i \in 1 .. 13 :
          i = 1 \/ i = 2 \/ i = 3 \/ i = 4 \/ i = 5 \/ i = 6 \/ i = 7 \/ i = 8
          \/ i = 9 \/ i = 10 \/ i = 11 \/ i = 12 \/ i = 13
  OBVIOUS
<1>4. \A i \in 1 .. 13 :
        IsDevice(RedSteps[i]) => \E k \in 1 .. 10 : RedRemove[k] = RedSteps[i].what
  BY <1>3, RedRows DEF Row, IsDevice, RedRemove
<1>5. \A i, j \in 1 .. 13 :
        IsDevice(RedSteps[i]) /\ IsDevice(RedSteps[j]) /\ RedSteps[i].what = RedSteps[j].what
            => i = j
  BY <1>3, RedRows DEF Row, IsDevice
<1>6. \A i, j \in 1 .. 10 : RedRemove[i] = RedRemove[j] => i = j
  BY DEF RedRemove
<1>7. \A i, j \in 1 .. 10 : i < j /\ RedRemove[i] = "i2c_switch" => RedRemove[j] = "eeprom"
  BY DEF RedRemove
<1>8. \A i \in 1 .. 13 :
        /\ RedSteps[i].what = "eeprom" => RedSteps[i].on = "primary"
        /\ RedSteps[i].what = "mux" => ~ IsDevice(RedSteps[i])
        /\ RedSteps[i].exit \in {"cleanup", "leave"}
  BY <1>3, RedRows DEF Row, IsDevice
<1>9. HasRevision(RedSteps)
  BY <1>1, RedRows DEF Row, HasRevision
<1> QED
  BY <1>1, <1>2, <1>4, <1>5, <1>6, <1>7, <1>8, <1>9 DEF TableOK

LEMMA YellowRows ==
    /\ Row(YellowSteps[1], "adapters", "none", "primary", "leave")
    /\ Row(YellowSteps[2], "i2c", "eeprom", "primary", "leave")
    /\ Row(YellowSteps[3], "rev", "rev", "none", "leave")
    /\ Row(YellowSteps[4], "i2c", "i2c_switch", "primary", "leave")
    /\ Row(YellowSteps[5], "adapters", "none", "switch", "cleanup")
    /\ Row(YellowSteps[6], "i2c", "gpio_expander", "port3", "cleanup")
    /\ Row(YellowSteps[7], "clientdata", "clientdata", "none", "cleanup")
    /\ Row(YellowSteps[8], "plat", "expander", "none", "cleanup")
    /\ Row(YellowSteps[9], "i2c", "imu", "port1", "cleanup")
    /\ Row(YellowSteps[10], "i2c", "rtc", "port3", "cleanup")
    /\ Row(YellowSteps[11], "i2c", "battery_charger", "port2", "cleanup")
    /\ Row(YellowSteps[12], "i2c", "battery_gauge", "port2", "cleanup")
    /\ Row(YellowSteps[13], "light_gpio", "light_gpio", "none", "cleanup")
    /\ Row(YellowSteps[14], "i2c", "light", "port2", "cleanup")
  BY DEF YellowSteps, Row, I2c, Plat, Get, Other, Downstream

LEMMA YellowTable == TableOK(YellowSteps, YellowRemove) /\ HasRevision(YellowSteps)
<1>1. Len(YellowSteps) = 14 /\ DOMAIN YellowSteps = 1 .. 14
  BY DEF YellowSteps
<1>2. Len(YellowRemove) = 9 /\ DOMAIN YellowRemove = 1 .. 9
  BY DEF YellowRemove
<1>3. \A i \in 1 .. 14 :
          i = 1 \/ i = 2 \/ i = 3 \/ i = 4 \/ i = 5 \/ i = 6 \/ i = 7 \/ i = 8
          \/ i = 9 \/ i = 10 \/ i = 11 \/ i = 12 \/ i = 13 \/ i = 14
  OBVIOUS
<1>4. \A i \in 1 .. 14 :
        IsDevice(YellowSteps[i]) => \E k \in 1 .. 9 : YellowRemove[k] = YellowSteps[i].what
  BY <1>3, YellowRows DEF Row, IsDevice, YellowRemove
<1>5. \A i, j \in 1 .. 14 :
        IsDevice(YellowSteps[i]) /\ IsDevice(YellowSteps[j]) /\ YellowSteps[i].what = YellowSteps[j].what
            => i = j
  BY <1>3, YellowRows DEF Row, IsDevice
<1>6. \A i, j \in 1 .. 9 : YellowRemove[i] = YellowRemove[j] => i = j
  BY DEF YellowRemove
<1>7. \A i, j \in 1 .. 9 : i < j /\ YellowRemove[i] = "i2c_switch" => YellowRemove[j] = "eeprom"
  BY DEF YellowRemove
<1>8. \A i \in 1 .. 14 :
        /\ YellowSteps[i].what = "eeprom" => YellowSteps[i].on = "primary"
        /\ YellowSteps[i].what = "mux" => ~ IsDevice(YellowSteps[i])
        /\ YellowSteps[i].exit \in {"cleanup", "leave"}
  BY <1>3, YellowRows DEF Row, IsDevice
<1>9. HasRevision(YellowSteps)
  BY <1>1, YellowRows DEF Row, HasRevision
<1> QED
  BY <1>1, <1>2, <1>4, <1>5, <1>6, <1>7, <1>8, <1>9 DEF TableOK

LEMMA BoardTable ==
    ASSUME board \in Boards
    PROVE  TableOK(ProbeSteps, RemoveOrder) /\ (board # "green" => HasRevision(ProbeSteps))
<1>1. board \in {"green", "red", "yellow"}
  BY BoardAssumption
<1> QED
  BY <1>1, GreenTable, RedTable, YellowTable DEF ProbeSteps, RemoveOrder

LEMMA DevicesAre == Devices = {ProbeSteps[i].what : i \in {j \in DOMAIN ProbeSteps : IsDevice(ProbeSteps[j])}}
  BY DEF Devices, Steps, IsDevice

\* The EEPROM is not behind the switch.
LEMMA NotBehind == ASSUME TableOK(ProbeSteps, RemoveOrder) PROVE "eeprom" \notin BehindSwitch
  BY DEF TableOK, BehindSwitch, DownstreamAdapters, Steps

\* The tables are those of the board, which stays what it is.
LEMMA TablesKept ==
    ASSUME board' = board
    PROVE  /\ ProbeSteps' = ProbeSteps /\ RemoveOrder' = RemoveOrder /\ Devices' = Devices
           /\ BehindSwitch' = BehindSwitch /\ DownstreamAdapters' = DownstreamAdapters
  BY DEF ProbeSteps, RemoveOrder, Devices, BehindSwitch, DownstreamAdapters, Steps

-----------------------------------------------------------------------------
(* BoardProbe: the steps                                                     *)

\* The devices that the current step registers.
Added == IF IsDevice(ProbeSteps[pc]) THEN {ProbeSteps[pc].what} ELSE {}

LEMMA DoneNext ==
    ASSUME pc \in Nat, pc \in DOMAIN ProbeSteps, pc' = pc + 1, board' = board,
           TableOK(ProbeSteps, RemoveOrder)
    PROVE  Done' = Done \cup Added
<1>1. Done' = {ProbeSteps[i].what : i \in {j \in DOMAIN ProbeSteps : j < pc + 1 /\ IsDevice(ProbeSteps[j])}}
  BY TablesKept DEF Done
<1> DEFINE old == {j \in DOMAIN ProbeSteps : j < pc /\ IsDevice(ProbeSteps[j])}
           new == {j \in DOMAIN ProbeSteps : j < pc + 1 /\ IsDevice(ProbeSteps[j])}
<1>2. new = old \cup (IF IsDevice(ProbeSteps[pc]) THEN {pc} ELSE {})
  BY DEF TableOK
<1>3. {ProbeSteps[i].what : i \in new} = {ProbeSteps[i].what : i \in old} \cup Added
  <2> HIDE DEF old, new
  <2> QED
    BY <1>2 DEF Added
<1> QED
  BY <1>1, <1>3 DEF Done

LEMMA TakenNext ==
    ASSUME pc \in Nat, pc \in DOMAIN RemoveOrder, pc' = pc + 1, board' = board,
           TableOK(ProbeSteps, RemoveOrder)
    PROVE  Taken' = Taken \cup {RemoveOrder[pc]}
<1>1. Taken' = {RemoveOrder[i] : i \in {j \in DOMAIN RemoveOrder : j < pc + 1}}
  BY TablesKept DEF Taken
<1>2. {j \in DOMAIN RemoveOrder : j < pc + 1} = {j \in DOMAIN RemoveOrder : j < pc} \cup {pc}
  BY DEF TableOK
<1> QED
  BY <1>1, <1>2 DEF Taken

\* At the first step nothing is done.
LEMMA NothingDone ==
    ASSUME pc' = 1, board' = board, TableOK(ProbeSteps, RemoveOrder)
    PROVE  /\ Done' = {} /\ Taken' = {} /\ Gone' = {}
           /\ ~ \E i \in DOMAIN ProbeSteps : i < pc' /\ ProbeSteps[i].kind = "rev"
<1>1. \A i \in DOMAIN ProbeSteps : ~ (i < 1)
  BY DEF TableOK
<1>2. \A i \in DOMAIN RemoveOrder : ~ (i < 1)
  BY DEF TableOK
<1>3. Done' = {}
  BY <1>1, TablesKept DEF Done
<1>4. Taken' = {}
  BY <1>2, TablesKept DEF Taken
<1> QED
  BY <1>1, <1>3, <1>4 DEF Gone

LEMMA BoardFacts ==
    ASSUME BoardIInv
    PROVE  /\ TableOK(ProbeSteps, RemoveOrder) /\ (board # "green" => HasRevision(ProbeSteps))
           /\ pc \in Nat /\ binds \in Nat
  BY BoardTable DEF BoardIInv, BoardTypeOK, TableOK

\* A step of probe that succeeds.
LEMMA ProbeAdvances ==
    ASSUME BoardIInv, mode = "probe", pc \in DOMAIN ProbeSteps, Advance,
           reg' = reg \cup Added, ptr' = ptr \cup Added \/ (Added = {} /\ ptr' = ptr \cup {"mux"}),
           rev' \in {"unknown", "supported", "dv2"},
           rev = "supported" => rev' = "supported",
           ProbeSteps[pc].kind = "rev" => rev' = "supported",
           adapters' \subseteq DownstreamAdapters \cup {"primary"}
    PROVE  BoardIInv'
<1>1. /\ TableOK(ProbeSteps, RemoveOrder) /\ pc \in Nat /\ pc' = pc + 1
      /\ UNCHANGED <<board, loads, binds, mode, unloading, forced, left, exit, twice>>
  BY BoardFacts DEF Advance
<1>2. /\ ProbeSteps' = ProbeSteps /\ RemoveOrder' = RemoveOrder /\ Devices' = Devices
      /\ BehindSwitch' = BehindSwitch /\ DownstreamAdapters' = DownstreamAdapters
  BY <1>1, TablesKept
<1>3. Done' = Done \cup Added
  BY <1>1, DoneNext
<1>4. Added \subseteq Devices /\ "mux" \notin Devices
  BY <1>1, DevicesAre DEF Added, TableOK
<1>5. BoardTypeOK'
  <2>1. pc' \in 0 .. 1 + Len(ProbeSteps)
    BY <1>1 DEF TableOK
  <2>2. ptr' \subseteq Devices \cup {"mux"} /\ reg' \subseteq Devices
    BY <1>4 DEF BoardIInv, BoardTypeOK
  <2> QED
    BY <1>1, <1>2, <2>1, <2>2 DEF BoardIInv, BoardTypeOK
<1>6. ProbeAdds'
  <2>1. Done' \subseteq reg' \cap ptr' /\ reg' \subseteq left' \cup Done'
    BY <1>1, <1>3 DEF BoardIInv, ProbeAdds
  <2>2. ASSUME NEW i \in DOMAIN ProbeSteps, i < pc', ProbeSteps[i].kind = "rev"
        PROVE  rev' = "supported"
    <3>1. i < pc \/ i = pc
      BY <1>1, <2>2 DEF TableOK
    <3> QED
      BY <2>2, <3>1 DEF BoardIInv, ProbeAdds
  <2> QED
    BY <1>1, <1>2, <2>1, <2>2 DEF ProbeAdds
<1>7. FirstIsFresh'
  <2>1. binds = 1 => ptr' \cap Devices \subseteq reg'
    BY <1>1, <1>4 DEF BoardIInv, FirstIsFresh
  <2> QED
    BY <1>1, <1>2, <2>1 DEF BoardIInv, FirstIsFresh
<1>8. BoundIsComplete' /\ RemoveTakes' /\ AtRest'
  BY <1>1 DEF BoundIsComplete, RemoveTakes, AtRest
<1> QED
  BY <1>1, <1>5, <1>6, <1>7, <1>8 DEF BoardIInv

\* A step of probe that fails.
LEMMA ProbeFails ==
    ASSUME BoardIInv, mode = "probe", pc \in DOMAIN ProbeSteps, Fail,
           UNCHANGED <<reg, rev, twice>>, ptr' = ptr \/ ptr' = ptr \ Added
    PROVE  BoardIInv'
<1>1. /\ TableOK(ProbeSteps, RemoveOrder) /\ pc \in Nat
      /\ UNCHANGED <<board, loads, binds, unloading, forced>>
      /\ adapters' = {} /\ exit' = ProbeSteps[pc].exit
      /\ \/ mode' = "remove" /\ pc' = 1 /\ UNCHANGED <<gpios, left>>
         \/ mode' = "idle" /\ pc' = 0 /\ gpios' = {} /\ left' = left \cup reg
  BY BoardFacts DEF Fail, Step
<1>2. /\ ProbeSteps' = ProbeSteps /\ RemoveOrder' = RemoveOrder /\ Devices' = Devices
      /\ BehindSwitch' = BehindSwitch /\ DownstreamAdapters' = DownstreamAdapters
  BY <1>1, TablesKept
<1>3. Done \subseteq reg \cap ptr /\ reg \subseteq left \cup Done
  BY DEF BoardIInv, ProbeAdds
<1>4. Done \cap Added = {}
  BY <1>1 DEF Done, Added, TableOK
<1>5. Done \subseteq ptr'
  BY <1>3, <1>4
<1>6. BoardTypeOK'
  <2>1. exit' \in {"cleanup", "leave"} /\ pc' \in 0 .. 1 + Len(ProbeSteps)
    BY <1>1 DEF TableOK
  <2> QED
    BY <1>1, <1>2, <2>1 DEF BoardIInv, BoardTypeOK
<1>7. RemoveTakes'
  <2>1. pc' = 1 => Taken' = {}
    BY <1>1, NothingDone
  <2> QED
    BY <1>1, <1>3, <1>5, <2>1 DEF RemoveTakes
<1>8. AtRest'
  BY <1>1 DEF AtRest
<1>9. FirstIsFresh'
  <2>1. binds = 1 => ptr' \cap Devices \subseteq reg
    BY DEF BoardIInv, FirstIsFresh
  <2> QED
    BY <1>1, <1>2, <2>1 DEF BoardIInv, FirstIsFresh
<1>10. BoundIsComplete' /\ ProbeAdds'
  BY <1>1 DEF BoundIsComplete, ProbeAdds
<1> QED
  BY <1>1, <1>6, <1>7, <1>8, <1>9, <1>10 DEF BoardIInv

LEMMA ProbingIs ==
    ASSUME BoardIInv, NEW kind, Probing(kind)
    PROVE  /\ mode = "probe" /\ pc \in DOMAIN ProbeSteps /\ ProbeSteps[pc].kind = kind
           /\ Step = ProbeSteps[pc]
           /\ kind \notin {"i2c", "plat"} => Added = {}
           /\ kind \in {"i2c", "plat"} => Added = {Step.what}
           /\ ptr \subseteq Devices \cup {"mux"} /\ reg \subseteq Devices
           /\ rev \in {"unknown", "supported", "dv2"}
           /\ adapters \subseteq DownstreamAdapters \cup {"primary"}
<1>1. mode = "probe" /\ pc <= Len(ProbeSteps) /\ Step.kind = kind
  BY DEF Probing
<1>2. pc \in DOMAIN ProbeSteps
  BY <1>1, BoardFacts DEF BoardIInv, ProbeAdds, TableOK
<1> QED
  BY <1>1, <1>2 DEF Step, Added, IsDevice, BoardIInv, BoardTypeOK

LEMMA AdaptersKeep == ASSUME BoardIInv, GetAdapters PROVE BoardIInv'
<1>1. /\ Probing("adapters") /\ UNCHANGED <<rev, ptr, reg>>
      /\ \/ adapters' \subseteq adapters \cup {"primary"} \cup DownstreamAdapters /\ Advance
         \/ Fail /\ UNCHANGED twice
  BY DEF GetAdapters
<1>2. /\ mode = "probe" /\ pc \in DOMAIN ProbeSteps /\ ProbeSteps[pc].kind = "adapters"
      /\ Added = {} /\ rev \in {"unknown", "supported", "dv2"}
      /\ adapters \subseteq DownstreamAdapters \cup {"primary"}
  BY <1>1, ProbingIs
<1>3. CASE adapters' \subseteq adapters \cup {"primary"} \cup DownstreamAdapters /\ Advance
  BY <1>1, <1>2, <1>3, ProbeAdvances
<1>4. CASE Fail /\ UNCHANGED twice
  BY <1>1, <1>2, <1>4, ProbeFails
<1> QED
  BY <1>1, <1>3, <1>4

LEMMA I2cDeviceKeeps == ASSUME BoardIInv, NewI2cDevice PROVE BoardIInv'
<1>1. /\ Probing("i2c")
      /\ \/ /\ reg' = reg \cup {Step.what} /\ ptr' = ptr \cup {Step.what}
            /\ EepromSetup \/ UNCHANGED <<rev, signature>>
            /\ Advance /\ UNCHANGED adapters
         \/ ptr' = ptr \ {Step.what} /\ Fail /\ UNCHANGED <<rev, reg, twice>>
  BY DEF NewI2cDevice
<1>2. /\ mode = "probe" /\ pc \in DOMAIN ProbeSteps /\ ProbeSteps[pc].kind = "i2c"
      /\ Added = {Step.what} /\ rev \in {"unknown", "supported", "dv2"}
      /\ adapters \subseteq DownstreamAdapters \cup {"primary"}
  BY <1>1, ProbingIs
<1>3. CASE /\ reg' = reg \cup {Step.what} /\ ptr' = ptr \cup {Step.what}
           /\ EepromSetup \/ UNCHANGED <<rev, signature>>
           /\ Advance /\ UNCHANGED adapters
  <2>1. rev' \in {"unknown", "supported", "dv2"} /\ (rev = "supported" => rev' = "supported")
    BY <1>2, <1>3 DEF EepromSetup
  <2> QED
    BY <1>2, <1>3, <2>1, ProbeAdvances
<1>4. CASE ptr' = ptr \ {Step.what} /\ Fail /\ UNCHANGED <<rev, reg, twice>>
  BY <1>2, <1>4, ProbeFails
<1> QED
  BY <1>1, <1>3, <1>4

LEMMA RevisionKeeps == ASSUME BoardIInv, CheckRevision PROVE BoardIInv'
<1>1. /\ Probing("rev") /\ UNCHANGED <<rev, ptr, reg>>
      /\ \/ rev = "supported" /\ Advance /\ UNCHANGED adapters
         \/ Fail /\ UNCHANGED twice
  BY DEF CheckRevision
<1>2. /\ mode = "probe" /\ pc \in DOMAIN ProbeSteps /\ ProbeSteps[pc].kind = "rev"
      /\ Added = {} /\ rev \in {"unknown", "supported", "dv2"}
      /\ adapters \subseteq DownstreamAdapters \cup {"primary"}
  BY <1>1, ProbingIs
<1>3. CASE rev = "supported" /\ Advance /\ UNCHANGED adapters
  BY <1>1, <1>2, <1>3, ProbeAdvances
<1>4. CASE Fail /\ UNCHANGED twice
  BY <1>1, <1>2, <1>4, ProbeFails
<1> QED
  BY <1>1, <1>3, <1>4

LEMMA AcquireKeeps == ASSUME BoardIInv, Acquire PROVE BoardIInv'
<1>1. PICK kind \in {"mux", "light_gpio", "clientdata"} : Probing(kind)
  BY DEF Acquire
<1>2. /\ UNCHANGED <<rev, reg>>
      /\ \/ ptr' \in {ptr, ptr \cup {"mux"}} /\ Advance /\ UNCHANGED adapters
         \/ Fail /\ UNCHANGED <<ptr, twice>>
  BY DEF Acquire
<1>3. /\ mode = "probe" /\ pc \in DOMAIN ProbeSteps /\ ProbeSteps[pc].kind = kind
      /\ Added = {} /\ rev \in {"unknown", "supported", "dv2"} /\ kind # "rev"
      /\ adapters \subseteq DownstreamAdapters \cup {"primary"}
  BY <1>1, ProbingIs
<1>4. CASE ptr' \in {ptr, ptr \cup {"mux"}} /\ Advance /\ UNCHANGED adapters
  BY <1>2, <1>3, <1>4, ProbeAdvances
<1>5. CASE Fail /\ UNCHANGED <<ptr, twice>>
  BY <1>2, <1>3, <1>5, ProbeFails
<1> QED
  BY <1>2, <1>4, <1>5

LEMMA PlatformKeeps == ASSUME BoardIInv, RegisterPlatformDevice PROVE BoardIInv'
<1>1. /\ Probing("plat") /\ UNCHANGED rev
      /\ \/ /\ reg' = reg \cup {Step.what} /\ ptr' = ptr \cup {Step.what}
            /\ Advance /\ UNCHANGED adapters
         \/ Fail /\ UNCHANGED <<reg, ptr, twice>>
  BY DEF RegisterPlatformDevice
<1>2. /\ mode = "probe" /\ pc \in DOMAIN ProbeSteps /\ ProbeSteps[pc].kind = "plat"
      /\ Added = {Step.what} /\ rev \in {"unknown", "supported", "dv2"}
      /\ adapters \subseteq DownstreamAdapters \cup {"primary"}
  BY <1>1, ProbingIs
<1>3. CASE /\ reg' = reg \cup {Step.what} /\ ptr' = ptr \cup {Step.what}
           /\ Advance /\ UNCHANGED adapters
  BY <1>1, <1>2, <1>3, ProbeAdvances
<1>4. CASE Fail /\ UNCHANGED <<reg, ptr, twice>>
  BY <1>1, <1>2, <1>4, ProbeFails
<1> QED
  BY <1>1, <1>3, <1>4

LEMMA ProbeDoneKeeps == ASSUME BoardIInv, ProbeDone PROVE BoardIInv'
<1>1. /\ TableOK(ProbeSteps, RemoveOrder) /\ (board # "green" => HasRevision(ProbeSteps))
      /\ pc \in Nat /\ mode = "probe" /\ pc > Len(ProbeSteps)
      /\ adapters' = {} /\ mode' = "bound" /\ pc' = 0 /\ exit' = "bound"
      /\ UNCHANGED <<board, loads, binds, unloading, forced, rev, ptr, reg, gpios, left, twice>>
  BY BoardFacts DEF ProbeDone
<1>2. /\ ProbeSteps' = ProbeSteps /\ RemoveOrder' = RemoveOrder /\ Devices' = Devices
      /\ BehindSwitch' = BehindSwitch /\ DownstreamAdapters' = DownstreamAdapters
  BY <1>1, TablesKept
<1>3. \A i \in DOMAIN ProbeSteps : i < pc
  BY <1>1 DEF TableOK
<1>4. Done = Devices
  BY <1>3, DevicesAre DEF Done
<1>5. BoundIsComplete'
  <2>1. reg = Devices /\ Devices \subseteq ptr
    BY <1>1, <1>4 DEF BoardIInv, ProbeAdds, BoardTypeOK
  <2>2. rev = "supported" \/ board = "green"
    BY <1>1, <1>3 DEF BoardIInv, ProbeAdds, HasRevision
  <2> QED
    BY <1>1, <1>2, <2>1, <2>2 DEF BoundIsComplete
<1>6. BoardTypeOK'
  <2>1. 0 \in 0 .. 1 + Len(ProbeSteps)
    BY <1>1 DEF TableOK
  <2> QED
    BY <1>1, <1>2, <2>1 DEF BoardIInv, BoardTypeOK
<1>7. FirstIsFresh'
  BY <1>1, <1>2 DEF BoardIInv, FirstIsFresh
<1>8. ProbeAdds' /\ RemoveTakes' /\ AtRest'
  BY <1>1 DEF ProbeAdds, RemoveTakes, AtRest
<1> QED
  BY <1>1, <1>5, <1>6, <1>7, <1>8 DEF BoardIInv

\* A field of driver data is taken down.
LEMMA RemoveStepKeeps == ASSUME BoardIInv, RemoveStep PROVE BoardIInv'
<1> DEFINE d == RemoveOrder[pc]
           behind == IF d = "i2c_switch" THEN BehindSwitch ELSE {}
<1>1. /\ TableOK(ProbeSteps, RemoveOrder) /\ pc \in Nat /\ pc' = pc + 1
      /\ mode = "remove" /\ pc <= Len(RemoveOrder)
      /\ UNCHANGED <<board, loads, binds, mode, unloading, forced, rev, ptr, adapters, left, exit>>
      /\ reg' = IF d \notin ptr THEN reg ELSE reg \ ({d} \cup behind)
      /\ twice' = IF d \in ptr /\ d \in Devices \ reg THEN twice \cup {d} ELSE twice
  BY BoardFacts DEF RemoveStep
<1>2. /\ ProbeSteps' = ProbeSteps /\ RemoveOrder' = RemoveOrder /\ Devices' = Devices
      /\ BehindSwitch' = BehindSwitch /\ DownstreamAdapters' = DownstreamAdapters
  BY <1>1, TablesKept
<1>3. pc \in DOMAIN RemoveOrder
  BY <1>1 DEF BoardIInv, RemoveTakes, TableOK
<1>4. Taken' = Taken \cup {d}
  BY <1>1, <1>3, TakenNext
<1>5. d \notin Taken
  BY <1>1, <1>3 DEF Taken, TableOK
<1>6. d \notin Gone
  <2>1. "i2c_switch" \in Taken => d = "eeprom"
    BY <1>1, <1>3 DEF Taken, TableOK
  <2>2. "eeprom" \notin BehindSwitch
    BY <1>1, NotBehind
  <2> QED
    BY <1>5, <2>1, <2>2 DEF Gone
<1>7. Gone' = Gone \cup {d} \cup behind
  <2>1. Gone' = Taken' \cup (IF "i2c_switch" \in Taken' THEN BehindSwitch ELSE {})
    BY <1>2 DEF Gone
  <2> QED
    BY <1>4, <2>1 DEF Gone
<1> HIDE DEF d, behind
<1>8. BoardTypeOK'
  <2>1. pc' \in 0 .. 1 + Len(ProbeSteps)
    BY <1>1 DEF TableOK
  <2>2. reg' \subseteq Devices
    BY <1>1 DEF BoardIInv, BoardTypeOK
  <2> QED
    BY <1>1, <1>2, <2>1, <2>2 DEF BoardIInv, BoardTypeOK
<1>9. RemoveTakes'
  <2>1. reg' \subseteq left \cup (ptr \ Taken')
    BY <1>1, <1>4 DEF BoardIInv, RemoveTakes
  <2> QED
    BY <1>1, <2>1 DEF RemoveTakes
<1>10. FirstIsFresh'
  <2>1. ASSUME binds = 1
        PROVE  twice' = {} /\ (ptr \cap Devices) \ Gone' \subseteq reg'
    <3>1. twice = {} /\ (ptr \cap Devices) \ Gone \subseteq reg
      BY <1>1, <2>1 DEF BoardIInv, FirstIsFresh
    <3>2. twice' = {}
      BY <1>1, <1>6, <3>1
    <3>3. (ptr \cap Devices) \ Gone' \subseteq reg'
      BY <1>1, <1>7, <3>1
    <3> QED
      BY <3>2, <3>3
  <2> QED
    BY <1>1, <1>2, <2>1 DEF BoardIInv, FirstIsFresh
<1>11. BoundIsComplete' /\ ProbeAdds' /\ AtRest'
  BY <1>1 DEF BoardIInv, BoundIsComplete, ProbeAdds, AtRest
<1> QED
  BY <1>1, <1>8, <1>9, <1>10, <1>11 DEF BoardIInv

LEMMA RemoveDoneKeeps == ASSUME BoardIInv, RemoveDone PROVE BoardIInv'
<1>1. /\ TableOK(ProbeSteps, RemoveOrder) /\ pc \in Nat
      /\ mode = "remove" /\ pc > Len(RemoveOrder) /\ mode' \in {"out", "idle"}
      /\ pc' = 0 /\ gpios' = {}
      /\ UNCHANGED <<board, loads, binds, forced, rev, ptr, reg, adapters, left, exit, twice>>
  BY BoardFacts DEF RemoveDone
<1>2. /\ ProbeSteps' = ProbeSteps /\ RemoveOrder' = RemoveOrder /\ Devices' = Devices
      /\ BehindSwitch' = BehindSwitch /\ DownstreamAdapters' = DownstreamAdapters
  BY <1>1, TablesKept
<1>3. Devices \subseteq Taken
  <2>1. \A k \in DOMAIN RemoveOrder : k < pc
    BY <1>1 DEF TableOK
  <2>2. \A i \in DOMAIN ProbeSteps :
          IsDevice(ProbeSteps[i]) => \E k \in DOMAIN RemoveOrder : RemoveOrder[k] = ProbeSteps[i].what
    BY <1>1 DEF TableOK
  <2> QED
    BY <2>1, <2>2, DevicesAre DEF Taken
<1>4. reg \subseteq left
  BY <1>1, <1>3 DEF BoardIInv, RemoveTakes, BoardTypeOK
<1>5. BoardTypeOK'
  <2>1. 0 \in 0 .. 1 + Len(ProbeSteps)
    BY <1>1 DEF TableOK
  <2> QED
    BY <1>1, <1>2, <2>1 DEF BoardIInv, BoardTypeOK
<1>6. AtRest'
  BY <1>1, <1>4 DEF BoardIInv, AtRest
<1>7. FirstIsFresh'
  BY <1>1 DEF BoardIInv, FirstIsFresh
<1>8. BoundIsComplete' /\ ProbeAdds' /\ RemoveTakes'
  BY <1>1 DEF BoundIsComplete, ProbeAdds, RemoveTakes
<1> QED
  BY <1>1, <1>5, <1>6, <1>7, <1>8 DEF BoardIInv

LEMMA InitModuleKeeps == ASSUME BoardIInv, InitModule PROVE BoardIInv'
<1>1. /\ TableOK(ProbeSteps, RemoveOrder) /\ board \in {"green", "red", "yellow"}
      /\ mode = "out" /\ twice = {} /\ binds' = 1 /\ rev' = RevisionOf(forced')
      /\ ptr' = {} /\ mode' = "probe" /\ pc' = 1 /\ exit' = "none"
      /\ UNCHANGED <<board, reg, adapters, left, twice>>
  BY BoardFacts, BoardAssumption DEF BoardIInv, InitModule, Alive
<1>2. /\ ProbeSteps' = ProbeSteps /\ RemoveOrder' = RemoveOrder /\ Devices' = Devices
      /\ BehindSwitch' = BehindSwitch /\ DownstreamAdapters' = DownstreamAdapters
  BY <1>1, TablesKept
<1>3. Done' = {} /\ ~ \E i \in DOMAIN ProbeSteps : i < pc' /\ ProbeSteps[i].kind = "rev"
  BY <1>1, NothingDone
<1>4. forced' \in {"none", "supported", "dv2"} /\ rev' \in {"unknown", "supported", "dv2"}
  <2>1. forced' \in {"none", "supported", "dv2"}
    BY <1>1 DEF InitModule
  <2> QED
    BY <1>1, <2>1 DEF RevisionOf
<1>5. BoardTypeOK'
  <2>1. 1 \in 0 .. 1 + Len(ProbeSteps)
    BY <1>1 DEF TableOK
  <2> QED
    BY <1>1, <1>2, <1>4, <2>1 DEF BoardIInv, BoardTypeOK
<1>6. ProbeAdds'
  BY <1>1, <1>2, <1>3 DEF BoardIInv, AtRest, ProbeAdds
<1>7. FirstIsFresh' /\ BoundIsComplete' /\ RemoveTakes' /\ AtRest'
  BY <1>1 DEF FirstIsFresh, BoundIsComplete, RemoveTakes, AtRest
<1> QED
  BY <1>1, <1>5, <1>6, <1>7 DEF BoardIInv

LEMMA BindKeeps == ASSUME BoardIInv, Bind PROVE BoardIInv'
<1>1. /\ TableOK(ProbeSteps, RemoveOrder)
      /\ mode = "idle" /\ binds' = binds + 1 /\ binds \in Nat /\ binds >= 1
      /\ mode' = "probe" /\ pc' = 1 /\ exit' = "none"
      /\ UNCHANGED <<board, forced, rev, ptr, reg, adapters, left, twice>>
  BY BoardFacts DEF BoardIInv, Bind, FirstIsFresh
<1>2. /\ ProbeSteps' = ProbeSteps /\ RemoveOrder' = RemoveOrder /\ Devices' = Devices
      /\ BehindSwitch' = BehindSwitch /\ DownstreamAdapters' = DownstreamAdapters
  BY <1>1, TablesKept
<1>3. Done' = {} /\ ~ \E i \in DOMAIN ProbeSteps : i < pc' /\ ProbeSteps[i].kind = "rev"
  BY <1>1, NothingDone
<1>4. BoardTypeOK'
  <2>1. 1 \in 0 .. 1 + Len(ProbeSteps)
    BY <1>1 DEF TableOK
  <2> QED
    BY <1>1, <1>2, <2>1 DEF BoardIInv, BoardTypeOK
<1>5. ProbeAdds'
  BY <1>1, <1>2, <1>3 DEF BoardIInv, AtRest, ProbeAdds
<1>6. FirstIsFresh' /\ BoundIsComplete' /\ RemoveTakes' /\ AtRest'
  BY <1>1 DEF FirstIsFresh, BoundIsComplete, RemoveTakes, AtRest
<1>7. board' \in Boards /\ binds' \in Nat
  BY <1>1 DEF BoardIInv
<1> QED
  BY <1>4, <1>5, <1>6, <1>7 DEF BoardIInv

LEMMA UnbindKeeps == ASSUME BoardIInv, Unbind PROVE BoardIInv'
<1>1. /\ TableOK(ProbeSteps, RemoveOrder)
      /\ mode = "bound" /\ mode' = "remove" /\ pc' = 1 /\ exit' = "removed"
      /\ UNCHANGED <<board, binds, forced, rev, ptr, reg, gpios, adapters, left, twice>>
  BY BoardFacts DEF Unbind
<1>2. /\ ProbeSteps' = ProbeSteps /\ RemoveOrder' = RemoveOrder /\ Devices' = Devices
      /\ BehindSwitch' = BehindSwitch /\ DownstreamAdapters' = DownstreamAdapters
  BY <1>1, TablesKept
<1>3. Taken' = {} /\ Gone' = {}
  BY <1>1, NothingDone
<1>4. BoardTypeOK'
  <2>1. 1 \in 0 .. 1 + Len(ProbeSteps)
    BY <1>1 DEF TableOK
  <2> QED
    BY <1>1, <1>2, <2>1 DEF BoardIInv, BoardTypeOK
<1>5. RemoveTakes'
  BY <1>1, <1>3 DEF BoardIInv, BoundIsComplete, RemoveTakes
<1>6. FirstIsFresh'
  BY <1>1, <1>2, <1>3 DEF BoardIInv, FirstIsFresh
<1>7. BoundIsComplete' /\ ProbeAdds' /\ AtRest'
  BY <1>1 DEF BoardIInv, BoundIsComplete, ProbeAdds, AtRest
<1> QED
  BY <1>1, <1>4, <1>5, <1>6, <1>7 DEF BoardIInv

LEMMA ExitModuleKeeps == ASSUME BoardIInv, ExitModule PROVE BoardIInv'
<1>1. /\ mode = "idle" /\ mode' = "out"
      /\ UNCHANGED <<board, binds, pc, forced, rev, ptr, reg, gpios, adapters, left, exit, twice>>
  BY DEF ExitModule
<1>2. /\ ProbeSteps' = ProbeSteps /\ Devices' = Devices
      /\ DownstreamAdapters' = DownstreamAdapters
  BY <1>1, TablesKept
<1>3. BoardTypeOK'
  BY <1>1, <1>2 DEF BoardIInv, BoardTypeOK
<1>4. FirstIsFresh' /\ BoundIsComplete' /\ ProbeAdds' /\ RemoveTakes' /\ AtRest'
  BY <1>1 DEF BoardIInv, FirstIsFresh, BoundIsComplete, ProbeAdds, RemoveTakes, AtRest
<1> QED
  BY <1>1, <1>3, <1>4 DEF BoardIInv

LEMMA BoardStep == ASSUME BoardIInv, [BoardNext]_boardVars PROVE BoardIInv'
<1>1. CASE UNCHANGED boardVars
  <2>1. UNCHANGED <<board, binds, mode, pc, forced, rev, ptr, reg, gpios, adapters, left, exit, twice>>
    BY <1>1 DEF boardVars
  <2>2. /\ ProbeSteps' = ProbeSteps /\ RemoveOrder' = RemoveOrder /\ Devices' = Devices
        /\ BehindSwitch' = BehindSwitch /\ DownstreamAdapters' = DownstreamAdapters
    BY <2>1, TablesKept
  <2>3. Done' = Done /\ Taken' = Taken /\ Gone' = Gone
    BY <2>1, <2>2 DEF Done, Taken, Gone
  <2> QED
    BY <2>1, <2>2, <2>3 DEF BoardIInv, BoardTypeOK, BoundIsComplete, ProbeAdds, RemoveTakes,
                            AtRest, FirstIsFresh
<1> QED
  BY <1>1, InitModuleKeeps, BindKeeps, AdaptersKeep, I2cDeviceKeeps, RevisionKeeps, AcquireKeeps,
     PlatformKeeps, ProbeDoneKeeps, RemoveStepKeeps, RemoveDoneKeeps, UnbindKeeps, ExitModuleKeeps
     DEF BoardNext

\* What a probe has registered, and what remove has still to take down.
THEOREM BoardInvariant == BoardSpec => []BoardIInv
<1>1. BoardInit => BoardIInv
  <2> SUFFICES ASSUME BoardInit PROVE BoardIInv
    OBVIOUS
  <2>1. board \in Boards /\ TableOK(ProbeSteps, RemoveOrder)
    BY BoardTable DEF BoardInit
  <2>2. 0 \in 0 .. 1 + Len(ProbeSteps)
    BY <2>1 DEF TableOK
  <2>3. BoardTypeOK
    BY <2>2 DEF BoardInit, BoardTypeOK
  <2> QED
    BY <2>1, <2>3 DEF BoardInit, BoardIInv, BoundIsComplete, ProbeAdds, RemoveTakes, AtRest,
                      FirstIsFresh
<1> QED
  BY <1>1, BoardStep, PTL DEF BoardSpec

\* On each of the boards, whatever call to the kernel fails: a board that is bound is
\* complete, after a cleanup or a remove nothing stays but what an earlier probe left by a
\* "return", and the first probe's devices are unregistered once each, none after the switch
\* in front of it (mangoh_*_probe, mangoh_*_remove): for any number of binds and loads.
THEOREM BoardIsSound == BoardSpec => []BoardSound
<1>1. BoardIInv => BoardSound
  BY DEF BoardIInv, AtRest, FirstIsFresh, BoardSound, NothingLeftBehind, UnregisteredOnce
<1> QED
  BY <1>1, BoardInvariant, PTL

-----------------------------------------------------------------------------
(* The CAN controller: the work queue and the flags of the chip *)

Works == {"tx", "restart"}

LEMMA ListsContain ==
    /\ \A x \in Works : ~ Contains(<<>>, x)
    /\ \A x, y \in Works : Contains(<<y>>, x) <=> x = y
    /\ \A x \in Works : Contains(<<"tx", "restart">>, x) /\ Contains(<<"restart", "tx">>, x)
  BY DEF Contains, Works

LEMMA ListOfWorks ==
    ASSUME works \in WorkLists
    PROVE  /\ works = <<>> <=> ~ Contains(works, "tx") /\ ~ Contains(works, "restart")
           /\ works # <<>> => Head(works) \in Works /\ Contains(works, Head(works))
           /\ Overtaken => Head(works) = "restart" /\ Contains(works, "restart") /\ Contains(works, "tx")
  BY ListsContain DEF WorkLists, Overtaken, Works

LEMMA AppendedPair == ASSUME NEW x \in Works, NEW y \in Works PROVE Append(<<x>>, y) = <<x, y>>
<1>1. <<x>> \in Seq(Works) /\ <<x, y>> \in Seq(Works) /\ Len(<<x>>) = 1 /\ Len(<<x, y>>) = 2
  OBVIOUS
<1>2. /\ Append(<<x>>, y) \in Seq(Works) /\ Len(Append(<<x>>, y)) = 2
      /\ Append(<<x>>, y)[1] = x /\ Append(<<x>>, y)[2] = y
  BY <1>1, AppendProperties
<1>3. \A i \in 1 .. 2 : Append(<<x>>, y)[i] = <<x, y>>[i]
  BY <1>2
<1> QED
  BY <1>1, <1>2, <1>3, SeqEqual, Zenon

LEMMA WorkQueued ==
    ASSUME works \in WorkLists, NEW w \in Works, QueueWork(w)
    PROVE  /\ works' \in WorkLists /\ works' # <<>> /\ Contains(works', w)
           /\ \A x \in Works \ {w} : Contains(works', x) <=> Contains(works, x)
           /\ works # <<>> => Head(works') = Head(works)
           /\ works = <<>> => Head(works') = w
           /\ w = "tx" /\ Overtaken' => Contains(works, "restart") /\ Head(works) = "restart"
           /\ w = "restart" /\ Overtaken' => Overtaken
<1>1. CASE Contains(works, w)
  <2>1. works' = works /\ works # <<>>
    BY <1>1, ListsContain DEF QueueWork
  <2> QED
    BY <1>1, <2>1, ListOfWorks DEF Overtaken
<1>2. CASE works = <<>>
  <2>1. works' = <<w>>
    BY <1>2, ListsContain DEF QueueWork
  <2> QED
    BY <1>2, <2>1, ListsContain DEF Overtaken, Works, WorkLists
<1>3. CASE works = <<"tx">> /\ w = "restart"
  <2>0. ~ Contains(works, w)
    <3>1. ~ Contains(<<"tx">>, "restart")
      BY ListsContain DEF Works
    <3> QED
      BY <3>1, <1>3, Zenon
  <2>1. works' = <<"tx", "restart">>
    <3>1. works' = Append(works, w)
      BY <2>0 DEF QueueWork
    <3>2. Append(<<"tx">>, "restart") = <<"tx", "restart">>
      BY AppendedPair DEF Works
    <3> QED
      BY <3>1, <3>2, <1>3, Zenon
  <2> QED
    BY <1>3, <2>1, ListsContain DEF Overtaken, Works, WorkLists
<1>4. CASE works = <<"restart">> /\ w = "tx"
  <2>0. ~ Contains(works, w)
    <3>1. ~ Contains(<<"restart">>, "tx")
      BY ListsContain DEF Works
    <3> QED
      BY <3>1, <1>4, Zenon
  <2>1. works' = <<"restart", "tx">>
    <3>1. works' = Append(works, w)
      BY <2>0 DEF QueueWork
    <3>2. Append(<<"restart">>, "tx") = <<"restart", "tx">>
      BY AppendedPair DEF Works
    <3> QED
      BY <3>1, <3>2, <1>4, Zenon
  <2> QED
    BY <1>4, <2>1, ListsContain DEF Overtaken, Works, WorkLists
<1> QED
  BY <1>1, <1>2, <1>3, <1>4, ListsContain DEF Works, WorkLists

LEMMA WorkTaken ==
    ASSUME works \in WorkLists, NEW w \in Works, works # <<>>, Head(works) = w, works' = Tail(works)
    PROVE  /\ works' \in WorkLists /\ ~ Contains(works', w) /\ Contains(works, w)
           /\ \A x \in Works \ {w} : Contains(works', x) <=> Contains(works, x)
           /\ ~ Overtaken'
           /\ w = "restart" /\ works' # <<>> => Overtaken
           /\ works' # <<>> => Head(works') # w
<1>1. CASE works = <<w>> /\ works' = <<>>
  BY <1>1, ListsContain DEF Works, WorkLists, Overtaken
<1>2. CASE works = <<"tx", "restart">> /\ works' = <<"restart">> /\ w = "tx"
  BY <1>2, ListsContain DEF Works, WorkLists, Overtaken
<1>3. CASE works = <<"restart", "tx">> /\ works' = <<"tx">> /\ w = "restart"
  <2>1. \A x \in Works : (Contains(works', x) <=> x = "tx") /\ Contains(works, x)
    BY <1>3, ListsContain DEF Works
  <2>2. works' \in WorkLists /\ ~ Overtaken' /\ Overtaken /\ Head(works') = "tx"
    BY <1>3 DEF WorkLists, Overtaken
  <2>3. ~ Contains(works', w) /\ Contains(works, w)
    BY <1>3, <2>1 DEF Works
  <2>4. \A x \in Works \ {w} : Contains(works', x) <=> Contains(works, x)
    BY <1>3, <2>1 DEF Works
  <2> QED
    BY <1>3, <2>2, <2>3, <2>4
<1>4. \A x \in Works : Head(<<x>>) = x /\ Tail(<<x>>) = <<>>
  OBVIOUS
<1>5. /\ Head(<<"tx", "restart">>) = "tx" /\ Tail(<<"tx", "restart">>) = <<"restart">>
      /\ Head(<<"restart", "tx">>) = "restart" /\ Tail(<<"restart", "tx">>) = <<"tx">>
  OBVIOUS
<1>6. \/ \E x \in Works : works = <<x>>
      \/ works \in {<<"tx", "restart">>, <<"restart", "tx">>}
  BY DEF Works, WorkLists
<1> QED
  BY <1>1, <1>2, <1>3, <1>4, <1>5, <1>6, Zenon

\* A raised flag
LEMMA FlagRaised ==
    ASSUME NEW c \in Chips, NEW flag \in Flags, Raise(c, flag), edge \in BOOLEAN
    PROVE  /\ chip' \in Chips /\ edge' \in BOOLEAN /\ (edge => edge')
           /\ chip'.mode = c.mode /\ chip'.inte = c.inte /\ chip'.eflg = c.eflg
           /\ chip'.tx = c.tx /\ chip'.rx = c.rx /\ chip'.intf = c.intf \cup {flag}
           /\ c.inte /\ c.intf = {} /\ phase = "ready" /\ netdev.up => edge'
           /\ edge' /\ ~ edge => netdev.up
  BY DEF Raise, Chips, Flags

\* A list that grows
LEMMA Appended ==
    ASSUME NEW s \in Seq(Nat), NEW n \in Nat
    PROVE  /\ Append(s, n) \in Seq(Nat)
           /\ \A i \in DOMAIN s : i \in DOMAIN Append(s, n) /\ Append(s, n)[i] = s[i]
           /\ \A i \in DOMAIN Append(s, n) :
                Append(s, n)[i] = n \/ (i \in DOMAIN s /\ Append(s, n)[i] = s[i])
           /\ ToSet(Append(s, n)) = ToSet(s) \cup {n}
           /\ Increasing(s) /\ (\A i \in DOMAIN s : s[i] < n) => Increasing(Append(s, n))
           /\ NoRepeats(s) /\ n \notin ToSet(s) => NoRepeats(Append(s, n))
<1>1. /\ Append(s, n) \in Seq(Nat) /\ Len(Append(s, n)) = Len(s) + 1 /\ Append(s, n)[Len(s) + 1] = n
      /\ \A i \in 1 .. Len(s) : Append(s, n)[i] = s[i]
  BY AppendProperties
<1>2. DOMAIN s = 1 .. Len(s) /\ DOMAIN Append(s, n) = 1 .. Len(s) + 1 /\ Len(s) \in Nat
  BY <1>1
<1>3. \A i \in DOMAIN Append(s, n) : i = Len(s) + 1 \/ (i \in DOMAIN s /\ i < Len(s) + 1)
  BY <1>2
<1>4. \A i \in DOMAIN s : i \in DOMAIN Append(s, n) /\ Append(s, n)[i] = s[i]
  BY <1>1, <1>2
<1>5. Len(s) + 1 \in DOMAIN Append(s, n) /\ Len(s) + 1 \notin DOMAIN s
  BY <1>2
<1>6. ToSet(Append(s, n)) = ToSet(s) \cup {n}
  BY <1>1, <1>3, <1>4, <1>5 DEF ToSet
<1>7. ASSUME Increasing(s), \A i \in DOMAIN s : s[i] < n PROVE Increasing(Append(s, n))
  <2>1. ASSUME NEW i \in DOMAIN Append(s, n), NEW j \in DOMAIN Append(s, n), i < j
        PROVE  Append(s, n)[i] < Append(s, n)[j]
    <3>1. i \in DOMAIN s
      BY <2>1, <1>2, <1>3
    <3>2. CASE j \in DOMAIN s
      BY <2>1, <3>1, <3>2, <1>4, <1>7 DEF Increasing
    <3>3. CASE j = Len(s) + 1
      BY <3>1, <3>3, <1>1, <1>4, <1>7
    <3> QED
      BY <3>2, <3>3, <1>3
  <2> QED
    BY <2>1 DEF Increasing
<1>8. ASSUME NoRepeats(s), n \notin ToSet(s) PROVE NoRepeats(Append(s, n))
  <2>1. \A i \in DOMAIN s : s[i] # n
    BY <1>8 DEF ToSet
  <2> QED
    BY <1>1, <1>3, <1>4, <1>5, <1>8, <2>1 DEF NoRepeats
<1> QED
  BY <1>1, <1>3, <1>4, <1>6, <1>7, <1>8

LEMMA FrameNumbers ==
    ASSUME McpTypeOK
    PROVE  /\ used.tx \in Nat /\ used.rx \in Nat /\ used.tx + 1 \in Nat /\ used.rx + 1 \in Nat
           /\ drv.skb \in Nat /\ drv.echo \in Nat /\ chip.tx \in Nat
           /\ bus.sent \in Seq(Nat) /\ bus.received \in Seq(Nat)
           /\ up.echoed \in Seq(Nat) /\ up.received \in Seq(Nat)
           /\ \A i \in DOMAIN bus.sent : bus.sent[i] \in Nat
           /\ \A i \in DOMAIN up.echoed : up.echoed[i] \in Nat
           /\ \A k \in ToSet(bus.received) \cup ToSet(up.received) : k \in Nat
           /\ \A i \in 1 .. 2 : chip.rx[i] \in Nat
<1>1. \A s \in Seq(Nat) : (\A i \in DOMAIN s : s[i] \in Nat) /\ \A k \in ToSet(s) : k \in Nat
  BY DEF ToSet
<1>2. used.tx \in Nat /\ used.rx \in Nat
  BY DEF McpTypeOK
<1>3. used.tx + 1 \in Nat /\ used.rx + 1 \in Nat
  BY <1>2
<1> QED
  BY <1>1, <1>2, <1>3, Zenon DEF McpTypeOK, Drivers, Chips

LEMMA NumbersGrow ==
    ASSUME McpTypeOK, NEW n \in Nat
    PROVE  /\ n + 1 \in Nat
           /\ [used EXCEPT !.tx = n] \in [tx : Nat, rx : Nat, err : Nat, sleep : Nat]
           /\ [used EXCEPT !.rx = n] \in [tx : Nat, rx : Nat, err : Nat, sleep : Nat]
           /\ [used EXCEPT !.err = n] \in [tx : Nat, rx : Nat, err : Nat, sleep : Nat]
           /\ [used EXCEPT !.sleep = n] \in [tx : Nat, rx : Nat, err : Nat, sleep : Nat]
           /\ [bus EXCEPT !.received = Append(@, n)] \in [sent : Seq(Nat), received : Seq(Nat)]
<1>1. used \in [tx : Nat, rx : Nat, err : Nat, sleep : Nat]
  BY DEF McpTypeOK
<1>2. bus \in [sent : Seq(Nat), received : Seq(Nat)]
  BY DEF McpTypeOK
<1>3. Append(bus.received, n) \in Seq(Nat)
  BY <1>2, Appended
<1>4. \A s \in Seq(Nat) : [bus EXCEPT !.received = s] \in [sent : Seq(Nat), received : Seq(Nat)]
  BY <1>2, Zenon
<1>5. /\ [used EXCEPT !.tx = n] \in [tx : Nat, rx : Nat, err : Nat, sleep : Nat]
      /\ [used EXCEPT !.rx = n] \in [tx : Nat, rx : Nat, err : Nat, sleep : Nat]
      /\ [used EXCEPT !.err = n] \in [tx : Nat, rx : Nat, err : Nat, sleep : Nat]
      /\ [used EXCEPT !.sleep = n] \in [tx : Nat, rx : Nat, err : Nat, sleep : Nat]
  BY <1>1
<1>6. [bus EXCEPT !.received = Append(@, n)] \in [sent : Seq(Nat), received : Seq(Nat)]
  BY <1>3, <1>4, Zenon
<1>7. n + 1 \in Nat
  OBVIOUS
<1> QED
  BY <1>5, <1>6, <1>7

\* The chip after a reset, and without power
LEMMA OffChip ==
    /\ Off \in Chips /\ Off.mode = "sleep" /\ ~ Off.inte /\ Off.intf = {} /\ Off.eflg = "active"
    /\ Off.tx = 0 /\ Off.rx[1] = 0 /\ Off.rx[2] = 0
<1>1. <<0, 0>> \in [1 .. 2 -> Nat] /\ <<0, 0>>[1] = 0 /\ <<0, 0>>[2] = 0
  OBVIOUS
<1> QED
  BY <1>1 DEF Off, Chips, Flags, ErrorStates

LEMMA ResetChip ==
    ASSUME NEW c
    PROVE  /\ hw_reset(c) \in Chips /\ hw_reset(c).mode = "conf" /\ ~ hw_reset(c).inte /\ hw_reset(c).intf = {}
           /\ hw_reset(c).eflg = "active" /\ hw_reset(c).tx = 0 /\ hw_reset(c).rx[1] = 0 /\ hw_reset(c).rx[2] = 0
  BY OffChip DEF hw_reset, Chips

\* The receive side of RxOnce
Fresh(c, frames) ==
    /\ NoRepeats(frames) /\ ToSet(frames) \subseteq ToSet(bus.received)
    /\ \A i \in 1 .. 2 : c.rx[i] # 0 => c.rx[i] \in ToSet(bus.received) /\ c.rx[i] \notin ToSet(frames)
    /\ c.rx[1] = c.rx[2] => c.rx[1] = 0

LEMMA BufferRead ==
    ASSUME NEW c \in Chips, NEW i \in 1 .. 2, NEW frames \in Seq(Nat), Fresh(c, frames)
    PROVE  LET r == hw_rx(c, i, frames)
           IN  /\ r.chip \in Chips /\ r.given \in Seq(Nat) /\ Fresh(r.chip, r.given)
               /\ r.chip.mode = c.mode /\ r.chip.inte = c.inte /\ r.chip.eflg = c.eflg /\ r.chip.tx = c.tx
               /\ r.chip.intf \subseteq c.intf
<1> DEFINE d == hw_rx(c, i, frames).chip
           g == hw_rx(c, i, frames).given
<1>1. /\ d = [c EXCEPT !.rx[i] = 0, !.intf = @ \ {IF i = 1 THEN "RX0" ELSE "RX1"}]
      /\ g = IF c.rx[i] = 0 THEN frames ELSE Append(frames, c.rx[i])
  BY DEF hw_rx
<1> HIDE DEF d, g
<1>2. /\ d \in Chips /\ d.mode = c.mode /\ d.inte = c.inte /\ d.eflg = c.eflg /\ d.tx = c.tx
      /\ d.intf \subseteq c.intf
      /\ d.rx[i] = 0 /\ \A j \in 1 .. 2 \ {i} : d.rx[j] = c.rx[j]
  <2>1. [c.rx EXCEPT ![i] = 0] \in [1 .. 2 -> Nat]
    BY DEF Chips
  <2>2. PICK r \in [1 .. 2 -> Nat] : r = [c.rx EXCEPT ![i] = 0]
    BY <2>1, Zenon
  <2>3. PICK f \in SUBSET Flags : f = c.intf \ {IF i = 1 THEN "RX0" ELSE "RX1"}
    BY Zenon DEF Chips
  <2>4. d = [c EXCEPT !.rx = r, !.intf = f]
    BY <1>1, <2>2, <2>3
  <2>5. /\ d \in Chips /\ d.mode = c.mode /\ d.inte = c.inte /\ d.eflg = c.eflg /\ d.tx = c.tx
        /\ d.intf \subseteq c.intf /\ d.rx = [c.rx EXCEPT ![i] = 0]
    BY <2>2, <2>3, <2>4, Zenon DEF Chips
  <2> QED
    BY <2>5, Zenon DEF Chips
<1>3. /\ g \in Seq(Nat) /\ NoRepeats(g) /\ ToSet(g) \subseteq ToSet(frames) \cup {c.rx[i]}
      /\ ToSet(g) \subseteq ToSet(bus.received)
  <2>1. CASE c.rx[i] = 0
    BY <1>1, <2>1 DEF Fresh
  <2>2. CASE c.rx[i] # 0
    <3>1. g = Append(frames, c.rx[i]) /\ c.rx[i] \in Nat
      BY <1>1, <2>2 DEF Chips
    <3> QED
      BY <3>1, <2>2, Appended DEF Fresh
  <2> QED
    BY <2>1, <2>2
<1>4. Fresh(d, g)
  <2>1. ASSUME NEW j \in 1 .. 2, d.rx[j] # 0 PROVE d.rx[j] \in ToSet(bus.received) /\ d.rx[j] \notin ToSet(g)
    <3>1. j # i /\ d.rx[j] = c.rx[j] /\ c.rx[j] # 0
      BY <2>1, <1>2
    <3>2. c.rx[j] # c.rx[i]
      BY <3>1 DEF Fresh
    <3> QED
      BY <3>1, <3>2, <1>3 DEF Fresh
  <2>2. d.rx[1] = d.rx[2] => d.rx[1] = 0
    BY <1>2
  <2> QED
    BY <2>1, <2>2, <1>3 DEF Fresh
<1> QED
  BY <1>2, <1>3, <1>4 DEF d, g

\* The frame that the chip has sent is given back to the stack.
LEMMA EchoGiven ==
    ASSUME McpTypeOK, TxInOrder, drv.echo # 0 => drv.echo \in ToSet(bus.sent),
           up' = [up EXCEPT !.echoed = IF drv.len /\ drv.echo # 0 THEN Append(@, drv.echo) ELSE @]
    PROVE  /\ up' \in [echoed : Seq(Nat), received : Seq(Nat)] /\ Increasing(up'.echoed)
           /\ ToSet(up'.echoed) \subseteq ToSet(bus.sent)
<1>1. up \in [echoed : Seq(Nat), received : Seq(Nat)] /\ drv.echo \in Nat
  BY FrameNumbers DEF McpTypeOK
<1>2. CASE drv.len /\ drv.echo # 0
  <2>1. up' = [up EXCEPT !.echoed = Append(up.echoed, drv.echo)]
    BY <1>2
  <2>2. Append(up.echoed, drv.echo) \in Seq(Nat)
    BY <1>1, Appended
  <2>3. up' \in [echoed : Seq(Nat), received : Seq(Nat)] /\ up'.echoed = Append(up.echoed, drv.echo)
    BY <1>1, <2>1, <2>2, Zenon
  <2> QED
    BY <1>1, <1>2, <2>3, Appended DEF TxInOrder
<1>3. CASE ~ (drv.len /\ drv.echo # 0)
  <2>1. up' \in [echoed : Seq(Nat), received : Seq(Nat)] /\ up'.echoed = up.echoed
    BY <1>1, <1>3
  <2> QED
    BY <2>1 DEF TxInOrder
<1> QED
  BY <1>2, <1>3

\* Whatever the restart was for, it leaves a driver that runs and has no frame.
LEMMA DrvRestarted ==
    ASSUME McpTypeOK, restart_work_ends, drv.after \cap {"restart", "up"} # {},
           drv.restart_tx \/ ("up" \in drv.after /\ "restart" \notin drv.after), drv.echo # 0 => drv.len
    PROVE  /\ drv' \in Drivers /\ drv'.skb = 0 /\ ~ drv'.len /\ drv'.echo = 0 /\ drv'.state = "active"
           /\ ~ drv'.quit /\ drv'.after = {} /\ ~ drv'.restart_tx
<1> DEFINE x == IF "restart" \in drv.after THEN [drv EXCEPT !.state = "active"]
                ELSE IF "up" \in drv.after THEN AfterResume(drv) ELSE drv
           d == [x EXCEPT !.after = {}, !.quit = FALSE]
<1>1. drv \in Drivers
  BY DEF McpTypeOK
<1>2. /\ x \in Drivers /\ x.state = "active" /\ (x.echo # 0 => x.len) /\ x.restart_tx = drv.restart_tx
      /\ ~ drv.restart_tx => x.skb = 0 /\ ~ x.len
  BY <1>1, Zenon DEF Drivers, ErrorStates, AfterResume, clean
<1>3. drv' = IF drv.restart_tx THEN [clean(d) EXCEPT !.restart_tx = FALSE] ELSE d
  BY Zenon DEF restart_work_ends
<1> HIDE DEF x
<1>4. /\ d \in Drivers /\ d.state = "active" /\ (d.echo # 0 => d.len) /\ d.restart_tx = drv.restart_tx
      /\ d.after = {} /\ ~ d.quit /\ (~ drv.restart_tx => d.skb = 0 /\ ~ d.len)
  BY <1>2, Zenon DEF Drivers
<1> HIDE DEF d
<1>5. CASE drv.restart_tx
  <2>1. drv' = [clean(d) EXCEPT !.restart_tx = FALSE]
    BY <1>3, <1>5
  <2> QED
    BY <1>4, <2>1, Zenon DEF Drivers, clean
<1>6. CASE ~ drv.restart_tx
  <2>1. drv' = d
    BY <1>3, <1>6
  <2> QED
    BY <1>4, <1>6, <2>1
<1> QED
  BY <1>5, <1>6

LEMMA SleepCounted ==
    ASSUME McpTypeOK, used' = [used EXCEPT !.sleep = @ + 1]
    PROVE  /\ used'.tx = used.tx /\ used'.rx = used.rx
           /\ used' \in [tx : Nat, rx : Nat, err : Nat, sleep : Nat]
<1>1. used \in [tx : Nat, rx : Nat, err : Nat, sleep : Nat]
  BY DEF McpTypeOK
<1>2. used.sleep + 1 \in Nat
  BY <1>1
<1> QED
  BY <1>1, <1>2

\* Frames that are dropped leave the order as it is.
LEMMA OrderStays ==
    ASSUME McpTypeOK, TxInOrder, bus' = bus, up' = up, used'.tx = used.tx,
           drv'.skb \in {0, drv.skb}, chip'.tx \in {0, chip.tx}, drv'.len => drv.len,
           drv'.echo = 0 \/ (drv'.echo = drv.echo /\ (drv'.len <=> drv.len))
    PROVE  TxInOrder'
<1>1. chip.tx \in Nat /\ used.tx \in Nat /\ drv.skb \in Nat /\ chip.tx <= used.tx /\ drv.skb <= used.tx
  BY FrameNumbers DEF TxInOrder
<1>2. drv'.skb <= used'.tx /\ chip'.tx <= used'.tx /\ (drv'.skb # 0 => chip'.tx < drv'.skb)
  BY <1>1 DEF TxInOrder
<1>3. \A i \in DOMAIN bus.sent :
        /\ bus.sent[i] <= used'.tx
        /\ drv'.skb # 0 => bus.sent[i] < drv'.skb
        /\ chip'.tx # 0 => bus.sent[i] < chip'.tx
  BY DEF TxInOrder
<1>4. drv'.echo # 0 =>
        /\ drv'.len
        /\ chip'.tx # 0 => drv'.echo = chip'.tx
        /\ \A i \in DOMAIN up.echoed : up.echoed[i] < drv'.echo
  BY DEF TxInOrder
<1>5. drv'.len => drv'.skb = 0
  BY DEF TxInOrder
<1> QED
  BY <1>2, <1>3, <1>4, <1>5 DEF TxInOrder

LEMMA ChipSendsKeeps == ASSUME McpIInv, ChipSends PROVE McpIInv'
<1>1. /\ chip.mode = "normal" /\ chip.tx # 0 /\ chip.eflg # "busoff"
      /\ chip.tx \in Nat /\ bus.sent \in Seq(Nat)
      /\ bus' = [bus EXCEPT !.sent = Append(@, chip.tx)]
      /\ UNCHANGED <<drv, netdev, lock, ist, works, phase, timer, up, used>>
  BY DEF ChipSends, McpIInv, McpTypeOK, Chips
<1>2. bus'.sent = Append(bus.sent, chip.tx) /\ bus'.received = bus.received
  BY <1>1 DEF McpIInv, McpTypeOK
<1>3. /\ chip' \in Chips
      /\ chip'.mode = chip.mode /\ chip'.inte = chip.inte
      /\ chip'.intf = chip.intf \cup {"TX"} /\ chip'.eflg = chip.eflg /\ chip'.tx = 0
      /\ chip'.rx = chip.rx
      /\ (edge => edge')
      /\ (chip.inte /\ chip.intf = {} /\ phase = "ready" /\ netdev.up => edge')
      /\ edge' \in BOOLEAN /\ (edge' /\ ~ edge => netdev.up)
  BY Zenon DEF ChipSends, McpIInv, Raise, McpTypeOK, Chips, Flags, ErrorStates
<1>4. McpTypeOK'
  <2>1. chip' \in Chips
    BY <1>1, <1>2, <1>3 DEF McpIInv, McpTypeOK, Chips, Flags, ErrorStates
  <2>2. edge' \in BOOLEAN
    BY <1>1, <1>2, <1>3 DEF McpIInv, McpTypeOK
  <2>3. bus' \in [sent : Seq(Nat), received : Seq(Nat)]
    BY <1>1, Appended, Zenon DEF McpIInv, McpTypeOK
  <2> QED
    BY <1>1, <1>2, <1>3, <2>1, <2>2, <2>3 DEF McpIInv, McpTypeOK
<1>5. TxInOrder'
  <2>1. /\ Increasing(bus'.sent) /\ ToSet(bus'.sent) = ToSet(bus.sent) \cup {chip.tx}
        /\ \A i \in DOMAIN bus'.sent :
             bus'.sent[i] = chip.tx \/ (i \in DOMAIN bus.sent /\ bus'.sent[i] = bus.sent[i])
    BY <1>1, <1>2, Appended DEF McpIInv, TxInOrder
  <2>2. \A i \in DOMAIN bus'.sent :
           bus'.sent[i] <= used'.tx /\ (drv'.skb # 0 => bus'.sent[i] < drv'.skb)
    BY <2>1, <1>1, FrameNumbers, Zenon DEF McpIInv, TxInOrder
  <2>3. /\ drv'.skb <= used'.tx /\ chip'.tx <= used'.tx /\ (drv'.skb # 0 => chip'.tx < drv'.skb)
        /\ ToSet(up'.echoed) \subseteq ToSet(bus'.sent) /\ Increasing(up'.echoed)
    BY <2>1, <1>1, <1>3, FrameNumbers DEF McpIInv, TxInOrder
  <2> QED
    BY <2>1, <2>2, <2>3, <1>1, <1>3 DEF McpIInv, TxInOrder
<1>6. RxOnce'
  BY <1>1, <1>2, <1>3 DEF McpIInv, RxOnce
<1>7. IstHasLock'
  BY <1>1, <1>2, <1>3 DEF McpIInv, IstHasLock
<1>8. TxFlagIsTrue'
  BY <1>1, <1>2, <1>3, Appended DEF McpIInv, TxFlagIsTrue, TxRead, TxInOrder
<1>9. ChipIsFree'
  BY <1>1, <1>2, <1>3 DEF McpIInv, ChipIsFree, TxRead, Stale, Overtaken
<1>10. BusOffHasFrame'
  BY <1>1, <1>2, <1>3 DEF McpIInv, BusOffHasFrame
<1>11. PhasesInOrder'
  BY <1>1, <1>2, <1>3 DEF McpIInv, PhasesInOrder
<1>12. RestartIsQueued'
  BY <1>1, <1>2, <1>3 DEF McpIInv, RestartIsQueued
<1>13. RestartMeetsItsState'
  BY <1>1, <1>2, <1>3 DEF McpIInv, RestartMeetsItsState, Stale, Overtaken
<1>14. FlagsAreServed'
  BY <1>1, <1>2, <1>3 DEF McpIInv, FlagsAreServed, IstHasLock
<1>15. RunsOrRestarts'
  BY <1>1, <1>2, <1>3 DEF McpIInv, RunsOrRestarts
<1>16. QueueIsServed'
  BY <1>1, <1>2, <1>3 DEF McpIInv, QueueIsServed, TxRead
<1> QED
  BY <1>4, <1>5, <1>6, <1>7, <1>8, <1>9, <1>10, <1>11, <1>12, <1>13, <1>14, <1>15, <1>16 DEF McpIInv

LEMMA ReceivedKeeps ==
    ASSUME McpIInv, NEW c \in Chips, NEW flag \in {"RX0", "RX1", "ERR"}, Raise(c, flag), chip.mode = "normal",
           c.mode = chip.mode, c.inte = chip.inte, c.eflg = chip.eflg, c.tx = chip.tx, c.intf = chip.intf,
           \A i \in 1 .. 2 : c.rx[i] = chip.rx[i] \/ (chip.rx[i] = 0 /\ c.rx[i] = used.rx + 1),
           c.rx[1] = chip.rx[1] \/ c.rx[2] = chip.rx[2],
           used' = [used EXCEPT !.rx = @ + 1],
           bus' = [bus EXCEPT !.received = Append(@, used.rx + 1)],
           UNCHANGED <<drv, netdev, lock, ist, works, phase, timer, up>>
    PROVE  McpIInv'
<1>1. /\ chip' \in Chips
      /\ chip'.mode = c.mode /\ (chip'.inte <=> c.inte) /\ chip'.intf = c.intf \cup {flag}
      /\ chip'.eflg = c.eflg /\ chip'.tx = c.tx /\ chip'.rx = c.rx
      /\ (edge => edge')
      /\ (chip.inte /\ chip.intf = {} /\ phase = "ready" /\ netdev.up => edge')
      /\ edge' \in BOOLEAN /\ (edge' /\ ~ edge => netdev.up)
  BY FlagRaised DEF McpIInv, McpTypeOK, Flags
<1>2. /\ bus'.received = Append(bus.received, used.rx + 1) /\ bus'.sent = bus.sent
      /\ used'.rx = used.rx + 1 /\ used'.tx = used.tx
  BY FrameNumbers DEF McpIInv, McpTypeOK
<1>3. UNCHANGED <<drv, netdev, lock, ist, works, phase, timer, up>>
  BY FrameNumbers
<1>4. McpTypeOK'
  <2>1. chip' \in Chips
    BY <1>1
  <2>2. edge' \in BOOLEAN
    BY <1>1
  <2>3. bus' \in [sent : Seq(Nat), received : Seq(Nat)]
    BY NumbersGrow, FrameNumbers, Zenon DEF McpIInv
  <2>4. used' \in [tx : Nat, rx : Nat, err : Nat, sleep : Nat]
    BY NumbersGrow, FrameNumbers, Zenon DEF McpIInv
  <2> QED
    BY <1>1, <1>2, <1>3, <2>1, <2>2, <2>3, <2>4 DEF McpIInv, McpTypeOK
<1>5. TxInOrder'
  BY <1>1, <1>2, <1>3 DEF McpIInv, TxInOrder
<1>6. RxOnce'
  <2>1. /\ ToSet(bus'.received) = ToSet(bus.received) \cup {used.rx + 1} /\ used.rx + 1 \in Nat
        /\ used.rx + 1 \notin ToSet(bus.received)
    <3>1. used.rx \in Nat /\ used.rx + 1 \in Nat /\ bus.received \in Seq(Nat)
      BY FrameNumbers DEF McpIInv
    <3>2. \A k \in ToSet(bus.received) : k \in Nat /\ k <= used.rx
      BY FrameNumbers, Zenon DEF McpIInv, RxOnce
    <3> QED
      BY <3>1, <3>2, <1>2, Appended
  <2>2. /\ NoRepeats(up'.received) /\ ToSet(up'.received) \subseteq ToSet(bus'.received)
        /\ used.rx + 1 \notin ToSet(up'.received)
    BY <2>1, <1>3 DEF McpIInv, RxOnce
  <2>3. \A k \in ToSet(bus'.received) : k <= used'.rx
    <3>1. used.rx \in Nat /\ \A k \in ToSet(bus.received) : k \in Nat /\ k <= used.rx
      BY FrameNumbers DEF McpIInv, RxOnce
    <3> QED
      BY <3>1, <2>1, <1>2
  <2>4. \A i \in 1 .. 2 : chip'.rx[i] # 0 =>
          chip'.rx[i] \in ToSet(bus'.received) /\ chip'.rx[i] \notin ToSet(up'.received)
    BY <2>1, <2>2, <1>1, <1>3 DEF McpIInv, RxOnce
  <2>5. chip'.rx[1] = chip'.rx[2] => chip'.rx[1] = 0
    BY <2>1, <1>1 DEF McpIInv, RxOnce
  <2> QED
    BY <2>2, <2>3, <2>4, <2>5 DEF RxOnce
<1>7. IstHasLock'
  BY <1>1, <1>2, <1>3 DEF McpIInv, IstHasLock
<1>8. TxFlagIsTrue'
  BY <1>1, <1>2, <1>3 DEF McpIInv, TxFlagIsTrue, TxRead
<1>9. ChipIsFree'
  BY <1>1, <1>2, <1>3 DEF McpIInv, ChipIsFree, TxRead, Stale, Overtaken
<1>10. BusOffHasFrame'
  BY <1>1, <1>2, <1>3 DEF McpIInv, BusOffHasFrame
<1>11. PhasesInOrder'
  BY <1>1, <1>2, <1>3 DEF McpIInv, PhasesInOrder
<1>12. RestartIsQueued'
  BY <1>1, <1>2, <1>3 DEF McpIInv, RestartIsQueued
<1>13. RestartMeetsItsState'
  BY <1>1, <1>2, <1>3 DEF McpIInv, RestartMeetsItsState, Stale, Overtaken
<1>14. FlagsAreServed'
  BY <1>1, <1>2, <1>3 DEF McpIInv, FlagsAreServed, IstHasLock
<1>15. RunsOrRestarts'
  BY <1>1, <1>2, <1>3 DEF McpIInv, RunsOrRestarts
<1>16. QueueIsServed'
  BY <1>1, <1>2, <1>3 DEF McpIInv, QueueIsServed, TxRead
<1> QED
  BY <1>4, <1>5, <1>6, <1>7, <1>8, <1>9, <1>10, <1>11, <1>12, <1>13, <1>14, <1>15, <1>16 DEF McpIInv

LEMMA FailedKeeps ==
    ASSUME McpIInv, NEW c \in Chips, Raise(c, "ERR"), chip.mode = "normal",
           c.mode = chip.mode, c.inte = chip.inte, c.rx = chip.rx, c.tx = chip.tx, c.intf = chip.intf,
           c.eflg = "busoff" => chip.tx # 0,
           used' = [used EXCEPT !.err = @ + 1],
           UNCHANGED <<drv, netdev, lock, ist, works, phase, timer, bus, up>>
    PROVE  McpIInv'
<1>1. /\ chip' \in Chips
      /\ chip'.mode = c.mode /\ (chip'.inte <=> c.inte) /\ chip'.intf = c.intf \cup {"ERR"}
      /\ chip'.eflg = c.eflg /\ chip'.tx = c.tx /\ chip'.rx = c.rx
      /\ (edge => edge')
      /\ (chip.inte /\ chip.intf = {} /\ phase = "ready" /\ netdev.up => edge')
      /\ edge' \in BOOLEAN /\ (edge' /\ ~ edge => netdev.up)
  BY FlagRaised DEF McpIInv, McpTypeOK, Flags
<1>2. used'.rx = used.rx /\ used'.tx = used.tx
  BY FrameNumbers DEF McpIInv, McpTypeOK
<1>3. UNCHANGED <<drv, netdev, lock, ist, works, phase, timer, bus, up>>
  BY FrameNumbers
<1>4. McpTypeOK'
  <2>1. chip' \in Chips
    BY <1>1
  <2>2. edge' \in BOOLEAN
    BY <1>1
  <2>3. used' \in [tx : Nat, rx : Nat, err : Nat, sleep : Nat]
    BY FrameNumbers, NumbersGrow, Zenon DEF McpIInv, McpTypeOK
  <2> QED
    BY <1>1, <1>2, <1>3, <2>1, <2>2, <2>3 DEF McpIInv, McpTypeOK
<1>5. TxInOrder'
  BY <1>1, <1>2, <1>3 DEF McpIInv, TxInOrder
<1>6. RxOnce'
  BY <1>1, <1>2, <1>3 DEF McpIInv, RxOnce
<1>7. IstHasLock'
  BY <1>1, <1>2, <1>3 DEF McpIInv, IstHasLock
<1>8. TxFlagIsTrue'
  BY <1>1, <1>2, <1>3 DEF McpIInv, TxFlagIsTrue, TxRead
<1>9. ChipIsFree'
  BY <1>1, <1>2, <1>3 DEF McpIInv, ChipIsFree, TxRead, Stale, Overtaken
<1>10. BusOffHasFrame'
  BY <1>1, <1>2, <1>3 DEF McpIInv, BusOffHasFrame
<1>11. PhasesInOrder'
  BY <1>1, <1>2, <1>3 DEF McpIInv, PhasesInOrder
<1>12. RestartIsQueued'
  BY <1>1, <1>2, <1>3 DEF McpIInv, RestartIsQueued
<1>13. RestartMeetsItsState'
  BY <1>1, <1>2, <1>3 DEF McpIInv, RestartMeetsItsState, Stale, Overtaken
<1>14. FlagsAreServed'
  BY <1>1, <1>2, <1>3 DEF McpIInv, FlagsAreServed, IstHasLock
<1>15. RunsOrRestarts'
  BY <1>1, <1>2, <1>3 DEF McpIInv, RunsOrRestarts
<1>16. QueueIsServed'
  BY <1>1, <1>2, <1>3 DEF McpIInv, QueueIsServed, TxRead
<1> QED
  BY <1>4, <1>5, <1>6, <1>7, <1>8, <1>9, <1>10, <1>11, <1>12, <1>13, <1>14, <1>15, <1>16 DEF McpIInv

LEMMA ChipRecoversKeeps == ASSUME McpIInv, ChipRecovers PROVE McpIInv'
<1>1. /\ chip'.mode = chip.mode /\ chip'.inte = chip.inte /\ chip'.intf = chip.intf
      /\ chip'.eflg = "active" /\ chip'.tx = chip.tx /\ chip'.rx = chip.rx
      /\ chip' \in Chips
      /\ UNCHANGED <<drv, netdev, lock, ist, edge, works, phase, timer, bus, up, used>>
  BY Zenon DEF ChipRecovers, McpIInv, McpTypeOK, Chips, Flags, ErrorStates
<1>2. McpTypeOK'
  <2>1. chip' \in Chips
    BY <1>1 DEF McpIInv, McpTypeOK, Chips, Flags, ErrorStates
  <2> QED
    BY <1>1, <2>1 DEF McpIInv, McpTypeOK
<1>3. TxInOrder'
  BY <1>1 DEF McpIInv, TxInOrder
<1>4. RxOnce'
  BY <1>1 DEF McpIInv, RxOnce
<1>5. IstHasLock'
  BY <1>1 DEF McpIInv, IstHasLock
<1>6. TxFlagIsTrue'
  BY <1>1 DEF McpIInv, TxFlagIsTrue, TxRead
<1>7. ChipIsFree'
  BY <1>1 DEF McpIInv, ChipIsFree, TxRead, Stale, Overtaken
<1>8. BusOffHasFrame'
  BY <1>1 DEF McpIInv, BusOffHasFrame
<1>9. PhasesInOrder'
  BY <1>1 DEF McpIInv, PhasesInOrder
<1>10. RestartIsQueued'
  BY <1>1 DEF McpIInv, RestartIsQueued
<1>11. RestartMeetsItsState'
  BY <1>1 DEF McpIInv, RestartMeetsItsState, Stale, Overtaken
<1>12. FlagsAreServed'
  BY <1>1 DEF McpIInv, FlagsAreServed
<1>13. RunsOrRestarts'
  BY <1>1 DEF McpIInv, RunsOrRestarts
<1>14. QueueIsServed'
  BY <1>1 DEF McpIInv, QueueIsServed, TxRead
<1> QED
  BY <1>2, <1>3, <1>4, <1>5, <1>6, <1>7, <1>8, <1>9, <1>10, <1>11, <1>12, <1>13, <1>14 DEF McpIInv

LEMMA hard_start_xmitKeeps == ASSUME McpIInv, hard_start_xmit PROVE McpIInv'
<1>1. /\ works' \in WorkLists /\ works' # <<>> /\ Contains(works', "tx")
      /\ (Contains(works', "restart") <=> Contains(works, "restart"))
      /\ (works # <<>> => Head(works') = Head(works))
      /\ (Contains(works, "restart") => works # <<>>)
      /\ Overtaken' => Contains(works, "restart") /\ Head(works) = "restart"
  BY WorkQueued, ListOfWorks DEF hard_start_xmit, McpIInv, McpTypeOK, Works
<1>2. /\ phase = "ready" /\ netdev.up /\ netdev.awake /\ netdev.attached /\ netdev.carrier
      /\ drv.skb = 0 /\ ~ drv.len
      /\ used' = [used EXCEPT !.tx = used.tx + 1]
      /\ netdev' = [netdev EXCEPT !.awake = FALSE]
      /\ drv' = [drv EXCEPT !.skb = used.tx + 1]
      /\ UNCHANGED <<chip, lock, ist, edge, phase, timer, bus, up>>
  BY DEF hard_start_xmit, McpIInv
<1>3. /\ used.tx \in Nat /\ used.tx + 1 \in Nat /\ used'.tx = used.tx + 1
      /\ used'.rx = used.rx
  BY <1>2, FrameNumbers DEF McpIInv, McpTypeOK
<1>4. /\ netdev' \in Netdevs
      /\ netdev'.up = netdev.up /\ ~ netdev'.awake /\ netdev'.attached = netdev.attached
      /\ netdev'.carrier = netdev.carrier /\ netdev'.restart_ms = netdev.restart_ms
      /\ netdev'.power = netdev.power
  BY <1>2, Zenon DEF McpIInv, McpTypeOK, Netdevs
<1>5. /\ drv'.skb = used.tx + 1 /\ drv'.len = drv.len /\ drv'.echo = drv.echo
      /\ drv'.state = drv.state /\ drv'.quit = drv.quit /\ drv'.after = drv.after
      /\ drv'.restart_tx = drv.restart_tx
  BY <1>2 DEF McpIInv, McpTypeOK, Drivers
<1>6. McpTypeOK'
  <2>1. drv' \in Drivers
    BY <1>2, <1>3, Zenon DEF McpIInv, McpTypeOK, Drivers
  <2>2. netdev' \in Netdevs
    BY <1>4
  <2>3. works' \in WorkLists
    BY <1>1
  <2>4. used' \in [tx : Nat, rx : Nat, err : Nat, sleep : Nat]
    BY <1>2, <1>3, NumbersGrow, Zenon DEF McpIInv
  <2> QED
    BY <1>1, <1>2, <1>3, <1>4, <1>5, <2>1, <2>2, <2>3, <2>4 DEF McpIInv, McpTypeOK
<1>7. TxInOrder'
  <2>1. /\ Increasing(bus'.sent) /\ Increasing(up'.echoed) /\ ToSet(up'.echoed) \subseteq ToSet(bus'.sent)
        /\ drv'.skb <= used'.tx /\ chip'.tx <= used'.tx /\ (drv'.skb # 0 => chip'.tx < drv'.skb)
    <3>1. /\ chip.tx \in Nat /\ used.tx \in Nat /\ drv.skb \in Nat /\ chip.tx <= used.tx
          /\ drv.skb <= used.tx
      BY FrameNumbers DEF McpIInv, TxInOrder
    <3> QED
      BY <1>1, <1>2, <1>3, <1>4, <1>5, <3>1 DEF McpIInv, TxInOrder
  <2>2. \A i \in DOMAIN bus'.sent :
         /\ bus'.sent[i] <= used'.tx
         /\ drv'.skb # 0 => bus'.sent[i] < drv'.skb
         /\ chip'.tx # 0 => bus'.sent[i] < chip'.tx
    <3>1. \A i \in DOMAIN bus.sent : bus.sent[i] \in Nat /\ bus.sent[i] <= used.tx /\ used.tx \in Nat
      BY FrameNumbers DEF McpIInv, TxInOrder
    <3> QED
      BY <1>1, <1>2, <1>3, <1>4, <1>5, <3>1 DEF McpIInv, TxInOrder
  <2>3. drv'.len => drv'.skb = 0
    BY <1>1, <1>2, <1>3, <1>4, <1>5 DEF McpIInv, TxInOrder
  <2>4. drv'.echo # 0 =>
         /\ drv'.len
         /\ chip'.tx # 0 => drv'.echo = chip'.tx
         /\ \A i \in DOMAIN up'.echoed : up'.echoed[i] < drv'.echo
    <3>1. \A i \in DOMAIN up.echoed : \E k \in DOMAIN bus.sent : up.echoed[i] = bus.sent[k]
      BY DEF McpIInv, TxInOrder, ToSet
    <3>2. drv.echo # 0 => drv.skb = 0
      BY DEF McpIInv, TxInOrder
    <3> QED
      BY <1>1, <1>2, <1>3, <1>4, <1>5, <3>1, <3>2 DEF McpIInv, TxInOrder
  <2> QED
    BY <2>1, <2>2, <2>3, <2>4 DEF TxInOrder
<1>8. RxOnce'
  BY <1>1, <1>2, <1>3, <1>4, <1>5 DEF McpIInv, RxOnce
<1>9. IstHasLock'
  BY <1>1, <1>2, <1>3, <1>4, <1>5 DEF McpIInv, IstHasLock
<1>10. TxFlagIsTrue'
  BY <1>1, <1>2, <1>3, <1>4, <1>5 DEF McpIInv, TxFlagIsTrue, TxRead, ChipIsFree, Stale
<1>11. ChipIsFree'
  BY <1>1, <1>2, <1>3, <1>4, <1>5 DEF McpIInv, ChipIsFree, TxRead, Stale, BusOffHasFrame
<1>12. BusOffHasFrame'
  BY <1>1, <1>2, <1>3, <1>4, <1>5 DEF McpIInv, BusOffHasFrame
<1>13. PhasesInOrder'
  BY <1>1, <1>2, <1>3, <1>4, <1>5 DEF McpIInv, PhasesInOrder
<1>14. RestartIsQueued'
  BY <1>1, <1>2, <1>3, <1>4, <1>5 DEF McpIInv, RestartIsQueued
<1>15. RestartMeetsItsState'
  BY <1>1, <1>2, <1>3, <1>4, <1>5 DEF McpIInv, RestartMeetsItsState, Stale, ChipIsFree, TxRead,
     BusOffHasFrame
<1>16. FlagsAreServed'
  BY <1>1, <1>2, <1>3, <1>4, <1>5 DEF McpIInv, FlagsAreServed
<1>17. RunsOrRestarts'
  BY <1>1, <1>2, <1>3, <1>4, <1>5 DEF McpIInv, RunsOrRestarts
<1>18. QueueIsServed'
  BY <1>1, <1>2, <1>3, <1>4, <1>5, FrameNumbers DEF McpIInv, QueueIsServed, TxRead
<1> QED
  BY <1>6, <1>7, <1>8, <1>9, <1>10, <1>11, <1>12, <1>13, <1>14, <1>15, <1>16, <1>17, <1>18 DEF McpIInv

LEMMA tx_work_handlerKeeps == ASSUME McpIInv, tx_work_handler PROVE McpIInv'
<1>1. CASE drv.skb = 0
  <2>1. /\ works' \in WorkLists /\ ~ Contains(works', "tx")
        /\ (Contains(works', "restart") <=> Contains(works, "restart")) /\ ~ Overtaken'
        /\ ~ Overtaken /\ works # <<>> /\ Head(works) = "tx"
        /\ works' # <<>> => Head(works') # "tx"
    BY <1>1, WorkTaken, ListOfWorks, Zenon DEF tx_work_handler, McpIInv, Runs, McpTypeOK, Works
  <2>2. /\ phase \in {"ready", "stopping"} /\ lock = "free"
        /\ UNCHANGED <<drv, netdev, chip, lock, ist, edge, phase, timer, bus, up, used>>
    BY <1>1 DEF tx_work_handler, McpIInv, Runs, McpTypeOK
  <2>3. McpTypeOK'
    <3>1. works' \in WorkLists
      BY <2>1
    <3> QED
      BY <2>1, <2>2, <3>1 DEF McpIInv, McpTypeOK
  <2>4. TxInOrder'
    BY <2>1, <2>2, <1>1 DEF McpIInv, TxInOrder
  <2>5. RxOnce'
    BY <2>1, <2>2, <1>1 DEF McpIInv, RxOnce
  <2>6. IstHasLock'
    BY <2>1, <2>2, <1>1 DEF McpIInv, IstHasLock
  <2>7. TxFlagIsTrue'
    BY <2>1, <2>2, <1>1 DEF McpIInv, TxFlagIsTrue, TxRead
  <2>8. ChipIsFree'
    BY <2>1, <2>2, <1>1 DEF McpIInv, ChipIsFree, TxRead, Stale, RestartMeetsItsState
  <2>9. BusOffHasFrame'
    BY <2>1, <2>2, <1>1 DEF McpIInv, BusOffHasFrame
  <2>10. PhasesInOrder'
    BY <2>1, <2>2, <1>1 DEF McpIInv, PhasesInOrder
  <2>11. RestartIsQueued'
    BY <2>1, <2>2, <1>1 DEF McpIInv, RestartIsQueued
  <2>12. RestartMeetsItsState'
    BY <2>1, <2>2, <1>1 DEF McpIInv, RestartMeetsItsState, Stale
  <2>13. FlagsAreServed'
    BY <2>1, <2>2, <1>1 DEF McpIInv, FlagsAreServed
  <2>14. RunsOrRestarts'
    BY <2>1, <2>2, <1>1 DEF McpIInv, RunsOrRestarts
  <2>15. QueueIsServed'
    BY <2>1, <2>2, <1>1 DEF McpIInv, QueueIsServed, TxRead
  <2> QED
    BY <2>3, <2>4, <2>5, <2>6, <2>7, <2>8, <2>9, <2>10, <2>11, <2>12, <2>13, <2>14, <2>15 DEF McpIInv
<1>2. CASE drv.skb # 0
  <2>1. /\ works' \in WorkLists /\ ~ Contains(works', "tx")
        /\ (Contains(works', "restart") <=> Contains(works, "restart")) /\ ~ Overtaken'
        /\ ~ Overtaken /\ works # <<>> /\ Head(works) = "tx"
    BY <1>2, WorkTaken, ListOfWorks, Zenon DEF tx_work_handler, McpIInv, Runs, McpTypeOK, Works
  <2>2. drv.skb # 0 /\ drv.state # "busoff" /\ netdev.up
    BY <1>2 DEF tx_work_handler, McpIInv, PhasesInOrder, BusOffHasFrame, Runs
  <2>3. /\ phase \in {"ready", "stopping"} /\ lock = "free"
        /\ chip' = [chip EXCEPT !.tx = drv.skb]
        /\ drv' = [put_echo_skb(drv, drv.skb) EXCEPT !.skb = 0, !.len = TRUE]
        /\ UNCHANGED <<netdev, lock, ist, edge, phase, timer, bus, up, used>>
    BY <1>2,  <2>2 DEF tx_work_handler, McpIInv, Runs
  <2>4. /\ chip'.mode = chip.mode /\ chip'.inte = chip.inte /\ chip'.intf = chip.intf
        /\ chip'.eflg = chip.eflg /\ chip'.tx = drv.skb /\ chip'.rx = chip.rx
        /\ chip' \in Chips
    BY <2>3, FrameNumbers, Zenon DEF McpIInv, McpTypeOK, Chips
  <2>5. /\ drv' \in Drivers
        /\ drv'.skb = 0 /\ drv'.len /\ drv'.echo = (IF drv.echo = 0 THEN drv.skb ELSE drv.echo)
        /\ drv'.state = drv.state /\ drv'.quit = drv.quit /\ drv'.after = drv.after
        /\ drv'.restart_tx = drv.restart_tx
    BY <2>3, FrameNumbers, Zenon DEF McpIInv, McpTypeOK, Drivers, put_echo_skb
  <2>6. McpTypeOK'
    <3>1. drv' \in Drivers
      BY <2>5
    <3>2. chip' \in Chips
      BY <2>4
    <3>3. works' \in WorkLists
      BY <2>1
    <3> QED
      BY <2>1, <2>2, <2>3, <2>4, <2>5, <3>1, <3>2, <3>3 DEF McpIInv, McpTypeOK
  <2>7. TxInOrder'
    <3>1. /\ Increasing(bus'.sent) /\ Increasing(up'.echoed) /\ ToSet(up'.echoed) \subseteq ToSet(bus'.sent)
          /\ drv'.skb <= used'.tx /\ chip'.tx <= used'.tx /\ (drv'.skb # 0 => chip'.tx < drv'.skb)
      <4>1. /\ chip.tx \in Nat /\ used.tx \in Nat /\ drv.skb \in Nat /\ chip.tx <= used.tx
            /\ drv.skb <= used.tx
        BY FrameNumbers DEF McpIInv, TxInOrder
      <4> QED
        BY <2>1, <2>2, <2>3, <2>4, <2>5, <4>1 DEF McpIInv, TxInOrder, ChipIsFree
    <3>2. \A i \in DOMAIN bus'.sent :
           /\ bus'.sent[i] <= used'.tx
           /\ drv'.skb # 0 => bus'.sent[i] < drv'.skb
           /\ chip'.tx # 0 => bus'.sent[i] < chip'.tx
      <4>1. \A i \in DOMAIN bus.sent : bus.sent[i] \in Nat /\ bus.sent[i] <= used.tx /\ used.tx \in Nat
        BY FrameNumbers DEF McpIInv, TxInOrder
      <4> QED
        BY <2>1, <2>2, <2>3, <2>4, <2>5, <4>1 DEF McpIInv, TxInOrder, ChipIsFree
    <3>3. drv'.len => drv'.skb = 0
      BY <2>1, <2>2, <2>3, <2>4, <2>5 DEF McpIInv, TxInOrder, ChipIsFree
    <3>4. drv'.echo # 0 =>
           /\ drv'.len
           /\ chip'.tx # 0 => drv'.echo = chip'.tx
           /\ \A i \in DOMAIN up'.echoed : up'.echoed[i] < drv'.echo
      <4>1. \A i \in DOMAIN up.echoed : \E k \in DOMAIN bus.sent : up.echoed[i] = bus.sent[k]
        BY DEF McpIInv, TxInOrder, ToSet
      <4>2. drv.echo # 0 => drv.skb = 0
        BY DEF McpIInv, TxInOrder
      <4> QED
        BY <2>1, <2>2, <2>3, <2>4, <2>5, <4>1, <4>2 DEF McpIInv, TxInOrder, ChipIsFree
    <3> QED
      BY <3>1, <3>2, <3>3, <3>4 DEF TxInOrder
  <2>8. RxOnce'
    BY <2>1, <2>2, <2>3, <2>4, <2>5, <1>2 DEF McpIInv, RxOnce
  <2>9. IstHasLock'
    BY <2>1, <2>2, <2>3, <2>4, <2>5, <1>2 DEF McpIInv, IstHasLock
  <2>10. TxFlagIsTrue'
    BY <2>1, <2>2, <2>3, <2>4, <2>5, <1>2 DEF McpIInv, TxFlagIsTrue, TxRead, ChipIsFree, Stale
  <2>11. ChipIsFree'
    BY <2>1, <2>2, <2>3, <2>4, <2>5, <1>2 DEF McpIInv, ChipIsFree, TxRead, Stale, RestartMeetsItsState
  <2>12. BusOffHasFrame'
    BY <2>1, <2>2, <2>3, <2>4, <2>5, <1>2 DEF McpIInv, BusOffHasFrame
  <2>13. PhasesInOrder'
    BY <2>1, <2>2, <2>3, <2>4, <2>5, <1>2 DEF McpIInv, PhasesInOrder
  <2>14. RestartIsQueued'
    BY <2>1, <2>2, <2>3, <2>4, <2>5, <1>2 DEF McpIInv, RestartIsQueued
  <2>15. RestartMeetsItsState'
    BY <2>1, <2>2, <2>3, <2>4, <2>5, <1>2 DEF McpIInv, RestartMeetsItsState, Stale, PhasesInOrder
  <2>16. FlagsAreServed'
    BY <2>1, <2>2, <2>3, <2>4, <2>5, <1>2 DEF McpIInv, FlagsAreServed
  <2>17. RunsOrRestarts'
    BY <2>1, <2>2, <2>3, <2>4, <2>5, <1>2 DEF McpIInv, RunsOrRestarts
  <2>18. QueueIsServed'
    BY <2>1, <2>2, <2>3, <2>4, <2>5, <1>2 DEF McpIInv, QueueIsServed, TxRead
  <2> QED
    BY <2>6, <2>7, <2>8, <2>9, <2>10, <2>11, <2>12, <2>13, <2>14, <2>15, <2>16, <2>17, <2>18 DEF McpIInv
<1> QED
  BY <1>1, <1>2 DEF tx_work_handler

LEMMA IstWakesKeeps == ASSUME McpIInv, IstWakes PROVE McpIInv'
<1>1. /\ edge /\ ist.at = "idle" /\ phase \in {"ready", "stopping"} /\ netdev.up
      /\ ~ edge' /\ edge' \in BOOLEAN /\ ist' \in ThreadStates
      /\ ist'.at = "woken" /\ ist'.intf = {}
      /\ UNCHANGED <<drv, netdev, chip, lock, works, phase, timer, bus, up, used>>
  BY Zenon DEF IstWakes, McpIInv, At, ThreadStates, McpTypeOK
<1>2. McpTypeOK'
  <2>1. ist' \in ThreadStates
    BY <1>1 DEF McpIInv, McpTypeOK, ThreadStates, Flags, Chips
  <2>2. edge' \in BOOLEAN
    BY <1>1 DEF McpIInv, McpTypeOK
  <2> QED
    BY <1>1, <2>1, <2>2 DEF McpIInv, McpTypeOK
<1>3. TxInOrder'
  BY <1>1 DEF McpIInv, TxInOrder
<1>4. RxOnce'
  BY <1>1 DEF McpIInv, RxOnce
<1>5. IstHasLock'
  BY <1>1 DEF McpIInv, IstHasLock
<1>6. TxFlagIsTrue'
  BY <1>1 DEF McpIInv, TxFlagIsTrue, TxRead
<1>7. ChipIsFree'
  BY <1>1 DEF McpIInv, ChipIsFree, TxRead, Stale, Overtaken
<1>8. BusOffHasFrame'
  BY <1>1 DEF McpIInv, BusOffHasFrame
<1>9. PhasesInOrder'
  BY <1>1 DEF McpIInv, PhasesInOrder
<1>10. RestartIsQueued'
  BY <1>1 DEF McpIInv, RestartIsQueued
<1>11. RestartMeetsItsState'
  BY <1>1 DEF McpIInv, RestartMeetsItsState, Stale, Overtaken
<1>12. FlagsAreServed'
  BY <1>1 DEF McpIInv, FlagsAreServed
<1>13. RunsOrRestarts'
  BY <1>1 DEF McpIInv, RunsOrRestarts
<1>14. QueueIsServed'
  BY <1>1 DEF McpIInv, QueueIsServed, TxRead
<1> QED
  BY <1>2, <1>3, <1>4, <1>5, <1>6, <1>7, <1>8, <1>9, <1>10, <1>11, <1>12, <1>13, <1>14 DEF McpIInv

LEMMA IstLocksKeeps == ASSUME McpIInv, IstLocks PROVE McpIInv'
<1>1. /\ ist.at = "woken" /\ lock = "free"
      /\ lock' = "ist" /\ ist'.at = "loop" /\ ist'.intf = {} /\ ist' \in ThreadStates
      /\ UNCHANGED <<drv, netdev, chip, edge, works, phase, timer, bus, up, used>>
  BY DEF IstLocks, McpIInv, At, ThreadStates, McpTypeOK
<1>2. McpTypeOK'
  <2>1. ist' \in ThreadStates
    BY <1>1 DEF McpIInv, McpTypeOK, ThreadStates, Flags, Chips
  <2>2. lock' \in {"free", "ist", "restart", "open"}
    BY <1>1 DEF McpIInv, McpTypeOK
  <2> QED
    BY <1>1, <2>1, <2>2 DEF McpIInv, McpTypeOK
<1>3. TxInOrder'
  BY <1>1 DEF McpIInv, TxInOrder
<1>4. RxOnce'
  BY <1>1 DEF McpIInv, RxOnce
<1>5. IstHasLock'
  BY <1>1 DEF McpIInv, IstHasLock
<1>6. TxFlagIsTrue'
  BY <1>1 DEF McpIInv, TxFlagIsTrue, TxRead, PhasesInOrder
<1>7. ChipIsFree'
  BY <1>1 DEF McpIInv, ChipIsFree, TxRead, Stale, PhasesInOrder, Overtaken
<1>8. BusOffHasFrame'
  BY <1>1 DEF McpIInv, BusOffHasFrame, PhasesInOrder
<1>9. PhasesInOrder'
  BY <1>1 DEF McpIInv, PhasesInOrder
<1>10. RestartIsQueued'
  BY <1>1 DEF McpIInv, RestartIsQueued, PhasesInOrder
<1>11. RestartMeetsItsState'
  BY <1>1 DEF McpIInv, RestartMeetsItsState, Stale, PhasesInOrder, Overtaken
<1>12. FlagsAreServed'
  BY <1>1 DEF McpIInv, FlagsAreServed, PhasesInOrder
<1>13. RunsOrRestarts'
  BY <1>1 DEF McpIInv, RunsOrRestarts, PhasesInOrder
<1>14. QueueIsServed'
  BY <1>1 DEF McpIInv, QueueIsServed, TxRead, PhasesInOrder
<1> QED
  BY <1>2, <1>3, <1>4, <1>5, <1>6, <1>7, <1>8, <1>9, <1>10, <1>11, <1>12, <1>13, <1>14 DEF McpIInv

LEMMA IstQuitsKeeps == ASSUME McpIInv, IstQuits PROVE McpIInv'
<1>1. /\ ist.at = "loop" /\ drv.quit
      /\ lock' = "free" /\ ist'.at = "idle" /\ ist'.intf = {} /\ ist' \in ThreadStates
      /\ UNCHANGED <<drv, netdev, chip, edge, works, phase, timer, bus, up, used>>
  BY DEF IstQuits, McpIInv, At, ThreadStates, McpTypeOK
<1>2. McpTypeOK'
  <2>1. ist' \in ThreadStates
    BY <1>1 DEF McpIInv, McpTypeOK, ThreadStates, Flags, Chips
  <2>2. lock' \in {"free", "ist", "restart", "open"}
    BY <1>1 DEF McpIInv, McpTypeOK
  <2> QED
    BY <1>1, <2>1, <2>2 DEF McpIInv, McpTypeOK
<1>3. TxInOrder'
  BY <1>1 DEF McpIInv, TxInOrder
<1>4. RxOnce'
  BY <1>1 DEF McpIInv, RxOnce
<1>5. IstHasLock'
  BY <1>1 DEF McpIInv, IstHasLock
<1>6. TxFlagIsTrue'
  BY <1>1 DEF McpIInv, TxFlagIsTrue, TxRead, PhasesInOrder, IstHasLock
<1>7. ChipIsFree'
  BY <1>1 DEF McpIInv, ChipIsFree, TxRead, Stale, PhasesInOrder, IstHasLock, Overtaken
<1>8. BusOffHasFrame'
  BY <1>1 DEF McpIInv, BusOffHasFrame, PhasesInOrder, IstHasLock
<1>9. PhasesInOrder'
  BY <1>1 DEF McpIInv, PhasesInOrder, IstHasLock
<1>10. RestartIsQueued'
  BY <1>1 DEF McpIInv, RestartIsQueued, PhasesInOrder, IstHasLock
<1>11. RestartMeetsItsState'
  BY <1>1 DEF McpIInv, RestartMeetsItsState, Stale, PhasesInOrder, IstHasLock, Overtaken
<1>12. FlagsAreServed'
  BY <1>1 DEF McpIInv, FlagsAreServed, PhasesInOrder, IstHasLock
<1>13. RunsOrRestarts'
  BY <1>1 DEF McpIInv, RunsOrRestarts, PhasesInOrder, IstHasLock
<1>14. QueueIsServed'
  BY <1>1 DEF McpIInv, QueueIsServed, TxRead, PhasesInOrder, IstHasLock
<1> QED
  BY <1>2, <1>3, <1>4, <1>5, <1>6, <1>7, <1>8, <1>9, <1>10, <1>11, <1>12, <1>13, <1>14 DEF McpIInv

\* A round of the interrupt thread: what is read, given up and cleared
LEMMA ReadEffects ==
    ASSUME McpIInv, IstReads
    PROVE  /\ ist.at = "loop" /\ ist' \in ThreadStates /\ ist'.at = "read" /\ ist'.intf = chip.intf
           /\ chip' \in Chips /\ chip'.mode = chip.mode /\ chip'.inte = chip.inte /\ chip'.eflg = chip.eflg
           /\ chip'.tx = chip.tx /\ chip'.intf \subseteq chip.intf /\ "TX" \notin chip'.intf
           /\ up' \in [echoed : Seq(Nat), received : Seq(Nat)] /\ up'.echoed = up.echoed
           /\ Fresh(chip', up'.received)
<1> DEFINE r0(dry) == IF "RX0" \in chip.intf \ dry THEN hw_rx(chip, 1, up.received)
                      ELSE [chip |-> chip, given |-> up.received]
           r1(dry) == IF "RX1" \in chip.intf \ dry THEN hw_rx(r0(dry).chip, 2, r0(dry).given) ELSE r0(dry)
           Good(r) == /\ r.chip \in Chips /\ r.given \in Seq(Nat) /\ Fresh(r.chip, r.given)
                      /\ r.chip.mode = chip.mode /\ r.chip.inte = chip.inte /\ r.chip.eflg = chip.eflg
                      /\ r.chip.tx = chip.tx /\ r.chip.intf \subseteq chip.intf
<1>1. PICK dry \in SUBSET {"RX0", "RX1"} :
        /\ ist' = [at |-> "read", intf |-> chip.intf]
        /\ up' = [up EXCEPT !.received = r1(dry).given]
        /\ chip' = [r1(dry).chip EXCEPT !.intf = @ \ (chip.intf \cap {"TX", "ERR"})]
  BY Zenon DEF IstReads
<1>2. ist.at = "loop" /\ chip \in Chips /\ up \in [echoed : Seq(Nat), received : Seq(Nat)]
  BY DEF IstReads, McpIInv, McpTypeOK
<1>3. Fresh(chip, up.received)
  BY DEF McpIInv, RxOnce, Fresh
<1>4. 1 \in 1 .. 2 /\ 2 \in 1 .. 2
  OBVIOUS
<1>5. Good(r0(dry))
  <2>1. CASE "RX0" \in chip.intf \ dry
    <3>1. r0(dry) = hw_rx(chip, 1, up.received)
      BY <2>1
    <3> QED
      BY <3>1, <1>2, <1>3, <1>4, BufferRead
  <2>2. CASE "RX0" \notin chip.intf \ dry
    BY <2>2, <1>2, <1>3
  <2> QED
    BY <2>1, <2>2
<1>6. Good(r1(dry))
  <2>1. CASE "RX1" \in chip.intf \ dry
    <3> DEFINE q == r0(dry)
    <3>1. r1(dry) = hw_rx(q.chip, 2, q.given) /\ Good(q)
      BY <2>1, <1>5
    <3> HIDE DEF q, r0, r1
    <3> QED
      BY <3>1, <1>4, BufferRead
  <2>2. CASE "RX1" \notin chip.intf \ dry
    BY <2>2, <1>5
  <2> QED
    BY <2>1, <2>2
<1> DEFINE r == r1(dry)
<1>7. /\ Good(r) /\ up' = [up EXCEPT !.received = r.given]
      /\ chip' = [r.chip EXCEPT !.intf = @ \ (chip.intf \cap {"TX", "ERR"})]
  BY <1>1, <1>6, Zenon
<1> HIDE DEF r, r0, r1
<1>8. /\ chip' \in Chips /\ chip'.mode = chip.mode /\ chip'.inte = chip.inte /\ chip'.eflg = chip.eflg
      /\ chip'.tx = chip.tx /\ chip'.intf \subseteq chip.intf /\ "TX" \notin chip'.intf /\ chip'.rx = r.chip.rx
  BY <1>2, <1>7, Zenon DEF Chips, Flags
<1>9. /\ up' \in [echoed : Seq(Nat), received : Seq(Nat)] /\ up'.echoed = up.echoed
      /\ up'.received = r.given
  BY <1>2, <1>7, Zenon
<1>10. Fresh(chip', up'.received)
  BY <1>7, <1>8, <1>9 DEF Fresh
<1>11. ist' \in ThreadStates /\ ist'.at = "read" /\ ist'.intf = chip.intf
  BY <1>1, <1>2 DEF ThreadStates, Chips
<1> QED
  BY <1>2, <1>8, <1>9, <1>10, <1>11

LEMMA IstReadsKeeps == ASSUME McpIInv, IstReads PROVE McpIInv'
<1>1. /\ ist.at = "loop" /\ ist' \in ThreadStates /\ ist'.at = "read"
      /\ ist'.intf = chip.intf
      /\ chip' \in Chips /\ chip'.mode = chip.mode /\ chip'.inte = chip.inte
      /\ chip'.eflg = chip.eflg
      /\ chip'.tx = chip.tx /\ chip'.intf \subseteq chip.intf /\ "TX" \notin chip'.intf
      /\ up' \in [echoed : Seq(Nat), received : Seq(Nat)] /\ up'.echoed = up.echoed
      /\ Fresh(chip', up'.received)
  BY ReadEffects
<1>2. lock = "ist" /\ netdev.up /\ (chip.eflg = "busoff" => chip.tx # 0)
  BY  <1>1, Zenon DEF IstReads, McpIInv, IstHasLock, PhasesInOrder, BusOffHasFrame
<1>3. /\ ~ drv.quit /\ drv' = [drv EXCEPT !.state = chip.eflg]
      /\ UNCHANGED <<netdev, lock, edge, works, phase, timer, bus, used>>
  BY DEF IstReads, McpIInv
<1>4. /\ drv' \in Drivers
      /\ drv'.skb = drv.skb /\ drv'.len = drv.len /\ drv'.echo = drv.echo
      /\ drv'.state = chip.eflg /\ drv'.quit = drv.quit /\ drv'.after = drv.after
      /\ drv'.restart_tx = drv.restart_tx
  BY <1>3, Zenon DEF McpIInv, McpTypeOK, Drivers, Chips, ErrorStates
<1>5. McpTypeOK'
  <2>1. drv' \in Drivers
    BY <1>1, <1>2, <1>3, <1>4, Zenon DEF McpIInv, McpTypeOK, Drivers, ErrorStates
  <2>2. chip' \in Chips
    BY <1>1, <1>2, <1>3, <1>4 DEF McpIInv, McpTypeOK, Chips, Flags, ErrorStates
  <2>3. ist' \in ThreadStates
    BY <1>1, <1>2, <1>3, <1>4 DEF McpIInv, McpTypeOK, ThreadStates, Flags, Chips
  <2>4. up' \in [echoed : Seq(Nat), received : Seq(Nat)]
    BY <1>1, <1>2, <1>3, <1>4 DEF McpIInv, McpTypeOK, Chips, Drivers
  <2> QED
    BY <1>1, <1>2, <1>3, <1>4, <2>1, <2>2, <2>3, <2>4 DEF McpIInv, McpTypeOK
<1>6. TxInOrder'
  BY <1>1, <1>2, <1>3, <1>4 DEF McpIInv, TxInOrder
<1>7. RxOnce'
  BY <1>1, <1>2, <1>3, <1>4 DEF McpIInv, RxOnce, Fresh
<1>8. IstHasLock'
  BY <1>1, <1>2, <1>3, <1>4 DEF McpIInv, IstHasLock
<1>9. TxFlagIsTrue'
  BY <1>1, <1>2, <1>3, <1>4 DEF McpIInv, TxFlagIsTrue, TxRead, TxInOrder
<1>10. ChipIsFree'
  BY <1>1, <1>2, <1>3, <1>4 DEF McpIInv, ChipIsFree, TxRead, Stale, Overtaken
<1>11. BusOffHasFrame'
  BY <1>1, <1>2, <1>3, <1>4 DEF McpIInv, BusOffHasFrame, ChipIsFree, TxRead, Stale, Overtaken
<1>12. PhasesInOrder'
  BY <1>1, <1>2, <1>3, <1>4 DEF McpIInv, PhasesInOrder
<1>13. RestartIsQueued'
  BY <1>1, <1>2, <1>3, <1>4 DEF McpIInv, RestartIsQueued
<1>14. RestartMeetsItsState'
  BY <1>1, <1>2, <1>3, <1>4 DEF McpIInv, RestartMeetsItsState, Stale, ChipIsFree, TxRead, Overtaken
<1>15. FlagsAreServed'
  BY <1>1, <1>2, <1>3, <1>4 DEF McpIInv, FlagsAreServed
<1>16. RunsOrRestarts'
  BY <1>1, <1>2, <1>3, <1>4 DEF McpIInv, RunsOrRestarts
<1>17. QueueIsServed'
  BY <1>1, <1>2, <1>3, <1>4 DEF McpIInv, QueueIsServed, TxRead
<1> QED
  BY <1>5, <1>6, <1>7, <1>8, <1>9, <1>10, <1>11, <1>12, <1>13, <1>14, <1>15, <1>16, <1>17 DEF McpIInv

LEMMA IstActsKeeps == ASSUME McpIInv, IstActs PROVE McpIInv'
<1>1. CASE drv.state = "busoff" /\ ~ netdev.restart_ms
  <2>1. ist.at = "read" /\ lock = "ist" /\ netdev.up /\ drv.state = "busoff"
    BY <1>1 DEF IstActs, McpIInv, IstHasLock, PhasesInOrder
  <2>2. /\ chip' = hw_sleep(chip) /\ drv' = [drv EXCEPT !.quit = TRUE]
        /\ netdev' = [netdev EXCEPT !.carrier = FALSE]
        /\ lock' = "free" /\ ist' = At("idle")
        /\ UNCHANGED <<edge, works, phase, timer, bus, up, used>>
    BY <1>1 DEF IstActs, McpIInv, bus_off
  <2>3. /\ chip' \in Chips
        /\ chip'.mode = "sleep" /\ chip'.inte = chip.inte /\ chip'.intf = chip.intf
        /\ chip'.eflg = chip.eflg /\ chip'.tx = chip.tx /\ chip'.rx = chip.rx
    BY <2>2, Zenon DEF McpIInv, McpTypeOK, Chips, hw_sleep
  <2>4. /\ drv' \in Drivers
        /\ drv'.skb = drv.skb /\ drv'.len = drv.len /\ drv'.echo = drv.echo
        /\ drv'.state = drv.state /\ drv'.quit /\ drv'.after = drv.after
        /\ drv'.restart_tx = drv.restart_tx
    BY <2>2, Zenon DEF McpIInv, McpTypeOK, Drivers
  <2>5. /\ netdev' \in Netdevs
        /\ netdev'.up = netdev.up /\ netdev'.awake = netdev.awake
        /\ netdev'.attached = netdev.attached /\ ~ netdev'.carrier
        /\ netdev'.restart_ms = netdev.restart_ms /\ netdev'.power = netdev.power
    BY <2>2, Zenon DEF McpIInv, McpTypeOK, Netdevs
  <2>6. ist' \in ThreadStates /\ ist'.at = "idle" /\ ist'.intf = {}
    BY <2>2 DEF At, ThreadStates
  <2>7. McpTypeOK'
    <3>1. drv' \in Drivers
      BY <2>1, <2>2, <2>3, <2>4, <2>5, <2>6, <1>1, Zenon DEF McpIInv, McpTypeOK, Drivers, ErrorStates
    <3>2. netdev' \in Netdevs
      BY <2>1, <2>2, <2>3, <2>4, <2>5, <2>6, <1>1 DEF McpIInv, McpTypeOK, Netdevs
    <3>3. chip' \in Chips
      BY <2>1, <2>2, <2>3, <2>4, <2>5, <2>6, <1>1 DEF McpIInv, McpTypeOK, Chips, Flags, ErrorStates
    <3>4. ist' \in ThreadStates
      BY <2>1, <2>2, <2>3, <2>4, <2>5, <2>6, <1>1 DEF McpIInv, McpTypeOK, ThreadStates, Flags, Chips
    <3>5. lock' \in {"free", "ist", "restart", "open"}
      BY <2>1, <2>2, <2>3, <2>4, <2>5, <2>6, <1>1 DEF McpIInv, McpTypeOK
    <3> QED
      BY <2>1, <2>2, <2>3, <2>4, <2>5, <2>6, <3>1, <3>2, <3>3, <3>4, <3>5 DEF McpIInv, McpTypeOK
  <2>8. TxInOrder'
    BY <2>1, <2>2, <2>3, <2>4, <2>5, <2>6, <1>1 DEF McpIInv, TxInOrder
  <2>9. RxOnce'
    BY <2>1, <2>2, <2>3, <2>4, <2>5, <2>6, <1>1 DEF McpIInv, RxOnce
  <2>10. IstHasLock'
    BY <2>1, <2>2, <2>3, <2>4, <2>5, <2>6, <1>1 DEF McpIInv, IstHasLock
  <2>11. TxFlagIsTrue'
    BY <2>1, <2>2, <2>3, <2>4, <2>5, <2>6, <1>1 DEF McpIInv, TxFlagIsTrue, TxRead
  <2>12. ChipIsFree'
    BY <2>1, <2>2, <2>3, <2>4, <2>5, <2>6, <1>1 DEF McpIInv, ChipIsFree, TxRead, Stale, Overtaken
  <2>13. BusOffHasFrame'
    BY <2>1, <2>2, <2>3, <2>4, <2>5, <2>6, <1>1 DEF McpIInv, BusOffHasFrame
  <2>14. PhasesInOrder'
    BY <2>1, <2>2, <2>3, <2>4, <2>5, <2>6, <1>1 DEF McpIInv, PhasesInOrder
  <2>15. RestartIsQueued'
    BY <2>1, <2>2, <2>3, <2>4, <2>5, <2>6, <1>1 DEF McpIInv, RestartIsQueued
  <2>16. RestartMeetsItsState'
    BY <2>1, <2>2, <2>3, <2>4, <2>5, <2>6, <1>1 DEF McpIInv, RestartMeetsItsState, Stale, Overtaken
  <2>17. FlagsAreServed'
    BY <2>1, <2>2, <2>3, <2>4, <2>5, <2>6, <1>1 DEF McpIInv, FlagsAreServed
  <2>18. RunsOrRestarts'
    BY <2>1, <2>2, <2>3, <2>4, <2>5, <2>6, <1>1 DEF McpIInv, RunsOrRestarts
  <2>19. QueueIsServed'
    BY <2>1, <2>2, <2>3, <2>4, <2>5, <2>6, <1>1 DEF McpIInv, QueueIsServed, TxRead
  <2> QED
    BY <2>7, <2>8, <2>9, <2>10, <2>11, <2>12, <2>13, <2>14, <2>15, <2>16, <2>17, <2>18, <2>19
       DEF McpIInv
<1>2. CASE ~ (drv.state = "busoff" /\ ~ netdev.restart_ms) /\ "TX" \in ist.intf
  <2>1. ist.at = "read" /\ lock = "ist" /\ netdev.up /\ TxRead
    BY <1>2 DEF IstActs, McpIInv, IstHasLock, PhasesInOrder, TxRead
  <2>2. chip.tx = 0 /\ "TX" \notin chip.intf /\ drv.state # "busoff" /\ drv.skb = 0
    BY <1>2,  <2>1 DEF IstActs, McpIInv, TxFlagIsTrue, ChipIsFree
  <2>3. /\ up' = [up EXCEPT !.echoed = IF drv.len /\ drv.echo # 0 THEN Append(@, drv.echo) ELSE @]
        /\ drv' = [drv EXCEPT !.len = FALSE, !.echo = IF drv.len THEN 0 ELSE @]
        /\ netdev' = [netdev EXCEPT !.awake = TRUE]
        /\ ist' = At("loop")
        /\ UNCHANGED <<chip, lock, edge, works, phase, timer, bus, used>>
    BY <1>2 DEF IstActs, McpIInv, tx_done
  <2>4. /\ drv' \in Drivers
        /\ drv'.skb = drv.skb /\ ~ drv'.len /\ drv'.echo = 0 /\ drv'.state = drv.state
        /\ drv'.quit = drv.quit /\ drv'.after = drv.after /\ drv'.restart_tx = drv.restart_tx
    BY <2>3, Zenon DEF McpIInv, TxInOrder, McpTypeOK, Drivers
  <2>5. /\ netdev' \in Netdevs
        /\ netdev'.up = netdev.up /\ netdev'.awake /\ netdev'.attached = netdev.attached
        /\ netdev'.carrier = netdev.carrier /\ netdev'.restart_ms = netdev.restart_ms
        /\ netdev'.power = netdev.power
    BY <2>3, Zenon DEF McpIInv, McpTypeOK, Netdevs
  <2>6. ist' \in ThreadStates /\ ist'.at = "loop" /\ ist'.intf = {}
    BY <2>3 DEF At, ThreadStates
  <2>7. up'.received = up.received
    BY <2>3 DEF McpIInv, McpTypeOK
  <2>8. drv.echo # 0 => drv.echo \in ToSet(bus.sent)
    BY <1>2,  <2>1 DEF IstActs, McpIInv, TxFlagIsTrue
  <2>9. /\ up' \in [echoed : Seq(Nat), received : Seq(Nat)] /\ Increasing(up'.echoed)
        /\ ToSet(up'.echoed) \subseteq ToSet(bus.sent)
    BY <2>3, <2>2, <2>8, EchoGiven DEF McpIInv
  <2>10. McpTypeOK'
    <3>1. drv' \in Drivers
      BY <2>1, <2>2, <2>3, <2>4, <2>5, <2>6, <2>7, <2>8, <2>9, <1>2 DEF McpIInv, McpTypeOK, Drivers,
         ErrorStates
    <3>2. netdev' \in Netdevs
      BY <2>1, <2>2, <2>3, <2>4, <2>5, <2>6, <2>7, <2>8, <2>9, <1>2 DEF McpIInv, McpTypeOK, Netdevs
    <3>3. ist' \in ThreadStates
      BY <2>1, <2>2, <2>3, <2>4, <2>5, <2>6, <2>7, <2>8, <2>9, <1>2 DEF McpIInv, McpTypeOK,
         ThreadStates, Flags, Chips
    <3>4. up' \in [echoed : Seq(Nat), received : Seq(Nat)]
      BY <2>9
    <3> QED
      BY <2>1, <2>2, <2>3, <2>4, <2>5, <2>6, <2>7, <2>8, <2>9, <3>1, <3>2, <3>3, <3>4 DEF McpIInv,
         McpTypeOK
  <2>11. TxInOrder'
    BY <2>1, <2>2, <2>3, <2>4, <2>5, <2>6, <2>7, <2>8, <2>9, <1>2 DEF McpIInv, TxInOrder
  <2>12. RxOnce'
    BY <2>1, <2>2, <2>3, <2>4, <2>5, <2>6, <2>7, <2>8, <2>9, <1>2 DEF McpIInv, RxOnce
  <2>13. IstHasLock'
    BY <2>1, <2>2, <2>3, <2>4, <2>5, <2>6, <2>7, <2>8, <2>9, <1>2 DEF McpIInv, IstHasLock
  <2>14. TxFlagIsTrue'
    BY <2>1, <2>2, <2>3, <2>4, <2>5, <2>6, <2>7, <2>8, <2>9, <1>2 DEF McpIInv, TxFlagIsTrue, TxRead
  <2>15. ChipIsFree'
    BY <2>1, <2>2, <2>3, <2>4, <2>5, <2>6, <2>7, <2>8, <2>9, <1>2 DEF McpIInv, ChipIsFree, TxRead,
       Stale, Overtaken
  <2>16. BusOffHasFrame'
    BY <2>1, <2>2, <2>3, <2>4, <2>5, <2>6, <2>7, <2>8, <2>9, <1>2 DEF McpIInv, BusOffHasFrame
  <2>17. PhasesInOrder'
    BY <2>1, <2>2, <2>3, <2>4, <2>5, <2>6, <2>7, <2>8, <2>9, <1>2 DEF McpIInv, PhasesInOrder
  <2>18. RestartIsQueued'
    BY <2>1, <2>2, <2>3, <2>4, <2>5, <2>6, <2>7, <2>8, <2>9, <1>2 DEF McpIInv, RestartIsQueued
  <2>19. RestartMeetsItsState'
    BY <2>1, <2>2, <2>3, <2>4, <2>5, <2>6, <2>7, <2>8, <2>9, <1>2 DEF McpIInv, RestartMeetsItsState,
       Stale, Overtaken
  <2>20. FlagsAreServed'
    BY <2>1, <2>2, <2>3, <2>4, <2>5, <2>6, <2>7, <2>8, <2>9, <1>2 DEF McpIInv, FlagsAreServed
  <2>21. RunsOrRestarts'
    BY <2>1, <2>2, <2>3, <2>4, <2>5, <2>6, <2>7, <2>8, <2>9, <1>2 DEF McpIInv, RunsOrRestarts
  <2>22. QueueIsServed'
    BY <2>1, <2>2, <2>3, <2>4, <2>5, <2>6, <2>7, <2>8, <2>9, <1>2 DEF McpIInv, QueueIsServed, TxRead
  <2> QED
    BY <2>10, <2>11, <2>12, <2>13, <2>14, <2>15, <2>16, <2>17, <2>18, <2>19, <2>20, <2>21, <2>22
       DEF McpIInv
<1>3. CASE ~ (drv.state = "busoff" /\ ~ netdev.restart_ms) /\ "TX" \notin ist.intf
  <2>1. ist.at = "read" /\ lock = "ist" /\ netdev.up /\ ~ TxRead
    BY <1>3 DEF IstActs, McpIInv, IstHasLock, PhasesInOrder, TxRead
  <2>2. /\ ist' \in ThreadStates /\ (ist.intf = {} => lock' = "free" /\ ist'.at = "idle")
        /\ ist.intf # {} => lock' = lock /\ ist'.at = "loop"
        /\ ist'.intf = {}
        /\ UNCHANGED <<drv, netdev, chip, edge, works, phase, timer, bus, up, used>>
    BY <1>3 DEF IstActs, McpIInv, At, ThreadStates
  <2>3. McpTypeOK'
    <3>1. ist' \in ThreadStates
      BY <2>1, <2>2, <1>3 DEF McpIInv, McpTypeOK, ThreadStates, Flags, Chips
    <3>2. lock' \in {"free", "ist", "restart", "open"}
      BY <2>1, <2>2
    <3> QED
      BY <2>1, <2>2, <3>1, <3>2 DEF McpIInv, McpTypeOK
  <2>4. TxInOrder'
    BY <2>1, <2>2, <1>3 DEF McpIInv, TxInOrder
  <2>5. RxOnce'
    BY <2>1, <2>2, <1>3 DEF McpIInv, RxOnce
  <2>6. IstHasLock'
    BY <2>1, <2>2, <1>3 DEF McpIInv, IstHasLock
  <2>7. TxFlagIsTrue'
    BY <2>1, <2>2, <1>3 DEF McpIInv, TxFlagIsTrue, TxRead
  <2>8. ChipIsFree'
    BY <2>1, <2>2, <1>3 DEF McpIInv, ChipIsFree, TxRead, Stale, Overtaken
  <2>9. BusOffHasFrame'
    BY <2>1, <2>2, <1>3 DEF McpIInv, BusOffHasFrame
  <2>10. PhasesInOrder'
    BY <2>1, <2>2, <1>3 DEF McpIInv, PhasesInOrder
  <2>11. RestartIsQueued'
    BY <2>1, <2>2, <1>3 DEF McpIInv, RestartIsQueued
  <2>12. RestartMeetsItsState'
    BY <2>1, <2>2, <1>3 DEF McpIInv, RestartMeetsItsState, Stale, Overtaken
  <2>13. FlagsAreServed'
    BY <2>1, <2>2, <1>3 DEF McpIInv, FlagsAreServed
  <2>14. RunsOrRestarts'
    BY <2>1, <2>2, <1>3 DEF McpIInv, RunsOrRestarts
  <2>15. QueueIsServed'
    BY <2>1, <2>2, <1>3 DEF McpIInv, QueueIsServed, TxRead
  <2> QED
    BY <2>3, <2>4, <2>5, <2>6, <2>7, <2>8, <2>9, <2>10, <2>11, <2>12, <2>13, <2>14, <2>15 DEF McpIInv
<1> QED
  BY <1>1, <1>2, <1>3 DEF IstActs

LEMMA can_restart_nowKeeps == ASSUME McpIInv, can_restart_now PROVE McpIInv'
<1>1. /\ phase = "ready" /\ netdev.up /\ drv.state = "busoff" /\ timer'
      /\ timer' \in BOOLEAN
      /\ UNCHANGED <<drv, netdev, chip, lock, ist, edge, works, phase, bus, up, used>>
  BY DEF can_restart_now, McpIInv
<1>2. McpTypeOK'
  <2>1. timer' \in BOOLEAN
    BY <1>1 DEF McpIInv, McpTypeOK
  <2> QED
    BY <1>1, <2>1 DEF McpIInv, McpTypeOK
<1>3. TxInOrder'
  BY <1>1 DEF McpIInv, TxInOrder
<1>4. RxOnce'
  BY <1>1 DEF McpIInv, RxOnce
<1>5. IstHasLock'
  BY <1>1 DEF McpIInv, IstHasLock
<1>6. TxFlagIsTrue'
  BY <1>1 DEF McpIInv, TxFlagIsTrue, TxRead
<1>7. ChipIsFree'
  BY <1>1 DEF McpIInv, ChipIsFree, TxRead, Stale, Overtaken
<1>8. BusOffHasFrame'
  BY <1>1 DEF McpIInv, BusOffHasFrame
<1>9. PhasesInOrder'
  BY <1>1 DEF McpIInv, PhasesInOrder
<1>10. RestartIsQueued'
  BY <1>1 DEF McpIInv, RestartIsQueued
<1>11. RestartMeetsItsState'
  BY <1>1 DEF McpIInv, RestartMeetsItsState, Stale, Overtaken
<1>12. FlagsAreServed'
  BY <1>1 DEF McpIInv, FlagsAreServed
<1>13. RunsOrRestarts'
  BY <1>1 DEF McpIInv, RunsOrRestarts
<1>14. QueueIsServed'
  BY <1>1 DEF McpIInv, QueueIsServed, TxRead
<1> QED
  BY <1>2, <1>3, <1>4, <1>5, <1>6, <1>7, <1>8, <1>9, <1>10, <1>11, <1>12, <1>13, <1>14 DEF McpIInv

LEMMA can_restartKeeps == ASSUME McpIInv, can_restart PROVE McpIInv'
<1>1. CASE netdev.carrier
  <2>1. /\ timer /\ ~ timer' /\ timer' \in BOOLEAN /\ phase' = "oops"
        /\ UNCHANGED <<drv, netdev, chip, lock, ist, edge, works, bus, up, used>>
    BY <1>1, Zenon DEF can_restart, McpIInv
  <2>2. McpTypeOK'
    <3>1. phase' \in {"gone", "ready", "stopping", "asleep", "oops"}
      BY <2>1, <1>1 DEF McpIInv, McpTypeOK
    <3>2. timer' \in BOOLEAN
      BY <2>1, <1>1 DEF McpIInv, McpTypeOK
    <3> QED
      BY <2>1, <3>1, <3>2 DEF McpIInv, McpTypeOK
  <2>3. TxInOrder'
    BY <2>1, <1>1 DEF McpIInv, TxInOrder
  <2>4. RxOnce'
    BY <2>1, <1>1 DEF McpIInv, RxOnce
  <2>5. IstHasLock'
    BY <2>1, <1>1 DEF McpIInv, IstHasLock
  <2>6. TxFlagIsTrue'
    BY <2>1, <1>1 DEF McpIInv, TxFlagIsTrue, TxRead
  <2>7. ChipIsFree'
    BY <2>1, <1>1 DEF McpIInv, ChipIsFree, TxRead, Stale, Overtaken
  <2>8. BusOffHasFrame'
    BY <2>1, <1>1 DEF McpIInv, BusOffHasFrame
  <2>9. PhasesInOrder'
    BY <2>1, <1>1 DEF McpIInv, PhasesInOrder
  <2>10. RestartIsQueued'
    BY <2>1, <1>1 DEF McpIInv, RestartIsQueued
  <2>11. RestartMeetsItsState'
    BY <2>1, <1>1 DEF McpIInv, RestartMeetsItsState, Stale, Overtaken
  <2>12. FlagsAreServed'
    BY <2>1, <1>1 DEF McpIInv, FlagsAreServed
  <2>13. RunsOrRestarts'
    BY <2>1, <1>1 DEF McpIInv, RunsOrRestarts
  <2>14. QueueIsServed'
    BY <2>1, <1>1 DEF McpIInv, QueueIsServed, TxRead
  <2> QED
    BY <2>2, <2>3, <2>4, <2>5, <2>6, <2>7, <2>8, <2>9, <2>10, <2>11, <2>12, <2>13, <2>14 DEF McpIInv
<1>2. CASE ~ netdev.carrier
  <2>1. /\ works' \in WorkLists /\ works' # <<>> /\ Contains(works', "restart")
        /\ (Contains(works', "tx") <=> Contains(works, "tx"))
        /\ (works # <<>> => Head(works') = Head(works))
        /\ (works = <<>> => Head(works') = "restart") /\ (Overtaken' => Overtaken)
        /\ Overtaken => works # <<>>
    BY <1>2, WorkQueued, ListOfWorks DEF can_restart, McpIInv, McpTypeOK, Works
  <2>2. /\ timer /\ ~ timer' /\ timer' \in BOOLEAN /\ phase \in {"ready", "stopping"}
        /\ ~ netdev.carrier
        /\ drv' = [clean(flush_echo_skb(drv)) EXCEPT !.state = "active", !.restart_tx = TRUE, !.after = {"restart"}]
        /\ netdev' = [netdev EXCEPT !.carrier = TRUE]
        /\ UNCHANGED <<chip, lock, ist, edge, phase, bus, up, used>>
    BY <1>2, Zenon DEF can_restart, McpIInv
  <2>3. lock # "open" /\ netdev.up /\ phase = "ready"
    BY <1>2,  <2>2 DEF can_restart, McpIInv, PhasesInOrder
  <2>4. /\ drv' \in Drivers
        /\ drv'.skb = 0 /\ ~ drv'.len /\ drv'.echo = 0 /\ drv'.state = "active"
        /\ drv'.quit = drv.quit /\ drv'.after = {"restart"} /\ drv'.restart_tx
    BY <2>2, Zenon DEF McpIInv, McpTypeOK, Drivers, ErrorStates, clean, flush_echo_skb
  <2>5. /\ netdev' \in Netdevs
        /\ netdev'.up = netdev.up /\ netdev'.awake = netdev.awake
        /\ netdev'.attached = netdev.attached /\ netdev'.carrier
        /\ netdev'.restart_ms = netdev.restart_ms /\ netdev'.power = netdev.power
    BY <2>2, Zenon DEF McpIInv, McpTypeOK, Netdevs
  <2>6. McpTypeOK'
    <3>1. drv' \in Drivers
      BY <2>1, <2>2, <2>3, <2>4, <2>5, <1>2 DEF McpIInv, McpTypeOK, Drivers, ErrorStates
    <3>2. netdev' \in Netdevs
      BY <2>1, <2>2, <2>3, <2>4, <2>5, <1>2 DEF McpIInv, McpTypeOK, Netdevs
    <3>3. works' \in WorkLists
      BY <2>1
    <3>4. timer' \in BOOLEAN
      BY <2>2
    <3> QED
      BY <2>1, <2>2, <2>3, <2>4, <2>5, <3>1, <3>2, <3>3, <3>4 DEF McpIInv, McpTypeOK
  <2>7. TxInOrder'
    BY <2>1, <2>2, <2>3, <2>4, <2>5, <1>2, OrderStays DEF McpIInv
  <2>8. RxOnce'
    BY <2>1, <2>2, <2>3, <2>4, <2>5, <1>2 DEF McpIInv, RxOnce
  <2>9. IstHasLock'
    BY <2>1, <2>2, <2>3, <2>4, <2>5, <1>2 DEF McpIInv, IstHasLock
  <2>10. TxFlagIsTrue'
    BY <2>1, <2>2, <2>3, <2>4, <2>5, <1>2 DEF McpIInv, TxFlagIsTrue, TxRead
  <2>11. ChipIsFree'
    BY <2>1, <2>2, <2>3, <2>4, <2>5, <1>2 DEF McpIInv, ChipIsFree, TxRead, Stale
  <2>12. BusOffHasFrame'
    BY <2>1, <2>2, <2>3, <2>4, <2>5, <1>2 DEF McpIInv, BusOffHasFrame
  <2>13. PhasesInOrder'
    BY <2>1, <2>2, <2>3, <2>4, <2>5, <1>2 DEF McpIInv, PhasesInOrder
  <2>14. RestartIsQueued'
    BY <2>1, <2>2, <2>3, <2>4, <2>5, <1>2 DEF McpIInv, RestartIsQueued
  <2>15. RestartMeetsItsState'
    BY <2>1, <2>2, <2>3, <2>4, <2>5, <1>2 DEF McpIInv, RestartMeetsItsState, Stale
  <2>16. FlagsAreServed'
    BY <2>1, <2>2, <2>3, <2>4, <2>5, <1>2 DEF McpIInv, FlagsAreServed
  <2>17. RunsOrRestarts'
    BY <2>1, <2>2, <2>3, <2>4, <2>5, <1>2 DEF McpIInv, RunsOrRestarts
  <2>18. QueueIsServed'
    BY <2>1, <2>2, <2>3, <2>4, <2>5, <1>2 DEF McpIInv, QueueIsServed, TxRead
  <2> QED
    BY <2>6, <2>7, <2>8, <2>9, <2>10, <2>11, <2>12, <2>13, <2>14, <2>15, <2>16, <2>17, <2>18 DEF McpIInv
<1> QED
  BY <1>1, <1>2 DEF can_restart

LEMMA restart_work_beginsKeeps == ASSUME McpIInv, restart_work_begins PROVE McpIInv'
<1>1. CASE drv.after = {}
  <2>1. /\ works' \in WorkLists /\ works # <<>> /\ ~ Contains(works', "restart")
        /\ (Contains(works', "tx") <=> Contains(works, "tx")) /\ ~ Overtaken'
        /\ Contains(works, "restart") /\ (works' # <<>> => Overtaken)
    BY <1>1, WorkTaken, ListOfWorks, Zenon DEF restart_work_begins, McpIInv, Runs, McpTypeOK, Works
  <2>2. /\ phase \in {"ready", "stopping"} /\ lock = "free" /\ lock' = "restart" /\ netdev.up
        /\ ist.at \notin {"loop", "read"}
    BY <1>1,  <2>1 DEF restart_work_begins, McpIInv, Runs, PhasesInOrder, IstHasLock
  <2>3. UNCHANGED <<drv, netdev, chip, ist, edge, phase, timer, bus, up, used>>
    BY <1>1 DEF restart_work_begins, McpIInv
  <2>4. McpTypeOK'
    <3>1. works' \in WorkLists
      BY <2>1
    <3>2. lock' \in {"free", "ist", "restart", "open"}
      BY <2>1, <2>2, <2>3, <1>1 DEF McpIInv, McpTypeOK
    <3> QED
      BY <2>1, <2>2, <2>3, <3>1, <3>2 DEF McpIInv, McpTypeOK
  <2>5. TxInOrder'
    BY <2>1, <2>2, <2>3, <1>1 DEF McpIInv, TxInOrder
  <2>6. RxOnce'
    BY <2>1, <2>2, <2>3, <1>1 DEF McpIInv, RxOnce
  <2>7. IstHasLock'
    BY <2>1, <2>2, <2>3, <1>1 DEF McpIInv, IstHasLock
  <2>8. TxFlagIsTrue'
    BY <2>1, <2>2, <2>3, <1>1 DEF McpIInv, TxFlagIsTrue, TxRead
  <2>9. ChipIsFree'
    BY <2>1, <2>2, <2>3, <1>1 DEF McpIInv, ChipIsFree, TxRead, Stale, RestartMeetsItsState
  <2>10. BusOffHasFrame'
    BY <2>1, <2>2, <2>3, <1>1 DEF McpIInv, BusOffHasFrame, RestartMeetsItsState, Stale
  <2>11. PhasesInOrder'
    BY <2>1, <2>2, <2>3, <1>1 DEF McpIInv, PhasesInOrder
  <2>12. RestartIsQueued'
    BY <2>1, <2>2, <2>3, <1>1 DEF McpIInv, RestartIsQueued
  <2>13. RestartMeetsItsState'
    BY <2>1, <2>2, <2>3, <1>1 DEF McpIInv, RestartMeetsItsState, Stale
  <2>14. FlagsAreServed'
    BY <2>1, <2>2, <2>3, <1>1 DEF McpIInv, FlagsAreServed
  <2>15. RunsOrRestarts'
    BY <2>1, <2>2, <2>3, <1>1 DEF McpIInv, RunsOrRestarts
  <2>16. QueueIsServed'
    BY <2>1, <2>2, <2>3, <1>1 DEF McpIInv, QueueIsServed, TxRead
  <2> QED
    BY <2>4, <2>5, <2>6, <2>7, <2>8, <2>9, <2>10, <2>11, <2>12, <2>13, <2>14, <2>15, <2>16 DEF McpIInv
<1>2. CASE drv.after # {}
  <2>1. /\ works' \in WorkLists /\ works # <<>> /\ ~ Contains(works', "restart")
        /\ (Contains(works', "tx") <=> Contains(works, "tx")) /\ ~ Overtaken'
        /\ Contains(works, "restart") /\ (works' # <<>> => Overtaken)
    BY <1>2, WorkTaken, ListOfWorks, Zenon DEF restart_work_begins, McpIInv, Runs, McpTypeOK, Works
  <2>2. /\ phase \in {"ready", "stopping"} /\ lock = "free" /\ lock' = "restart" /\ netdev.up
        /\ ist.at \notin {"loop", "read"}
    BY <1>2,  <2>1 DEF restart_work_begins, McpIInv, Runs, PhasesInOrder, IstHasLock
  <2>3. /\ chip' = hw_reset(chip)
        /\ netdev' = netdev \/ netdev' = [netdev EXCEPT !.attached = TRUE, !.awake = TRUE]
        /\ UNCHANGED <<drv, ist, edge, phase, timer, bus, up, used>>
    BY <1>2 DEF restart_work_begins, McpIInv
  <2>4. /\ chip' \in Chips
        /\ chip'.mode = "conf" /\ ~ chip'.inte /\ chip'.intf = {} /\ chip'.eflg = "active"
        /\ chip'.tx = 0
        /\ chip'.rx[1] = 0 /\ chip'.rx[2] = 0
    BY <2>3, ResetChip
  <2>5. /\ netdev' \in Netdevs
        /\ netdev'.up = netdev.up /\ netdev'.carrier = netdev.carrier
        /\ netdev'.restart_ms = netdev.restart_ms /\ netdev'.power = netdev.power
        /\ netdev.attached => netdev'.attached
    BY <2>3, Zenon DEF McpIInv, McpTypeOK, Netdevs
  <2>6. McpTypeOK'
    <3>1. netdev' \in Netdevs
      BY <2>1, <2>2, <2>3, <2>4, <2>5, <1>2 DEF McpIInv, McpTypeOK, Netdevs
    <3>2. chip' \in Chips
      BY <2>4
    <3>3. works' \in WorkLists
      BY <2>1
    <3>4. lock' \in {"free", "ist", "restart", "open"}
      BY <2>1, <2>2, <2>3, <2>4, <2>5, <1>2 DEF McpIInv, McpTypeOK
    <3> QED
      BY <2>1, <2>2, <2>3, <2>4, <2>5, <3>1, <3>2, <3>3, <3>4 DEF McpIInv, McpTypeOK
  <2>7. TxInOrder'
    BY <2>1, <2>2, <2>3, <2>4, <2>5, <1>2, OrderStays DEF McpIInv
  <2>8. RxOnce'
    BY <2>1, <2>2, <2>3, <2>4, <2>5, <1>2 DEF McpIInv, RxOnce
  <2>9. IstHasLock'
    BY <2>1, <2>2, <2>3, <2>4, <2>5, <1>2 DEF McpIInv, IstHasLock
  <2>10. TxFlagIsTrue'
    BY <2>1, <2>2, <2>3, <2>4, <2>5, <1>2 DEF McpIInv, TxFlagIsTrue, TxRead
  <2>11. ChipIsFree'
    BY <2>1, <2>2, <2>3, <2>4, <2>5, <1>2 DEF McpIInv, ChipIsFree, TxRead, Stale
  <2>12. BusOffHasFrame'
    BY <2>1, <2>2, <2>3, <2>4, <2>5, <1>2 DEF McpIInv, BusOffHasFrame
  <2>13. PhasesInOrder'
    BY <2>1, <2>2, <2>3, <2>4, <2>5, <1>2 DEF McpIInv, PhasesInOrder
  <2>14. RestartIsQueued'
    BY <2>1, <2>2, <2>3, <2>4, <2>5, <1>2 DEF McpIInv, RestartIsQueued
  <2>15. RestartMeetsItsState'
    BY <2>1, <2>2, <2>3, <2>4, <2>5, <1>2 DEF McpIInv, RestartMeetsItsState, Stale
  <2>16. FlagsAreServed'
    BY <2>1, <2>2, <2>3, <2>4, <2>5, <1>2 DEF McpIInv, FlagsAreServed
  <2>17. RunsOrRestarts'
    BY <2>1, <2>2, <2>3, <2>4, <2>5, <1>2 DEF McpIInv, RunsOrRestarts
  <2>18. QueueIsServed'
    BY <2>1, <2>2, <2>3, <2>4, <2>5, <1>2 DEF McpIInv, QueueIsServed, TxRead
  <2> QED
    BY <2>6, <2>7, <2>8, <2>9, <2>10, <2>11, <2>12, <2>13, <2>14, <2>15, <2>16, <2>17, <2>18 DEF McpIInv
<1> QED
  BY <1>1, <1>2 DEF restart_work_begins

LEMMA restart_work_endsKeeps == ASSUME McpIInv, restart_work_ends PROVE McpIInv'
<1>1. CASE drv.after = {}
  <2>1. /\ lock = "restart" /\ lock' = "free" /\ netdev.up /\ ~ drv.restart_tx
        /\ ist.at \notin {"loop", "read"}
    BY <1>1 DEF restart_work_ends, McpIInv, RestartIsQueued, IstHasLock, PhasesInOrder
  <2>2. /\ chip' = [chip EXCEPT !.tx = @]
        /\ netdev' = [netdev EXCEPT !.awake = @ \/ FALSE \/ FALSE]
        /\ UNCHANGED <<drv, ist, edge, works, phase, timer, bus, up, used>>
    BY <1>1,  <2>1 DEF restart_work_ends, McpIInv
  <2>3. chip' = chip
    BY <2>2 DEF McpIInv, McpTypeOK, Chips
  <2>4. netdev' = netdev
    BY <2>2 DEF McpIInv, McpTypeOK, Netdevs
  <2>5. McpTypeOK'
    <3>1. netdev' \in Netdevs
      BY <2>1, <2>2, <2>3, <2>4, <1>1, Zenon DEF McpIInv, McpTypeOK, Netdevs
    <3>2. chip' \in Chips
      BY <2>1, <2>2, <2>3, <2>4, <1>1, Zenon DEF McpIInv, McpTypeOK, Chips, Flags, ErrorStates
    <3>3. lock' \in {"free", "ist", "restart", "open"}
      BY <2>1, <2>2, <2>3, <2>4, <1>1 DEF McpIInv, McpTypeOK
    <3> QED
      BY <2>1, <2>2, <2>3, <2>4, <3>1, <3>2, <3>3 DEF McpIInv, McpTypeOK
  <2>6. TxInOrder'
    BY <2>1, <2>2, <2>3, <2>4, <1>1 DEF McpIInv, TxInOrder
  <2>7. RxOnce'
    BY <2>1, <2>2, <2>3, <2>4, <1>1 DEF McpIInv, RxOnce
  <2>8. IstHasLock'
    BY <2>1, <2>2, <2>3, <2>4, <1>1 DEF McpIInv, IstHasLock
  <2>9. TxFlagIsTrue'
    BY <2>1, <2>2, <2>3, <2>4, <1>1 DEF McpIInv, TxFlagIsTrue, TxRead
  <2>10. ChipIsFree'
    BY <2>1, <2>2, <2>3, <2>4, <1>1, Zenon DEF McpIInv, ChipIsFree, TxRead, Stale, Overtaken
  <2>11. BusOffHasFrame'
    BY <2>1, <2>2, <2>3, <2>4, <1>1, Zenon DEF McpIInv, BusOffHasFrame
  <2>12. PhasesInOrder'
    BY <2>1, <2>2, <2>3, <2>4, <1>1 DEF McpIInv, PhasesInOrder
  <2>13. RestartIsQueued'
    BY <2>1, <2>2, <2>3, <2>4, <1>1 DEF McpIInv, RestartIsQueued
  <2>14. RestartMeetsItsState'
    BY <2>1, <2>2, <2>3, <2>4, <1>1 DEF McpIInv, RestartMeetsItsState, Stale, Overtaken
  <2>15. FlagsAreServed'
    BY <2>1, <2>2, <2>3, <2>4, <1>1 DEF McpIInv, FlagsAreServed
  <2>16. RunsOrRestarts'
    BY <2>1, <2>2, <2>3, <2>4, <1>1 DEF McpIInv, RunsOrRestarts
  <2>17. QueueIsServed'
    BY <2>1, <2>2, <2>3, <2>4, <1>1, Zenon DEF McpIInv, QueueIsServed, TxRead
  <2> QED
    BY <2>5, <2>6, <2>7, <2>8, <2>9, <2>10, <2>11, <2>12, <2>13, <2>14, <2>15, <2>16, <2>17 DEF McpIInv
<1>2. CASE drv.after # {}
  <2>1. /\ lock = "restart" /\ lock' = "free" /\ netdev.up /\ ist.at \notin {"loop", "read"}
        /\ drv.after \cap {"restart", "up"} # {}
        /\ drv.restart_tx \/ ("up" \in drv.after /\ "restart" \notin drv.after)
        /\ chip.tx = 0 /\ chip.intf = {}
        /\ drv.echo # 0 => drv.len
    BY <1>2 DEF restart_work_ends, McpIInv, RestartIsQueued, IstHasLock, PhasesInOrder, ChipIsFree,
       RestartMeetsItsState, TxInOrder
  <2>2. /\ chip' = [set_normal_mode(chip) EXCEPT !.tx = IF drv.restart_tx THEN 0 ELSE @]
        /\ netdev' = [netdev EXCEPT !.awake = @ \/ TRUE]
        /\ UNCHANGED <<ist, edge, works, phase, timer, bus, up, used>>
    BY <1>2,  <2>1 DEF restart_work_ends, McpIInv
  <2>3. /\ chip' \in Chips
        /\ chip'.mode = "normal" /\ chip'.inte /\ chip'.intf = {} /\ chip'.eflg = chip.eflg
        /\ chip'.tx = 0 /\ chip'.rx = chip.rx
    BY <2>1, <2>2, Zenon DEF McpIInv, McpTypeOK, Chips, set_normal_mode
  <2>4. /\ netdev' \in Netdevs
        /\ netdev'.up = netdev.up /\ netdev'.awake /\ netdev'.attached = netdev.attached
        /\ netdev'.carrier = netdev.carrier /\ netdev'.restart_ms = netdev.restart_ms
        /\ netdev'.power = netdev.power
    BY <2>2, Zenon DEF McpIInv, McpTypeOK, Netdevs
  <2>5. /\ drv' \in Drivers
        /\ drv'.skb = 0 /\ ~ drv'.len /\ drv'.echo = 0 /\ drv'.state = "active" /\ ~ drv'.quit
        /\ drv'.after = {} /\ ~ drv'.restart_tx
    BY <1>2, DrvRestarted, <2>1 DEF restart_work_ends, McpIInv
  <2>6. McpTypeOK'
    <3>1. drv' \in Drivers
      BY <2>1, <2>2, <2>3, <2>4, <2>5, <1>2 DEF McpIInv, McpTypeOK, Drivers, ErrorStates
    <3>2. netdev' \in Netdevs
      BY <2>1, <2>2, <2>3, <2>4, <2>5, <1>2 DEF McpIInv, McpTypeOK, Netdevs
    <3>3. chip' \in Chips
      BY <2>1, <2>2, <2>3, <2>4, <2>5, <1>2, Zenon DEF McpIInv, McpTypeOK, Chips, Flags, ErrorStates
    <3>4. lock' \in {"free", "ist", "restart", "open"}
      BY <2>1, <2>2, <2>3, <2>4, <2>5, <1>2 DEF McpIInv, McpTypeOK
    <3> QED
      BY <2>1, <2>2, <2>3, <2>4, <2>5, <3>1, <3>2, <3>3, <3>4 DEF McpIInv, McpTypeOK
  <2>7. TxInOrder'
    BY <2>1, <2>2, <2>3, <2>4, <2>5, <1>2 DEF McpIInv, TxInOrder
  <2>8. RxOnce'
    BY <2>1, <2>2, <2>3, <2>4, <2>5, <1>2 DEF McpIInv, RxOnce
  <2>9. IstHasLock'
    BY <2>1, <2>2, <2>3, <2>4, <2>5, <1>2 DEF McpIInv, IstHasLock
  <2>10. TxFlagIsTrue'
    BY <2>1, <2>2, <2>3, <2>4, <2>5, <1>2 DEF McpIInv, TxFlagIsTrue, TxRead
  <2>11. ChipIsFree'
    BY <2>1, <2>2, <2>3, <2>4, <2>5, <1>2 DEF McpIInv, ChipIsFree, TxRead, Stale, Overtaken
  <2>12. BusOffHasFrame'
    BY <2>1, <2>2, <2>3, <2>4, <2>5, <1>2 DEF McpIInv, BusOffHasFrame, ChipIsFree, TxRead, Stale,
       Overtaken
  <2>13. PhasesInOrder'
    BY <2>1, <2>2, <2>3, <2>4, <2>5, <1>2 DEF McpIInv, PhasesInOrder
  <2>14. RestartIsQueued'
    BY <2>1, <2>2, <2>3, <2>4, <2>5, <1>2 DEF McpIInv, RestartIsQueued
  <2>15. RestartMeetsItsState'
    BY <2>1, <2>2, <2>3, <2>4, <2>5, <1>2, ListOfWorks DEF McpIInv, RestartMeetsItsState, Stale,
       Overtaken, McpTypeOK
  <2>16. FlagsAreServed'
    BY <2>1, <2>2, <2>3, <2>4, <2>5, <1>2 DEF McpIInv, FlagsAreServed
  <2>17. RunsOrRestarts'
    BY <2>1, <2>2, <2>3, <2>4, <2>5, <1>2 DEF McpIInv, RunsOrRestarts
  <2>18. QueueIsServed'
    BY <2>1, <2>2, <2>3, <2>4, <2>5, <1>2 DEF McpIInv, QueueIsServed, TxRead
  <2> QED
    BY <2>6, <2>7, <2>8, <2>9, <2>10, <2>11, <2>12, <2>13, <2>14, <2>15, <2>16, <2>17, <2>18 DEF McpIInv
<1> QED
  BY <1>1, <1>2 DEF restart_work_ends

LEMMA open_beginsKeeps == ASSUME McpIInv, open_begins PROVE McpIInv'
<1>1. /\ phase = "ready" /\ ~ netdev.up /\ lock = "free" /\ lock' = "open"
      /\ netdev' = [netdev EXCEPT !.carrier = TRUE, !.up = TRUE]
      /\ drv' = Opened(drv)
      /\ chip' = set_normal_mode(hw_reset(chip))
      /\ UNCHANGED <<ist, edge, works, phase, timer, bus, up, used>>
  BY DEF open_begins, McpIInv
<1>2. /\ works = <<>> /\ ~ netdev.awake /\ netdev.attached /\ drv.skb = 0 /\ ~ drv.len
      /\ ~ timer /\ ist.at = "idle" /\ ~ edge /\ drv.state = "stopped" /\ drv.after = {}
      /\ ~ drv.restart_tx
  BY <1>1 DEF McpIInv, PhasesInOrder
<1>3. ~ Contains(works, "restart") /\ ~ Contains(works, "tx") /\ ~ Overtaken
  BY <1>2, ListOfWorks DEF McpIInv, McpTypeOK
<1>4. /\ netdev' \in Netdevs
      /\ netdev'.up /\ netdev'.awake = netdev.awake /\ netdev'.attached = netdev.attached
      /\ netdev'.carrier /\ netdev'.restart_ms = netdev.restart_ms
      /\ netdev'.power = netdev.power
  BY <1>1, Zenon DEF McpIInv, McpTypeOK, Netdevs
<1>5. /\ drv' \in Drivers
      /\ drv'.skb = 0 /\ ~ drv'.len /\ drv'.echo = drv.echo /\ drv'.state = drv.state
      /\ ~ drv'.quit /\ drv'.after = drv.after /\ drv'.restart_tx = drv.restart_tx
  BY <1>1, Zenon DEF McpIInv, McpTypeOK, Drivers, Opened
<1>6. /\ chip' \in Chips
      /\ chip'.mode = "normal" /\ chip'.inte /\ chip'.intf = {} /\ chip'.eflg = "active"
      /\ chip'.tx = 0
      /\ chip'.rx[1] = 0 /\ chip'.rx[2] = 0
  BY <1>1, ResetChip, Zenon DEF Chips, set_normal_mode
<1>7. McpTypeOK'
  <2>1. drv' \in Drivers
    BY <1>1, <1>2, <1>3, <1>4, <1>5, <1>6 DEF McpIInv, McpTypeOK, Drivers, ErrorStates
  <2>2. netdev' \in Netdevs
    BY <1>1, <1>2, <1>3, <1>4, <1>5, <1>6 DEF McpIInv, McpTypeOK, Netdevs
  <2>3. chip' \in Chips
    BY <1>1, <1>2, <1>3, <1>4, <1>5, <1>6 DEF McpIInv, McpTypeOK, Chips, Flags, ErrorStates
  <2>4. lock' \in {"free", "ist", "restart", "open"}
    BY <1>1, <1>2, <1>3, <1>4, <1>5, <1>6 DEF McpIInv, McpTypeOK
  <2> QED
    BY <1>1, <1>2, <1>3, <1>4, <1>5, <1>6, <2>1, <2>2, <2>3, <2>4 DEF McpIInv, McpTypeOK
<1>8. TxInOrder'
  BY <1>1, <1>2, <1>3, <1>4, <1>5, <1>6 DEF McpIInv, TxInOrder
<1>9. RxOnce'
  BY <1>1, <1>2, <1>3, <1>4, <1>5, <1>6 DEF McpIInv, RxOnce
<1>10. IstHasLock'
  BY <1>1, <1>2, <1>3, <1>4, <1>5, <1>6 DEF McpIInv, IstHasLock
<1>11. TxFlagIsTrue'
  BY <1>1, <1>2, <1>3, <1>4, <1>5, <1>6 DEF McpIInv, TxFlagIsTrue, TxRead
<1>12. ChipIsFree'
  BY <1>1, <1>2, <1>3, <1>4, <1>5, <1>6 DEF McpIInv, ChipIsFree, TxRead, Stale, Overtaken
<1>13. BusOffHasFrame'
  BY <1>1, <1>2, <1>3, <1>4, <1>5, <1>6 DEF McpIInv, BusOffHasFrame
<1>14. PhasesInOrder'
  BY <1>1, <1>2, <1>3, <1>4, <1>5, <1>6 DEF McpIInv, PhasesInOrder
<1>15. RestartIsQueued'
  BY <1>1, <1>2, <1>3, <1>4, <1>5, <1>6 DEF McpIInv, RestartIsQueued
<1>16. RestartMeetsItsState'
  BY <1>1, <1>2, <1>3, <1>4, <1>5, <1>6 DEF McpIInv, RestartMeetsItsState, Stale, Overtaken
<1>17. FlagsAreServed'
  BY <1>1, <1>2, <1>3, <1>4, <1>5, <1>6 DEF McpIInv, FlagsAreServed
<1>18. RunsOrRestarts'
  BY <1>1, <1>2, <1>3, <1>4, <1>5, <1>6 DEF McpIInv, RunsOrRestarts
<1>19. QueueIsServed'
  BY <1>1, <1>2, <1>3, <1>4, <1>5, <1>6 DEF McpIInv, QueueIsServed, TxRead
<1> QED
  BY <1>7, <1>8, <1>9, <1>10, <1>11, <1>12, <1>13, <1>14, <1>15, <1>16, <1>17, <1>18, <1>19 DEF McpIInv

LEMMA open_endsKeeps == ASSUME McpIInv, open_ends PROVE McpIInv'
<1>1. /\ lock = "open" /\ lock' = "free"
      /\ drv' = [drv EXCEPT !.state = "active"] /\ netdev' = [netdev EXCEPT !.awake = TRUE]
      /\ UNCHANGED <<chip, ist, edge, works, phase, timer, bus, up, used>>
  BY DEF open_ends, McpIInv
<1>2. /\ netdev.up /\ works = <<>> /\ ~ netdev.awake /\ netdev.attached /\ drv.skb = 0
      /\ ~ drv.len
      /\ ~ timer /\ phase = "ready" /\ drv.state = "stopped" /\ drv.after = {}
      /\ ~ drv.restart_tx
      /\ drv.echo = 0 /\ chip.tx = 0 /\ "TX" \notin chip.intf /\ ~ TxRead
      /\ chip.eflg # "busoff"
  BY <1>1 DEF McpIInv, PhasesInOrder, RestartIsQueued, TxInOrder, ChipIsFree, BusOffHasFrame
<1>3. ~ Contains(works, "restart") /\ ~ Contains(works, "tx") /\ ~ Overtaken
  BY <1>2, ListOfWorks DEF McpIInv, McpTypeOK
<1>4. /\ drv' \in Drivers
      /\ drv'.skb = drv.skb /\ drv'.len = drv.len /\ drv'.echo = drv.echo
      /\ drv'.state = "active" /\ drv'.quit = drv.quit /\ drv'.after = drv.after
      /\ drv'.restart_tx = drv.restart_tx
  BY <1>1, Zenon DEF McpIInv, McpTypeOK, Drivers, ErrorStates
<1>5. /\ netdev' \in Netdevs
      /\ netdev'.up = netdev.up /\ netdev'.awake /\ netdev'.attached = netdev.attached
      /\ netdev'.carrier = netdev.carrier /\ netdev'.restart_ms = netdev.restart_ms
      /\ netdev'.power = netdev.power
  BY <1>1, Zenon DEF McpIInv, McpTypeOK, Netdevs
<1>6. McpTypeOK'
  <2>1. drv' \in Drivers
    BY <1>1, <1>2, <1>3, <1>4, <1>5, Zenon DEF McpIInv, McpTypeOK, Drivers, ErrorStates
  <2>2. netdev' \in Netdevs
    BY <1>1, <1>2, <1>3, <1>4, <1>5 DEF McpIInv, McpTypeOK, Netdevs
  <2>3. lock' \in {"free", "ist", "restart", "open"}
    BY <1>1, <1>2, <1>3, <1>4, <1>5 DEF McpIInv, McpTypeOK
  <2> QED
    BY <1>1, <1>2, <1>3, <1>4, <1>5, <2>1, <2>2, <2>3 DEF McpIInv, McpTypeOK
<1>7. TxInOrder'
  BY <1>1, <1>2, <1>3, <1>4, <1>5 DEF McpIInv, TxInOrder
<1>8. RxOnce'
  BY <1>1, <1>2, <1>3, <1>4, <1>5 DEF McpIInv, RxOnce
<1>9. IstHasLock'
  BY <1>1, <1>2, <1>3, <1>4, <1>5 DEF McpIInv, IstHasLock
<1>10. TxFlagIsTrue'
  BY <1>1, <1>2, <1>3, <1>4, <1>5 DEF McpIInv, TxFlagIsTrue, TxRead
<1>11. ChipIsFree'
  BY <1>1, <1>2, <1>3, <1>4, <1>5 DEF McpIInv, ChipIsFree, TxRead, Stale, Overtaken
<1>12. BusOffHasFrame'
  BY <1>1, <1>2, <1>3, <1>4, <1>5 DEF McpIInv, BusOffHasFrame
<1>13. PhasesInOrder'
  BY <1>1, <1>2, <1>3, <1>4, <1>5 DEF McpIInv, PhasesInOrder
<1>14. RestartIsQueued'
  BY <1>1, <1>2, <1>3, <1>4, <1>5 DEF McpIInv, RestartIsQueued
<1>15. RestartMeetsItsState'
  BY <1>1, <1>2, <1>3, <1>4, <1>5 DEF McpIInv, RestartMeetsItsState, Stale, Overtaken
<1>16. FlagsAreServed'
  BY <1>1, <1>2, <1>3, <1>4, <1>5 DEF McpIInv, FlagsAreServed
<1>17. RunsOrRestarts'
  BY <1>1, <1>2, <1>3, <1>4, <1>5 DEF McpIInv, RunsOrRestarts
<1>18. QueueIsServed'
  BY <1>1, <1>2, <1>3, <1>4, <1>5 DEF McpIInv, QueueIsServed, TxRead
<1> QED
  BY <1>6, <1>7, <1>8, <1>9, <1>10, <1>11, <1>12, <1>13, <1>14, <1>15, <1>16, <1>17, <1>18 DEF McpIInv

LEMMA open_failsKeeps == ASSUME McpIInv, open_fails PROVE McpIInv'
<1>1. /\ lock = "open" /\ lock' = "free" /\ ist.at = "idle" /\ ~ edge
      /\ netdev' = [netdev EXCEPT !.up = FALSE] /\ chip' = hw_sleep(chip)
      /\ drv' = flush_echo_skb(drv)
      /\ UNCHANGED <<ist, edge, works, phase, timer, bus, up, used>>
  BY DEF open_fails, McpIInv
<1>2. /\ netdev.up /\ works = <<>> /\ ~ netdev.awake /\ netdev.attached /\ drv.skb = 0
      /\ ~ drv.len
      /\ ~ timer /\ phase = "ready" /\ drv.state = "stopped" /\ drv.after = {}
      /\ ~ drv.restart_tx
      /\ drv.echo = 0 /\ chip.tx = 0 /\ "TX" \notin chip.intf /\ ~ TxRead
      /\ chip.eflg # "busoff"
  BY <1>1 DEF McpIInv, PhasesInOrder, RestartIsQueued, TxInOrder, ChipIsFree, BusOffHasFrame
<1>3. ~ Contains(works, "restart") /\ ~ Contains(works, "tx") /\ ~ Overtaken
  BY <1>2, ListOfWorks DEF McpIInv, McpTypeOK
<1>4. /\ drv' \in Drivers
      /\ drv'.skb = drv.skb /\ drv'.len = drv.len /\ drv'.echo = 0 /\ drv'.state = drv.state
      /\ drv'.quit = drv.quit /\ drv'.after = drv.after /\ drv'.restart_tx = drv.restart_tx
  BY <1>1, Zenon DEF McpIInv, McpTypeOK, Drivers, flush_echo_skb
<1>5. /\ netdev' \in Netdevs
      /\ ~ netdev'.up /\ netdev'.awake = netdev.awake /\ netdev'.attached = netdev.attached
      /\ netdev'.carrier = netdev.carrier /\ netdev'.restart_ms = netdev.restart_ms
      /\ netdev'.power = netdev.power
  BY <1>1, Zenon DEF McpIInv, McpTypeOK, Netdevs
<1>6. /\ chip' \in Chips
      /\ chip'.mode = "sleep" /\ chip'.inte = chip.inte /\ chip'.intf = chip.intf
      /\ chip'.eflg = chip.eflg /\ chip'.tx = chip.tx /\ chip'.rx = chip.rx
  BY <1>1, Zenon DEF McpIInv, McpTypeOK, Chips, hw_sleep
<1>7. McpTypeOK'
  <2>1. drv' \in Drivers
    BY <1>1, <1>2, <1>3, <1>4, <1>5, <1>6 DEF McpIInv, McpTypeOK, Drivers, ErrorStates
  <2>2. netdev' \in Netdevs
    BY <1>1, <1>2, <1>3, <1>4, <1>5, <1>6 DEF McpIInv, McpTypeOK, Netdevs
  <2>3. chip' \in Chips
    BY <1>1, <1>2, <1>3, <1>4, <1>5, <1>6 DEF McpIInv, McpTypeOK, Chips, Flags, ErrorStates
  <2>4. lock' \in {"free", "ist", "restart", "open"}
    BY <1>1, <1>2, <1>3, <1>4, <1>5, <1>6 DEF McpIInv, McpTypeOK
  <2> QED
    BY <1>1, <1>2, <1>3, <1>4, <1>5, <1>6, <2>1, <2>2, <2>3, <2>4 DEF McpIInv, McpTypeOK
<1>8. TxInOrder'
  BY <1>1, <1>2, <1>3, <1>4, <1>5, <1>6 DEF McpIInv, TxInOrder
<1>9. RxOnce'
  BY <1>1, <1>2, <1>3, <1>4, <1>5, <1>6 DEF McpIInv, RxOnce
<1>10. IstHasLock'
  BY <1>1, <1>2, <1>3, <1>4, <1>5, <1>6 DEF McpIInv, IstHasLock
<1>11. TxFlagIsTrue'
  BY <1>1, <1>2, <1>3, <1>4, <1>5, <1>6 DEF McpIInv, TxFlagIsTrue, TxRead
<1>12. ChipIsFree'
  BY <1>1, <1>2, <1>3, <1>4, <1>5, <1>6 DEF McpIInv, ChipIsFree, TxRead, Stale, Overtaken
<1>13. BusOffHasFrame'
  BY <1>1, <1>2, <1>3, <1>4, <1>5, <1>6 DEF McpIInv, BusOffHasFrame
<1>14. PhasesInOrder'
  BY <1>1, <1>2, <1>3, <1>4, <1>5, <1>6 DEF McpIInv, PhasesInOrder
<1>15. RestartIsQueued'
  BY <1>1, <1>2, <1>3, <1>4, <1>5, <1>6 DEF McpIInv, RestartIsQueued
<1>16. RestartMeetsItsState'
  BY <1>1, <1>2, <1>3, <1>4, <1>5, <1>6 DEF McpIInv, RestartMeetsItsState, Stale, Overtaken
<1>17. FlagsAreServed'
  BY <1>1, <1>2, <1>3, <1>4, <1>5, <1>6 DEF McpIInv, FlagsAreServed
<1>18. RunsOrRestarts'
  BY <1>1, <1>2, <1>3, <1>4, <1>5, <1>6 DEF McpIInv, RunsOrRestarts
<1>19. QueueIsServed'
  BY <1>1, <1>2, <1>3, <1>4, <1>5, <1>6 DEF McpIInv, QueueIsServed, TxRead
<1> QED
  BY <1>7, <1>8, <1>9, <1>10, <1>11, <1>12, <1>13, <1>14, <1>15, <1>16, <1>17, <1>18, <1>19 DEF McpIInv

LEMMA stop_beginsKeeps == ASSUME McpIInv, stop_begins PROVE McpIInv'
<1>1. /\ phase = "ready" /\ netdev.up /\ lock # "open" /\ netdev.attached
      /\ phase' = "stopping" /\ ~ timer' /\ timer' \in BOOLEAN
      /\ drv' = [flush_echo_skb(drv) EXCEPT !.quit = TRUE] /\ ist' = At("idle") /\ ~ edge'
      /\ edge' \in BOOLEAN
      /\ lock' = IF ist.at = "loop" THEN "free" ELSE lock
      /\ ist.at \in {"idle", "woken", "loop"}
      /\ UNCHANGED <<netdev, chip, works, bus, up, used>>
  BY Zenon DEF stop_begins, McpIInv, ThreadMayEnd
<1>2. lock' \in {"free", "restart"} /\ (lock' = "restart" <=> lock = "restart")
  BY <1>1 DEF McpIInv, IstHasLock, McpTypeOK
<1>3. ist' \in ThreadStates /\ ist'.at = "idle" /\ ist'.intf = {}
  BY <1>1 DEF At, ThreadStates
<1>4. /\ drv' \in Drivers
      /\ drv'.skb = drv.skb /\ drv'.len = drv.len /\ drv'.echo = 0 /\ drv'.state = drv.state
      /\ drv'.quit /\ drv'.after = drv.after /\ drv'.restart_tx = drv.restart_tx
  BY <1>1, Zenon DEF McpIInv, McpTypeOK, Drivers, flush_echo_skb
<1>5. McpTypeOK'
  <2>1. drv' \in Drivers
    BY <1>1, <1>2, <1>3, <1>4, Zenon DEF McpIInv, McpTypeOK, Drivers, ErrorStates
  <2>2. ist' \in ThreadStates
    BY <1>1, <1>2, <1>3, <1>4 DEF McpIInv, McpTypeOK, ThreadStates, Flags, Chips
  <2>3. lock' \in {"free", "ist", "restart", "open"}
    BY <1>1, <1>2, <1>3, <1>4 DEF McpIInv, McpTypeOK
  <2>4. phase' \in {"gone", "ready", "stopping", "asleep", "oops"}
    BY <1>1, <1>2, <1>3, <1>4 DEF McpIInv, McpTypeOK
  <2>5. edge' \in BOOLEAN
    BY <1>1, <1>2, <1>3, <1>4 DEF McpIInv, McpTypeOK
  <2>6. timer' \in BOOLEAN
    BY <1>1, <1>2, <1>3, <1>4 DEF McpIInv, McpTypeOK
  <2> QED
    BY <1>1, <1>2, <1>3, <1>4, <2>1, <2>2, <2>3, <2>4, <2>5, <2>6 DEF McpIInv, McpTypeOK
<1>6. TxInOrder'
  BY <1>1, <1>2, <1>3, <1>4 DEF McpIInv, TxInOrder
<1>7. RxOnce'
  BY <1>1, <1>2, <1>3, <1>4 DEF McpIInv, RxOnce
<1>8. IstHasLock'
  BY <1>1, <1>2, <1>3, <1>4 DEF McpIInv, IstHasLock
<1>9. TxFlagIsTrue'
  BY <1>1, <1>2, <1>3, <1>4 DEF McpIInv, TxFlagIsTrue, TxRead
<1>10. ChipIsFree'
  BY <1>1, <1>2, <1>3, <1>4 DEF McpIInv, ChipIsFree, TxRead, Stale, Overtaken
<1>11. BusOffHasFrame'
  BY <1>1, <1>2, <1>3, <1>4 DEF McpIInv, BusOffHasFrame
<1>12. PhasesInOrder'
  BY <1>1, <1>2, <1>3, <1>4 DEF McpIInv, PhasesInOrder
<1>13. RestartIsQueued'
  BY <1>1, <1>2, <1>3, <1>4 DEF McpIInv, RestartIsQueued
<1>14. RestartMeetsItsState'
  BY <1>1, <1>2, <1>3, <1>4 DEF McpIInv, RestartMeetsItsState, Stale, Overtaken
<1>15. FlagsAreServed'
  BY <1>1, <1>2, <1>3, <1>4 DEF McpIInv, FlagsAreServed
<1>16. RunsOrRestarts'
  BY <1>1, <1>2, <1>3, <1>4 DEF McpIInv, RunsOrRestarts
<1>17. QueueIsServed'
  BY <1>1, <1>2, <1>3, <1>4 DEF McpIInv, QueueIsServed, TxRead
<1> QED
  BY <1>5, <1>6, <1>7, <1>8, <1>9, <1>10, <1>11, <1>12, <1>13, <1>14, <1>15, <1>16, <1>17 DEF McpIInv

LEMMA stop_endsKeeps == ASSUME McpIInv, stop_ends PROVE McpIInv'
<1>1. /\ phase = "stopping" /\ works = <<>> /\ lock = "free" /\ phase' = "ready"
      /\ drv' = [clean(drv) EXCEPT !.state = "stopped"]
      /\ chip' = [hw_sleep(chip) EXCEPT !.inte = FALSE, !.intf = {}, !.tx = 0]
      /\ netdev' = [netdev EXCEPT !.up = FALSE, !.awake = FALSE]
      /\ ist' = At("idle") /\ ~ edge' /\ edge' \in BOOLEAN
      /\ UNCHANGED <<lock, works, timer, bus, up, used>>
  BY Zenon DEF stop_ends, McpIInv
<1>2. ~ Contains(works, "restart") /\ ~ Contains(works, "tx") /\ ~ Overtaken
  BY <1>1, ListOfWorks DEF McpIInv, McpTypeOK
<1>3. /\ drv.after = {} /\ ~ drv.restart_tx /\ netdev.attached /\ ~ timer
      /\ (drv.echo # 0 => drv.len)
  BY <1>1, <1>2 DEF McpIInv, RestartIsQueued, PhasesInOrder, TxInOrder
<1>4. ist' \in ThreadStates /\ ist'.at = "idle" /\ ist'.intf = {}
  BY <1>1 DEF At, ThreadStates
<1>5. /\ drv' \in Drivers
      /\ drv'.skb = 0 /\ ~ drv'.len /\ drv'.echo = 0 /\ drv'.state = "stopped"
      /\ drv'.quit = drv.quit /\ drv'.after = drv.after /\ drv'.restart_tx = drv.restart_tx
  BY <1>1, <1>3, Zenon DEF McpIInv, McpTypeOK, Drivers, clean
<1>6. /\ netdev' \in Netdevs
      /\ ~ netdev'.up /\ ~ netdev'.awake /\ netdev'.attached = netdev.attached
      /\ netdev'.carrier = netdev.carrier /\ netdev'.restart_ms = netdev.restart_ms
      /\ netdev'.power = netdev.power
  BY <1>1, Zenon DEF McpIInv, McpTypeOK, Netdevs
<1>7. /\ chip' \in Chips
      /\ chip'.mode = "sleep" /\ ~ chip'.inte /\ chip'.intf = {} /\ chip'.eflg = chip.eflg
      /\ chip'.tx = 0 /\ chip'.rx = chip.rx
  BY <1>1, Zenon DEF McpIInv, McpTypeOK, Chips, hw_sleep
<1>8. McpTypeOK'
  <2>1. drv' \in Drivers
    BY <1>1, <1>2, <1>3, <1>4, <1>5, <1>6, <1>7, Zenon DEF McpIInv, McpTypeOK, Drivers, ErrorStates
  <2>2. netdev' \in Netdevs
    BY <1>1, <1>2, <1>3, <1>4, <1>5, <1>6, <1>7 DEF McpIInv, McpTypeOK, Netdevs
  <2>3. chip' \in Chips
    BY <1>1, <1>2, <1>3, <1>4, <1>5, <1>6, <1>7 DEF McpIInv, McpTypeOK, Chips, Flags, ErrorStates
  <2>4. ist' \in ThreadStates
    BY <1>1, <1>2, <1>3, <1>4, <1>5, <1>6, <1>7 DEF McpIInv, McpTypeOK, ThreadStates, Flags, Chips
  <2>5. phase' \in {"gone", "ready", "stopping", "asleep", "oops"}
    BY <1>1, <1>2, <1>3, <1>4, <1>5, <1>6, <1>7 DEF McpIInv, McpTypeOK
  <2>6. edge' \in BOOLEAN
    BY <1>1, <1>2, <1>3, <1>4, <1>5, <1>6, <1>7 DEF McpIInv, McpTypeOK
  <2> QED
    BY <1>1, <1>2, <1>3, <1>4, <1>5, <1>6, <1>7, <2>1, <2>2, <2>3, <2>4, <2>5, <2>6 DEF McpIInv,
       McpTypeOK
<1>9. TxInOrder'
  BY <1>1, <1>2, <1>3, <1>4, <1>5, <1>6, <1>7, OrderStays DEF McpIInv
<1>10. RxOnce'
  BY <1>1, <1>2, <1>3, <1>4, <1>5, <1>6, <1>7 DEF McpIInv, RxOnce
<1>11. IstHasLock'
  BY <1>1, <1>2, <1>3, <1>4, <1>5, <1>6, <1>7 DEF McpIInv, IstHasLock
<1>12. TxFlagIsTrue'
  BY <1>1, <1>2, <1>3, <1>4, <1>5, <1>6, <1>7 DEF McpIInv, TxFlagIsTrue, TxRead
<1>13. ChipIsFree'
  BY <1>1, <1>2, <1>3, <1>4, <1>5, <1>6, <1>7 DEF McpIInv, ChipIsFree, TxRead, Stale, Overtaken
<1>14. BusOffHasFrame'
  BY <1>1, <1>2, <1>3, <1>4, <1>5, <1>6, <1>7 DEF McpIInv, BusOffHasFrame
<1>15. PhasesInOrder'
  BY <1>1, <1>2, <1>3, <1>4, <1>5, <1>6, <1>7 DEF McpIInv, PhasesInOrder
<1>16. RestartIsQueued'
  BY <1>1, <1>2, <1>3, <1>4, <1>5, <1>6, <1>7 DEF McpIInv, RestartIsQueued
<1>17. RestartMeetsItsState'
  BY <1>1, <1>2, <1>3, <1>4, <1>5, <1>6, <1>7 DEF McpIInv, RestartMeetsItsState, Stale, Overtaken
<1>18. FlagsAreServed'
  BY <1>1, <1>2, <1>3, <1>4, <1>5, <1>6, <1>7 DEF McpIInv, FlagsAreServed
<1>19. RunsOrRestarts'
  BY <1>1, <1>2, <1>3, <1>4, <1>5, <1>6, <1>7 DEF McpIInv, RunsOrRestarts
<1>20. QueueIsServed'
  BY <1>1, <1>2, <1>3, <1>4, <1>5, <1>6, <1>7 DEF McpIInv, QueueIsServed, TxRead
<1> QED
  BY <1>8, <1>9, <1>10, <1>11, <1>12, <1>13, <1>14, <1>15, <1>16, <1>17, <1>18, <1>19, <1>20 DEF McpIInv

LEMMA can_changelinkKeeps == ASSUME McpIInv, can_changelink PROVE McpIInv'
<1>1. /\ ~ netdev.up /\ netdev' = [netdev EXCEPT !.restart_ms = ~ @]
      /\ UNCHANGED <<drv, chip, lock, ist, edge, works, phase, timer, bus, up, used>>
  BY DEF can_changelink, McpIInv
<1>2. /\ netdev' \in Netdevs
      /\ netdev'.up = netdev.up /\ netdev'.awake = netdev.awake
      /\ netdev'.attached = netdev.attached /\ netdev'.carrier = netdev.carrier
      /\ netdev'.power = netdev.power
  BY <1>1, Zenon DEF McpIInv, McpTypeOK, Netdevs
<1>3. McpTypeOK'
  <2>1. netdev' \in Netdevs
    BY <1>1, <1>2 DEF McpIInv, McpTypeOK, Netdevs
  <2> QED
    BY <1>1, <1>2, <2>1 DEF McpIInv, McpTypeOK
<1>4. TxInOrder'
  BY <1>1, <1>2 DEF McpIInv, TxInOrder
<1>5. RxOnce'
  BY <1>1, <1>2 DEF McpIInv, RxOnce
<1>6. IstHasLock'
  BY <1>1, <1>2 DEF McpIInv, IstHasLock
<1>7. TxFlagIsTrue'
  BY <1>1, <1>2 DEF McpIInv, TxFlagIsTrue, TxRead
<1>8. ChipIsFree'
  BY <1>1, <1>2 DEF McpIInv, ChipIsFree, TxRead, Stale, Overtaken
<1>9. BusOffHasFrame'
  BY <1>1, <1>2 DEF McpIInv, BusOffHasFrame
<1>10. PhasesInOrder'
  BY <1>1, <1>2 DEF McpIInv, PhasesInOrder
<1>11. RestartIsQueued'
  BY <1>1, <1>2 DEF McpIInv, RestartIsQueued
<1>12. RestartMeetsItsState'
  BY <1>1, <1>2 DEF McpIInv, RestartMeetsItsState, Stale, Overtaken
<1>13. FlagsAreServed'
  BY <1>1, <1>2 DEF McpIInv, FlagsAreServed
<1>14. RunsOrRestarts'
  BY <1>1, <1>2 DEF McpIInv, RunsOrRestarts
<1>15. QueueIsServed'
  BY <1>1, <1>2 DEF McpIInv, QueueIsServed, TxRead
<1> QED
  BY <1>3, <1>4, <1>5, <1>6, <1>7, <1>8, <1>9, <1>10, <1>11, <1>12, <1>13, <1>14, <1>15 DEF McpIInv

LEMMA can_suspendKeeps == ASSUME McpIInv, can_suspend PROVE McpIInv'
<1>1. CASE netdev.up
  <2>1. /\ phase = "ready" /\ lock \in {"free", "ist"} /\ phase' = "asleep" /\ lock' = "free"
        /\ ist' = At("idle")
        /\ used' = [used EXCEPT !.sleep = @ + 1]
        /\ UNCHANGED <<edge, works, timer, bus, up>>
    BY <1>1 DEF can_suspend, McpIInv
  <2>2. /\ ist' \in ThreadStates /\ ist'.at = "idle" /\ ist'.intf = {}
        /\ used'.tx = used.tx /\ used'.rx = used.rx
        /\ used' \in [tx : Nat, rx : Nat, err : Nat, sleep : Nat]
    BY <2>1, SleepCounted DEF McpIInv, At, ThreadStates
  <2>3. /\ drv' = [drv EXCEPT !.quit = TRUE, !.after = {"up"} \cup (IF netdev.power THEN {"power"} ELSE {})]
        /\ netdev' = [netdev EXCEPT !.attached = FALSE, !.awake = FALSE]
        /\ chip' = IF netdev.power THEN Off ELSE hw_sleep(chip)
    BY <1>1 DEF can_suspend, McpIInv
  <2>4. /\ drv' \in Drivers
        /\ drv'.skb = drv.skb /\ drv'.len = drv.len /\ drv'.echo = drv.echo
        /\ drv'.state = drv.state /\ drv'.quit /\ drv'.restart_tx = drv.restart_tx
        /\ drv'.after # {} /\ "restart" \notin drv'.after /\ "up" \in drv'.after
    BY <2>3, Zenon DEF McpIInv, McpTypeOK, Drivers
  <2>5. /\ netdev' \in Netdevs
        /\ netdev'.up = netdev.up /\ ~ netdev'.awake /\ ~ netdev'.attached
        /\ netdev'.carrier = netdev.carrier /\ netdev'.restart_ms = netdev.restart_ms
        /\ netdev'.power = netdev.power
    BY <2>3, Zenon DEF McpIInv, McpTypeOK, Netdevs
  <2>6. /\ chip' \in Chips
        /\ chip'.tx \in {0, chip.tx}
        /\ ("TX" \in chip'.intf => "TX" \in chip.intf /\ chip'.tx = chip.tx)
        /\ chip'.eflg = "busoff" => chip.eflg = "busoff" /\ chip'.tx = chip.tx
        /\ chip'.mode = "normal" => chip.mode = "normal" /\ (chip'.inte <=> chip.inte)
        /\ (chip'.rx[1] = 0 /\ chip'.rx[2] = 0) \/ chip'.rx = chip.rx
    BY <2>3, OffChip, Zenon DEF McpIInv, McpTypeOK, Chips, hw_sleep
  <2>7. McpTypeOK'
    <3>1. drv' \in Drivers
      BY <2>1, <2>2, <2>3, <2>4, <2>5, <2>6, <1>1 DEF McpIInv, McpTypeOK, Drivers, ErrorStates
    <3>2. netdev' \in Netdevs
      BY <2>1, <2>2, <2>3, <2>4, <2>5, <2>6, <1>1 DEF McpIInv, McpTypeOK, Netdevs
    <3>3. chip' \in Chips
      BY <2>1, <2>2, <2>3, <2>4, <2>5, <2>6, <1>1, Zenon DEF McpIInv, McpTypeOK, Chips, Flags, ErrorStates
    <3>4. ist' \in ThreadStates
      BY <2>1, <2>2, <2>3, <2>4, <2>5, <2>6, <1>1 DEF McpIInv, McpTypeOK, ThreadStates, Flags, Chips
    <3>5. lock' \in {"free", "ist", "restart", "open"}
      BY <2>1, <2>2, <2>3, <2>4, <2>5, <2>6, <1>1 DEF McpIInv, McpTypeOK
    <3>6. phase' \in {"gone", "ready", "stopping", "asleep", "oops"}
      BY <2>1, <2>2, <2>3, <2>4, <2>5, <2>6, <1>1 DEF McpIInv, McpTypeOK
    <3>7. used' \in [tx : Nat, rx : Nat, err : Nat, sleep : Nat]
      BY <2>1, <2>2, <2>3, <2>4, <2>5, <2>6, <1>1 DEF McpIInv, McpTypeOK
    <3> QED
      BY <2>1, <2>2, <2>3, <2>4, <2>5, <2>6, <3>1, <3>2, <3>3, <3>4, <3>5, <3>6, <3>7 DEF McpIInv,
         McpTypeOK
  <2>8. TxInOrder'
    BY <2>1, <2>2, <2>3, <2>4, <2>5, <2>6, <1>1, OrderStays DEF McpIInv
  <2>9. RxOnce'
    BY <2>1, <2>2, <2>3, <2>4, <2>5, <2>6, <1>1 DEF McpIInv, RxOnce
  <2>10. IstHasLock'
    BY <2>1, <2>2, <2>3, <2>4, <2>5, <2>6, <1>1 DEF McpIInv, IstHasLock
  <2>11. TxFlagIsTrue'
    BY <2>1, <2>2, <2>3, <2>4, <2>5, <2>6, <1>1 DEF McpIInv, TxFlagIsTrue, TxRead
  <2>12. ChipIsFree'
    BY <2>1, <2>2, <2>3, <2>4, <2>5, <2>6, <1>1 DEF McpIInv, ChipIsFree, TxRead, Stale, Overtaken
  <2>13. BusOffHasFrame'
    BY <2>1, <2>2, <2>3, <2>4, <2>5, <2>6, <1>1 DEF McpIInv, BusOffHasFrame
  <2>14. PhasesInOrder'
    BY <2>1, <2>2, <2>3, <2>4, <2>5, <2>6, <1>1 DEF McpIInv, PhasesInOrder
  <2>15. RestartIsQueued'
    BY <2>1, <2>2, <2>3, <2>4, <2>5, <2>6, <1>1 DEF McpIInv, RestartIsQueued
  <2>16. RestartMeetsItsState'
    BY <2>1, <2>2, <2>3, <2>4, <2>5, <2>6, <1>1 DEF McpIInv, RestartMeetsItsState, Stale, Overtaken
  <2>17. FlagsAreServed'
    BY <2>1, <2>2, <2>3, <2>4, <2>5, <2>6, <1>1 DEF McpIInv, FlagsAreServed
  <2>18. RunsOrRestarts'
    BY <2>1, <2>2, <2>3, <2>4, <2>5, <2>6, <1>1 DEF McpIInv, RunsOrRestarts
  <2>19. QueueIsServed'
    BY <2>1, <2>2, <2>3, <2>4, <2>5, <2>6, <1>1 DEF McpIInv, QueueIsServed, TxRead
  <2> QED
    BY <2>7, <2>8, <2>9, <2>10, <2>11, <2>12, <2>13, <2>14, <2>15, <2>16, <2>17, <2>18, <2>19
       DEF McpIInv
<1>2. CASE ~ netdev.up
  <2>1. /\ phase = "ready" /\ lock \in {"free", "ist"} /\ phase' = "asleep" /\ lock' = "free"
        /\ ist' = At("idle")
        /\ used' = [used EXCEPT !.sleep = @ + 1]
        /\ UNCHANGED <<edge, works, timer, bus, up>>
    BY <1>2 DEF can_suspend, McpIInv
  <2>2. /\ ist' \in ThreadStates /\ ist'.at = "idle" /\ ist'.intf = {}
        /\ used'.tx = used.tx /\ used'.rx = used.rx
        /\ used' \in [tx : Nat, rx : Nat, err : Nat, sleep : Nat]
    BY <2>1, SleepCounted DEF McpIInv, At, ThreadStates
  <2>3. /\ drv' = [drv EXCEPT !.quit = TRUE, !.after = {"down"} \cup (IF netdev.power THEN {"power"} ELSE {})]
        /\ netdev' = netdev
        /\ chip' = IF netdev.power THEN Off ELSE chip
    BY <1>2 DEF can_suspend, McpIInv
  <2>4. /\ drv' \in Drivers
        /\ drv'.skb = drv.skb /\ drv'.len = drv.len /\ drv'.echo = drv.echo
        /\ drv'.state = drv.state /\ drv'.quit /\ drv'.restart_tx = drv.restart_tx
        /\ drv'.after # {} /\ "restart" \notin drv'.after
    BY <2>3, Zenon DEF McpIInv, McpTypeOK, Drivers
  <2>5. /\ netdev' \in Netdevs
        /\ netdev'.up = netdev.up /\ netdev'.awake = netdev.awake
        /\ netdev'.attached = netdev.attached /\ netdev'.carrier = netdev.carrier
        /\ netdev'.restart_ms = netdev.restart_ms /\ netdev'.power = netdev.power
    BY <2>3 DEF McpIInv, McpTypeOK, Netdevs
  <2>6. /\ chip' \in Chips
        /\ chip'.tx \in {0, chip.tx}
        /\ ("TX" \in chip'.intf => "TX" \in chip.intf /\ chip'.tx = chip.tx)
        /\ chip'.eflg = "busoff" => chip.eflg = "busoff" /\ chip'.tx = chip.tx
        /\ chip'.mode = "normal" => chip.mode = "normal" /\ (chip'.inte <=> chip.inte)
        /\ (chip'.rx[1] = 0 /\ chip'.rx[2] = 0) \/ chip'.rx = chip.rx
    BY <2>3, OffChip, Zenon DEF McpIInv, McpTypeOK, Chips, hw_sleep
  <2>7. McpTypeOK'
    <3>1. drv' \in Drivers
      BY <2>1, <2>2, <2>3, <2>4, <2>5, <2>6, <1>2 DEF McpIInv, McpTypeOK, Drivers, ErrorStates
    <3>2. netdev' \in Netdevs
      BY <2>1, <2>2, <2>3, <2>4, <2>5, <2>6, <1>2 DEF McpIInv, McpTypeOK, Netdevs
    <3>3. chip' \in Chips
      BY <2>1, <2>2, <2>3, <2>4, <2>5, <2>6, <1>2, Zenon DEF McpIInv, McpTypeOK, Chips, Flags, ErrorStates
    <3>4. ist' \in ThreadStates
      BY <2>1, <2>2, <2>3, <2>4, <2>5, <2>6, <1>2 DEF McpIInv, McpTypeOK, ThreadStates, Flags, Chips
    <3>5. lock' \in {"free", "ist", "restart", "open"}
      BY <2>1, <2>2, <2>3, <2>4, <2>5, <2>6, <1>2 DEF McpIInv, McpTypeOK
    <3>6. phase' \in {"gone", "ready", "stopping", "asleep", "oops"}
      BY <2>1, <2>2, <2>3, <2>4, <2>5, <2>6, <1>2 DEF McpIInv, McpTypeOK
    <3>7. used' \in [tx : Nat, rx : Nat, err : Nat, sleep : Nat]
      BY <2>1, <2>2, <2>3, <2>4, <2>5, <2>6, <1>2 DEF McpIInv, McpTypeOK
    <3> QED
      BY <2>1, <2>2, <2>3, <2>4, <2>5, <2>6, <3>1, <3>2, <3>3, <3>4, <3>5, <3>6, <3>7 DEF McpIInv,
         McpTypeOK
  <2>8. TxInOrder'
    BY <2>1, <2>2, <2>3, <2>4, <2>5, <2>6, <1>2, OrderStays DEF McpIInv
  <2>9. RxOnce'
    BY <2>1, <2>2, <2>3, <2>4, <2>5, <2>6, <1>2 DEF McpIInv, RxOnce
  <2>10. IstHasLock'
    BY <2>1, <2>2, <2>3, <2>4, <2>5, <2>6, <1>2 DEF McpIInv, IstHasLock
  <2>11. TxFlagIsTrue'
    BY <2>1, <2>2, <2>3, <2>4, <2>5, <2>6, <1>2 DEF McpIInv, TxFlagIsTrue, TxRead
  <2>12. ChipIsFree'
    BY <2>1, <2>2, <2>3, <2>4, <2>5, <2>6, <1>2 DEF McpIInv, ChipIsFree, TxRead, Stale, PhasesInOrder,
       Overtaken
  <2>13. BusOffHasFrame'
    BY <2>1, <2>2, <2>3, <2>4, <2>5, <2>6, <1>2 DEF McpIInv, BusOffHasFrame, PhasesInOrder
  <2>14. PhasesInOrder'
    BY <2>1, <2>2, <2>3, <2>4, <2>5, <2>6, <1>2 DEF McpIInv, PhasesInOrder
  <2>15. RestartIsQueued'
    BY <2>1, <2>2, <2>3, <2>4, <2>5, <2>6, <1>2 DEF McpIInv, RestartIsQueued, PhasesInOrder
  <2>16. RestartMeetsItsState'
    BY <2>1, <2>2, <2>3, <2>4, <2>5, <2>6, <1>2 DEF McpIInv, RestartMeetsItsState, Stale,
       PhasesInOrder, Overtaken
  <2>17. FlagsAreServed'
    BY <2>1, <2>2, <2>3, <2>4, <2>5, <2>6, <1>2 DEF McpIInv, FlagsAreServed
  <2>18. RunsOrRestarts'
    BY <2>1, <2>2, <2>3, <2>4, <2>5, <2>6, <1>2 DEF McpIInv, RunsOrRestarts
  <2>19. QueueIsServed'
    BY <2>1, <2>2, <2>3, <2>4, <2>5, <2>6, <1>2 DEF McpIInv, QueueIsServed, TxRead, PhasesInOrder
  <2> QED
    BY <2>7, <2>8, <2>9, <2>10, <2>11, <2>12, <2>13, <2>14, <2>15, <2>16, <2>17, <2>18, <2>19
       DEF McpIInv
<1> QED
  BY <1>1, <1>2 DEF can_suspend

LEMMA can_resumeKeeps == ASSUME McpIInv, can_resume PROVE McpIInv'
<1>1. CASE netdev.up
  <2>1. /\ phase = "asleep" /\ lock = "free"
        /\ UNCHANGED <<netdev, chip, lock, ist, edge, timer, bus, up, used>>
    BY <1>1 DEF can_resume, McpIInv, PhasesInOrder
  <2>2. drv.after \cap {"power", "up"} # {}
    BY <1>1,  <2>1 DEF can_resume, McpIInv, PhasesInOrder
  <2>3. /\ works' \in WorkLists /\ works' # <<>> /\ Contains(works', "restart")
        /\ (Contains(works', "tx") <=> Contains(works, "tx"))
        /\ (works # <<>> => Head(works') = Head(works))
        /\ (works = <<>> => Head(works') = "restart") /\ (Overtaken' => Overtaken)
    BY <1>1,  <2>2, WorkQueued DEF can_resume, McpIInv, McpTypeOK, Works
  <2>4. /\ phase' = "ready" /\ drv' = [drv EXCEPT !.quit = FALSE] /\ drv.after # {}
        /\ "up" \in drv.after
    BY <1>1, Zenon DEF can_resume, McpIInv, PhasesInOrder, McpTypeOK, Drivers
  <2>5. /\ drv' \in Drivers
        /\ drv'.skb = drv.skb /\ drv'.len = drv.len /\ drv'.echo = drv.echo
        /\ drv'.state = drv.state /\ ~ drv'.quit /\ drv'.after = drv.after
        /\ drv'.restart_tx = drv.restart_tx
    BY <2>4, Zenon DEF McpIInv, McpTypeOK, Drivers
  <2>6. McpTypeOK'
    <3>1. drv' \in Drivers
      BY <2>1, <2>2, <2>3, <2>4, <2>5, <1>1, Zenon DEF McpIInv, McpTypeOK, Drivers, ErrorStates
    <3>2. works' \in WorkLists
      BY <2>3
    <3>3. phase' \in {"gone", "ready", "stopping", "asleep", "oops"}
      BY <2>1, <2>2, <2>3, <2>4, <2>5, <1>1 DEF McpIInv, McpTypeOK
    <3> QED
      BY <2>1, <2>2, <2>3, <2>4, <2>5, <3>1, <3>2, <3>3 DEF McpIInv, McpTypeOK
  <2>7. TxInOrder'
    BY <2>1, <2>2, <2>3, <2>4, <2>5, <1>1 DEF McpIInv, TxInOrder
  <2>8. RxOnce'
    BY <2>1, <2>2, <2>3, <2>4, <2>5, <1>1 DEF McpIInv, RxOnce
  <2>9. IstHasLock'
    BY <2>1, <2>2, <2>3, <2>4, <2>5, <1>1 DEF McpIInv, IstHasLock
  <2>10. TxFlagIsTrue'
    BY <2>1, <2>2, <2>3, <2>4, <2>5, <1>1 DEF McpIInv, TxFlagIsTrue, TxRead
  <2>11. ChipIsFree'
    BY <2>1, <2>2, <2>3, <2>4, <2>5, <1>1 DEF McpIInv, ChipIsFree, TxRead, Stale
  <2>12. BusOffHasFrame'
    BY <2>1, <2>2, <2>3, <2>4, <2>5, <1>1 DEF McpIInv, BusOffHasFrame
  <2>13. PhasesInOrder'
    BY <2>1, <2>2, <2>3, <2>4, <2>5, <1>1 DEF McpIInv, PhasesInOrder
  <2>14. RestartIsQueued'
    BY <2>1, <2>2, <2>3, <2>4, <2>5, <1>1 DEF McpIInv, RestartIsQueued
  <2>15. RestartMeetsItsState'
    BY <2>1, <2>2, <2>3, <2>4, <2>5, <1>1 DEF McpIInv, RestartMeetsItsState, Stale
  <2>16. FlagsAreServed'
    BY <2>1, <2>2, <2>3, <2>4, <2>5, <1>1 DEF McpIInv, FlagsAreServed
  <2>17. RunsOrRestarts'
    BY <2>1, <2>2, <2>3, <2>4, <2>5, <1>1 DEF McpIInv, RunsOrRestarts
  <2>18. QueueIsServed'
    BY <2>1, <2>2, <2>3, <2>4, <2>5, <1>1 DEF McpIInv, QueueIsServed, TxRead
  <2> QED
    BY <2>6, <2>7, <2>8, <2>9, <2>10, <2>11, <2>12, <2>13, <2>14, <2>15, <2>16, <2>17, <2>18 DEF McpIInv
<1>2. CASE ~ netdev.up
  <2>1. /\ phase = "asleep" /\ lock = "free"
        /\ UNCHANGED <<netdev, chip, lock, ist, edge, timer, bus, up, used>>
    BY <1>2 DEF can_resume, McpIInv, PhasesInOrder
  <2>2. /\ works' = works /\ works = <<>>
        /\ phase' = "oops" \/ (phase' = "ready" /\ drv'.after = {})
        /\ drv' \in Drivers
        /\ drv'.skb = drv.skb /\ drv'.len = drv.len /\ drv'.echo = drv.echo
        /\ drv'.state = drv.state /\ ~ drv'.quit /\ drv'.restart_tx = drv.restart_tx
        /\ drv'.after \in {{}, drv.after}
    BY <1>2, Zenon DEF can_resume, McpIInv, PhasesInOrder, McpTypeOK, Drivers
  <2>3. ~ Contains(works, "restart") /\ ~ Contains(works, "tx") /\ ~ Overtaken
    BY <2>2, ListOfWorks DEF McpIInv, McpTypeOK
  <2>4. McpTypeOK'
    <3>1. drv' \in Drivers
      BY <2>1, <2>2, <2>3, <1>2 DEF McpIInv, McpTypeOK, Drivers, ErrorStates
    <3>2. works' \in WorkLists
      BY <2>1, <2>2, <2>3, <1>2 DEF McpIInv, McpTypeOK, WorkLists
    <3>3. phase' \in {"gone", "ready", "stopping", "asleep", "oops"}
      BY <2>1, <2>2, <2>3, <1>2 DEF McpIInv, McpTypeOK
    <3> QED
      BY <2>1, <2>2, <2>3, <3>1, <3>2, <3>3 DEF McpIInv, McpTypeOK
  <2>5. TxInOrder'
    BY <2>1, <2>2, <2>3, <1>2 DEF McpIInv, TxInOrder
  <2>6. RxOnce'
    BY <2>1, <2>2, <2>3, <1>2 DEF McpIInv, RxOnce
  <2>7. IstHasLock'
    BY <2>1, <2>2, <2>3, <1>2 DEF McpIInv, IstHasLock
  <2>8. TxFlagIsTrue'
    BY <2>1, <2>2, <2>3, <1>2 DEF McpIInv, TxFlagIsTrue, TxRead
  <2>9. ChipIsFree'
    BY <2>1, <2>2, <2>3, <1>2 DEF McpIInv, ChipIsFree, TxRead, Stale, PhasesInOrder
  <2>10. BusOffHasFrame'
    BY <2>1, <2>2, <2>3, <1>2 DEF McpIInv, BusOffHasFrame, PhasesInOrder
  <2>11. PhasesInOrder'
    BY <2>1, <2>2, <2>3, <1>2 DEF McpIInv, PhasesInOrder
  <2>12. RestartIsQueued'
    BY <2>1, <2>2, <2>3, <1>2 DEF McpIInv, RestartIsQueued, PhasesInOrder
  <2>13. RestartMeetsItsState'
    BY <2>1, <2>2, <2>3, <1>2 DEF McpIInv, RestartMeetsItsState, Stale, Overtaken
  <2>14. FlagsAreServed'
    BY <2>1, <2>2, <2>3, <1>2 DEF McpIInv, FlagsAreServed
  <2>15. RunsOrRestarts'
    BY <2>1, <2>2, <2>3, <1>2 DEF McpIInv, RunsOrRestarts
  <2>16. QueueIsServed'
    BY <2>1, <2>2, <2>3, <1>2 DEF McpIInv, QueueIsServed, TxRead, PhasesInOrder
  <2> QED
    BY <2>4, <2>5, <2>6, <2>7, <2>8, <2>9, <2>10, <2>11, <2>12, <2>13, <2>14, <2>15, <2>16 DEF McpIInv
<1> QED
  BY <1>1, <1>2 DEF can_resume

LEMMA can_probeKeeps == ASSUME McpIInv, can_probe PROVE McpIInv'
<1>1. CASE phase' = "ready" /\ chip' = hw_sleep(hw_reset(chip))
  <2>1. /\ phase = "gone" /\ ~ netdev.up
        /\ UNCHANGED <<drv, netdev, lock, ist, edge, works, timer, bus, up, used>>
    BY <1>1 DEF can_probe, McpIInv, PhasesInOrder
  <2>2. /\ works = <<>>
        /\ ~ Contains(works, "restart") /\ ~ Contains(works, "tx") /\ ~ Overtaken
        /\ ist.at = "idle" /\ lock = "free" /\ ~ netdev.awake /\ drv.skb = 0
    BY <2>1, ListOfWorks DEF McpIInv, McpTypeOK, PhasesInOrder
  <2>3. /\ chip' \in Chips
        /\ chip'.tx = 0 /\ chip'.intf = {} /\ chip'.mode = "sleep" /\ chip'.eflg = "active"
        /\ chip'.rx[1] = 0 /\ chip'.rx[2] = 0
    BY <1>1, ResetChip DEF Chips, hw_sleep
  <2>4. McpTypeOK'
    <3>1. chip' \in Chips
      BY <2>3
    <3>2. phase' \in {"gone", "ready", "stopping", "asleep", "oops"}
      BY <1>1
    <3> QED
      BY <2>1, <2>2, <2>3, <3>1, <3>2 DEF McpIInv, McpTypeOK
  <2>5. TxInOrder'
    BY <2>1, <2>2, <2>3, <1>1, OrderStays DEF McpIInv
  <2>6. RxOnce'
    BY <2>1, <2>2, <2>3, <1>1 DEF McpIInv, RxOnce
  <2>7. IstHasLock'
    BY <2>1, <2>2, <2>3, <1>1 DEF McpIInv, IstHasLock
  <2>8. TxFlagIsTrue'
    BY <2>1, <2>2, <2>3, <1>1 DEF McpIInv, TxFlagIsTrue, TxRead
  <2>9. ChipIsFree'
    BY <2>1, <2>2, <2>3, <1>1 DEF McpIInv, ChipIsFree, TxRead, Stale, Overtaken
  <2>10. BusOffHasFrame'
    BY <2>1, <2>2, <2>3, <1>1 DEF McpIInv, BusOffHasFrame
  <2>11. PhasesInOrder'
    BY <2>1, <2>2, <2>3, <1>1 DEF McpIInv, PhasesInOrder
  <2>12. RestartIsQueued'
    BY <2>1, <2>2, <2>3, <1>1 DEF McpIInv, RestartIsQueued, PhasesInOrder
  <2>13. RestartMeetsItsState'
    BY <2>1, <2>2, <2>3, <1>1 DEF McpIInv, RestartMeetsItsState, Stale, Overtaken
  <2>14. FlagsAreServed'
    BY <2>1, <2>2, <2>3, <1>1 DEF McpIInv, FlagsAreServed
  <2>15. RunsOrRestarts'
    BY <2>1, <2>2, <2>3, <1>1 DEF McpIInv, RunsOrRestarts
  <2>16. QueueIsServed'
    BY <2>1, <2>2, <2>3, <1>1 DEF McpIInv, QueueIsServed, TxRead
  <2> QED
    BY <2>4, <2>5, <2>6, <2>7, <2>8, <2>9, <2>10, <2>11, <2>12, <2>13, <2>14, <2>15, <2>16 DEF McpIInv
<1>2. CASE UNCHANGED <<phase, chip>>
  <2>1. /\ phase = "gone"
        /\ UNCHANGED <<drv, netdev, chip, lock, ist, edge, works, phase, timer, bus, up, used>>
    BY <1>2 DEF can_probe, McpIInv
  <2>2. McpTypeOK'
    BY <2>1 DEF McpIInv, McpTypeOK
  <2>3. TxInOrder'
    BY <2>1, <1>2 DEF McpIInv, TxInOrder
  <2>4. RxOnce'
    BY <2>1, <1>2 DEF McpIInv, RxOnce
  <2>5. IstHasLock'
    BY <2>1, <1>2 DEF McpIInv, IstHasLock
  <2>6. TxFlagIsTrue'
    BY <2>1, <1>2 DEF McpIInv, TxFlagIsTrue, TxRead
  <2>7. ChipIsFree'
    BY <2>1, <1>2 DEF McpIInv, ChipIsFree, TxRead, Stale, Overtaken
  <2>8. BusOffHasFrame'
    BY <2>1, <1>2 DEF McpIInv, BusOffHasFrame
  <2>9. PhasesInOrder'
    BY <2>1, <1>2 DEF McpIInv, PhasesInOrder
  <2>10. RestartIsQueued'
    BY <2>1, <1>2 DEF McpIInv, RestartIsQueued
  <2>11. RestartMeetsItsState'
    BY <2>1, <1>2 DEF McpIInv, RestartMeetsItsState, Stale, Overtaken
  <2>12. FlagsAreServed'
    BY <2>1, <1>2 DEF McpIInv, FlagsAreServed
  <2>13. RunsOrRestarts'
    BY <2>1, <1>2 DEF McpIInv, RunsOrRestarts
  <2>14. QueueIsServed'
    BY <2>1, <1>2 DEF McpIInv, QueueIsServed, TxRead
  <2> QED
    BY <2>2, <2>3, <2>4, <2>5, <2>6, <2>7, <2>8, <2>9, <2>10, <2>11, <2>12, <2>13, <2>14 DEF McpIInv
<1> QED
  BY <1>1, <1>2 DEF can_probe

LEMMA can_removeKeeps == ASSUME McpIInv, can_remove PROVE McpIInv'
<1>1. /\ phase = "ready" /\ ~ netdev.up /\ phase' = "gone"
      /\ UNCHANGED <<drv, netdev, chip, lock, ist, edge, works, timer, bus, up, used>>
  BY DEF can_remove, McpIInv
<1>2. McpTypeOK'
  <2>1. phase' \in {"gone", "ready", "stopping", "asleep", "oops"}
    BY <1>1 DEF McpIInv, McpTypeOK
  <2> QED
    BY <1>1, <2>1 DEF McpIInv, McpTypeOK
<1>3. TxInOrder'
  BY <1>1 DEF McpIInv, TxInOrder
<1>4. RxOnce'
  BY <1>1 DEF McpIInv, RxOnce
<1>5. IstHasLock'
  BY <1>1 DEF McpIInv, IstHasLock
<1>6. TxFlagIsTrue'
  BY <1>1 DEF McpIInv, TxFlagIsTrue, TxRead
<1>7. ChipIsFree'
  BY <1>1 DEF McpIInv, ChipIsFree, TxRead, Stale, Overtaken
<1>8. BusOffHasFrame'
  BY <1>1 DEF McpIInv, BusOffHasFrame
<1>9. PhasesInOrder'
  BY <1>1 DEF McpIInv, PhasesInOrder
<1>10. RestartIsQueued'
  BY <1>1 DEF McpIInv, RestartIsQueued, PhasesInOrder
<1>11. RestartMeetsItsState'
  BY <1>1 DEF McpIInv, RestartMeetsItsState, Stale, Overtaken
<1>12. FlagsAreServed'
  BY <1>1 DEF McpIInv, FlagsAreServed
<1>13. RunsOrRestarts'
  BY <1>1 DEF McpIInv, RunsOrRestarts
<1>14. QueueIsServed'
  BY <1>1 DEF McpIInv, QueueIsServed, TxRead
<1> QED
  BY <1>2, <1>3, <1>4, <1>5, <1>6, <1>7, <1>8, <1>9, <1>10, <1>11, <1>12, <1>13, <1>14 DEF McpIInv

LEMMA ChipReceivesKeeps == ASSUME McpIInv, ChipReceives PROVE McpIInv'
<1> DEFINE n == used.rx + 1
<1>1. /\ chip \in Chips /\ n \in Nat /\ chip.mode = "normal" /\ used' = [used EXCEPT !.rx = @ + 1]
      /\ bus' = [bus EXCEPT !.received = Append(@, n)]
      /\ UNCHANGED <<drv, netdev, lock, ist, works, phase, timer, up>>
  BY FrameNumbers DEF ChipReceives, McpIInv, McpTypeOK
<1>2. ASSUME NEW i \in 1 .. 2, chip.rx[i] = 0, NEW flag \in {"RX0", "RX1", "ERR"},
             Raise([chip EXCEPT !.rx[i] = n], flag)
      PROVE  McpIInv'
  <2>1. PICK r \in [1 .. 2 -> Nat] : r = [chip.rx EXCEPT ![i] = n]
    BY <1>1, Zenon DEF Chips
  <2>2. PICK c \in Chips : c = [chip EXCEPT !.rx = r]
    BY <1>1, Zenon DEF Chips
  <2>3. Raise(c, flag)
    BY <1>2, <2>1, <2>2
  <2>4. /\ c.mode = chip.mode /\ c.inte = chip.inte /\ c.eflg = chip.eflg /\ c.tx = chip.tx
        /\ c.intf = chip.intf /\ c.rx = r
    BY <1>1, <2>2 DEF Chips
  <2>5. r[i] = n /\ \A j \in 1 .. 2 \ {i} : r[j] = chip.rx[j]
    BY <1>1, <2>1 DEF Chips
  <2>6. \A j \in 1 .. 2 : r[j] = chip.rx[j] \/ (chip.rx[j] = 0 /\ r[j] = n)
    BY <1>2, <2>5
  <2>7. r[1] = chip.rx[1] \/ r[2] = chip.rx[2]
    BY <2>5
  <2> QED
    BY <1>1, <2>3, <2>4, <2>6, <2>7, ReceivedKeeps
<1>3. CASE chip.rx[1] = 0 /\ Raise([chip EXCEPT !.rx[1] = n], "RX0")
  BY <1>2, <1>3
<1>4. CASE chip.rx[2] = 0 /\ Raise([chip EXCEPT !.rx[2] = n], "RX1")
  BY <1>2, <1>4
<1>5. CASE Raise(chip, "ERR")
  BY <1>1, <1>5, ReceivedKeeps
<1> QED
  BY <1>3, <1>4, <1>5 DEF ChipReceives

LEMMA ChipFailsKeeps == ASSUME McpIInv, ChipFails PROVE McpIInv'
<1>1. PICK e \in ErrorStates : Raise([chip EXCEPT !.eflg = e], "ERR") /\ (e = "busoff" => chip.tx # 0)
  BY DEF ChipFails, ErrorStates
<1>2. /\ chip \in Chips /\ chip.mode = "normal" /\ used' = [used EXCEPT !.err = @ + 1]
      /\ UNCHANGED <<drv, netdev, lock, ist, works, phase, timer, bus, up>>
  BY DEF ChipFails, McpIInv, McpTypeOK
<1>3. PICK c \in Chips : c = [chip EXCEPT !.eflg = e]
  BY <1>2, Zenon DEF Chips
<1>4. /\ c.mode = chip.mode /\ c.inte = chip.inte /\ c.rx = chip.rx /\ c.tx = chip.tx
      /\ c.intf = chip.intf /\ c.eflg = e
  BY <1>2, <1>3 DEF Chips
<1> QED
  BY <1>1, <1>2, <1>3, <1>4, FailedKeeps, Zenon

LEMMA McpNextKeeps == McpIInv /\ [McpNext]_mcpVars => McpIInv'
<1>1. ASSUME McpIInv, UNCHANGED mcpVars PROVE McpIInv'
  BY <1>1 DEF mcpVars, McpIInv, McpTypeOK, TxInOrder, RxOnce, IstHasLock, TxFlagIsTrue, TxRead, ChipIsFree,
     Stale, Overtaken, BusOffHasFrame, PhasesInOrder, RestartIsQueued, RestartMeetsItsState,
     FlagsAreServed, RunsOrRestarts, QueueIsServed
<1>2. ASSUME McpIInv, McpNext PROVE McpIInv'
  BY <1>2, ChipSendsKeeps, ChipReceivesKeeps, ChipFailsKeeps, ChipRecoversKeeps, hard_start_xmitKeeps,
     tx_work_handlerKeeps, IstWakesKeeps, IstLocksKeeps, IstQuitsKeeps, IstReadsKeeps, IstActsKeeps,
     can_restart_nowKeeps, can_restartKeeps, restart_work_beginsKeeps, restart_work_endsKeeps,
     open_beginsKeeps, open_endsKeeps, open_failsKeeps, stop_beginsKeeps, stop_endsKeeps,
     can_changelinkKeeps, can_suspendKeeps, can_resumeKeeps, can_probeKeeps, can_removeKeeps DEF McpNext
<1> QED
  BY <1>1, <1>2

LEMMA McpInitially == McpInit => McpIInv
<1> SUFFICES ASSUME McpInit PROVE McpIInv
  OBVIOUS
<1>1. chip = Off /\ chip \in Chips /\ ~ chip.inte /\ chip.intf = {} /\ chip.eflg = "active" /\ chip.mode = "sleep"
      /\ chip.tx = 0 /\ chip.rx[1] = 0 /\ chip.rx[2] = 0
  BY OffChip DEF McpInit
<1>2. /\ works = <<>> /\ works \in WorkLists /\ ~ Contains(works, "restart") /\ ~ Contains(works, "tx") /\ ~ Overtaken
  BY ListOfWorks DEF McpInit, WorkLists
<1>3. <<>> \in Seq(Nat) /\ ToSet(<<>>) = {} /\ Increasing(<<>>) /\ NoRepeats(<<>>) /\ DOMAIN <<>> = {}
  BY DEF ToSet, Increasing, NoRepeats
<1>4. /\ drv \in Drivers /\ drv.skb = 0 /\ ~ drv.len /\ drv.echo = 0 /\ drv.state = "stopped" /\ ~ drv.quit
      /\ drv.after = {} /\ ~ drv.restart_tx
  BY DEF McpInit, Drivers
<1>5. netdev \in Netdevs /\ ~ netdev.up /\ ~ netdev.awake /\ netdev.attached
  BY DEF McpInit, Netdevs
<1>6. ist \in ThreadStates /\ ist.at = "idle" /\ lock = "free" /\ ~ edge /\ phase = "gone" /\ ~ timer
  BY DEF McpInit, At, ThreadStates
<1>7. /\ bus.sent = <<>> /\ bus.received = <<>> /\ up.echoed = <<>> /\ up.received = <<>>
      /\ used.tx = 0 /\ used.rx = 0
  BY DEF McpInit
<1>8. McpTypeOK
  BY <1>1, <1>2, <1>3, <1>4, <1>5, <1>6, Zenon DEF McpInit, McpTypeOK
<1>9. TxInOrder /\ RxOnce
  BY <1>1, <1>3, <1>4, <1>7 DEF TxInOrder, RxOnce
<1>10. IstHasLock /\ TxFlagIsTrue /\ ChipIsFree /\ BusOffHasFrame
  BY <1>1, <1>2, <1>4, <1>5, <1>6 DEF IstHasLock, TxFlagIsTrue, TxRead, ChipIsFree, Stale, BusOffHasFrame
<1>11. PhasesInOrder /\ RestartIsQueued /\ RestartMeetsItsState
  BY <1>1, <1>2, <1>4, <1>5, <1>6 DEF PhasesInOrder, RestartIsQueued, RestartMeetsItsState, Stale
<1>12. FlagsAreServed /\ RunsOrRestarts /\ QueueIsServed
  BY <1>1, <1>2, <1>4, <1>5, <1>6 DEF FlagsAreServed, RunsOrRestarts, QueueIsServed
<1> QED
  BY <1>8, <1>9, <1>10, <1>11, <1>12 DEF McpIInv

\* mcp251x.c: a frame in a buffer is fresh, one that waits is newer than all before, and whatever
\* the phase, the chip, the interrupt thread and the queued work agree on who is to act next.
THEOREM ControllerInvariant == McpSpec => []McpIInv
<1>1. McpInit => McpIInv
  BY McpInitially
<1>2. McpIInv /\ [McpNext]_mcpVars => McpIInv'
  BY McpNextKeeps
<1> QED
  BY <1>1, <1>2, PTL DEF McpSpec

LEMMA IncreasingOnce == ASSUME NEW s \in Seq(Nat), Increasing(s) PROVE NoRepeats(s)
<1>1. \A i \in DOMAIN s : i \in Nat /\ s[i] \in Nat
  OBVIOUS
<1>2. ASSUME NEW i \in DOMAIN s, NEW j \in DOMAIN s, s[i] = s[j] PROVE i = j
  <2>1. ~ (i < j) /\ ~ (j < i)
    BY <1>1, <1>2 DEF Increasing
  <2> QED
    BY <1>1, <2>1
<1> QED
  BY <1>2 DEF NoRepeats

\* can_get_echo_skb and mcp251x_hw_rx: every frame that the chip has sent is echoed at most once
\* and in order, every frame from the bus is given up at most once, over any number of
\* restarts, closes and suspends.
THEOREM FramesAreOnce == McpSpec => []FramesOnce
<1>1. McpIInv => FramesOnce
  <2> SUFFICES ASSUME McpIInv PROVE FramesOnce
    OBVIOUS
  <2>1. NoRepeats(up.echoed)
    BY FrameNumbers, IncreasingOnce DEF McpIInv, TxInOrder
  <2>2. ASSUME NEW i \in DOMAIN up.echoed, NEW j \in DOMAIN up.echoed, NEW k \in DOMAIN bus.sent,
               NEW l \in DOMAIN bus.sent, i < j, bus.sent[k] = up.echoed[i], bus.sent[l] = up.echoed[j]
        PROVE  k < l
    <3>1. up.echoed[i] < up.echoed[j]
      BY <2>2 DEF McpIInv, TxInOrder, Increasing
    <3>4. bus.sent \in Seq(Nat) /\ bus.sent[k] \in Nat /\ bus.sent[l] \in Nat
      BY FrameNumbers, Zenon DEF McpIInv
    <3>2. k \in Nat /\ l \in Nat /\ bus.sent[k] \in Nat /\ bus.sent[l] \in Nat /\ bus.sent[k] < bus.sent[l]
      BY <2>2, <3>1, <3>4
    <3>3. l < k => bus.sent[l] < bus.sent[k]
      BY DEF McpIInv, TxInOrder, Increasing
    <3> QED
      BY <3>2, <3>3
  <2> QED
    BY <2>1, <2>2 DEF McpIInv, TxInOrder, RxOnce, FramesOnce
<1> QED
  BY <1>1, ControllerInvariant, PTL

\* mcp251x_hard_start_xmit stops the queue; tx_work, the interrupt thread and the restart work see
\* to it that it is woken again.
THEOREM QueueIsRestarted == McpSpec => []QueueRestarts
<1>1. McpIInv => QueueRestarts
  <2> SUFFICES ASSUME McpIInv, phase = "ready", netdev.up, netdev.attached, netdev.carrier, ~ netdev.awake,
                      works = <<>>, lock = "free", ist.at = "idle", ~ edge, ~ timer
               PROVE  chip.tx # 0 /\ chip.mode = "normal"
    BY DEF QueueRestarts, McpIInv, McpTypeOK
  <2>1. ~ Contains(works, "tx") /\ ~ Contains(works, "restart")
    BY ListOfWorks DEF McpIInv, McpTypeOK
  <2>2. drv.after = {}
    BY <2>1 DEF McpIInv, RestartIsQueued
  <2>3. chip.mode = "normal" /\ ~ drv.quit
    BY <2>2 DEF McpIInv, RunsOrRestarts
  <2>4. chip.intf = {}
    BY <2>2, <2>3 DEF McpIInv, FlagsAreServed
  <2> QED
    BY <2>1, <2>2, <2>3, <2>4 DEF McpIInv, QueueIsServed, TxRead
<1> QED
  BY <1>1, ControllerInvariant, PTL
=============================================================================
