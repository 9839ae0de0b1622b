-------------------------------- MODULE Rtc --------------------------------
(***************************************************************************)
(* The battery-backed clock: the driver rtc-pcf85063 and the module        *)
(* rtc_sync, which takes the system clock from it when it is loaded, and   *)
(* from then on looks every ten seconds whether the system clock was set,  *)
(* to write it back.                                                       *)
(*                                                                         *)
(* Time is in half seconds since 2000, both clocks by their own count; it  *)
(* passes while the thread sleeps, the accesses to the chip taking none.   *)
(* A year is so short that it has a minute: the calendar is the kernel's,  *)
(* and only what the driver does with its fields matters.                  *)
(***************************************************************************)
EXTENDS Integers

CONSTANTS
  ClockSteps, \* what the system clock is moved by when it is set, in half seconds
  Interval,   \* the thread's period, in seconds
  MaxSets,    \* bound on the settings of the system clock
  MaxRounds,  \* bound on the periods that pass
  RtcFails    \* TRUE: a transfer may fail

ASSUME RtcAssumption == ClockSteps \subseteq Int /\ Interval \in Nat \ {0} /\ MaxSets \in Nat
                          /\ MaxRounds \in Nat /\ RtcFails \in BOOLEAN

VARIABLES
  sysclock,  \* the system clock
  rtc,       \* the chip: its registers, half a second, whether it is stopped or was
  sync,      \* rtc_sync: its thread, the clock before it slept, what it writes
  clkout,    \* the frequency of the chip's clock output
  missed,    \* the clocks may differ by something the thread could not see or write
  budget     \* settings and periods that are left

rtcVars == <<sysclock, rtc, sync, clkout, missed, budget>>

clkout_freq_table == <<32768, 16384, 8192, 4096, 2048, 1024, 1, 0>>
BootTime == -120   \* before the chip's century
Transfer == IF RtcFails THEN {TRUE, FALSE} ELSE {TRUE}

\* The calendar: seconds and a year, from 1900.
Tm(t) == [tm_sec |-> t % 60, tm_year |-> 100 + (t \div 60)]
Seconds(tm) == tm.tm_sec + 60 * (tm.tm_year - 100)

bin2bcd(n) == (n \div 10) * 16 + (n % 10)
bcd2bin(b) == (b \div 16) * 10 + (b % 16)

\* The registers as pcf85063_rtc_set_time fills them, and as pcf85063_rtc_read_time takes
\* them: bit 7 of the seconds says that the oscillator stopped.
SetRegs(tm) == [sc |-> bin2bcd(tm.tm_sec) % 128, yr |-> bin2bcd(tm.tm_year - 100) % 256]
ReadRegs(regs) == [tm_sec |-> bcd2bin(regs.sc % 128), tm_year |-> bcd2bin(regs.yr) + 100]
Lost(regs) == regs.sc >= 128

\* The chip counts, and begins its century again.
ClockRuns(c, seconds) ==
  IF c.stop \/ Lost(c.regs) THEN c ELSE [c EXCEPT !.regs = SetRegs(Tm((Seconds(ReadRegs(@)) + seconds) % 6000))]

----------------------------------------------------------------------------
(* rtc_sync.                                                               *)

Pc(p) == sync' = [sync EXCEPT !.pc = p]

\* rtc_sync_init: rtc_hctosys, then the thread.  A clock that cannot be read or that lost
\* its power leaves the system clock alone.
rtc_hctosys(ok) ==
  /\ sync.pc = "unloaded"
  /\ IF ok /\ ~Lost(rtc.regs)
       THEN sysclock' = 2 * Seconds(ReadRegs(rtc.regs)) + 1 /\ missed' = rtc.stop
       ELSE missed' = TRUE /\ UNCHANGED sysclock
  /\ Pc("check")
  /\ UNCHANGED <<rtc, clkout, budget>>

\* time_check: the clock is noted, ten seconds pass, and it is compared.
Before ==
  /\ sync.pc = "check"
  /\ sync' = [sync EXCEPT !.pc = "sleep", !.before = sysclock]
  /\ UNCHANGED <<sysclock, rtc, clkout, missed, budget>>

Sleeps ==
  /\ sync.pc = "sleep" /\ budget.rounds > 0
  /\ sysclock' = sysclock + 2 * Interval
  /\ rtc' = ClockRuns(rtc, Interval)
  /\ budget' = [budget EXCEPT !.rounds = @ - 1]
  /\ Pc("awake")
  /\ UNCHANGED <<clkout, missed>>

\* A plausible bug: the clock as it was before is written.
AfterWritesBefore ==
  LET delta == sysclock - sync.before - 2 * Interval
      changed == delta > 2 \/ delta < -2
  IN  /\ sync.pc = "awake"
      /\ sync' = [sync EXCEPT !.pc = IF changed THEN "stop" ELSE "ends",
                              !.tm = Tm((sync.before + 1) \div 2), !.late = FALSE]
      /\ missed' = (missed \/ (~changed /\ delta # 0))
      /\ UNCHANGED <<sysclock, rtc, clkout, budget>>

\* A change of up to a second is taken for none.  systohc rounds to the nearest second.
After ==
  LET delta == sysclock - sync.before - 2 * Interval
      changed == delta > 2 \/ delta < -2
  IN  /\ sync.pc = "awake"
      /\ sync' = [sync EXCEPT !.pc = IF changed THEN "stop" ELSE "ends",
                              !.tm = Tm((sysclock + 1) \div 2), !.late = FALSE]
      /\ missed' = (missed \/ (~changed /\ delta # 0))
      /\ UNCHANGED <<sysclock, rtc, clkout, budget>>

\* rtc_sync_exit stops the thread, which looks at the end of a round only.
Exit ==
  /\ sync.pc \notin {"unloaded", "ends"} /\ ~sync.stopping
  /\ sync' = [sync EXCEPT !.stopping = TRUE]
  /\ UNCHANGED <<sysclock, rtc, clkout, missed, budget>>

RoundEnds ==
  /\ sync.pc = "ends"
  /\ sync' = [sync EXCEPT !.pc = IF sync.stopping THEN "unloaded" ELSE "check", !.stopping = FALSE]
  /\ UNCHANGED <<sysclock, rtc, clkout, missed, budget>>

----------------------------------------------------------------------------
(* The driver, under its mutex.                                            *)

Failed == missed' = TRUE /\ Pc("ends") /\ UNCHANGED <<rtc, sysclock, clkout, budget>>

\* pcf85063_stop_clock: a year out of the chip's century is refused before it.
StopClock(ok) ==
  /\ sync.pc = "stop"
  /\ IF ~ok \/ sync.tm.tm_year < 100 \/ sync.tm.tm_year > 199 THEN Failed
     ELSE /\ rtc' = [rtc EXCEPT !.stop = TRUE]
          /\ Pc("set")
          /\ UNCHANGED <<sysclock, clkout, missed, budget>>

\* The registers are written, the oscillator's flag cleared; an error leaves the clock
\* stopped.
SetTime(ok) ==
  /\ sync.pc = "set"
  /\ IF ~ok THEN Failed
     ELSE /\ rtc' = [rtc EXCEPT !.regs = SetRegs(sync.tm)]
          /\ Pc("start")
          /\ UNCHANGED <<sysclock, clkout, missed, budget>>

\* pcf85063_start_clock writes the register that stop_clock was to keep, and which is zero.
StartClock(ok) ==
  /\ sync.pc = "start"
  /\ IF ~ok THEN Failed
     ELSE /\ rtc' = [rtc EXCEPT !.stop = FALSE, !.other = 0]
          /\ missed' = sync.late
          /\ Pc("ends")
          /\ UNCHANGED <<sysclock, clkout, budget>>

\* pcf85063_set_clkout_freq, from sysfs.
set_clkout_freq(freq, ok) ==
  /\ \E i \in DOMAIN clkout_freq_table : clkout_freq_table[i] = freq
  /\ sync.pc \notin {"set", "start"}
  /\ clkout' = IF ok THEN freq ELSE clkout
  /\ UNCHANGED <<sysclock, rtc, sync, missed, budget>>

----------------------------------------------------------------------------
(* The surroundings.                                                       *)

\* Somebody sets the system clock.  The thread cannot see it after it compared and before
\* it noted the clock again.
SetSystemClock(d) ==
  /\ budget.sets > 0
  /\ sysclock' = sysclock + d
  /\ budget' = [budget EXCEPT !.sets = @ - 1]
  /\ missed' = (missed \/ sync.pc \notin {"sleep", "awake"})
  /\ sync' = [sync EXCEPT !.late = @ \/ sync.pc \in {"stop", "set", "start"}]
  /\ UNCHANGED <<rtc, clkout>>

\* The board wakes from its deepest sleep: only the chip's clock has gone on, unless its
\* battery was empty.
Reboot(battery) ==
  /\ budget.rounds > 0
  /\ budget' = [budget EXCEPT !.rounds = @ - 1]
  /\ sysclock' = BootTime
  /\ rtc' = IF battery THEN ClockRuns(rtc, Interval) ELSE [rtc EXCEPT !.regs.sc = 128]
  /\ sync' = [pc |-> "unloaded", before |-> 0, tm |-> Tm(0), stopping |-> FALSE, late |-> FALSE]
  /\ missed' = TRUE
  /\ clkout' = 0

RtcInit ==
  /\ sysclock = BootTime
  /\ rtc = [regs |-> [sc |-> 128, yr |-> 0], stop |-> FALSE, other |-> 1]
  /\ sync = [pc |-> "unloaded", before |-> 0, tm |-> Tm(0), stopping |-> FALSE, late |-> FALSE]
  /\ clkout = 0 /\ missed = TRUE /\ budget = [sets |-> MaxSets, rounds |-> MaxRounds]

RtcNext ==
  \/ \E ok \in Transfer : rtc_hctosys(ok) \/ StopClock(ok) \/ SetTime(ok) \/ StartClock(ok)
                            \/ set_clkout_freq(1, ok)
  \/ Before \/ Sleeps \/ After \/ RoundEnds \/ Exit
  \/ \E d \in ClockSteps : SetSystemClock(d)
  \/ \E battery \in BOOLEAN : Reboot(battery)

RtcSpec == RtcInit /\ [][RtcNext]_rtcVars

----------------------------------------------------------------------------
(* The property.                                                           *)

\* At the end of a round the two clocks agree to half a second, through settings, reboots
\* and failures, unless something happened that the thread cannot notice or could not write
\* (a change of no more than a second, one made between two rounds, a transfer that failed,
\* a year outside the chip's century, in the last half second of which the chip, rounded up,
\* begins it again) and no later write has made up for it.  (time_check, rtc_hctosys, and the
\* BCD registers of pcf85063_rtc_set_time and _read_time.)
CenturyEnd == 2 * 6000 - 1
Agrees(clock) == clock < CenturyEnd => clock - 2 * Seconds(ReadRegs(rtc.regs)) \in -1 .. 1
ClocksAgree == sync.pc \in {"ends", "check"} /\ ~missed => Agrees(sysclock)

----------------------------------------------------------------------------
(* What ClocksAgree needs to be inductive.                                 *)

RtcTypeOK ==
  /\ sysclock \in Int /\ missed \in BOOLEAN
  /\ sync \in [pc : {"unloaded", "check", "sleep", "awake", "ends", "stop", "set", "start"},
               before : Int, tm : [tm_sec : Int, tm_year : Int], stopping : BOOLEAN, late : BOOLEAN]
  /\ rtc \in [regs : [sc : 0 .. 255, yr : 0 .. 255], stop : BOOLEAN, other : Int]

\* Outside of a write, a chip that nothing was missed of runs.
ChipRuns == sync.pc \in {"ends", "check", "sleep", "awake"} /\ ~missed => ~rtc.stop /\ ~Lost(rtc.regs)

\* The clock as it was noted agrees with the chip, whatever it is set to meanwhile.
NotedAgrees ==
  /\ sync.pc = "sleep" /\ ~missed => Agrees(sync.before)
  /\ sync.pc = "awake" /\ ~missed => Agrees(sync.before + 2 * Interval)

\* What is written is the clock as it is, unless it was set after it was looked at.
WritesNow ==
  /\ sync.pc \in {"stop", "set", "start"} /\ ~sync.late => sync.tm = Tm((sysclock + 1) \div 2)
  /\ sync.pc \in {"set", "start"} => sync.tm.tm_year \in 100 .. 199
  /\ sync.pc = "start" => rtc.regs = SetRegs(sync.tm)

RtcIInv == RtcTypeOK /\ ClocksAgree /\ ChipRuns /\ NotedAgrees /\ WritesNow
============================================================================
