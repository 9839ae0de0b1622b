------------------------------ MODULE Ltc294x ------------------------------
(***************************************************************************)
(* The coulomb counter driver ltc294x/ltc2941-battery-gauge.c.             *)
(*                                                                         *)
(* The chip counts charge in a 16 bit register.  The driver converts       *)
(* between counts and microampere hours in integers, with the sign of the  *)
(* sense resistor; to set the register it stops the chip, writes and       *)
(* starts it again, each of which may fail.  A work reads the register     *)
(* every ten seconds and tells user space of changes.                      *)
(***************************************************************************)
EXTENDS Integers

CONSTANTS
  RSense,     \* the sense resistors considered (milliohms, of either sign)
  Prescaler,  \* the prescaler exponents considered
  Charges,    \* the charges user space sets (microampere hours)
  Levels,     \* the counts the register may stand at when charge has flowed
  LtcBusFails    \* TRUE: an access to the chip may fail

VARIABLES
  ltc,    \* struct ltc294x_info, and whether the driver is bound
  meter,  \* the chip: counting or shut down, and its charge register
  setter, \* ltc294x_set_charge_now: where it is and what it writes
  ltcWork,\* the delayed work
  charged \* the charge that was set and not counted away from yet

ltcVars == <<ltc, meter, setter, ltcWork, charged>>

MAX_VALUE == 65535
NoCharge == -1      \* no charge that was set stands in the register
LtcBus == IF LtcBusFails THEN {TRUE, FALSE} ELSE {TRUE}

Abs(n) == IF n < 0 THEN -n ELSE n
\* Division of C: towards zero.
CDiv(a, b) == LET q == Abs(a) \div Abs(b) IN IF (a < 0) = (b < 0) THEN q ELSE -q

\* The charge of one count in nAh for the LTC2941 and LTC2942.
MAX_PRESCALER_EXP == 7
Qlsb(r, exp) ==
  LET e == IF exp > MAX_PRESCALER_EXP THEN MAX_PRESCALER_EXP ELSE exp
  IN  CDiv(CDiv(85 * 50000, r), 128 \div 2^e)

\* The driver divides by a tenth of it, so the resistor is not above some three ohms.
ASSUME LtcAssumption ==
  /\ \A r \in RSense, exp \in Prescaler : Qlsb(r, exp) \in Int /\ Abs(Qlsb(r, exp)) >= 10
  /\ Charges \subseteq Nat /\ Levels \subseteq 0..MAX_VALUE
  /\ LtcBusFails \in BOOLEAN

convert_bin_to_uAh(Q) == CDiv(Q * CDiv(ltc.Qlsb, 10), 100)

convert_uAh_to_bin(uAh) ==
  LET Q == CDiv(uAh * 100, CDiv(ltc.Qlsb, 10))
  IN  IF Q < MAX_VALUE THEN Q ELSE MAX_VALUE

\* A plausible bug: the sign of the resistor is forgotten when reading back.
ChargeWithoutOffset == convert_bin_to_uAh(meter.acc)

\* With a negative resistor the register counts down from its maximum.
get_charge_now ==
  convert_bin_to_uAh(IF ltc.Qlsb < 0 THEN meter.acc - MAX_VALUE ELSE meter.acc)

LtcInit ==
  /\ \E r \in RSense, exp \in Prescaler :
       ltc = [phase |-> "off", Qlsb |-> Qlsb(r, exp), charge |-> 0]
  /\ meter \in [on : {TRUE}, ready : {FALSE}, acc : Levels]
  /\ setter = [pc |-> "out", value |-> 0, asked |-> 0, failed |-> FALSE]
  /\ ltcWork = "none"
  /\ charged = NoCharge

----------------------------------------------------------------------------

\* Charge flows: the register moves, unless the chip is shut down.
Counts(v) ==
  /\ meter.on /\ meter.acc # v
  /\ meter' = [meter EXCEPT !.acc = v]
  /\ charged' = NoCharge
  /\ UNCHANGED <<ltc, setter, ltcWork>>

\* The control register is written when it is not right yet, or has the chip
\* shut down.
ltc_reset(ok) == meter' = [meter EXCEPT !.ready = @ \/ ok, !.on = @ \/ ok]

probe(ok) ==
  /\ ltc.phase = "off" /\ ltcWork # "runs"
  /\ ltc_reset(ok)
  /\ IF ok THEN /\ ltc' = [ltc EXCEPT !.phase = "on", !.charge = 0]
                /\ ltcWork' = "scheduled"
           ELSE UNCHANGED <<ltc, ltcWork>>
  /\ UNCHANGED <<setter, charged>>

\* set_charge_now: a value the register cannot hold is refused.
set_charge_now(uAh) ==
  LET bin == convert_uAh_to_bin(uAh)
      value == IF ltc.Qlsb < 0 THEN bin + MAX_VALUE ELSE bin
  IN  /\ ltc.phase = "on" /\ setter.pc = "out"
      /\ value \in 0..MAX_VALUE
      /\ setter' = [pc |-> "stop", value |-> value, asked |-> uAh,
                    failed |-> FALSE]
      /\ UNCHANGED <<ltc, meter, ltcWork, charged>>

set_stops(ok) ==
  /\ setter.pc = "stop"
  /\ setter' = [setter EXCEPT !.pc = IF ok THEN "write" ELSE "out"]
  /\ meter' = [meter EXCEPT !.on = @ /\ ~ok]
  /\ UNCHANGED <<ltc, ltcWork, charged>>

\* The chip is started again whether or not the register could be written.
set_writes(ok) ==
  /\ setter.pc = "write"
  /\ setter' = [setter EXCEPT !.pc = "start", !.failed = ~ok]
  /\ meter' = IF ok THEN [meter EXCEPT !.acc = setter.value] ELSE meter
  /\ charged' = IF ok THEN setter.asked ELSE charged
  /\ UNCHANGED <<ltc, ltcWork>>

\* The result is that of this last write alone.
set_starts(ok) ==
  /\ setter.pc = "start"
  /\ setter' = [setter EXCEPT !.pc = "out"]
  /\ meter' = [meter EXCEPT !.on = @ \/ ok]
  /\ UNCHANGED <<ltc, ltcWork, charged>>

----------------------------------------------------------------------------
(* The work, suspend, resume and remove: cancel_delayed_work does not wait *)
(* for a work that runs, which then schedules itself again.                *)

WorkRuns ==
  /\ ltcWork = "scheduled"
  /\ ltcWork' = "runs"
  /\ UNCHANGED <<ltc, meter, setter, charged>>

work_ends(ok) ==
  /\ ltcWork = "runs"
  /\ ltc' = [ltc EXCEPT !.charge = IF ok THEN meter.acc ELSE -1]
  /\ ltcWork' = "scheduled"
  /\ UNCHANGED <<meter, setter, charged>>

cancel_delayed_work == ltcWork' = IF ltcWork = "runs" THEN "runs" ELSE "none"

suspend ==
  /\ ltc.phase = "on" /\ setter.pc = "out"
  /\ ltc' = [ltc EXCEPT !.phase = "asleep"]
  /\ cancel_delayed_work
  /\ UNCHANGED <<meter, setter, charged>>

resume ==
  /\ ltc.phase = "asleep"
  /\ ltc' = [ltc EXCEPT !.phase = "on"]
  /\ ltcWork' = IF ltcWork = "runs" THEN "runs" ELSE "scheduled"
  /\ UNCHANGED <<meter, setter, charged>>

ltc_remove ==
  /\ ltc.phase = "on" /\ setter.pc = "out"
  /\ ltc' = [ltc EXCEPT !.phase = "off"]
  /\ cancel_delayed_work
  /\ UNCHANGED <<meter, setter, charged>>

LtcNext ==
  \/ \E v \in Levels : Counts(v)
  \/ \E uAh \in Charges : set_charge_now(uAh)
  \/ \E ok \in LtcBus : \/ probe(ok) \/ set_stops(ok) \/ set_writes(ok)
                     \/ set_starts(ok) \/ work_ends(ok)
  \/ WorkRuns \/ suspend \/ resume \/ ltc_remove

LtcSpec == LtcInit /\ [][LtcNext]_ltcVars

----------------------------------------------------------------------------
(* Properties.                                                             *)

LtcTypeOK ==
  /\ ltc.phase \in {"off", "on", "asleep"} /\ meter.acc \in 0..MAX_VALUE
  /\ setter.pc \in {"out", "stop", "write", "start"}
  /\ ltcWork \in {"none", "scheduled", "runs"}

FullScale == Abs(convert_bin_to_uAh(MAX_VALUE))

\* A charge that was set reads back, until charge flows, to within one count
\* below, for both signs of the resistor and every prescaler; a charge beyond
\* the register's range reads back as its full scale (set_charge_now and
\* get_charge_now round in the same direction and share the offset).
ChargeReadsBack ==
  /\ LtcTypeOK
  /\ charged # NoCharge =>
       LET got == get_charge_now
           top == IF charged > FullScale THEN FullScale ELSE charged
       IN  got <= top /\ top - got <= Abs(ltc.Qlsb) \div 1000 + 1

----------------------------------------------------------------------------
(* What ChargeReadsBack needs to be inductive.                             *)

LtcFieldsOK ==
  /\ ltc \in [phase : {"off", "on", "asleep"}, Qlsb : Int, charge : Int]
  /\ meter \in [on : BOOLEAN, ready : BOOLEAN, acc : 0..MAX_VALUE]
  /\ setter \in [pc : {"out", "stop", "write", "start"}, value : 0..MAX_VALUE,
                 asked : Nat, failed : BOOLEAN]
  /\ ltcWork \in {"none", "scheduled", "runs"}
  /\ charged \in Nat \union {NoCharge}

\* The register value for a charge.
ValueOf(uAh) ==
  IF ltc.Qlsb < 0 THEN convert_uAh_to_bin(uAh) + MAX_VALUE ELSE convert_uAh_to_bin(uAh)

\* The value on its way to the register is the one of the charge that was asked for,
\* through the stop, the write and their failures, and the value in the register the one
\* of the last charge that was written.
ValueIsOfCharge ==
  /\ Abs(ltc.Qlsb) >= 10
  /\ setter.pc \in {"stop", "write"} => setter.value = ValueOf(setter.asked)
  /\ charged # NoCharge => meter.acc = ValueOf(charged)

LtcIInv == LtcFieldsOK /\ ValueIsOfCharge

============================================================================
