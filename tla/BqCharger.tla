----------------------------- MODULE BqCharger -----------------------------
(***************************************************************************)
(* The battery charger drivers of the mangOH boards:                       *)
(* bq24296/bq24190-charger.c (mangOH Green) and its descendant             *)
(* bq25601/bq25601.c (mangOH Yellow), which keeps the handlers, has other  *)
(* tables and lost the 20% (trickle) mode of the charge current.           *)
(*                                                                         *)
(* Three kinds of steps meet in these drivers.  The chip raises and clears *)
(* faults; its fault register F is latched: the first read after a fault   *)
(* returns it, the next ones what is present then.  The interrupt thread   *)
(* reads the status and the fault register and keeps copies, with one flag *)
(* per routine that has not yet reported the copy.  The power supply       *)
(* callbacks, any number at a time, report from the copy or from the chip  *)
(* and set registers by read, modify and write.  Only f_reg_lock exists;   *)
(* it protects the copies and no register, so the two actions of a routine *)
(* (look at the flag, read the chip) are separate steps.                   *)
(*                                                                         *)
(* A register access may fail (Bus): a setting of several registers then   *)
(* stops where it is.  One property is set at a time: nothing in the code  *)
(* makes it so (README, known weaknesses).                                 *)
(***************************************************************************)
EXTENDS Integers, FiniteSets, Sequences, FiniteSetsExt

CONSTANTS
  Requests,   \* the values user space asks for, per setting: [Settings -> set]
  RawValues,  \* the field values user space writes through f_* files
  BusFails    \* TRUE: an I2C access may fail

VARIABLES
  part,    \* the charger of this board: "bq24190" or "bq25601"
  chip,    \* the charger's registers
  bdi,     \* struct bq24190_dev_info: the copies and the flags
  routine, \* where each routine that reports faults is
  irq,     \* the interrupt line and thread
  asked,   \* what user space was last told is set, per setting
  owed     \* the faults that came since each routine last reported

bqVars == <<part, chip, bdi, routine, irq, asked, owed>>

Parts == {"bq24190", "bq25601"}
Settings == {"ichg", "vreg", "treg"}
None == -1

ASSUME BqAssumption ==
  /\ Requests \in [Settings -> SUBSET Int] /\ RawValues \subseteq Nat
  /\ BusFails \in BOOLEAN

\* The routines that report faults, and the faults each looks at: chrg stands
\* for BOOST_FAULT and CHRG_FAULT, bat for BAT_FAULT and NTC_FAULT.
Faults == {"chrg", "bat"}
Reports == [charger_health |-> {"chrg"},
            battery_status |-> {"chrg"},
            battery_health |-> {"bat"}]
Routines == DOMAIN Reports

Bus == IF BusFails THEN {TRUE, FALSE} ELSE {TRUE}

----------------------------------------------------------------------------
(* The tables: microamperes, microvolts, tenths of a degree, from index 0. *)

bq24190_ccc_ichg_values == [i \in 0..63 |-> 512000 + 64000 * i]
bq24190_cvc_vreg_values == [i \in 0..56 |-> 3504000 + 16000 * i]
bq24190_ictrc_treg_values == [i \in 0..3 |-> 600 + 200 * i]

bq25601_ccc_ichg_values ==
  [i \in 0..51 |-> CASE i <= 36 -> 60000 * i
                     [] i = 37  -> 2200000
                     [] i = 38  -> 2260000
                     [] OTHER   -> 60000 * (i - 1)]
bq25601_cvc_vreg_values == [i \in 0..24 |-> 3856000 + 32000 * i]
bq25601_cttc_treg_values == [i \in 0..1 |-> 900 + 200 * i]

Table(f) ==
  CASE part = "bq24190" /\ f = "ichg" -> bq24190_ccc_ichg_values
    [] part = "bq24190" /\ f = "vreg" -> bq24190_cvc_vreg_values
    [] part = "bq24190" /\ f = "treg" -> bq24190_ictrc_treg_values
    [] part = "bq25601" /\ f = "ichg" -> bq25601_ccc_ichg_values
    [] part = "bq25601" /\ f = "vreg" -> bq25601_cvc_vreg_values
    [] part = "bq25601" /\ f = "treg" -> bq25601_cttc_treg_values

\* A plausible bug: the index of the entry that stopped the loop.
FindIdxAbove(tbl, v) ==
  LET n == Cardinality(DOMAIN tbl)
  IN  Min({i \in 1..(n - 1) : v < tbl[i]} \union {n - 1})

\* The loop stops at the first entry above v and returns the one before it.
find_idx(tbl, v) ==
  LET n == Cardinality(DOMAIN tbl)
  IN  Min({i \in 1..(n - 1) : v < tbl[i]} \union {n}) - 1

\* A register field may hold more than the table has entries for.
get_field_val(tbl, v) == tbl[Min({v, Cardinality(DOMAIN tbl) - 1})]

----------------------------------------------------------------------------
(* The chip (external): its defaults, and what happens to it.  The status  *)
(* register SS is reduced to the power-good bit, the charge status is what *)
(* it is; wdt says whether the watchdog runs.                              *)

Defaults(p) ==
  [chg |-> TRUE, force20 |-> FALSE, term |-> TRUE, hiz |-> FALSE,
   batfet |-> TRUE, wdt |-> TRUE,
   ichg |-> IF p = "bq24190" THEN 24 ELSE 34,
   vreg |-> IF p = "bq24190" THEN 44 ELSE 11,
   treg |-> IF p = "bq24190" THEN 3 ELSE 1]

NothingAsked == [f \in Settings |-> None]
NothingOwed == [r \in Routines |-> {}]

BqInit ==
  /\ part \in Parts
  /\ chip = [set |-> Defaults(part), pg |-> FALSE, now |-> {}, latch |-> {}]
  /\ bdi = [phase |-> "off", ss_reg |-> FALSE, f_reg |-> {}, valid |-> {}]
  /\ routine = [r \in Routines |-> "idle"]
  /\ irq = [pending |-> FALSE, pc |-> "idle", missed |-> FALSE]
  /\ asked = NothingAsked
  /\ owed = NothingOwed

\* An edge wakes the thread once the interrupt has been requested; an edge
\* while the thread runs (IRQF_ONESHOT) is kept for after it.
Edge == irq' = [irq EXCEPT !.pending = bdi.phase # "off"]

ChipFaults(f) ==
  /\ f \notin chip.now
  /\ chip' = [chip EXCEPT !.now = @ \union {f}, !.latch = @ \union {f}]
  /\ owed' = [r \in Routines |->
                IF bdi.phase = "on" /\ f \in Reports[r]
                  THEN owed[r] \union {f} ELSE owed[r]]
  /\ Edge
  /\ UNCHANGED <<part, bdi, routine, asked>>

ChipRecovers(f) ==
  /\ f \in chip.now
  /\ chip' = [chip EXCEPT !.now = @ \ {f}]
  /\ Edge
  /\ UNCHANGED <<part, bdi, routine, asked, owed>>

SupplyChanges ==
  /\ chip' = [chip EXCEPT !.pg = ~@]
  /\ Edge
  /\ UNCHANGED <<part, bdi, routine, asked, owed>>

\* The watchdog brings the defaults back when the host is silent.
WatchdogExpires ==
  /\ chip.set.wdt
  /\ chip' = [chip EXCEPT !.set = Defaults(part)]
  /\ asked' = NothingAsked
  /\ UNCHANGED <<part, bdi, routine, irq, owed>>

\* A read of F returns the latched faults and the present ones, once.
FaultRegister == chip.latch \union chip.now
FaultsRead == [chip EXCEPT !.latch = {}]

----------------------------------------------------------------------------
(* Start and end of the driver, suspend and resume.                        *)

Quiet == irq.pc = "idle" /\ \A r \in Routines : routine[r] = "idle"

register_reset(ok) ==
  /\ chip' = IF ok THEN [chip EXCEPT !.set = Defaults(part)] ELSE chip
  /\ asked' = IF ok THEN NothingAsked ELSE asked

\* set_mode_host: the watchdog is switched off (its old value is kept in
\* bdi->watchdog, which nothing reads).
set_mode_host(set) == [set EXCEPT !.wdt = FALSE]

\* The interrupt is requested before the hardware is initialised.
probe_irq ==
  /\ bdi.phase = "off" /\ Quiet
  /\ bdi' = [phase |-> "init", ss_reg |-> FALSE, f_reg |-> {}, valid |-> {}]
  /\ irq' = [irq EXCEPT !.pending = FALSE, !.missed = FALSE]
  /\ UNCHANGED <<part, chip, routine, asked, owed>>

hw_init(reset, host) ==
  /\ bdi.phase = "init"
  /\ chip' = [chip EXCEPT
                !.set = IF ~reset THEN @
                        ELSE IF ~host THEN Defaults(part)
                        ELSE set_mode_host(Defaults(part))]
  /\ asked' = NothingAsked
  /\ owed' = NothingOwed
  /\ IF reset /\ host
       THEN /\ bdi' = [bdi EXCEPT !.phase = "on"]
            /\ UNCHANGED irq
       ELSE /\ irq.pc = "idle"
            /\ bdi' = [bdi EXCEPT !.phase = "off"]
            /\ irq' = [irq EXCEPT !.pending = FALSE]
  /\ UNCHANGED <<part, routine>>

\* The supplies are unregistered, which waits for the routines, and the
\* interrupt is freed, which waits for its thread.
remove(ok) ==
  /\ bdi.phase = "on" /\ Quiet
  /\ register_reset(ok)
  /\ bdi' = [bdi EXCEPT !.phase = "off"]
  /\ irq' = [irq EXCEPT !.pending = FALSE]
  /\ owed' = NothingOwed
  /\ UNCHANGED <<part, routine>>

\* User space is frozen, so no routine is under way.
pm_suspend(ok) ==
  /\ bdi.phase = "on"
  /\ \A r \in Routines : routine[r] = "idle"
  /\ register_reset(ok)
  /\ bdi' = [bdi EXCEPT !.phase = "asleep"]
  /\ UNCHANGED <<part, routine, irq, owed>>

\* The flags are cleared without f_reg_lock.
pm_resume(ok) ==
  /\ bdi.phase = "asleep"
  /\ bdi' = [bdi EXCEPT !.phase = "on", !.valid = {}]
  /\ register_reset(ok)
  /\ owed' = NothingOwed
  /\ UNCHANGED <<part, routine, irq>>

----------------------------------------------------------------------------
(* The interrupt thread.                                                   *)

\* The status register: when the supply has gone, the input is taken out of
\* high impedance, and a failure of that is only logged.
irq_reads_ss(ok, hiz_ok) ==
  /\ irq.pending /\ irq.pc = "idle"
  /\ irq' = [pending |-> FALSE, pc |-> IF ok THEN "f" ELSE "idle",
             missed |-> ~ok]
  /\ bdi' = IF ok THEN [bdi EXCEPT !.ss_reg = chip.pg] ELSE bdi
  /\ chip' = IF ok /\ hiz_ok /\ bdi.ss_reg /\ ~chip.pg
               THEN [chip EXCEPT !.set.hiz = FALSE] ELSE chip
  /\ UNCHANGED <<part, routine, asked, owed>>

\* A plausible bug: a fault that is already kept is not replaced.
IrqKeepsFirstFault(ok) ==
  /\ irq.pc = "f"
  /\ irq' = [irq EXCEPT !.pc = "idle", !.missed = ~ok]
  /\ chip' = IF ok THEN FaultsRead ELSE chip
  /\ bdi' = IF ok /\ (FaultRegister = {} \/ bdi.f_reg = {})
              THEN [bdi EXCEPT !.f_reg = FaultRegister, !.valid = Routines]
              ELSE bdi
  /\ UNCHANGED <<part, routine, asked, owed>>

\* The fault register, under f_reg_lock: a new value is kept for every routine.
\* The value of a failed read is not used.
irq_reads_f(ok) ==
  /\ irq.pc = "f"
  /\ irq' = [irq EXCEPT !.pc = "idle", !.missed = ~ok]
  /\ chip' = IF ok THEN FaultsRead ELSE chip
  /\ bdi' = IF ok /\ FaultRegister # bdi.f_reg
              THEN [bdi EXCEPT !.f_reg = FaultRegister, !.valid = Routines]
              ELSE bdi
  /\ UNCHANGED <<part, routine, asked, owed>>

----------------------------------------------------------------------------
(* The routines that report faults.                                        *)

\* Under f_reg_lock: the copy is reported once, else the chip is read.  The
\* battery status also reads SS (ok), and the copy is spent when that fails.
Look(r, ok) ==
  /\ bdi.phase = "on" /\ routine[r] = "idle"
  /\ IF r \in bdi.valid
       THEN /\ bdi' = [bdi EXCEPT !.valid = @ \ {r}]
            /\ owed' = IF ok THEN [owed EXCEPT ![r] = {}] ELSE owed
            /\ UNCHANGED routine
       ELSE /\ ok
            /\ routine' = [routine EXCEPT ![r] = "read"]
            /\ UNCHANGED <<bdi, owed>>
  /\ UNCHANGED <<part, chip, irq, asked>>

Read(r, f_ok, ok) ==
  /\ routine[r] = "read"
  /\ routine' = [routine EXCEPT ![r] = "idle"]
  /\ chip' = IF f_ok THEN FaultsRead ELSE chip
  /\ owed' = IF f_ok /\ ok THEN [owed EXCEPT ![r] = {}] ELSE owed
  /\ UNCHANGED <<part, bdi, irq, asked>>

charger_get_health ==
  \/ Look("charger_health", TRUE)
  \/ \E ok \in Bus : Read("charger_health", ok, TRUE)

battery_get_status ==
  \E ok \in Bus :
    \/ Look("battery_status", ok)
    \/ \E f_ok \in Bus : Read("battery_status", f_ok, ok)

battery_get_health ==
  \/ Look("battery_health", TRUE)
  \/ \E ok \in Bus : Read("battery_health", ok, TRUE)

\* What routine r reports when it is asked now.
Reported(r) ==
  (IF r \in bdi.valid THEN bdi.f_reg ELSE FaultRegister) \intersect Reports[r]

----------------------------------------------------------------------------
(* Settings.                                                               *)

Setting == /\ bdi.phase = "on"
           /\ UNCHANGED <<part, bdi, routine, irq, owed>>

set_field_val(f, v, ok) ==
  chip' = IF ok THEN [chip EXCEPT !.set[f] = find_idx(Table(f), v)] ELSE chip

\* f is set to meet the request v; a failed access leaves what was there.
Asked(f, v, ok) == asked' = IF ok THEN [asked EXCEPT ![f] = v] ELSE asked

charger_set_voltage(v, ok) ==
  Setting /\ set_field_val("vreg", v, ok) /\ Asked("vreg", v, ok)

battery_set_temp_alert_max(v, ok) ==
  Setting /\ set_field_val("treg", v, ok) /\ Asked("treg", v, ok)

battery_set_online(online, ok) ==
  /\ Setting
  /\ chip' = IF ok THEN [chip EXCEPT !.set.batfet = online] ELSE chip
  /\ UNCHANGED asked

\* The values a field has bits for.
FieldSize(f) == CASE f = "ichg" -> 64
                  [] f = "vreg" -> IF part = "bq24190" THEN 64 ELSE 32
                  [] f = "treg" -> IF part = "bq24190" THEN 4 ELSE 2

\* A file of the chip's fields: the value is cut to the field and written.
sysfs_store(f, v, ok) ==
  /\ Setting
  /\ chip' = IF ok THEN [chip EXCEPT !.set[f] = v % FieldSize(f)] ELSE chip
  /\ asked' = IF ok THEN [asked EXCEPT ![f] = None] ELSE asked

sysfs_store_hiz(on, ok) ==
  /\ Setting
  /\ chip' = IF ok THEN [chip EXCEPT !.set.hiz = on] ELSE chip
  /\ UNCHANGED asked

ChargeTypes == {"none", "trickle", "fast"}

\* The first n of the register writes are done, each to another field.  A write that
\* fails ends the call.
AfterWrites(writes, n, set) ==
  [field \in DOMAIN set |->
     IF \E i \in 1..n : writes[i][1] = field
       THEN writes[CHOOSE i \in 1..n : writes[i][1] = field][2]
       ELSE set[field]]

\* The current in force changes with the trickle bit, so a request for a
\* current ends there.
ChargeTypeSet(writes, n) ==
  /\ Setting
  /\ chip' = [chip EXCEPT !.set = AfterWrites(writes, n, @)]
  /\ asked' = IF chip'.set.force20 # chip.set.force20
                THEN [asked EXCEPT !.ichg = None] ELSE asked

\* How many of the writes are done: all of them unless the bus fails.
Done(writes) == IF BusFails THEN 0..Len(writes) ELSE {Len(writes)}

----------------------------------------------------------------------------
(* bq24190: trickle charging is a fifth of the current, without termination. *)

bq24190_get_charge_type ==
  IF ~chip.set.chg THEN "none"
  ELSE IF chip.set.force20 THEN "trickle" ELSE "fast"

bq24190_charge_type_writes(type) ==
  IF type = "none" THEN << <<"chg", FALSE>> >>
  ELSE << <<"force20", type = "trickle">>, <<"term", type = "fast">>,
          <<"chg", TRUE>> >>

bq24190_set_charge_type(type) ==
  LET writes == bq24190_charge_type_writes(type)
  IN  \E n \in Done(writes) : ChargeTypeSet(writes, n)

bq24190_get_current ==
  LET curr == get_field_val(bq24190_ccc_ichg_values, chip.set.ichg)
  IN  IF chip.set.force20 THEN curr \div 5 ELSE curr

bq24190_set_current(v, ok) ==
  /\ Setting
  /\ set_field_val("ichg", IF chip.set.force20 THEN v * 5 ELSE v, ok)
  /\ Asked("ichg", v, ok)

----------------------------------------------------------------------------
(* bq25601: no trickle bit; trickle only means without termination.        *)

bq25601_set_charge_type(type) ==
  LET writes == IF type = "none" THEN << <<"chg", FALSE>> >>
                ELSE << <<"term", type = "fast">>, <<"chg", TRUE>> >>
  IN  \E n \in Done(writes) : ChargeTypeSet(writes, n)

bq25601_get_current == get_field_val(bq25601_ccc_ichg_values, chip.set.ichg)

bq25601_set_current(v, ok) ==
  Setting /\ set_field_val("ichg", v, ok) /\ Asked("ichg", v, ok)

\* The rest of bq25601.c is the code of bq24190-charger.c under other names.
bq25601_charger_get_health == charger_get_health
bq25601_battery_get_status == battery_get_status
bq25601_battery_get_health == battery_get_health
bq25601_charger_set_voltage(v, ok) == charger_set_voltage(v, ok)
bq25601_battery_set_temp_alert_max(v, ok) == battery_set_temp_alert_max(v, ok)
bq25601_battery_set_online(online, ok) == battery_set_online(online, ok)
bq25601_sysfs_store(f, v, ok) == sysfs_store(f, v, ok)
bq25601_irq_handler_thread ==
  \E ok \in Bus : irq_reads_f(ok) \/ \E h \in Bus : irq_reads_ss(ok, h)
bq25601_probe == probe_irq
bq25601_hw_init == \E reset \in Bus, host \in Bus : hw_init(reset, host)
bq25601_remove == \E ok \in Bus : remove(ok)
bq25601_pm_suspend == \E ok \in Bus : pm_suspend(ok)
bq25601_pm_resume == \E ok \in Bus : pm_resume(ok)

----------------------------------------------------------------------------

ChipSteps == \/ \E f \in Faults : ChipFaults(f) \/ ChipRecovers(f)
             \/ SupplyChanges
             \/ WatchdogExpires

\* The power supply callbacks that change a register, and the files.
bq24190_charger_set_property ==
  \E ok \in Bus :
    \/ \E v \in Requests.ichg : bq24190_set_current(v, ok)
    \/ \E v \in Requests.vreg : charger_set_voltage(v, ok)
    \/ \E type \in ChargeTypes : bq24190_set_charge_type(type)

bq24190_battery_set_property ==
  \E ok \in Bus :
    \/ \E v \in Requests.treg : battery_set_temp_alert_max(v, ok)
    \/ \E online \in BOOLEAN : battery_set_online(online, ok)

bq24190_settings ==
  \/ bq24190_charger_set_property
  \/ bq24190_battery_set_property
  \/ \E ok \in Bus :
       \/ \E f \in Settings, v \in RawValues : sysfs_store(f, v, ok)
       \/ \E on \in BOOLEAN : sysfs_store_hiz(on, ok)

bq24190_reports ==
  \/ charger_get_health \/ battery_get_status \/ battery_get_health
  \/ \E ok \in Bus : irq_reads_f(ok) \/ \E h \in Bus : irq_reads_ss(ok, h)

bq24190_power ==
  \/ probe_irq
  \/ \E reset \in Bus, host \in Bus : hw_init(reset, host)
  \/ \E ok \in Bus : remove(ok) \/ pm_suspend(ok) \/ pm_resume(ok)

bq25601_charger_set_property ==
  \E ok \in Bus :
    \/ \E v \in Requests.ichg : bq25601_set_current(v, ok)
    \/ \E v \in Requests.vreg : bq25601_charger_set_voltage(v, ok)
    \/ \E type \in ChargeTypes : bq25601_set_charge_type(type)

bq25601_battery_set_property ==
  \E ok \in Bus :
    \/ \E v \in Requests.treg : bq25601_battery_set_temp_alert_max(v, ok)
    \/ \E online \in BOOLEAN : bq25601_battery_set_online(online, ok)

bq25601_settings ==
  \/ bq25601_charger_set_property
  \/ bq25601_battery_set_property
  \/ \E ok \in Bus :
       \/ \E f \in Settings, v \in RawValues : bq25601_sysfs_store(f, v, ok)
       \/ \E on \in BOOLEAN : sysfs_store_hiz(on, ok)

bq25601_reports ==
  \/ bq25601_charger_get_health \/ bq25601_battery_get_status
  \/ bq25601_battery_get_health \/ bq25601_irq_handler_thread

bq25601_power ==
  \/ bq25601_probe \/ bq25601_hw_init \/ bq25601_remove
  \/ bq25601_pm_suspend \/ bq25601_pm_resume

\* The settings and the reports share nothing but the power state, so the runs
\* explore them one at a time, each with the chip and the power state.
SettingNext ==
  \/ WatchdogExpires
  \/ part = "bq24190" /\ (bq24190_settings \/ bq24190_power)
  \/ part = "bq25601" /\ (bq25601_settings \/ bq25601_power)

ReportNext ==
  \/ \E f \in Faults : ChipFaults(f) \/ ChipRecovers(f)
  \/ SupplyChanges
  \/ part = "bq24190" /\ (bq24190_reports \/ bq24190_power)
  \/ part = "bq25601" /\ (bq25601_reports \/ bq25601_power)

BqNext ==
  \/ ChipSteps
  \/ part = "bq24190"
     /\ (bq24190_settings \/ bq24190_reports \/ bq24190_power)
  \/ part = "bq25601"
     /\ (bq25601_settings \/ bq25601_reports \/ bq25601_power)

BqSpec == BqInit /\ [][BqNext]_bqVars

----------------------------------------------------------------------------
(* Properties.                                                             *)

BqTypeOK ==
  /\ part \in Parts
  /\ \A f \in Settings : chip.set[f] \in 0..(FieldSize(f) - 1)
  /\ chip.now \subseteq Faults /\ chip.latch \subseteq Faults
  /\ bdi.phase \in {"off", "init", "on", "asleep"}
  /\ bdi.f_reg \subseteq Faults /\ bdi.valid \subseteq Routines
  /\ irq.pc \in {"idle", "f"}
  /\ \A r \in Routines : owed[r] \subseteq Reports[r]

\* What a setting reads back as, and everything it could read back as.
TakenBack(f) ==
  CASE f = "ichg" /\ part = "bq24190" -> bq24190_get_current
    [] f = "ichg" /\ part = "bq25601" -> bq25601_get_current
    [] OTHER -> get_field_val(Table(f), chip.set[f])
Offered(f) == {IF f = "ichg" /\ chip.set.force20 THEN Table(f)[i] \div 5
               ELSE Table(f)[i] : i \in DOMAIN Table(f)}

\* A setting that was accepted holds until it is replaced: the value in force
\* is the highest the chip has that does not exceed the request, or the lowest
\* one.  Requests, charge types, raw field writes, resets and bus failures come
\* in any order; the trickle bit scales the current between request and field
\* (set_current multiplies, get_current divides).
SettingIsBest ==
  \A f \in Settings : asked[f] # None =>
    TakenBack(f) = Max({v \in Offered(f) : v <= asked[f]} \union {Min(Offered(f))})

\* set_charge_type writes three registers and may fail between them: the
\* charger is never switched on (CHG_CONFIG) before the termination agrees with
\* the charge type that is then reported.
EnabledWhenSetUp ==
  [][part = "bq24190" /\ ~chip.set.chg /\ chip'.set.chg
       => (bq24190_get_charge_type' = "fast") = chip'.set.term]_bqVars

\* Both, with the types: what was set holds, and charging starts only when it is set up.
SettingsHold == [](BqTypeOK /\ SettingIsBest) /\ EnabledWhenSetUp

\* Once the interrupt thread has run without a bus failure, every routine
\* reports every fault that is present now, whichever of them the copy was
\* taken for and whoever read the latched register in between.
PresentFaultReported ==
  bdi.phase = "on" /\ irq.pc = "idle" /\ ~irq.pending /\ ~irq.missed =>
    \A r \in Routines : chip.now \intersect Reports[r] \subseteq Reported(r)

\* "Each routine has its own flag indicating whether it should use the value
\* stored by the last run of the interrupt handler or do an actual reg read.
\* That way each routine can report back whatever fault may have occured."
\* (bq24190-charger.c:147-150): once the interrupt thread has run, no routine
\* has lost a fault that came since its last report.
EveryFaultReported ==
  irq.pc = "idle" /\ ~irq.pending =>
    \A r \in Routines : owed[r] \subseteq Reported(r)

----------------------------------------------------------------------------
(* What PresentFaultReported needs to be inductive.                        *)

\* Registers other than the fault registers are of no account here.
ReportTypeOK ==
  /\ chip \in [set : {chip.set}, pg : BOOLEAN, now : SUBSET Faults, latch : SUBSET Faults]
  /\ bdi \in [phase : {"off", "init", "on", "asleep"}, ss_reg : BOOLEAN,
              f_reg : SUBSET Faults, valid : SUBSET Routines]
  /\ irq \in [pending : BOOLEAN, pc : {"idle", "f"}, missed : BOOLEAN]

\* A copy that some routine has yet to report holds all that is present, unless the
\* interrupt thread is about to run: from the request of the interrupt on, so also while
\* the hardware is initialised and while the driver is suspended.
CopyIsCurrent ==
  bdi.phase # "off" /\ irq.pc = "idle" /\ ~irq.pending /\ ~irq.missed /\ bdi.valid # {} =>
    chip.now \subseteq bdi.f_reg

ReportIInv == ReportTypeOK /\ CopyIsCurrent

----------------------------------------------------------------------------
(* What SettingsHold needs to be inductive.                                *)

BqFlags == {"chg", "force20", "term", "hiz", "batfet", "wdt"}

\* What a request for v looks for in the table: the trickle bit divides the current by 5.
Sought(f, v) == IF f = "ichg" /\ chip.set.force20 THEN v * 5 ELSE v

SetTypeOK ==
  /\ part \in Parts /\ asked \in [Settings -> Int]
  /\ DOMAIN chip.set = BqFlags \union Settings
  /\ \A k \in BqFlags : chip.set[k] \in BOOLEAN
  /\ \A f \in Settings : chip.set[f] \in 0..(FieldSize(f) - 1)

\* As long as a request holds, its field has the index that the search finds for it with
\* the trickle bit as it is now, which the bq25601 does not have.
FieldIsFound ==
  /\ \A f \in Settings : asked[f] # None =>
       chip.set[f] = find_idx(Table(f), Sought(f, asked[f]))
  /\ part = "bq25601" => ~chip.set.force20

SettingsIInv == SetTypeOK /\ FieldIsFound

\* A routine is owed only faults it looks at.
OwedTypeOK == /\ DOMAIN owed = Routines
              /\ \A r \in Routines : owed[r] \subseteq Reports[r]

============================================================================
