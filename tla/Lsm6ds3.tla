----------------------------- MODULE Lsm6ds3 -----------------------------
(***************************************************************************)
(* The motion sensor driver lsm6ds3: six sensors on one chip, switched on  *)
(* and off by user space, by suspend and by the interrupt thread.          *)
(*                                                                         *)
(* No lock covers an operation: it is a list of register updates, each a   *)
(* read and a write that take the bank lock on their own, and its          *)
(* conditions are evaluated as it gets there.  Only the step counter's     *)
(* delivery rate is behind another register bank, which is switched in     *)
(* under the bank lock.                                                    *)
(***************************************************************************)
EXTENDS Naturals, Sequences

CONSTANTS
  Sensors,    \* the sensors user space has devices of, among AllSensors
  Users,      \* threads of user space in a sysfs attribute
  Rates,      \* sampling rates asked for, in Hz
  Durations,  \* delivery rates asked for, in units of LSM6DS3_MIN_DURATION_MS
  MaxCalls,   \* bound on the calls of user space and of power management
  MaxFails    \* bound on the transfers that fail

AllSensors == {"accel", "gyro", "sign_m", "step_c", "step_d", "tilt"}
ASSUME LsmAssumption == Sensors \subseteq AllSensors /\ Rates \subseteq Nat /\ Durations \subseteq Nat
                        /\ MaxCalls \in Nat /\ MaxFails \in Nat
                        /\ Users \cap {"irq", "pm", "free"} = {}

VARIABLES
  sdata,      \* per sensor: enabled, c_odr, c_gain, and whether its timer runs
  lsm,        \* the chip: per register, the fields the driver sets
  thread,     \* per thread: what is left of its operation, and the register as it was read
  bankLock,   \* bank_registers_lock: the thread that holds it over several transfers
  signReady,  \* sign_motion_event_ready
  asleep,     \* the system is suspended
  spent       \* calls and failures so far

lsmVars == <<sdata, lsm, thread, bankLock, signReady, asleep, spent>>

Irq == "irq"
Pm == "pm"
Threads == Users \cup {Irq, Pm}
Free == "free"
Embedded == {"sign_m", "step_c", "step_d", "tilt"}
Enabled(s) == sdata[s].enabled

odr_avl == <<13, 26, 52, 104, 208, 416>>
\* The register value of a rate: its place in the table, zero being off.
OdrValue(hz) == CHOOSE i \in DOMAIN odr_avl : odr_avl[i] = hz
fs_avl == <<1, 2, 4, 8>>   \* the gains, in units of the smallest

----------------------------------------------------------------------------
(* The steps of an operation: register updates, conditions still to be     *)
(* evaluated, and what the driver notes.                                   *)

W(reg, fields) == [k |-> "w", reg |-> reg, fields |-> fields]
L(kind, s, v) == [k |-> kind, s |-> s, v |-> v]
OdrReg(s) == IF s = "accel" THEN "ctrl1" ELSE "ctrl2"
WOdr(s, v) == W(OdrReg(s), [odr |-> v])
WPedo(v) == W("tap", [pedo |-> v])

\* lsm6ds3_set_extra_dependency, its two halves.
FuncDependency(v) ==
  IF \E s \in Embedded : Enabled(s) THEN <<>> ELSE <<W("ctrl10", [func |-> v])>>

AccelDependency(v) ==
  IF Enabled("accel") THEN <<>>
  ELSE LET odr == sdata["accel"].c_odr
       IN  <<WOdr("accel", IF v = 0 THEN 0 ELSE IF odr > 26 THEN OdrValue(odr) ELSE 2)>>

enable_pedometer(v) ==
  IF Enabled("step_c") /\ Enabled("step_d") THEN <<>>
  ELSE <<W("fifo2", [pedoE |-> v]), WPedo(v)>>

SignPedometer ==
  IF Enabled("step_c") \/ Enabled("step_d") THEN <<WPedo(0), WPedo(1)>> ELSE enable_pedometer(1)

set_drdy_irq(s, v) ==
  CASE s \in {"accel", "gyro"} -> <<>>
    [] s = "tilt" -> <<W("md1", [tiltIrq |-> v])>>
    [] OTHER -> IF Enabled("step_d") \/ Enabled("sign_m") THEN <<>>
                ELSE <<W("int1", [stepIrq |-> v])>>

AccelOff == WOdr("accel", IF \E s \in Embedded : Enabled(s) THEN 1 ELSE 0)

\* The mask of the reset field covers FUNC_EN, which is set too and then put back.
reset_steps_value(func) == <<W("ctrl10", [reset |-> 1, func |-> 1]),
                             W("ctrl10", [reset |-> 0, func |-> func])>>

\* A condition's outcome.
Resolve(l) ==
  CASE l.k = "func" -> FuncDependency(l.v)
    [] l.k = "acc" -> AccelDependency(l.v)
    [] l.k = "pedometer" -> enable_pedometer(l.v)
    [] l.k = "signPedo" -> SignPedometer
    [] l.k = "drdy" -> set_drdy_irq(l.s, l.v)
    [] l.k = "accelOff" -> <<AccelOff>>
    [] l.k = "ifEnabled" -> IF Enabled(l.s) THEN l.v ELSE <<>>
Conditions == {"func", "acc", "pedometer", "signPedo", "drdy", "accelOff", "ifEnabled"}

Dependencies(s, v) == <<L("func", s, v), L("acc", s, v), L("drdy", s, v)>>

\* _lsm6ds3_enable_sensors and _lsm6ds3_disable_sensors.
enable_sensors(s) ==
  (CASE s \in {"accel", "gyro"} -> <<WOdr(s, OdrValue(sdata[s].c_odr)), L("timer", s, TRUE)>>
     [] s = "sign_m" -> <<W("ctrl10", [sign |-> 1]), L("signPedo", s, 1), WPedo(1), L("ready", s, TRUE)>>
     [] s = "tilt" -> <<W("tap", [tilt |-> 1])>>
     [] OTHER -> <<L("pedometer", s, 1)>>)
  \o Dependencies(s, 1)

disable_sensors(s) ==
  (CASE s = "accel" -> <<L("accelOff", s, 0), L("timer", s, FALSE)>>
     [] s = "gyro" -> <<WOdr(s, 0), L("timer", s, FALSE)>>
     [] s = "sign_m" -> <<W("ctrl10", [sign |-> 0]), L("pedometer", s, 0), L("ready", s, FALSE)>>
     [] s = "tilt" -> <<W("tap", [tilt |-> 0])>>
     [] OTHER -> <<L("pedometer", s, 0)>>)
  \o Dependencies(s, 0)

\* lsm6ds3_set_max_delivery_rate: the bank is switched in, set and switched out.
Bank(v) == W("access", [bank |-> v])
Duration(v) == [k |-> "raw", v |-> v]
Unlock == [k |-> "unlock"]
set_max_delivery_rate_steps(v) == <<Bank(1), Duration(v), Bank(0), Unlock, L("odr", "step_c", v)>>

----------------------------------------------------------------------------
(* The steps.                                                              *)

Idle(t) == thread[t].todo = <<>>
NoOld == [none |-> 0]
Starts(t, todo) == thread' = [thread EXCEPT ![t] = [todo |-> todo, old |-> NoOld]]
Head1(t) == Head(thread[t].todo)
Rest(t) == Tail(thread[t].todo)
Continues(t, todo) == Starts(t, todo)

\* A transfer may fail, so many times.
Access(ok) == IF ok THEN UNCHANGED spent
              ELSE spent.fails < MaxFails /\ spent' = [spent EXCEPT !.fails = @ + 1]
Called == spent.calls < MaxCalls /\ spent' = [spent EXCEPT !.calls = @ + 1]

\* A plausible bug: a failed transfer leaves the bank as it is.
OnErrorUnlocks(l, rest) ==
  IF l.k = "raw" \/ (l.k = "w" /\ l.reg = "access") THEN <<Unlock>>
  ELSE LET ends == {i \in DOMAIN rest : rest[i].k = "ifEnabled"}
       IN  IF ends = {} THEN <<>> ELSE SubSeq(rest, CHOOSE i \in ends : \A j \in ends : i <= j, Len(rest))

\* After an error an operation ends; of suspend and resume the next sensor goes on, and the
\* bank is switched back, again and again.
OnError(l, rest) ==
  IF l.k = "raw" \/ (l.k = "w" /\ l.reg = "access")
  THEN IF l.k = "w" /\ l.fields.bank = 1 THEN <<Unlock>> ELSE <<Bank(0), Unlock>>
  ELSE LET ends == {i \in DOMAIN rest : rest[i].k = "ifEnabled"}
       IN  IF ends = {} THEN <<>> ELSE SubSeq(rest, CHOOSE i \in ends : \A j \in ends : i <= j, Len(rest))

\* A transfer takes the bank lock, unless the thread holds it already.
HasBus(t) == bankLock \in {Free, t}

Condition(t) ==
  /\ ~Idle(t) /\ Head1(t).k \in Conditions
  /\ Continues(t, Resolve(Head1(t)) \o Rest(t))
  /\ UNCHANGED <<sdata, lsm, bankLock, signReady, asleep, spent>>

\* The bits under the mask are replaced, the others kept.
SetFields(now, fields) ==
  [x \in DOMAIN now \cup DOMAIN fields |-> IF x \in DOMAIN fields THEN fields[x] ELSE now[x]]

\* lsm6ds3_write_data_with_mask reads; what is the same already is not written.
ReadRegister(t, ok) ==
  /\ Access(ok)
  /\ ~Idle(t) /\ Head1(t).k = "w" /\ thread[t].old = NoOld /\ HasBus(t)
  /\ LET now == lsm[Head1(t).reg]
         new == SetFields(now, Head1(t).fields)
     IN  IF ~ok THEN Continues(t, OnError(Head1(t), Rest(t)))
         ELSE IF new = now THEN Continues(t, Rest(t))
         ELSE thread' = [thread EXCEPT ![t].old = now]
  /\ UNCHANGED <<sdata, lsm, bankLock, signReady, asleep>>

WriteRegister(t, ok) ==
  /\ Access(ok)
  /\ ~Idle(t) /\ Head1(t).k = "w" /\ thread[t].old # NoOld /\ HasBus(t)
  /\ IF ok THEN /\ lsm' = [lsm EXCEPT ![Head1(t).reg] = SetFields(thread[t].old, Head1(t).fields)]
                /\ Continues(t, Rest(t))
           ELSE Continues(t, OnError(Head1(t), Rest(t))) /\ UNCHANGED lsm
  /\ UNCHANGED <<sdata, bankLock, signReady, asleep>>

WriteDuration(t, ok) ==
  /\ Access(ok)
  /\ ~Idle(t) /\ Head1(t).k = "raw"
  /\ IF ok THEN lsm' = [lsm EXCEPT !.duration = [v |-> Head1(t).v]] /\ Continues(t, Rest(t))
           ELSE Continues(t, OnError(Head1(t), Rest(t))) /\ UNCHANGED lsm
  /\ UNCHANGED <<sdata, bankLock, signReady, asleep>>

\* reset_steps reads the register on its own first.
ReadFunc(t, ok) ==
  /\ Access(ok)
  /\ ~Idle(t) /\ Head1(t).k = "reset" /\ HasBus(t)
  /\ Continues(t, IF ok THEN reset_steps_value(lsm["ctrl10"].func) ELSE <<>>)
  /\ UNCHANGED <<sdata, lsm, bankLock, signReady, asleep>>

\* What an operation notes in the driver's data as it goes.
Notes(t) ==
  LET l == Head1(t)
  IN  /\ ~Idle(t) /\ l.k \in {"enabled", "timer", "odr", "gain", "ready", "unlock"}
      /\ sdata' = CASE l.k = "enabled" -> [sdata EXCEPT ![l.s].enabled = l.v]
                    [] l.k = "timer" -> [sdata EXCEPT ![l.s].timer = l.v]
                    [] l.k = "odr" -> [sdata EXCEPT ![l.s].c_odr = l.v]
                    [] l.k = "gain" -> [sdata EXCEPT ![l.s].c_gain = l.v]
                    [] OTHER -> sdata
      /\ signReady' = IF l.k = "ready" THEN l.v ELSE signReady
      /\ bankLock' = IF l.k = "unlock" THEN Free ELSE bankLock
      /\ Continues(t, Rest(t))
      /\ UNCHANGED <<lsm, asleep, spent>>

----------------------------------------------------------------------------
(* The operations.                                                         *)

\* Not while another thread is in an attribute that takes the input device's mutex, or
\* while the interrupt is disabled.
InOdr(t) == \E i \in DOMAIN thread[t].todo :
              thread[t].todo[i].k = "odr" /\ thread[t].todo[i].s # "step_c"

set_enable(t, s, enable) ==
  /\ Called
  /\ Idle(t) /\ ~asleep /\ Enabled(s) # enable
  /\ Starts(t, (IF enable THEN enable_sensors(s) ELSE disable_sensors(s)) \o <<L("enabled", s, enable)>>)
  /\ UNCHANGED <<sdata, lsm, bankLock, signReady, asleep>>

\* set_polling_rate and set_sampling_freq: the first rate of the table that is enough.
set_odr(t, s, odr) ==
  LET fit == {i \in DOMAIN odr_avl : odr_avl[i] >= odr}
      hz == odr_avl[CHOOSE i \in fit : \A j \in fit : i <= j]
  IN  /\ Called
      /\ Idle(t) /\ ~asleep /\ s \in {"accel", "gyro"} /\ fit # {} /\ sdata[s].c_odr # hz
      /\ ~\E u \in Threads : InOdr(u)
      /\ Enabled(s) => Idle(Irq)
      /\ Starts(t, (IF Enabled(s) THEN <<WOdr(s, OdrValue(hz))>> ELSE <<>>) \o <<L("odr", s, hz)>>)
      /\ UNCHANGED <<sdata, lsm, bankLock, signReady, asleep>>

\* set_cur_scale and lsm6ds3_set_fs.
set_cur_scale(t, s, gain) ==
  /\ Called
  /\ Idle(t) /\ ~asleep /\ s \in {"accel", "gyro"}
  /\ \E i \in DOMAIN fs_avl : fs_avl[i] = gain
  /\ Starts(t, <<W(OdrReg(s), [fs |-> gain]), L("gain", s, gain)>>)
  /\ UNCHANGED <<sdata, lsm, bankLock, signReady, asleep>>

reset_steps(t) ==
  /\ Called
  /\ Idle(t) /\ ~asleep
  /\ Starts(t, <<[k |-> "reset"]>>)
  /\ UNCHANGED <<sdata, lsm, bankLock, signReady, asleep>>

set_max_delivery_rate(t, v) ==
  /\ Called
  /\ Idle(t) /\ ~asleep /\ sdata["step_c"].c_odr # v /\ bankLock = Free
  /\ bankLock' = t
  /\ Starts(t, set_max_delivery_rate_steps(v))
  /\ UNCHANGED <<sdata, lsm, signReady, asleep>>

\* lsm6ds3_irq_management: a detected step; significant motion is reported once and
\* switched off by the thread itself.
irq_management ==
  /\ Idle(Irq) /\ ~\E u \in Users : InOdr(u)
  /\ lsm["tap"].pedo = 1 /\ lsm["ctrl1"].odr # 0 /\ HasBus(Irq)
  /\ signReady
  /\ signReady' = FALSE
  /\ Starts(Irq, IF Enabled("sign_m")
                 THEN disable_sensors("sign_m") \o <<L("enabled", "sign_m", FALSE)>> ELSE <<>>)
  /\ UNCHANGED <<sdata, lsm, bankLock, asleep, spent>>

\* lsm6ds3_common_suspend and _resume; user space is frozen meanwhile.
common_suspend ==
  /\ Called
  /\ ~asleep /\ \A t \in Threads : Idle(t)
  /\ asleep' = TRUE
  /\ Starts(Pm, <<L("ifEnabled", "accel", disable_sensors("accel")),
                  L("ifEnabled", "gyro", disable_sensors("gyro"))>>)
  /\ UNCHANGED <<sdata, lsm, bankLock, signReady>>

common_resume ==
  /\ Called
  /\ asleep /\ Idle(Pm)
  /\ asleep' = FALSE
  /\ Starts(Pm, <<L("ifEnabled", "accel", enable_sensors("accel")),
                  L("ifEnabled", "gyro", enable_sensors("gyro"))>>)
  /\ UNCHANGED <<sdata, lsm, bankLock, signReady>>

\* After lsm6ds3_common_probe.
LsmInit ==
  /\ sdata = [s \in AllSensors |-> [enabled |-> FALSE, timer |-> FALSE, c_gain |-> 1,
                                    c_odr |-> IF s = "step_c" THEN 1 ELSE 13]]
  /\ lsm = [ctrl1 |-> [odr |-> 0, fs |-> 1], ctrl2 |-> [odr |-> 0, fs |-> 1],
            ctrl10 |-> [func |-> 0, sign |-> 0, reset |-> 0], tap |-> [pedo |-> 0, tilt |-> 0],
            fifo2 |-> [pedoE |-> 0], int1 |-> [stepIrq |-> 0], md1 |-> [tiltIrq |-> 0],
            access |-> [bank |-> 0], duration |-> [v |-> 0]]
  /\ thread = [t \in Threads |-> [todo |-> <<>>, old |-> NoOld]]
  /\ bankLock = Free /\ signReady = FALSE /\ asleep = FALSE
  /\ spent = [calls |-> 0, fails |-> 0]

LsmNext ==
  \/ \E t \in Threads :
       \/ Condition(t) \/ Notes(t)
       \/ \E ok \in BOOLEAN : ReadRegister(t, ok) \/ WriteRegister(t, ok) \/ WriteDuration(t, ok)
                               \/ ReadFunc(t, ok)
  \/ \E t \in Users : \E s \in Sensors :
       \/ \E enable \in BOOLEAN : set_enable(t, s, enable)
       \/ \E odr \in Rates : set_odr(t, s, odr)
       \/ \E gain \in {2} : set_cur_scale(t, s, gain)
  \/ \E t \in Users : reset_steps(t) \/ \E v \in Durations : set_max_delivery_rate(t, v)
  \/ irq_management
  \/ common_suspend \/ common_resume

LsmSpec == LsmInit /\ [][LsmNext]_lsmVars

----------------------------------------------------------------------------
(* The property.                                                           *)

\* Whatever fails, the ordinary register bank is back before any other thread may make a
\* transfer: bank_registers_lock is never released over the step counter's bank
\* (lsm6ds3_set_max_delivery_rate against the accesses of every other operation).
OrdinaryBankWhenFree == bankLock = Free => lsm["access"].bank = 0

----------------------------------------------------------------------------
(* What OrdinaryBankWhenFree needs to be inductive.                        *)

\* What an operation has left to do touches neither the bank nor its lock: its steps do
\* not, and neither do the ones that suspend and resume keep for a sensor that is enabled.
IsList(todo) == Len(todo) \in Nat /\ todo = [i \in 1 .. Len(todo) |-> todo[i]]
DirectStep(l) == l.k \notin {"raw", "unlock", "ifEnabled"} /\ (l.k = "w" => l.reg # "access")
Direct(todo) == IsList(todo) /\ \A i \in DOMAIN todo : DirectStep(todo[i])
PlainStep(l) == DirectStep(l) \/ (l.k = "ifEnabled" /\ Direct(l.v))
Plain(todo) == IsList(todo) /\ \A i \in DOMAIN todo : PlainStep(todo[i])

\* Where the thread is that holds the lock: it is about to switch the bank in, has switched
\* it in, has to switch it out, or has only the lock to give back.
InBank(todo, bank) ==
  \/ bank = 0 /\ \E v \in Durations : todo = set_max_delivery_rate_steps(v)
  \/ \E v \in Durations : todo = <<Duration(v), Bank(0), Unlock, L("odr", "step_c", v)>>
  \/ todo = <<Bank(0), Unlock>> \/ \E v \in Durations : todo = <<Bank(0), Unlock, L("odr", "step_c", v)>>
  \/ bank = 0 /\ (todo = <<Unlock>> \/ \E v \in Durations : todo = <<Unlock, L("odr", "step_c", v)>>)

BankIInv ==
  /\ bankLock \in Threads \cup {Free}
  /\ "access" \in DOMAIN lsm
  /\ thread = [t \in Threads |-> [todo |-> thread[t].todo, old |-> thread[t].old]]
  /\ \A t \in Threads : IF t = bankLock THEN InBank(thread[t].todo, lsm["access"].bank)
                                        ELSE Plain(thread[t].todo)
  /\ OrdinaryBankWhenFree
============================================================================
