------------------------------ MODULE Bq27xxx ------------------------------
(***************************************************************************)
(* The battery fuel gauge driver of mangOH Yellow:                         *)
(* bq27xxx/bq27xxx_battery_source.c and bq27xxx_battery_i2c.c.             *)
(*                                                                         *)
(* Set-up writes the battery's parameters into the gauge's data memory: it *)
(* reads a block, changes words of it and writes it back under a checksum, *)
(* in the chip's configuration mode, and any access may fail.              *)
(*                                                                         *)
(* Then the cached registers are refreshed by a delayed work that          *)
(* schedules itself, by readers of properties when the cache is old (they  *)
(* cancel the work, poll themselves and schedule it again) and by the      *)
(* chip's interrupt, until the device is torn down.  poll() tests          *)
(* poll_interval and schedules the work in two steps.                      *)
(***************************************************************************)
EXTENDS Integers, FiniteSets

CONSTANTS
  Readers,    \* the processes that read properties
  GaugeBusFails,   \* TRUE: an access to the chip may fail
  Others      \* TRUE: poll_interval is set and other supplies change, too

VARIABLES
  info,   \* the battery parameters given, and within the chip's limits
  gauge,  \* the chip: its data memory, its modes
  conf,   \* bq27xxx_battery_set_config: where it is and its buffers
  di,     \* the driver: phase, poll_interval > 0, age of the cache
  work,   \* the delayed work: scheduled, and where it is when it runs
  rdr     \* where each reader of a property is; at most one is past the lock

gaugeVars == <<info, gauge, conf, di, work, rdr>>

Fields == {"capacity", "energy", "voltage"}
\* The words of a block: the three fields and all other bytes.
Words == Fields \union {"rest"}

\* The data memory block of each field.  On every chip with data memory
\* definitions the three are in block 0 of class 82.
bq27426_dm_regs == [f \in Fields |-> 0]

GaugeBus == IF GaugeBusFails THEN {TRUE, FALSE} ELSE {TRUE}

NoData == [has_data |-> FALSE, dirty |-> FALSE, data |-> [w \in Words |-> "junk"]]

\* A parameter beyond the chip's limits is dropped; nothing is written unless
\* there is a voltage or both of the others.
battery_settings ==
  IF {"capacity", "energy"} \subseteq info \/ "voltage" \in info
    THEN "unseal" ELSE "done"

GaugeInit ==
  /\ info \in SUBSET Fields
  /\ gauge \in [mem : {[m \in Words |-> IF m \in N THEN "new" ELSE "old"] :
                         N \in SUBSET Fields},
                sealed : {TRUE}, cfgup : {FALSE}]
  /\ conf = [pc |-> "start", writes |-> "bd", bd |-> NoData, bt |-> NoData,
             failed |-> FALSE]
  /\ di = [phase |-> "probing", poll |-> TRUE, old |-> TRUE]
  /\ work = [sched |-> FALSE, pc |-> "idle"]
  /\ rdr = [r \in Readers |-> "out"]

----------------------------------------------------------------------------
(* The data memory.                                                        *)

Configures == di.phase = "probing" /\ UNCHANGED <<info, di, work, rdr>>
ConfGoes(to, ok) ==
  conf' = [conf EXCEPT !.pc = to, !.failed = @ \/ ~ok]

register_and_settings ==
  /\ Configures /\ conf.pc = "start"
  /\ ConfGoes(battery_settings, TRUE)
  /\ UNCHANGED gauge

battery_unseal(ok) ==
  /\ Configures /\ conf.pc = "unseal"
  /\ ConfGoes(IF ok THEN "read" ELSE "done", ok)
  /\ gauge' = [gauge EXCEPT !.sealed = @ /\ ~ok]

\* A block that could not be read, or whose checksum is wrong, has no data.
read_dm_block(buf, ok) ==
  IF ok THEN [has_data |-> TRUE, dirty |-> FALSE, data |-> gauge.mem]
  ELSE [buf EXCEPT !.has_data = FALSE]

\* A plausible bug: a buffer that was never filled is changed and written.
UpdateUnread(buf, f) ==
  IF buf.data[f] = "new" THEN buf
  ELSE [buf EXCEPT !.data[f] = "new", !.dirty = TRUE]

\* Only a word that differs makes the block dirty.  (The chip of this board
\* has its data memory in RAM, so it may always be written.)
update_dm_block(buf, f) ==
  IF ~buf.has_data \/ buf.data[f] = "new" THEN buf
  ELSE [buf EXCEPT !.data[f] = "new", !.dirty = TRUE]

Same == bq27426_dm_regs["voltage"] = bq27426_dm_regs["capacity"]

\* The reads and changes; the voltage goes into the first buffer when it is in
\* the same block, whether or not that buffer was read.
set_config_reads(ok1, ok2) ==
  LET full == {"capacity", "energy"} \subseteq info
      bd1 == IF full THEN update_dm_block(update_dm_block(
                            read_dm_block(NoData, ok1), "capacity"), "energy")
                     ELSE NoData
      bd2 == IF "voltage" \in info /\ Same THEN update_dm_block(bd1, "voltage")
             ELSE bd1
      bt1 == IF "voltage" \in info /\ ~Same
               THEN update_dm_block(read_dm_block(NoData, ok2), "voltage")
               ELSE NoData
  IN  /\ Configures /\ conf.pc = "read"
      /\ conf' = [conf EXCEPT !.pc = "bd", !.bd = bd2, !.bt = bt1,
                              !.failed = @ \/ ~ok1 \/ ~ok2]
      /\ UNCHANGED gauge

\* A command that was taken counts even when the wait for its flag fails.
cfgupdate_priv(active, ok) ==
  \E taken \in {ok, TRUE} :
    gauge' = IF taken THEN [gauge EXCEPT !.cfgup = active] ELSE gauge

\* write_dm_block of one of the two buffers: a clean one is not written, and
\* the configuration mode is entered first.
After == [bd |-> "bt", bt |-> "seal"]

write_dm_block_begins(b, ok) ==
  /\ Configures /\ conf.pc = b
  /\ IF ~conf[b].dirty
       THEN ok /\ ConfGoes(After[b], TRUE) /\ UNCHANGED gauge
       ELSE /\ conf' = [conf EXCEPT !.pc = IF ok THEN "data" ELSE After[b],
                                    !.writes = b, !.failed = @ \/ ~ok]
            /\ cfgupdate_priv(TRUE, ok)

\* The block is selected and filled, and the right checksum commits it; a
\* failure on the way leaves the memory as it was.
write_dm_block_data(ok) ==
  /\ Configures /\ conf.pc = "data"
  /\ gauge' = IF ok THEN [gauge EXCEPT !.mem = conf[conf.writes].data] ELSE gauge
  /\ ConfGoes("reset", ok)

\* The soft reset ends the configuration mode, on the error path too.
write_dm_block_resets(ok) ==
  /\ Configures /\ conf.pc = "reset"
  /\ cfgupdate_priv(FALSE, ok)
  /\ ConfGoes(After[conf.writes], ok)

\* The chip has the configuration mode, so there is no reset after the seal.
battery_seal(ok) ==
  /\ Configures /\ conf.pc = "seal"
  /\ gauge' = [gauge EXCEPT !.sealed = @ \/ ok]
  /\ ConfGoes("done", ok)

----------------------------------------------------------------------------
(* The cached registers.                                                   *)

Polls == UNCHANGED <<info, gauge, conf>>

\* battery_update: nothing is read when polling is off, but the time is noted.
battery_update == [di EXCEPT !.old = FALSE]

TimePasses ==
  /\ Polls /\ di.phase # "gone" /\ ~di.old
  /\ di' = [di EXCEPT !.old = TRUE]
  /\ UNCHANGED <<work, rdr>>

\* setup ends: the cache is filled, the device listed, and probe schedules the
\* work.
setup_ends ==
  /\ Polls /\ di.phase = "probing" /\ conf.pc = "done"
  /\ di' = [battery_update EXCEPT !.phase = "listed"]
  /\ work' = [work EXCEPT !.sched = TRUE]
  /\ UNCHANGED rdr

\* The work takes its turn, and not while it runs already.
WorkFires ==
  /\ Polls /\ work.sched /\ work.pc = "idle"
  /\ work' = [sched |-> FALSE, pc |-> "update"]
  /\ UNCHANGED <<di, rdr>>

work_updates ==
  /\ Polls /\ work.pc = "update"
  /\ di' = battery_update
  /\ work' = [work EXCEPT !.pc = IF di.poll THEN "again" ELSE "idle"]
  /\ UNCHANGED rdr

work_schedules ==
  /\ Polls /\ work.pc = "again"
  /\ work' = [sched |-> TRUE, pc |-> "idle"]
  /\ UNCHANGED <<di, rdr>>

irq_handler_thread ==
  /\ Polls /\ di.phase = "listed"
  /\ di' = battery_update
  /\ UNCHANGED <<work, rdr>>

\* get_property takes di->lock; when the cache is fresh that is all.
Locked == \E r \in Readers : rdr[r] # "out"

get_property(r) ==
  /\ Polls /\ ~Locked
  /\ conf.pc # "start" /\ di.phase \notin {"unregistered", "gone"}
  /\ di.old
  /\ rdr' = [rdr EXCEPT ![r] = "cancel"]
  /\ UNCHANGED <<di, work>>

\* cancel_delayed_work_sync waits for the work and keeps it from being queued.
cancel_delayed_work_sync ==
  /\ work.pc = "idle"
  /\ work' = [work EXCEPT !.sched = FALSE]

property_cancels(r) ==
  /\ Polls /\ rdr[r] = "cancel"
  /\ cancel_delayed_work_sync
  /\ rdr' = [rdr EXCEPT ![r] = "update"]
  /\ UNCHANGED di

property_updates(r) ==
  /\ Polls /\ rdr[r] = "update"
  /\ di' = battery_update
  /\ rdr' = [rdr EXCEPT ![r] = IF di.poll THEN "again" ELSE "out"]
  /\ UNCHANGED work

property_schedules(r) ==
  /\ Polls /\ rdr[r] = "again"
  /\ work' = [work EXCEPT !.sched = TRUE]
  /\ rdr' = [rdr EXCEPT ![r] = "out"]
  /\ UNCHANGED di

\* Both cancel the work and schedule it at once: a new poll_interval does so
\* for every listed device, a change of another supply for this one.
Restarts == work.pc = "idle" /\ work' = [work EXCEPT !.sched = TRUE]

poll_interval_param_set(on) ==
  /\ Polls /\ Others /\ di.poll # on
  /\ di.phase \in {"listed", "stopping", "cancelled", "unregistered"}
  /\ di' = [di EXCEPT !.poll = on]
  /\ Restarts
  /\ UNCHANGED rdr

external_power_changed ==
  /\ Polls /\ Others
  /\ conf.pc # "start" /\ di.phase \notin {"unregistered", "gone"}
  /\ Restarts
  /\ UNCHANGED <<di, rdr>>

\* teardown: polling is switched off, the work cancelled, the supply
\* unregistered (which waits for the readers), the device taken off the list.
teardown_stops ==
  /\ Polls /\ di.phase = "listed"
  /\ di' = [di EXCEPT !.phase = "stopping", !.poll = FALSE]
  /\ UNCHANGED <<work, rdr>>

teardown_cancels ==
  /\ Polls /\ di.phase = "stopping"
  /\ cancel_delayed_work_sync
  /\ di' = [di EXCEPT !.phase = "cancelled"]
  /\ UNCHANGED rdr

teardown_unregisters ==
  /\ Polls /\ di.phase = "cancelled" /\ ~Locked
  /\ di' = [di EXCEPT !.phase = "unregistered"]
  /\ UNCHANGED <<work, rdr>>

teardown_ends ==
  /\ Polls /\ di.phase = "unregistered"
  /\ di' = [di EXCEPT !.phase = "gone"]
  /\ UNCHANGED <<work, rdr>>

----------------------------------------------------------------------------

ConfigSteps ==
  \/ register_and_settings
  \/ \E ok \in GaugeBus :
       \/ battery_unseal(ok)
       \/ \E ok2 \in GaugeBus : set_config_reads(ok, ok2)
       \/ \E b \in {"bd", "bt"} : write_dm_block_begins(b, ok)
       \/ write_dm_block_data(ok)
       \/ write_dm_block_resets(ok)
       \/ battery_seal(ok)

PollSteps ==
  \/ setup_ends \/ TimePasses \/ WorkFires \/ work_updates \/ work_schedules
  \/ irq_handler_thread
  \/ \E r \in Readers : \/ get_property(r) \/ property_cancels(r)
                        \/ property_updates(r) \/ property_schedules(r)
  \/ \E on \in BOOLEAN : poll_interval_param_set(on)
  \/ external_power_changed
  \/ teardown_stops \/ teardown_cancels
  \/ teardown_unregisters \/ teardown_ends

GaugeNext == ConfigSteps \/ PollSteps

GaugeSpec == GaugeInit /\ [][GaugeNext]_gaugeVars

----------------------------------------------------------------------------
(* Properties.                                                             *)

GaugeTypeOK ==
  /\ info \subseteq Fields
  /\ gauge.mem \in [Words -> {"old", "new", "junk"}]
  /\ work.pc \in {"idle", "update", "again"}
  /\ \A r \in Readers : rdr[r] \in {"out", "cancel", "update", "again"}

\* What set_config sets out to write: capacity and energy only together, and
\* the voltage only when its block was read.
Wanted == LET full == {"capacity", "energy"} \subseteq info
          IN  (IF full THEN {"capacity", "energy"} ELSE {})
                \union (IF full \/ ~Same THEN info \intersect {"voltage"} ELSE {})

\* Whatever access fails while the parameters are written (read_dm_block,
\* update_dm_block, write_dm_block), the gauge's memory never holds bytes that
\* were not read from it or asked for; and when none fails all parameters are
\* there at the end, the gauge is sealed and out of its configuration mode.
ConfigTaken ==
  /\ GaugeTypeOK
  /\ gauge.mem["rest"] = "old" /\ \A w \in Words : gauge.mem[w] # "junk"
  /\ conf.pc = "done" /\ ~conf.failed =>
       /\ \A f \in Wanted : gauge.mem[f] = "new"
       /\ gauge.sealed /\ ~gauge.cfgup

\* "Make sure that bq27xxx_battery_poll will not call schedule_delayed_work
\* again after unregister (which cause OOPS)." (bq27xxx_battery_source.c:1954)
NoWorkAfterUnregister ==
  di.phase \in {"unregistered", "gone"} => ~work.sched /\ work.pc = "idle"

----------------------------------------------------------------------------
(* What ConfigTaken needs to be inductive.                                 *)

GaugeStateOK ==
  /\ info \subseteq Fields
  /\ gauge \in [mem : [Words -> {"old", "new"}], sealed : BOOLEAN, cfgup : BOOLEAN]
  /\ gauge.mem["rest"] = "old"
  /\ conf.pc \in {"start", "unseal", "read", "bd", "data", "reset", "bt", "seal", "done"}
  /\ conf.writes \in {"bd", "bt"} /\ conf.failed \in BOOLEAN
  /\ conf = [pc |-> conf.pc, writes |-> conf.writes, bd |-> conf.bd, bt |-> conf.bt,
             failed |-> conf.failed]
  /\ work \in [sched : BOOLEAN, pc : {"idle", "update", "again"}]
  /\ rdr \in [Readers -> {"out", "cancel", "update", "again"}]

\* A buffer that will be written was filled from the memory, and has its other bytes.
BufferWasRead ==
  /\ conf.bt = NoData
  /\ conf.bd \in [has_data : BOOLEAN, dirty : BOOLEAN, data : [Words -> {"old", "new", "junk"}]]
  /\ conf.bd.dirty => conf.bd.has_data
  /\ conf.bd.has_data =>
       conf.bd.data \in [Words -> {"old", "new"}] /\ conf.bd.data["rest"] = "old"
  /\ conf.pc \in {"data", "reset"} => conf.writes = "bd" /\ conf.bd.dirty

\* As long as nothing failed, what is wanted is in the buffer from the time it is filled
\* until it is written, and then in the memory; a buffer that needs no writing says what
\* is there already.
WantedIsKept ==
  ~conf.failed =>
    /\ conf.pc = "start" => gauge.sealed
    /\ conf.pc = "done" => gauge.sealed
    /\ conf.pc \notin {"data", "reset"} => ~gauge.cfgup
    /\ conf.pc \in {"bd", "data"} =>
         \A f \in Wanted : conf.bd.has_data /\ conf.bd.data[f] = "new"
    /\ conf.pc = "bd" /\ ~conf.bd.dirty => \A f \in Wanted : gauge.mem[f] = "new"
    /\ conf.pc \in {"reset", "bt", "seal", "done"} => \A f \in Wanted : gauge.mem[f] = "new"

GaugeIInv == GaugeStateOK /\ BufferWasRead /\ WantedIsKept

============================================================================
