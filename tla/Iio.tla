-------------------------------- MODULE Iio --------------------------------
(***************************************************************************)
(* Triggered buffers of the IIO subsystem: triggers that several devices   *)
(* share (industrialio-trigger.c), the buffer of each device and its fifo  *)
(* (industrialio-buffer.c, kfifo_buf.c), and a device as bmi160_core.c     *)
(* drives it.                                                              *)
(*                                                                         *)
(* The attributes of a device are serialised by its mlock, except that a   *)
(* write to current_trigger releases it between its check and its change;  *)
(* Race says whether the buffer may be enabled in between.  The attributes *)
(* of different devices interleave: attaching and detaching a poll         *)
(* function look at the trigger's pool in one step and act in a later one. *)
(* No driver of the repository adds a second buffer to a device or limits  *)
(* its scan masks, so active_scan_mask is the buffer's and nothing is      *)
(* demultiplexed.                                                          *)
(***************************************************************************)
EXTENDS Integers, Sequences, FiniteSets, FiniteSetsExt, SequencesExt

CONSTANTS
    Devs,       \* devices
    Trigs,      \* triggers
    None,       \* no trigger, no device
    Channels,   \* channels that a user enables, by scan index
    Irqs,       \* CONFIG_IIO_CONSUMERS_PER_TRIGGER sub-interrupts of a trigger
    Lengths,    \* lengths that a user writes
    Faults,     \* what may fail: "alloc", "state", "bus"
    Race,       \* a buffer may be enabled within a write to current_trigger
    MaxFires    \* bound: times that a trigger fires

ASSUME IioAssumption ==
    /\ None \notin Devs \cup Trigs
    /\ Race \in BOOLEAN /\ Faults \subseteq {"alloc", "state", "bus"}
    /\ MaxFires \in Nat /\ Lengths \subseteq Nat /\ IsFiniteSet(Channels)
    /\ Irqs \subseteq Nat /\ IsFiniteSet(Irqs)

VARIABLES
    dev,        \* iio_dev, its kfifo buffer and the attribute write it is in
    trg,        \* iio_trigger: pool, handlers of its sub-interrupts, state, use_count
    threads,    \* interrupt threads that run: [trig, irq, dev, pc]
    fires       \* times that a trigger has fired

iioVars == <<dev, trg, threads, fires>>

\* iio_compute_scan_bytes: all channels of bmi160 take two bytes.
compute_scan_bytes(mask) == 2 * Cardinality(mask)

\* __kfifo_alloc rounds the length up to a power of two.
RoundUp(n) == Min({p \in {2 ^ k : k \in 1 .. n} : p >= n})

\* A device as iio_triggered_buffer_setup leaves it: a fifo of length 2 that is not allocated.
SetUp ==
    [info |-> TRUE, trig |-> None, active |-> FALSE, mode |-> "direct", mask |-> {},
     bytes |-> 0, length |-> 2, update |-> TRUE, esize |-> 0, size |-> 0, fifo |-> <<>>,
     irq |-> 0, at |-> None, op |-> "idle", alone |-> FALSE, leaves |-> FALSE,
     writing |-> FALSE, new |-> None]

\* After bmi160_core_remove: iio_triggered_buffer_cleanup has freed the buffer and its mask.
Removed == [SetUp EXCEPT !.info = FALSE]

IioInit ==
    /\ dev = [d \in Devs |-> SetUp]
    /\ trg = [t \in Trigs |-> [pool |-> {}, handler |-> [i \in Irqs |-> None],
                               on |-> FALSE, use |-> 0]]
    /\ threads = {}
    /\ fires = 0

\* An attribute of the device may be written: it is there and mlock is free.
Unlocked(d) == dev[d].info /\ dev[d].op = "idle" /\ (Race \/ ~dev[d].writing)

-----------------------------------------------------------------------------
(* Triggers *)

\* Mutant: a consumer that is not there is not counted as done.
PollForgetsFree(t) ==
    /\ trg[t].on /\ fires < MaxFires
    /\ fires' = fires + 1
    /\ LET enabled == {i \in Irqs : /\ trg[t].handler[i] # None
                                    /\ ~\E th \in threads : th.trig = t /\ th.irq = i
                                                            /\ th.dev = trg[t].handler[i]}
       IN  IF trg[t].use # 0 THEN UNCHANGED <<trg, threads>>
           ELSE /\ threads' = threads \cup
                     {[trig |-> t, irq |-> i, dev |-> trg[t].handler[i], pc |-> "push"] : i \in enabled}
                /\ trg' = [trg EXCEPT ![t].use = Cardinality(Irqs)]
    /\ UNCHANGED dev

\* iio_trigger_poll: every enabled sub-interrupt wakes its thread, and is masked until the
\* thread ends; each of the others is notified as done at once.
iio_trigger_poll(t) ==
    /\ trg[t].on /\ fires < MaxFires
    /\ fires' = fires + 1
    /\ LET enabled == {i \in Irqs : /\ trg[t].handler[i] # None
                                    /\ ~\E th \in threads : th.trig = t /\ th.irq = i
                                                            /\ th.dev = trg[t].handler[i]}
       IN  IF trg[t].use # 0 THEN UNCHANGED <<trg, threads>>
           ELSE /\ threads' = threads \cup
                     {[trig |-> t, irq |-> i, dev |-> trg[t].handler[i], pc |-> "push"] : i \in enabled}
                /\ trg' = [trg EXCEPT ![t].use = Cardinality(enabled)]
    /\ UNCHANGED dev

\* iio_store_to_kfifo: a full fifo, or one that was never allocated, drops the datum.
store_to_kfifo(b, datum) ==
    IF Len(b.fifo) < b.size THEN [b EXCEPT !.fifo = Append(@, datum)] ELSE b

\* bmi160_trigger_handler reads the channels and pushes them; a failing read skips the push.
trigger_handler(th) ==
    /\ th \in threads /\ th.pc = "push"
    /\ \/ /\ dev' = IF dev[th.dev].active
                    THEN [dev EXCEPT ![th.dev] = store_to_kfifo(@, dev[th.dev].mask)] ELSE dev
       \/ "bus" \in Faults /\ UNCHANGED dev
    /\ threads' = (threads \ {th}) \cup {[th EXCEPT !.pc = "notify"]}
    /\ UNCHANGED <<trg, fires>>

\* The end of the handler: iio_trigger_notify_done on the trigger that the device has now
\* (with none, the thread dies of a NULL pointer).
notify_done(th) ==
    /\ th \in threads /\ th.pc = "notify"
    /\ IF dev[th.dev].trig = None THEN threads' = threads \ {th} /\ UNCHANGED trg
       ELSE /\ trg' = [trg EXCEPT ![dev[th.dev].trig].use = @ - 1]
            /\ threads' = (threads \ {th}) \cup {[th EXCEPT !.pc = "end"]}
    /\ UNCHANGED <<dev, fires>>

\* The thread returns and its sub-interrupt is unmasked.
ThreadEnds(th) ==
    /\ th \in threads /\ th.pc = "end"
    /\ threads' = threads \ {th}
    /\ UNCHANGED <<dev, trg, fires>>

-----------------------------------------------------------------------------
(* Attributes of a device *)

\* iio_scan_mask_set and iio_scan_mask_clear.
scan_mask_set(mask, bit) == mask \cup {bit}
scan_mask_clear(mask, bit) == mask \ {bit}

\* iio_scan_el_store: refused while the buffer is active.
scan_el_store(d, bit, state) ==
    /\ Unlocked(d) /\ ~dev[d].active
    /\ dev' = [dev EXCEPT ![d].mask = IF state THEN scan_mask_set(@, bit) ELSE scan_mask_clear(@, bit)]
    /\ UNCHANGED <<trg, threads, fires>>

\* iio_buffer_write_length and iio_set_length_kfifo.
write_length(d, n) ==
    /\ Unlocked(d) /\ ~dev[d].active
    /\ LET length == IF n < 2 THEN 2 ELSE n
       IN  dev' = [dev EXCEPT ![d].length = length,
                              ![d].update = @ \/ length # dev[d].length]
    /\ UNCHANGED <<trg, threads, fires>>

\* iio_trigger_write_current, up to the unlock: refused while the buffer runs.
write_current_checks(d, t) ==
    /\ Unlocked(d) /\ ~dev[d].writing /\ dev[d].mode # "triggered" /\ t # dev[d].trig
    /\ dev' = [dev EXCEPT ![d].writing = TRUE, ![d].new = t]
    /\ UNCHANGED <<trg, threads, fires>>

\* The rest of it, without the lock.
write_current_sets(d) ==
    /\ dev[d].writing
    /\ dev' = [dev EXCEPT ![d].writing = FALSE, ![d].new = None, ![d].trig = dev[d].new]
    /\ UNCHANGED <<trg, threads, fires>>

\* Mutant: a fifo that needs no new size keeps what it holds.
RequestUpdateKeeps(b, fails) ==
    IF ~b.update THEN b
    ELSE IF b.bytes = 0 \/ fails THEN [b EXCEPT !.update = FALSE, !.fifo = <<>>, !.size = 0, !.esize = 0]
    ELSE [b EXCEPT !.update = FALSE, !.fifo = <<>>, !.size = RoundUp(b.length), !.esize = b.bytes]

\* iio_request_update_kfifo: a fifo of a new size, or the old one emptied.
request_update_kfifo(b, fails) ==
    IF ~b.update THEN [b EXCEPT !.fifo = <<>>]
    ELSE IF b.bytes = 0 \/ fails THEN [b EXCEPT !.update = FALSE, !.fifo = <<>>, !.size = 0, !.esize = 0]
    ELSE [b EXCEPT !.update = FALSE, !.fifo = <<>>, !.size = RoundUp(b.length), !.esize = b.bytes]

\* iio_buffer_update_bytes_per_datum and iio_set_bytes_per_datum_kfifo.
set_bytes_per_datum(b) ==
    LET bytes == compute_scan_bytes(b.mask)
    IN  [b EXCEPT !.bytes = bytes, !.update = @ \/ bytes # b.bytes]

\* iio_buffer_store_enable with 1: __iio_update_buffers up to postenable, and the first look of
\* iio_trigger_attach_poll_func at the pool.  A failure takes the buffer off the list again.
store_enable(d) ==
    /\ Unlocked(d) /\ ~dev[d].active
    /\ \E fails \in {FALSE} \cup {"alloc" \in Faults} :
         LET sized == set_bytes_per_datum(dev[d])
             b == request_update_kfifo(sized, fails)
             refused == sized.update /\ (sized.bytes = 0 \/ fails)
         IN  dev' = [dev EXCEPT ![d] =
                       IF refused \/ b.trig = None THEN b
                       ELSE [b EXCEPT !.active = TRUE, !.mode = "triggered", !.op = "attach",
                                      !.alone = (trg[b.trig].pool = {})]]
    /\ UNCHANGED <<trg, threads, fires>>

\* The rest of iio_trigger_attach_poll_func and of the enable.  With no sub-interrupt left, or
\* a trigger that does not start, the buffer is taken off again; the latter leaves the handler.
attach_poll_func(d) ==
    LET t == dev[d].trig
        i == Min(Irqs \ trg[t].pool)
        off == [dev EXCEPT ![d].op = "idle", ![d].alone = FALSE, ![d].active = FALSE, ![d].mode = "direct"]
        taken == [trg EXCEPT ![t].pool = @ \cup {i}, ![t].handler[i] = d]
    IN  /\ dev[d].op = "attach" /\ t # None
        /\ \/ trg[t].pool = Irqs /\ dev' = off /\ UNCHANGED trg
           \/ /\ trg[t].pool # Irqs
              /\ dev' = [dev EXCEPT ![d].op = "idle", ![d].alone = FALSE, ![d].irq = i, ![d].at = t]
              /\ trg' = IF dev[d].alone THEN [taken EXCEPT ![t].on = TRUE] ELSE taken
           \/ /\ trg[t].pool # Irqs /\ dev[d].alone /\ "state" \in Faults
              /\ dev' = [off EXCEPT ![d].irq = i, ![d].at = t]
              /\ trg' = taken
        /\ UNCHANGED <<threads, fires>>

\* iio_buffer_store_enable with 0: predisable, as far as the look at the pool.
store_disable(d) ==
    /\ Unlocked(d) /\ dev[d].active /\ dev[d].trig # None
    /\ dev' = [dev EXCEPT ![d].op = "detach", ![d].leaves = FALSE,
                          ![d].alone = (Cardinality(trg[dev[d].trig].pool) = 1)]
    /\ UNCHANGED <<trg, threads, fires>>

\* iio_device_unregister, after its attributes have drained: iio_disable_all_buffers, if active.
iio_device_unregister(d) ==
    /\ Unlocked(d) /\ ~dev[d].writing /\ (dev[d].active => dev[d].trig # None)
    /\ dev' = IF dev[d].active
              THEN [dev EXCEPT ![d].op = "detach", ![d].leaves = TRUE,
                               ![d].alone = (Cardinality(trg[dev[d].trig].pool) = 1)]
              ELSE [dev EXCEPT ![d] = Removed]
    /\ UNCHANGED <<trg, threads, fires>>

\* After predisable: the buffer is off the list, and a device that leaves is removed.
Disabled(b) ==
    IF b.leaves THEN Removed
    ELSE [b EXCEPT !.op = "idle", !.active = FALSE, !.mode = "direct", !.at = None, !.irq = 0]

\* iio_trigger_detach_poll_func: the trigger is stopped for its last user, and the
\* sub-interrupt is given back before free_irq waits for the thread.  A trigger that does not
\* stop keeps the poll function, and the buffer too unless the device leaves.
detach_poll_func(d) ==
    LET t == dev[d].trig
        b == dev[d]
        freed == [trg EXCEPT ![b.at].handler[b.irq] = None,
                             ![t].pool = IF t = b.at THEN @ \ {b.irq} ELSE @]
    IN  /\ b.op = "detach" /\ t # None /\ b.at # None
        /\ \/ /\ trg' = IF b.alone THEN [freed EXCEPT ![t].on = FALSE] ELSE freed
              /\ dev' = [dev EXCEPT ![d].op = "free", ![d].alone = FALSE]
           \/ /\ b.alone /\ "state" \in Faults
              /\ dev' = [dev EXCEPT ![d] = IF b.leaves THEN Disabled(b) ELSE [b EXCEPT !.op = "idle"]]
              /\ UNCHANGED trg
        /\ UNCHANGED <<threads, fires>>

\* free_irq returns when the thread has ended.
FreeIrqReturns(d) ==
    /\ dev[d].op = "free"
    /\ ~\E th \in threads : th.dev = d /\ th.trig = dev[d].at /\ th.irq = dev[d].irq
    /\ dev' = [dev EXCEPT ![d] = Disabled(dev[d])]
    /\ UNCHANGED <<trg, threads, fires>>

\* iio_buffer_read_first_n_outer and iio_read_first_n_kfifo: one datum at least.
read_first_n(d, n) ==
    /\ dev[d].info /\ n \in 1..Len(dev[d].fifo) /\ dev[d].esize > 0
    /\ dev' = [dev EXCEPT ![d].fifo = SubSeq(@, n + 1, Len(@))]
    /\ UNCHANGED <<trg, threads, fires>>

-----------------------------------------------------------------------------
IioNext ==
    \/ \E d \in Devs :
        \/ \E bit \in Channels, state \in BOOLEAN : scan_el_store(d, bit, state)
        \/ \E n \in Lengths : write_length(d, n)
        \/ \E t \in Trigs \cup {None} : write_current_checks(d, t)
        \/ write_current_sets(d)
        \/ store_enable(d) \/ attach_poll_func(d)
        \/ store_disable(d) \/ iio_device_unregister(d)
        \/ detach_poll_func(d) \/ FreeIrqReturns(d)
        \/ \E n \in 1..2 : read_first_n(d, n)
    \/ \E t \in Trigs : iio_trigger_poll(t)
    \/ \E th \in threads : trigger_handler(th) \/ notify_done(th) \/ ThreadEnds(th)

IioSpec == IioInit /\ [][IioNext]_iioVars

-----------------------------------------------------------------------------
(* Properties *)

\* What a running buffer holds was sampled for the channels it is enabled with: a reader cannot
\* tell a datum of an older scan mask, of another layout or of the same size, from a new one.
DataMatchesMask ==
    \A d \in Devs : dev[d].active =>
        /\ \A k \in DOMAIN dev[d].fifo : dev[d].fifo[k] = dev[d].mask
        /\ dev[d].fifo # <<>> => dev[d].esize = compute_scan_bytes(dev[d].mask)

\* A trigger counts exactly the consumers that have yet to notify it: it neither fires into a
\* sample that is being taken nor, with a count that no thread will take down, stops for good.
TriggerNotStuck ==
    \A t \in Trigs :
        trg[t].use = Cardinality({th \in threads : th.trig = t /\ th.pc \in {"push", "notify"}})

-----------------------------------------------------------------------------
(* The inductive invariants of DeviceProofs *)

\* The fields of a device that the proof about its buffer depends on
BufferOK(b) ==
    b \in [info : {b.info}, trig : {b.trig}, active : BOOLEAN, mode : {b.mode}, mask : SUBSET Channels,
           bytes : {b.bytes}, length : {b.length}, update : BOOLEAN, esize : {b.esize}, size : {b.size},
           fifo : Seq(SUBSET Channels), irq : {b.irq}, at : {b.at}, op : {b.op}, alone : {b.alone},
           leaves : {b.leaves}, writing : {b.writing}, new : {b.new}]

\* A fifo that need not be updated has elements of the size the buffer counts on, and none if
\* it was never allocated; a running buffer counts on its mask, and holds samples of it only.
BufferIsCurrent(b) ==
    /\ b.size = 0 => b.fifo = <<>>
    /\ b.size = 0 \/ b.update \/ b.esize = b.bytes
    /\ b.active => /\ ~b.update /\ b.bytes = compute_scan_bytes(b.mask)
                   /\ \A k \in DOMAIN b.fifo : b.fifo[k] = b.mask

BufferIInv ==
    /\ dev = [d \in Devs |-> dev[d]]
    /\ \A d \in Devs : BufferOK(dev[d]) /\ BufferIsCurrent(dev[d])

\* The fields that the proof about triggers depends on
ConsumerOK(b) ==
    b \in [info : BOOLEAN, trig : Trigs \cup {None}, active : BOOLEAN, mode : {"direct", "triggered"},
           mask : {b.mask}, bytes : {b.bytes}, length : {b.length}, update : {b.update},
           esize : {b.esize}, size : {b.size}, fifo : {b.fifo}, irq : Irqs \cup {0},
           at : Trigs \cup {None}, op : {"idle", "attach", "detach", "free"}, alone : {b.alone},
           leaves : {b.leaves}, writing : BOOLEAN, new : Trigs \cup {None}]

\* A device with a running buffer keeps its trigger, and one without holds no sub-interrupt.
ConsumerIsSettled(b) ==
    /\ b.mode = "triggered" <=> b.active
    /\ b.active => ~b.writing /\ b.trig # None
    /\ ~b.active => b.op = "idle"
    /\ b.op \in {"idle", "detach", "free"} /\ b.active => b.at = b.trig /\ b.irq \in Irqs

\* A sub-interrupt with a handler is taken, and is the one its device knows of.
HandlersAreHeld ==
    \A t \in Trigs, i \in Irqs :
        trg[t].handler[i] # None =>
            LET b == dev[trg[t].handler[i]]
            IN  i \in trg[t].pool /\ b.active /\ b.op \in {"idle", "detach"} /\ b.at = t /\ b.irq = i

\* A thread runs for a device that has not let go of the sub-interrupt, one for each device.
ThreadsAreOwned ==
    /\ \A th \in threads :
        LET b == dev[th.dev]
        IN  b.active /\ b.op \in {"idle", "detach", "free"} /\ b.at = th.trig /\ b.irq = th.irq
    /\ \A th, u \in threads : th.dev = u.dev => th = u

TriggerTypeOK ==
    /\ dev = [d \in Devs |-> dev[d]]
    /\ \A d \in Devs : ConsumerOK(dev[d])
    /\ trg \in [Trigs -> [pool : SUBSET Irqs, handler : [Irqs -> Devs \cup {None}], on : BOOLEAN, use : Int]]
    /\ threads \subseteq [trig : Trigs, irq : Irqs, dev : Devs, pc : {"push", "notify", "end"}]
    /\ IsFiniteSet(threads)

TriggerIInv ==
    /\ TriggerTypeOK /\ HandlersAreHeld /\ ThreadsAreOwned /\ TriggerNotStuck
    /\ \A d \in Devs : ConsumerIsSettled(dev[d])
=============================================================================
