------------------------------ MODULE Opt300x ------------------------------
(***************************************************************************)
(* The OPT300x light sensor (opt300x.c) and the event file of an IIO       *)
(* device (industrialio-event.c) that its interrupt thread writes to.      *)
(*                                                                         *)
(* One process takes readings, others set the mode, the limits and the     *)
(* integration time; the interrupt thread takes the driver's lock unless a *)
(* reading tells it to ignore it.  A limit is "low", "high" or another     *)
(* value of a user; "eoc" is the value that asks for an interrupt at the   *)
(* end of each conversion.                                                 *)
(***************************************************************************)
EXTENDS Naturals, Sequences, SequencesExt

CONSTANTS
    Limits,         \* values of the low limit that a user sets
    FifoLen,        \* size of the event fifo (16)
    BusFails,       \* transfers on the I2C bus may fail
    MaxConv,        \* bound: conversions
    MaxReleases     \* bound: times that the event file is closed

ASSUME OptAssumption ==
    /\ "eoc" \notin Limits /\ Limits # {} /\ BusFails \in BOOLEAN
    /\ FifoLen \in Nat /\ MaxConv \in Nat /\ MaxReleases \in Nat

VARIABLES
    opt,        \* struct opt300x: mode, ok_to_ignore_lock, result_ready, result, limit, use_irq
    part,       \* the sensor: mode, low limit, flags, conversions
    holder,     \* holder of opt->lock
    reader,     \* where opt300x_read_raw is
    irqt,       \* where the interrupt thread is
    ev,         \* iio_event_interface and the file: busy, events by the release they follow
    ends        \* times that the event file has been closed

optVars == <<opt, part, holder, reader, irqt, ev, ends>>

OptInit ==
    \E limit \in Limits, use_irq \in BOOLEAN :
        /\ opt = [mode |-> "shutdown", ignore |-> FALSE, ready |-> FALSE, result |-> 0,
                  low |-> limit, use_irq |-> use_irq]
        /\ part = [mode |-> "shutdown", low |-> limit, crf |-> FALSE, fired |-> FALSE, conv |-> 0]
        /\ holder = "none" /\ reader = "idle" /\ irqt = "idle"
        /\ ev = [busy |-> FALSE, fd |-> "closed", fifo |-> <<>>]
        /\ ends = 0

\* A transfer fails or not.
Bus == IF BusFails THEN BOOLEAN ELSE {TRUE}

-----------------------------------------------------------------------------
(* opt300x_read_raw *)

\* The mode is looked at without the lock.
read_raw(r) ==
    /\ reader = "idle" /\ opt.mode # "continuous"
    /\ reader' = r
    /\ UNCHANGED <<opt, part, holder, irqt, ev, ends>>

\* The reading returns: with the lock given back, and ok_to_ignore_lock cleared unless the
\* first transfer has failed.
Returns(o) ==
    /\ opt' = [o EXCEPT !.ignore = FALSE]
    /\ holder' = "none" /\ reader' = "idle"

\* opt300x_get_reading: the end-of-conversion interrupt is asked for.
ReadingBegins ==
    /\ reader = "lock" /\ holder = "none"
    /\ \E ok \in Bus :
         IF ok \/ ~opt.use_irq
         THEN /\ holder' = "reader" /\ reader' = "start"
              /\ opt' = [opt EXCEPT !.ignore = opt.use_irq, !.ready = FALSE]
              /\ part' = IF opt.use_irq THEN [part EXCEPT !.low = "eoc"] ELSE part
         ELSE Returns(opt) /\ UNCHANGED part
    /\ UNCHANGED <<irqt, ev, ends>>

\* A single conversion is started.  Reading the configuration clears its flags.
ReadingStarts ==
    /\ reader = "start"
    /\ \E read \in Bus, write \in Bus :
         /\ part' = [part EXCEPT !.crf = IF read THEN FALSE ELSE @, !.fired = IF read THEN FALSE ELSE @,
                                 !.mode = IF read /\ write THEN "single" ELSE @]
         /\ IF read /\ write
            THEN reader' = "wait" /\ opt' = [opt EXCEPT !.mode = "single"] /\ UNCHANGED holder
            ELSE Returns(IF read THEN [opt EXCEPT !.mode = "single"] ELSE opt)
    /\ UNCHANGED <<irqt, ev, ends>>

\* The wait ends with a result, or times out.
ReadingWaits ==
    /\ reader = "wait"
    /\ IF opt.use_irq
       THEN /\ UNCHANGED part
            /\ \/ opt.ready /\ reader' = "restore" /\ opt' = [opt EXCEPT !.ignore = FALSE] /\ UNCHANGED holder
               \/ ~opt.ready /\ Returns(opt)
       ELSE \E ok \in Bus :
              /\ part' = IF ok THEN [part EXCEPT !.crf = FALSE, !.fired = FALSE] ELSE part
              /\ Returns(IF ok /\ part.crf THEN [opt EXCEPT !.result = part.conv, !.ready = TRUE] ELSE opt)
    /\ UNCHANGED <<irqt, ev, ends>>

\* The low limit is written back.
ReadingRestores ==
    /\ reader = "restore"
    /\ \E ok \in Bus : part' = IF ok THEN [part EXCEPT !.low = opt.low] ELSE part
    /\ Returns(opt)
    /\ UNCHANGED <<irqt, ev, ends>>

-----------------------------------------------------------------------------
(* Event attributes, each under the lock *)

\* opt300x_write_event_config
write_event_config(mode) ==
    /\ holder = "none" /\ opt.mode # mode
    /\ \E read \in Bus, write \in Bus :
         /\ opt' = IF read THEN [opt EXCEPT !.mode = mode] ELSE opt
         /\ part' = [part EXCEPT !.crf = IF read THEN FALSE ELSE @, !.fired = IF read THEN FALSE ELSE @,
                                 !.mode = IF read /\ write THEN mode ELSE @]
    /\ UNCHANGED <<holder, reader, irqt, ev, ends>>

\* opt300x_write_event_value: the driver's copy changes whether or not the write succeeds.
write_event_value(limit) ==
    /\ holder = "none"
    /\ opt' = [opt EXCEPT !.low = limit]
    /\ \E ok \in Bus : part' = IF ok THEN [part EXCEPT !.low = limit] ELSE part
    /\ UNCHANGED <<holder, reader, irqt, ev, ends>>

-----------------------------------------------------------------------------
(* The sensor and the interrupt thread *)

\* A conversion ends; it interrupts at the end of each conversion, or across a limit.
ConversionEnds ==
    /\ part.mode # "shutdown" /\ part.conv < MaxConv
    /\ \E across \in BOOLEAN :
         /\ part' = [part EXCEPT !.conv = @ + 1, !.crf = TRUE, !.fired = @ \/ across,
                                 !.mode = IF @ = "single" THEN "shutdown" ELSE @]
         /\ irqt' = IF opt.use_irq /\ irqt = "idle" /\ (across \/ part.low = "eoc")
                    THEN "enter" ELSE irqt
    /\ UNCHANGED <<opt, holder, reader, ev, ends>>

\* opt300x_irq takes the lock unless it is to ignore it.
irq_enters ==
    /\ irqt = "enter" /\ (opt.ignore \/ holder = "none")
    /\ holder' = IF opt.ignore THEN holder ELSE "irq"
    /\ irqt' = "config"
    /\ UNCHANGED <<opt, part, reader, ev, ends>>

\* iio_push_event: only for an open file, and dropped when the fifo is full.
push_event(e) ==
    IF e.busy /\ Len(e.fifo) < FifoLen THEN [e EXCEPT !.fifo = Append(@, ends)] ELSE e

\* The configuration is read: in continuous mode a limit that was crossed is an event.
irq_reads_config ==
    /\ irqt = "config"
    /\ \E ok \in Bus :
         /\ part' = IF ok THEN [part EXCEPT !.crf = FALSE, !.fired = FALSE] ELSE part
         /\ ev' = IF ok /\ part.mode = "continuous" /\ part.fired THEN push_event(ev) ELSE ev
         /\ irqt' = IF ok /\ part.mode # "continuous" /\ part.crf THEN "result" ELSE "leave"
    /\ UNCHANGED <<opt, holder, reader, ends>>

\* The result is read for the process that waits.
irq_reads_result ==
    /\ irqt = "result"
    /\ \E ok \in Bus :
         opt' = IF ok THEN [opt EXCEPT !.result = part.conv, !.ready = TRUE] ELSE opt
    /\ irqt' = "leave"
    /\ UNCHANGED <<part, holder, reader, ev, ends>>

\* The flag is looked at again: a lock that the thread has never taken may be given back here.
irq_leaves ==
    /\ irqt = "leave"
    /\ irqt' = "idle"
    /\ holder' = IF opt.ignore THEN holder ELSE "none"
    /\ UNCHANGED <<opt, part, reader, ev, ends>>

-----------------------------------------------------------------------------
(* The event file *)

\* iio_event_getfd: the interface is busy before there is a file.
event_getfd ==
    /\ ev.fd = "closed" /\ ~ev.busy
    /\ ev' = [ev EXCEPT !.busy = TRUE, !.fd = "opening"]
    /\ UNCHANGED <<opt, part, holder, reader, irqt, ends>>

\* anon_inode_getfd succeeds, or the interface is free again.
event_getfd_ends ==
    /\ ev.fd = "opening"
    /\ ev' \in {[ev EXCEPT !.fd = "open"], [ev EXCEPT !.fd = "closed", !.busy = FALSE]}
    /\ UNCHANGED <<opt, part, holder, reader, irqt, ends>>

\* iio_event_chrdev_read: one event at least.
event_chrdev_read(n) ==
    /\ ev.fd = "open" /\ n \in 1..Len(ev.fifo)
    /\ ev' = [ev EXCEPT !.fifo = SubSeq(@, n + 1, Len(@))]
    /\ UNCHANGED <<opt, part, holder, reader, irqt, ends>>

\* Mutant: the events stay for the next to open.
ReleaseKeepsEvents ==
    /\ ev.fd = "open" /\ ends < MaxReleases
    /\ ev' = [ev EXCEPT !.fd = "closed", !.busy = FALSE]
    /\ ends' = ends + 1
    /\ UNCHANGED <<opt, part, holder, reader, irqt>>

\* iio_event_chrdev_release
event_chrdev_release ==
    /\ ev.fd = "open" /\ ends < MaxReleases
    /\ ev' = [fd |-> "closed", busy |-> FALSE, fifo |-> <<>>]
    /\ ends' = ends + 1
    /\ UNCHANGED <<opt, part, holder, reader, irqt>>

-----------------------------------------------------------------------------
OptNext ==
    \/ read_raw("lock")
    \/ ReadingBegins \/ ReadingStarts \/ ReadingWaits \/ ReadingRestores
    \/ \E mode \in {"continuous", "shutdown"} : write_event_config(mode)
    \/ \E limit \in Limits : write_event_value(limit)
    \/ ConversionEnds
    \/ irq_enters \/ irq_reads_config \/ irq_reads_result \/ irq_leaves
    \/ event_getfd \/ event_getfd_ends
    \/ \E n \in 1..FifoLen : event_chrdev_read(n)
    \/ event_chrdev_release

OptSpec == OptInit /\ [][OptNext]_optVars

-----------------------------------------------------------------------------
(* Properties *)

\* Whoever opens the event file finds no event that was left when it was last closed: the
\* release clears them, and the busy bit keeps the interrupt thread from adding any after it.
EventsAreCurrent == \A k \in DOMAIN ev.fifo : ev.fifo[k] = ends

\* A reading that asked for the end-of-conversion interrupt has written the user's low limit
\* back when it returns, as the comment of opt300x_get_reading says it will.
LimitRestored == reader = "idle" => part.low # "eoc"

\* What EventsAreCurrent needs to be inductive: the fifo holds event numbers, and the number
\* of the next close is one too.
EventsIInv ==
    /\ ends \in Nat
    /\ ev.fifo \in Seq(Nat)
    /\ ev = [busy |-> ev.busy, fd |-> ev.fd, fifo |-> ev.fifo]
    /\ EventsAreCurrent
=============================================================================
