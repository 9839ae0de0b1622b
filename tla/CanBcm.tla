------------------------------- MODULE CanBcm -------------------------------
(***************************************************************************)
(* The CAN broadcast manager (bcm.c): a socket with one receive operation, *)
(* which tells the user of content that has changed, at most once in an    *)
(* interval, and one transmit operation, which sends frames at intervals.  *)
(*                                                                         *)
(* A system call holds the socket lock; frames and tasklets come at any    *)
(* point of it, and timers at any point of those.  The set-up of a receive *)
(* operation and the removal of a transmit operation are split where that  *)
(* matters.  A tasklet runs some time after its timer.                     *)
(*                                                                         *)
(* The receive operation looks at the identifier only ("id"), at one frame *)
(* ("one") or at a frame for each multiplexer value ("mux").  A frame is   *)
(* [mux, data].  Intervals are set or not; a throttling interval since the *)
(* last message has passed or not.                                         *)
(***************************************************************************)
EXTENDS Naturals

CONSTANTS
    Mux, Data,      \* multiplexer values and contents of frames
    MaxCount,       \* bound: TX_SETUP counts
    MaxCalls        \* bound: set-ups and removals

ASSUME BcmAssumption == Mux \subseteq Nat \ {0} /\ {MaxCount, MaxCalls} \subseteq Nat

VARIABLES
    bo,         \* the socket and its device: bound, device present, receiver registered
    rxop,       \* the receive operation
    last,       \* last_frames: what was received, RX_RECV and RX_THR, for each index
    told,       \* what the user was last told, for each index
    kt_lastmsg, \* "zero", "recent" or "old"
    txop,       \* the transmit operation
    timers,     \* armed timers and scheduled tasklets
    call,       \* where the system call is ("none" when there is none) and what it sets
    calls       \* bound on calls

bcmVars == <<bo, rxop, last, told, kt_lastmsg, txop, timers, call, calls>>

Index == {0} \cup Mux
NoFrame == [mux |-> 0, data |-> 0]
FrameSet == [mux : Mux, data : Data]
Unseen == [recv |-> FALSE, thr |-> FALSE, val |-> NoFrame]
NoRx == [on |-> FALSE, mode |-> "id", rtr |-> FALSE, ival1 |-> FALSE, ival2 |-> FALSE,
         resume |-> FALSE, auto |-> TRUE]
NoTx == [on |-> FALSE, count |-> 0, ival1 |-> FALSE, ival2 |-> FALSE, started |-> FALSE,
         dangling |-> FALSE]

\* The indices that an operation uses (nframes > 1: the first frame is the mask)
Used(mode) == IF mode = "mux" THEN Mux ELSE {0}

-----------------------------------------------------------------------------
(* Receiving *)

\* bcm_rx_changed tells the user and clears RX_THR.
bcm_rx_changed(i, l) == last' = [l EXCEPT ![i].thr = FALSE] /\ told' = [told EXCEPT ![i] = l[i].val]

\* bcm_rx_update_and_send, for the timers tm that are left armed
bcm_rx_update_and_send(i, f, tm) ==
    LET l == [last EXCEPT ![i] = [recv |-> TRUE, thr |-> TRUE, val |-> f]]
    IN  \/ ~ rxop.ival2 /\ bcm_rx_changed(i, l) /\ timers' = tm /\ UNCHANGED kt_lastmsg
        \/ /\ rxop.ival2 /\ "thr" \in tm
           /\ last' = l /\ timers' = tm /\ UNCHANGED <<told, kt_lastmsg>>
        \/ /\ rxop.ival2 /\ "thr" \notin tm /\ kt_lastmsg = "recent"
           /\ last' = l /\ timers' = tm \cup {"thr"} /\ UNCHANGED <<told, kt_lastmsg>>
        \/ /\ rxop.ival2 /\ "thr" \notin tm /\ kt_lastmsg # "recent"
           /\ bcm_rx_changed(i, l) /\ kt_lastmsg' = "recent" /\ timers' = tm

\* bcm_rx_handler with bcm_rx_cmp_to_index and bcm_rx_starttimer.  A remote request is
\* answered, and leaves the timer cancelled.
bcm_rx_handler(f) ==
    /\ rxop.on /\ bo.registered /\ bo.device
    /\ LET i == IF rxop.mode = "mux" THEN f.mux ELSE 0
           tm == (timers \ {"rx"}) \cup (IF rxop.ival1 /\ rxop.auto THEN {"rx"} ELSE {})
       IN  IF rxop.rtr
           THEN timers' = timers \ {"rx"} /\ UNCHANGED <<last, told, kt_lastmsg>>
           ELSE IF rxop.mode = "id" \/ ~ last[i].recv \/ last[i].val # f
           THEN bcm_rx_update_and_send(i, f, tm)
           ELSE timers' = tm /\ UNCHANGED <<last, told, kt_lastmsg>>
    /\ UNCHANGED <<bo, rxop, txop, call, calls>>

\* bcm_rx_timeout_handler; its tasklet only tells the user.
bcm_rx_timeout_handler ==
    /\ "rx" \in timers
    /\ timers' = timers \ {"rx"}
    /\ last' = IF rxop.resume THEN [i \in Index |-> IF i \in Used(rxop.mode) THEN Unseen ELSE last[i]]
               ELSE last
    /\ UNCHANGED <<bo, rxop, told, kt_lastmsg, txop, call, calls>>

Throttled == {i \in Used(rxop.mode) : last[i].thr}

\* bcm_rx_thr_flush with update set
bcm_rx_thr_flush ==
    /\ last' = [i \in Index |-> IF i \in Throttled THEN [last[i] EXCEPT !.thr = FALSE] ELSE last[i]]
    /\ told' = [i \in Index |-> IF i \in Throttled THEN last[i].val ELSE told[i]]

bcm_rx_thr_tsklet ==
    /\ "thr_tsklet" \in timers
    /\ timers' = timers \ {"thr_tsklet"}
    /\ bcm_rx_thr_flush
    /\ UNCHANGED <<bo, rxop, kt_lastmsg, txop, call, calls>>

\* Mutant: the timer ends after one interval.
ThrHandlerOnce ==
    /\ "thr" \in timers
    /\ timers' = timers \ {"thr"}
    /\ kt_lastmsg' = "zero"
    /\ UNCHANGED <<bo, rxop, last, told, txop, call, calls>>
\* bcm_rx_thr_handler goes on while something is throttled.
bcm_rx_thr_handler ==
    /\ "thr" \in timers
    /\ \/ Throttled # {} /\ timers' = timers \cup {"thr_tsklet"} /\ UNCHANGED kt_lastmsg
       \/ Throttled = {} /\ timers' = (timers \ {"thr"}) \cup {"thr_tsklet"} /\ kt_lastmsg' = "zero"
    /\ UNCHANGED <<bo, rxop, last, told, txop, call, calls>>

\* The interval passes (the timer, if armed, is due no earlier).
IntervalPasses ==
    /\ kt_lastmsg = "recent" /\ kt_lastmsg' = "old"
    /\ UNCHANGED <<bo, rxop, last, told, txop, timers, call, calls>>

-----------------------------------------------------------------------------
(* Setting up the receive operation *)

Idle == [at |-> "none", start |-> FALSE, ival1 |-> FALSE, ival2 |-> FALSE]
Call == bo.bound /\ call = Idle /\ calls < MaxCalls

BcmFrames(mode) == CASE mode = "id" -> 0 [] mode = "one" -> 1 [] mode = "mux" -> 2

\* bcm_rx_setup up to the flags.  More frames than the operation has are refused; new
\* masks forget what was received.  A new operation is registered when its device is there.
bcm_rx_setup(op, settimer, starttimer) ==
    /\ Call /\ calls' = calls + 1
    /\ op.on /\ (op.rtr => op.mode = "one")
    /\ rxop.on => BcmFrames(op.mode) <= BcmFrames(rxop.mode)
    /\ rxop' = [op EXCEPT !.ival1 = rxop.ival1, !.ival2 = rxop.ival2]
    /\ last' = [i \in Index |-> IF ~ rxop.on \/ (op.mode = "one" /\ i = 0) \/ op.mode = "mux"
                                THEN Unseen ELSE last[i]]
    /\ bo' = [bo EXCEPT !.registered = IF rxop.on THEN @ ELSE bo.device]
    /\ kt_lastmsg' = IF rxop.on THEN kt_lastmsg ELSE "zero"
    /\ timers' = IF op.rtr THEN timers \ {"rx", "thr"} ELSE timers
    /\ call' = IF op.rtr THEN Idle
               ELSE [at |-> IF settimer THEN "intervals" ELSE "start",
                     start |-> starttimer, ival1 |-> settimer /\ op.ival1, ival2 |-> settimer /\ op.ival2]
    /\ UNCHANGED <<told, txop>>

rx_setup_intervals ==
    /\ call.at = "intervals" /\ call' = [call EXCEPT !.at = "cancel"]
    /\ rxop' = [rxop EXCEPT !.ival1 = call.ival1, !.ival2 = call.ival2]
    /\ timers' = IF call.ival1 THEN timers ELSE timers \ {"rx"}
    /\ UNCHANGED <<bo, last, told, kt_lastmsg, txop, calls>>

rx_setup_cancel ==
    /\ call.at = "cancel" /\ call' = [call EXCEPT !.at = "flush"]
    /\ kt_lastmsg' = "zero"
    /\ timers' = timers \ {"thr"}
    /\ UNCHANGED <<bo, rxop, last, told, txop, calls>>

rx_setup_flush ==
    /\ call.at = "flush" /\ call' = [call EXCEPT !.at = "start"]
    /\ bcm_rx_thr_flush
    /\ UNCHANGED <<bo, rxop, kt_lastmsg, txop, timers, calls>>

rx_setup_start ==
    /\ call.at = "start" /\ call' = Idle
    /\ timers' = IF call.start /\ rxop.ival1 THEN timers \cup {"rx"} ELSE timers
    /\ UNCHANGED <<bo, rxop, last, told, kt_lastmsg, txop, calls>>

\* bcm_remove_op of the receive operation: its tasklets arm no timer.
WithoutRx(tm) == tm \ {"rx", "thr", "thr_tsklet"}

\* bcm_delete_rx_op
bcm_delete_rx_op ==
    /\ Call /\ calls' = calls + 1 /\ rxop.on
    /\ rxop' = NoRx /\ timers' = WithoutRx(timers)
    /\ bo' = [bo EXCEPT !.registered = FALSE]
    /\ last' = [i \in Index |-> Unseen] /\ told' = [i \in Index |-> NoFrame] /\ kt_lastmsg' = "zero"
    /\ UNCHANGED <<txop, call>>

-----------------------------------------------------------------------------
(* Transmitting *)

\* bcm_tx_start_timer
MayStart(op) == (op.ival1 /\ op.count > 0) \/ op.ival2
bcm_tx_start_timer(op, tm) ==
    /\ timers' = IF MayStart(op) THEN tm \cup {"tx"} ELSE tm
    /\ txop' = [op EXCEPT !.started = MayStart(op)]

bcm_tx_timeout_handler ==
    /\ "tx" \in timers
    /\ timers' = (timers \ {"tx"}) \cup {"tx_tsklet"}
    /\ UNCHANGED <<bo, rxop, last, told, kt_lastmsg, txop, call, calls>>

\* bcm_tx_timeout_tsklet: the frame is sent (bcm_can_tx) when there is a device.
bcm_tx_timeout_tsklet ==
    /\ "tx_tsklet" \in timers
    /\ bcm_tx_start_timer([txop EXCEPT !.count = IF txop.ival1 /\ @ > 0 THEN @ - 1 ELSE @],
                          timers \ {"tx_tsklet"})
    /\ UNCHANGED <<bo, rxop, last, told, kt_lastmsg, call, calls>>

\* bcm_tx_setup: SETTIMER takes the count and the intervals, and without any of these the
\* timer is cancelled; STARTTIMER sends a frame at once and starts the timer.
bcm_tx_setup(op, settimer, starttimer) ==
    /\ Call /\ calls' = calls + 1
    /\ LET set == IF settimer
                  THEN [txop EXCEPT !.on = TRUE, !.count = op.count, !.ival1 = op.ival1,
                                    !.ival2 = op.ival2, !.started = @ /\ (op.ival1 \/ op.ival2)]
                  ELSE [txop EXCEPT !.on = TRUE]
           tm == IF settimer /\ ~ (op.ival1 \/ op.ival2) THEN timers \ {"tx"} ELSE timers
       IN  IF starttimer
           THEN bcm_tx_start_timer([set EXCEPT !.count = IF @ > 0 THEN @ - 1 ELSE @], tm \ {"tx"})
           ELSE txop' = set /\ timers' = tm
    /\ UNCHANGED <<bo, rxop, last, told, kt_lastmsg, call>>

\* bcm_delete_tx_op with bcm_remove_op: the timer is cancelled, and then the tasklet is
\* waited for, which may arm the timer again; the operation is freed with it armed.
bcm_delete_tx_op ==
    /\ Call /\ calls' = calls + 1 /\ txop.on
    /\ timers' = timers \ {"tx"}
    /\ call' = [Idle EXCEPT !.at = "kill"]
    /\ UNCHANGED <<bo, rxop, last, told, kt_lastmsg, txop>>

bcm_remove_op ==
    /\ call.at = "kill" /\ "tx_tsklet" \notin timers /\ call' = Idle
    /\ txop' = [NoTx EXCEPT !.dangling = txop.dangling \/ "tx" \in timers]
    /\ timers' = timers \ {"tx"}
    /\ UNCHANGED <<bo, rxop, last, told, kt_lastmsg, calls>>

-----------------------------------------------------------------------------
(* The socket and the device *)

bcm_connect ==
    /\ ~ bo.bound /\ bo.device /\ call = Idle
    /\ bo' = [bo EXCEPT !.bound = TRUE]
    /\ UNCHANGED <<rxop, last, told, kt_lastmsg, txop, timers, call, calls>>

\* bcm_notifier, NETDEV_UNREGISTER; the operations stay.
bcm_notifier ==
    /\ bo.device /\ call = Idle
    /\ bo' = [bound |-> FALSE, device |-> FALSE, registered |-> FALSE]
    /\ UNCHANGED <<rxop, last, told, kt_lastmsg, txop, timers, call, calls>>

DeviceComes ==
    /\ ~ bo.device
    /\ bo' = [bo EXCEPT !.device = TRUE]
    /\ UNCHANGED <<rxop, last, told, kt_lastmsg, txop, timers, call, calls>>

\* bcm_release; a transmit operation whose tasklet waits is freed as by bcm_remove_op.
bcm_release ==
    /\ call = Idle /\ calls < MaxCalls /\ calls' = calls + 1
    /\ bo' = [bo EXCEPT !.bound = FALSE, !.registered = FALSE]
    /\ rxop' = NoRx
    /\ timers' = WithoutRx(timers \ {"tx"})
    /\ last' = [i \in Index |-> Unseen] /\ told' = [i \in Index |-> NoFrame] /\ kt_lastmsg' = "zero"
    /\ call' = [Idle EXCEPT !.at = "kill"]
    /\ UNCHANGED txop

-----------------------------------------------------------------------------

BcmInit ==
    /\ bo = [bound |-> FALSE, device |-> TRUE, registered |-> FALSE]
    /\ rxop = NoRx /\ last = [i \in Index |-> Unseen] /\ told = [i \in Index |-> NoFrame]
    /\ kt_lastmsg = "zero" /\ txop = NoTx /\ timers = {} /\ call = Idle /\ calls = 0

BcmNext ==
    \/ \E f \in FrameSet : bcm_rx_handler(f)
    \/ bcm_rx_timeout_handler
    \/ bcm_rx_thr_handler \/ bcm_rx_thr_tsklet \/ IntervalPasses
    \/ \E mode \in {"id", "one", "mux"}, rtr, ival1, ival2, resume, auto, set, start \in BOOLEAN :
        bcm_rx_setup([on |-> TRUE, mode |-> mode, rtr |-> rtr, ival1 |-> ival1, ival2 |-> ival2,
                      resume |-> resume, auto |-> auto], set, start)
    \/ rx_setup_intervals \/ rx_setup_cancel \/ rx_setup_flush \/ rx_setup_start
    \/ bcm_delete_rx_op
    \/ bcm_tx_timeout_handler \/ bcm_tx_timeout_tsklet
    \/ \E n \in 0 .. MaxCount, ival1, ival2, set, start \in BOOLEAN :
        bcm_tx_setup([NoTx EXCEPT !.count = n, !.ival1 = ival1, !.ival2 = ival2], set, start)
    \/ bcm_delete_tx_op \/ bcm_remove_op
    \/ bcm_connect \/ bcm_notifier \/ DeviceComes \/ bcm_release

BcmSpec == BcmInit /\ [][BcmNext]_bcmVars

-----------------------------------------------------------------------------

\* What the broadcast manager owes has a timer: content that was received and that the
\* user has not been told is marked as throttled, and the throttling timer or its tasklet
\* is under way to tell it, and a transmission that was started and is not at its end has
\* its timer or its tasklet, whatever set-ups came in between.
OwedHasTimer ==
    /\ rxop.on /\ call.at = "none" => \A i \in Used(rxop.mode) :
        last[i].recv /\ told[i] # last[i].val
            => last[i].thr /\ timers \cap {"thr", "thr_tsklet"} # {}
    /\ txop.on /\ txop.started /\ call.at = "none" /\ MayStart(txop)
        => timers \cap {"tx", "tx_tsklet"} # {}

-----------------------------------------------------------------------------
(* The inductive invariant of DriverProofs *)

Contents == FrameSet \cup {NoFrame}
BcmTypeOK ==
    /\ bo \in [bound : BOOLEAN, device : BOOLEAN, registered : BOOLEAN]
    /\ rxop \in [on : BOOLEAN, mode : {"id", "one", "mux"}, rtr : BOOLEAN, ival1 : BOOLEAN,
                 ival2 : BOOLEAN, resume : BOOLEAN, auto : BOOLEAN]
    /\ last \in [Index -> [recv : BOOLEAN, thr : BOOLEAN, val : Contents]]
    /\ told \in [Index -> Contents]
    /\ kt_lastmsg \in {"zero", "recent", "old"}
    /\ txop \in [on : BOOLEAN, count : Nat, ival1 : BOOLEAN, ival2 : BOOLEAN, started : BOOLEAN,
                 dangling : BOOLEAN]
    /\ timers \subseteq {"rx", "thr", "thr_tsklet", "tx", "tx_tsklet"}
    /\ call \in [at : {"none", "intervals", "cancel", "flush", "start", "kill"}, start : BOOLEAN,
                 ival1 : BOOLEAN, ival2 : BOOLEAN]

\* What the user has not been told is marked, also within a set-up; only between the
\* cancellation of the timer and the flush nobody is under way to tell it.
UntoldIsMarked ==
    rxop.on => \A i \in Used(rxop.mode) :
        /\ last[i].recv /\ told[i] # last[i].val => last[i].thr
        /\ last[i].thr /\ call.at # "flush" => timers \cap {"thr", "thr_tsklet"} # {}

\* An operation with multiplexers leaves the place of the mask alone, which an operation on
\* one frame set up over it uses next.
MaskIsUnseen == rxop.on /\ rxop.mode = "mux" => last[0] = Unseen

\* A started transmission has its timer, at its end and after a set-up to nothing too.
StartedIsTimed == txop.started /\ call.at # "kill" => timers \cap {"tx", "tx_tsklet"} # {}

BcmIInv == BcmTypeOK /\ UntoldIsMarked /\ MaskIsUnseen /\ StartedIsTimed
=============================================================================
