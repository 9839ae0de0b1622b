------------------------------ MODULE Mcp251x ------------------------------
(***************************************************************************)
(* The MCP251x CAN controller driver (mcp251x.c) with the part of the CAN  *)
(* device layer it drives (dev.c): the echo of sent frames, bus-off and    *)
(* restart, open and close, suspend and resume.                            *)
(*                                                                         *)
(* The interrupt thread and the works run under mcp_lock; the transmit     *)
(* routine, the restart timer and the first half of the close do not, so   *)
(* they fall between the halves into which a round of the interrupt thread *)
(* and the restart work are split here.  The works run one at a time and   *)
(* in order, and are frozen while the system sleeps.  The interrupt is     *)
(* edge triggered: `edge' is an edge that is not served yet.               *)
(*                                                                         *)
(* A frame is its number, 0 is none.  The bus and the chip are modelled    *)
(* from how the driver uses them.                                          *)
(***************************************************************************)
EXTENDS Naturals, Sequences, SequencesExt

CONSTANTS
    MaxTx, MaxRx,   \* bounds: frames sent and received
    MaxErr,         \* bound: error states that the chip reports
    MaxSleep        \* bound: suspends

ASSUME McpAssumption == {MaxTx, MaxRx, MaxErr, MaxSleep} \subseteq Nat

VARIABLES
    drv,    \* mcp251x_priv: tx_skb, tx_len # 0, echo_skb, can.state, force_quit, after_suspend, restart_tx
    netdev, \* up, queue awake, attached, carrier; restart_ms # 0; a vdd regulator
    chip,   \* mode, CANINTE # 0, CANINTF, EFLG, the frame in TXB0, RXB0 and RXB1
    lock,   \* the holder of mcp_lock: "free", "ist", "restart", "open"
    ist,    \* the interrupt thread: "idle", "woken", "loop" or "read"; intf, the CANINTF it has read
    edge,   \* an interrupt to be served
    works,  \* the work queue
    phase,  \* "gone", "ready", "stopping", "asleep" or "oops"
    timer,  \* restart_timer is armed
    bus,    \* frames on the bus: sent, received
    up,     \* frames given to the stack: echoed, received
    used    \* bounds used so far

mcpVars == <<drv, netdev, chip, lock, ist, edge, works, phase, timer, bus, up, used>>

At(pc) == [at |-> pc, intf |-> {}]
Off == [mode |-> "sleep", inte |-> FALSE, intf |-> {}, eflg |-> "active", tx |-> 0, rx |-> <<0, 0>>]

-----------------------------------------------------------------------------
(* The chip and the registers (external) *)

\* mcp251x_hw_reset leaves the chip in its configuration mode with everything cleared.
hw_reset(c) == [Off EXCEPT !.mode = "conf"]
set_normal_mode(c) == [c EXCEPT !.mode = "normal", !.inte = TRUE]
hw_sleep(c) == [c EXCEPT !.mode = "sleep"]

\* A flag is raised; the pin falls when it was the first.
Raise(c, flag) ==
    /\ chip' = [c EXCEPT !.intf = @ \cup {flag}]
    /\ edge' = (edge \/ (c.inte /\ c.intf = {} /\ phase \in {"ready", "stopping"} /\ netdev.up))

ChipSends ==
    /\ chip.mode = "normal" /\ chip.tx # 0 /\ chip.eflg # "busoff"
    /\ bus' = [bus EXCEPT !.sent = Append(@, chip.tx)]
    /\ Raise([chip EXCEPT !.tx = 0], "TX")
    /\ UNCHANGED <<drv, netdev, lock, ist, works, phase, timer, up, used>>

\* The first receive buffer rolls over into the second; when both are full the frame is lost.
ChipReceives ==
    /\ chip.mode = "normal" /\ used.rx < MaxRx
    /\ used' = [used EXCEPT !.rx = @ + 1]
    /\ bus' = [bus EXCEPT !.received = Append(@, used.rx + 1)]
    /\ \/ chip.rx[1] = 0 /\ Raise([chip EXCEPT !.rx[1] = used.rx + 1], "RX0")
       \/ chip.rx[1] # 0 /\ chip.rx[2] = 0 /\ Raise([chip EXCEPT !.rx[2] = used.rx + 1], "RX1")
       \/ chip.rx[1] # 0 /\ chip.rx[2] # 0 /\ Raise(chip, "ERR")
    /\ UNCHANGED <<drv, netdev, lock, ist, works, phase, timer, up>>

\* Errors while it transmits; from bus-off the chip recovers by itself.
ChipFails ==
    /\ chip.mode = "normal" /\ used.err < MaxErr
    /\ used' = [used EXCEPT !.err = @ + 1]
    /\ \/ chip.tx # 0 /\ \E e \in {"warning", "passive", "busoff"} :
            Raise([chip EXCEPT !.eflg = e], "ERR")
       \/ chip.eflg = "busoff" /\ Raise([chip EXCEPT !.eflg = "active"], "ERR")
    /\ UNCHANGED <<drv, netdev, lock, ist, works, phase, timer, bus, up>>

ChipRecovers ==
    /\ chip.eflg # "active"
    /\ chip' = [chip EXCEPT !.eflg = "active"]
    /\ UNCHANGED <<drv, netdev, lock, ist, edge, works, phase, timer, bus, up, used>>

-----------------------------------------------------------------------------
(* Transmission *)

QueueWork(w) == works' = IF Contains(works, w) THEN works ELSE Append(works, w)

\* Mutant: the frame that the chip is sending is not freed.
CleanKeepsEcho(d) == [d EXCEPT !.skb = 0, !.len = FALSE]
\* mcp251x_clean and can_free_echo_skb
clean(d) == [d EXCEPT !.skb = 0, !.len = FALSE, !.echo = IF d.len THEN 0 ELSE @]

\* can_flush_echo_skb
flush_echo_skb(d) == [d EXCEPT !.echo = 0]

\* can_put_echo_skb: an occupied slot keeps its frame, and the new one is dropped.
put_echo_skb(d, p) == [d EXCEPT !.echo = IF @ = 0 THEN p ELSE @]

\* mcp251x_hard_start_xmit, called without mcp_lock while the device's queue is awake
hard_start_xmit ==
    /\ phase = "ready" /\ netdev.up /\ netdev.awake /\ netdev.attached /\ netdev.carrier
    /\ used.tx < MaxTx /\ drv.skb = 0 /\ ~ drv.len
    /\ used' = [used EXCEPT !.tx = @ + 1]
    /\ netdev' = [netdev EXCEPT !.awake = FALSE]
    /\ drv' = [drv EXCEPT !.skb = used.tx + 1]
    /\ QueueWork("tx")
    /\ UNCHANGED <<chip, lock, ist, edge, phase, timer, bus, up>>

Runs(w) == phase \in {"ready", "stopping"} /\ lock = "free" /\ works # <<>> /\ Head(works) = w

\* mcp251x_tx_work_handler
tx_work_handler ==
    /\ Runs("tx")
    /\ works' = Tail(works)
    /\ IF drv.skb = 0 THEN UNCHANGED <<drv, chip>>
       ELSE IF drv.state = "busoff" THEN drv' = clean(drv) /\ UNCHANGED chip
       ELSE /\ chip' = [chip EXCEPT !.tx = drv.skb]
            /\ drv' = [put_echo_skb(drv, drv.skb) EXCEPT !.skb = 0, !.len = TRUE]
    /\ UNCHANGED <<netdev, lock, ist, edge, phase, timer, bus, up, used>>

-----------------------------------------------------------------------------
(* The interrupt thread: mcp251x_can_ist *)

IstWakes ==
    /\ edge /\ ist.at = "idle" /\ phase \in {"ready", "stopping"} /\ netdev.up
    /\ edge' = FALSE /\ ist' = At("woken")
    /\ UNCHANGED <<drv, netdev, chip, lock, works, phase, timer, bus, up, used>>

IstLocks ==
    /\ ist.at = "woken" /\ lock = "free"
    /\ lock' = "ist" /\ ist' = At("loop")
    /\ UNCHANGED <<drv, netdev, chip, edge, works, phase, timer, bus, up, used>>

IstQuits ==
    /\ ist.at = "loop" /\ drv.quit
    /\ lock' = "free" /\ ist' = At("idle")
    /\ UNCHANGED <<drv, netdev, chip, edge, works, phase, timer, bus, up, used>>

\* mcp251x_hw_rx: reading a receive buffer empties it and clears its flag; without memory
\* for the frame it is neither read nor cleared, and is met again in the next round.
hw_rx(c, i, frames) ==
    [chip  |-> [c EXCEPT !.rx[i] = 0, !.intf = @ \ {IF i = 1 THEN "RX0" ELSE "RX1"}],
     given |-> IF c.rx[i] = 0 THEN frames ELSE Append(frames, c.rx[i])]

\* The flags are read; the receive buffers are emptied, the other flags are cleared and
\* can.state follows EFLG.  The 2510 clears the flag of the second buffer with the others.
IstReads ==
    /\ ist.at = "loop" /\ ~ drv.quit
    /\ \E dry \in SUBSET {"RX0", "RX1"} :  \* buffers for which there is no memory
       LET intf == chip.intf
           r0 == IF "RX0" \in intf \ dry THEN hw_rx(chip, 1, up.received)
                 ELSE [chip |-> chip, given |-> up.received]
           r1 == IF "RX1" \in intf \ dry THEN hw_rx(r0.chip, 2, r0.given) ELSE r0
       IN  /\ ist' = [at |-> "read", intf |-> intf]
           /\ up' = [up EXCEPT !.received = r1.given]
           /\ chip' = [r1.chip EXCEPT !.intf = @ \ (intf \cap {"TX", "ERR"})]
    /\ drv' = [drv EXCEPT !.state = chip.eflg]
    /\ UNCHANGED <<netdev, lock, edge, works, phase, timer, bus, used>>

\* can_bus_off; with restart_ms set the chip is left to recover and the timer is not used.
bus_off ==
    /\ drv' = [drv EXCEPT !.quit = TRUE]
    /\ netdev' = [netdev EXCEPT !.carrier = FALSE]
    /\ chip' = hw_sleep(chip)
    /\ lock' = "free" /\ ist' = At("idle")
    /\ UNCHANGED up

\* can_get_echo_skb gives the frame that was sent back to the stack.
tx_done ==
    /\ up' = [up EXCEPT !.echoed = IF drv.len /\ drv.echo # 0 THEN Append(@, drv.echo) ELSE @]
    /\ drv' = [drv EXCEPT !.len = FALSE, !.echo = IF drv.len THEN 0 ELSE @]
    /\ netdev' = [netdev EXCEPT !.awake = TRUE]

IstActs ==
    /\ ist.at = "read"
    /\ IF drv.state = "busoff" /\ ~ netdev.restart_ms THEN bus_off
       ELSE /\ UNCHANGED chip
            /\ IF ist.intf = {} THEN lock' = "free" /\ ist' = At("idle") ELSE ist' = At("loop") /\ UNCHANGED lock
            /\ IF "TX" \in ist.intf THEN tx_done ELSE UNCHANGED <<drv, netdev, up>>
    /\ UNCHANGED <<edge, works, phase, timer, bus, used>>

-----------------------------------------------------------------------------
(* Restart after bus-off *)

\* can_restart_now, on the user's request (IFLA_CAN_RESTART)
can_restart_now ==
    /\ phase = "ready" /\ netdev.up /\ ~ netdev.restart_ms /\ drv.state = "busoff"
    /\ timer' = TRUE
    /\ UNCHANGED <<drv, netdev, chip, lock, ist, edge, works, phase, bus, up, used>>

\* can_restart with mcp251x_do_set_mode.  The carrier must be off: between the new state
\* and can_bus_off it is still on, and the kernel stops.
can_restart ==
    /\ timer /\ phase \in {"ready", "stopping"}
    /\ timer' = FALSE
    /\ IF netdev.carrier THEN phase' = "oops" /\ UNCHANGED <<drv, netdev, works>>
       ELSE /\ drv' = [clean(flush_echo_skb(drv)) EXCEPT !.state = "active", !.restart_tx = TRUE,
                                                  !.after = {"restart"}]
            /\ QueueWork("restart")
            /\ netdev' = [netdev EXCEPT !.carrier = TRUE]
            /\ UNCHANGED phase
    /\ UNCHANGED <<chip, lock, ist, edge, bus, up, used>>

\* mcp251x_restart_work_handler up to netif_device_attach, which wakes the queue
restart_work_begins ==
    /\ Runs("restart")
    /\ works' = Tail(works) /\ lock' = "restart"
    /\ chip' = IF drv.after # {} THEN hw_reset(chip) ELSE chip
    /\ netdev' = IF "up" \in drv.after /\ "restart" \notin drv.after
                 THEN [netdev EXCEPT !.attached = TRUE, !.awake = TRUE] ELSE netdev
    /\ UNCHANGED <<drv, ist, edge, phase, timer, bus, up, used>>

\* What is left to do when the device slept and was running: clean, run and wake.
AfterResume(d) == [clean(d) EXCEPT !.state = "active"]

\* Mutant: the restart does not wake the queue.
RestartAsleep ==
    /\ lock = "restart" /\ lock' = "free"
    /\ chip' = IF drv.after = {} THEN chip ELSE set_normal_mode(chip)
    /\ drv' = [clean(drv) EXCEPT !.restart_tx = FALSE, !.after = {}, !.quit = FALSE, !.state = "active"]
    /\ UNCHANGED <<netdev, ist, edge, works, phase, timer, bus, up, used>>
restart_work_ends ==
    /\ lock = "restart" /\ lock' = "free"
    /\ LET runs == drv.after \cap {"restart", "up"} # {}
           d == IF drv.after = {} THEN drv
                ELSE [(IF "restart" \in drv.after THEN [drv EXCEPT !.state = "active"]
                       ELSE IF "up" \in drv.after THEN AfterResume(drv) ELSE drv)
                         EXCEPT !.after = {}, !.quit = FALSE]
       IN  /\ chip' = [(IF drv.after = {} THEN chip
                        ELSE IF runs THEN set_normal_mode(chip) ELSE hw_sleep(chip))
                          EXCEPT !.tx = IF drv.restart_tx THEN 0 ELSE @]
           /\ drv' = IF drv.restart_tx THEN [clean(d) EXCEPT !.restart_tx = FALSE] ELSE d
           /\ netdev' = [netdev EXCEPT !.awake = @ \/ drv.restart_tx \/ 
                                               ("up" \in drv.after /\ "restart" \notin drv.after)]
    /\ UNCHANGED <<ist, edge, works, phase, timer, bus, up, used>>

-----------------------------------------------------------------------------
(* Open, close, suspend, resume *)

Opened(d) == [d EXCEPT !.quit = FALSE, !.skb = 0, !.len = FALSE]

\* mcp251x_open up to set_normal_mode
open_begins ==
    /\ phase = "ready" /\ ~ netdev.up /\ lock = "free"
    /\ lock' = "open"
    /\ netdev' = [netdev EXCEPT !.carrier = TRUE, !.up = TRUE]
    /\ drv' = Opened(drv)
    /\ chip' = set_normal_mode(hw_reset(chip))
    /\ UNCHANGED <<ist, edge, works, phase, timer, bus, up, used>>

open_ends ==
    /\ lock = "open" /\ lock' = "free"
    /\ drv' = [drv EXCEPT !.state = "active"]
    /\ netdev' = [netdev EXCEPT !.awake = TRUE]
    /\ UNCHANGED <<chip, ist, edge, works, phase, timer, bus, up, used>>

\* mcp251x_open_clean frees the interrupt, which waits for its thread; a thread that was
\* woken waits for mcp_lock, which the open holds, and neither goes on.
open_fails ==
    /\ lock = "open" /\ ist.at = "idle" /\ ~ edge
    /\ lock' = "free"
    /\ netdev' = [netdev EXCEPT !.up = FALSE]
    /\ chip' = hw_sleep(chip)
    /\ drv' = flush_echo_skb(drv)
    /\ UNCHANGED <<ist, edge, works, phase, timer, bus, up, used>>

\* mcp251x_stop up to destroy_workqueue: close_candev, and the interrupt thread has ended
ThreadMayEnd == ist.at \in {"idle", "woken", "loop"}
stop_begins ==
    /\ phase = "ready" /\ netdev.up /\ lock # "open" /\ ThreadMayEnd /\ netdev.attached
    /\ phase' = "stopping" /\ timer' = FALSE
    /\ drv' = [flush_echo_skb(drv) EXCEPT !.quit = TRUE]
    /\ ist' = At("idle") /\ edge' = FALSE
    /\ lock' = IF ist.at = "loop" THEN "free" ELSE lock
    /\ UNCHANGED <<netdev, chip, works, bus, up, used>>

\* The works that were queued have run.
stop_ends ==
    /\ phase = "stopping" /\ works = <<>> /\ lock = "free"
    /\ phase' = "ready"
    /\ drv' = [clean(drv) EXCEPT !.state = "stopped"]
    /\ chip' = [hw_sleep(chip) EXCEPT !.inte = FALSE, !.intf = {}, !.tx = 0]
    /\ netdev' = [netdev EXCEPT !.up = FALSE, !.awake = FALSE]
    /\ ist' = At("idle") /\ edge' = FALSE
    /\ UNCHANGED <<lock, works, timer, bus, up, used>>

\* can_changelink: the restart time changes while the interface is down.
can_changelink ==
    /\ phase = "ready" /\ ~ netdev.up /\ lock = "free" /\ used.tx = 0
    /\ netdev' = [netdev EXCEPT !.restart_ms = ~ @]
    /\ UNCHANGED <<drv, chip, lock, ist, edge, works, phase, timer, bus, up, used>>

\* mcp251x_can_suspend; the works are frozen, and disable_irq waits for the thread.
can_suspend ==
    /\ phase = "ready" /\ lock \in {"free", "ist"} /\ ThreadMayEnd /\ used.sleep < MaxSleep
    /\ used' = [used EXCEPT !.sleep = @ + 1]
    /\ phase' = "asleep"
    /\ lock' = "free"
    /\ ist' = At("idle")
    /\ chip' = IF netdev.power THEN Off ELSE IF netdev.up THEN hw_sleep(chip) ELSE chip
    /\ netdev' = IF netdev.up THEN [netdev EXCEPT !.attached = FALSE, !.awake = FALSE] ELSE netdev
    /\ drv' = [drv EXCEPT !.quit = TRUE,
                          !.after = (IF netdev.up THEN {"up"} ELSE {"down"}) \cup
                                    (IF netdev.power THEN {"power"} ELSE {})]
    /\ UNCHANGED <<edge, works, timer, bus, up>>

\* mcp251x_can_resume; without a work queue (the interface is down) queue_work fails.
can_resume ==
    /\ phase = "asleep"
    /\ LET restarts == drv.after \cap {"power", "up"} # {}
       IN  /\ IF restarts /\ netdev.up THEN QueueWork("restart") ELSE UNCHANGED works
           /\ phase' = IF restarts /\ ~ netdev.up THEN "oops" ELSE "ready"
           /\ drv' = [drv EXCEPT !.quit = FALSE, !.after = IF restarts THEN @ ELSE {}]
    /\ UNCHANGED <<netdev, chip, lock, ist, edge, timer, bus, up, used>>

\* mcp251x_can_probe and mcp251x_can_remove (unregister_candev closes the interface first)
can_probe ==
    /\ phase = "gone"
    /\ \/ phase' = "ready" /\ chip' = hw_sleep(hw_reset(chip))
       \/ UNCHANGED <<phase, chip>>
    /\ UNCHANGED <<drv, netdev, lock, ist, edge, works, timer, bus, up, used>>

can_remove ==
    /\ phase = "ready" /\ ~ netdev.up /\ lock = "free"
    /\ phase' = "gone"
    /\ UNCHANGED <<drv, netdev, chip, lock, ist, edge, works, timer, bus, up, used>>

-----------------------------------------------------------------------------

McpInit ==
    /\ drv = [skb |-> 0, len |-> FALSE, echo |-> 0, state |-> "stopped", quit |-> FALSE,
              after |-> {}, restart_tx |-> FALSE]
    /\ \E r, p \in BOOLEAN :
         netdev = [up |-> FALSE, awake |-> FALSE, attached |-> TRUE, carrier |-> FALSE,
                   restart_ms |-> r, power |-> p]
    /\ chip = Off /\ lock = "free" /\ ist = At("idle") /\ edge = FALSE /\ works = <<>>
    /\ phase = "gone" /\ timer = FALSE
    /\ bus = [sent |-> <<>>, received |-> <<>>] /\ up = [echoed |-> <<>>, received |-> <<>>]
    /\ used = [tx |-> 0, rx |-> 0, err |-> 0, sleep |-> 0]

McpNext ==
    \/ ChipSends \/ ChipReceives \/ ChipFails \/ ChipRecovers
    \/ hard_start_xmit \/ tx_work_handler
    \/ IstWakes \/ IstLocks \/ IstQuits \/ IstReads \/ IstActs
    \/ can_restart_now \/ can_restart \/ restart_work_begins \/ restart_work_ends
    \/ open_begins \/ open_ends \/ open_fails \/ stop_begins \/ stop_ends
    \/ can_changelink \/ can_suspend \/ can_resume \/ can_probe \/ can_remove

McpSpec == McpInit /\ [][McpNext]_mcpVars

-----------------------------------------------------------------------------

NoRepeats(s) == \A i, j \in DOMAIN s : s[i] = s[j] => i = j

\* What the stack is given was on the bus, and once: an echoed frame (can_get_echo_skb) is
\* one that the chip has sent, in the order it sent them, and a received frame is given up
\* once, whatever restarts, closes and suspends come in between.
FramesOnce ==
    /\ NoRepeats(up.echoed) /\ NoRepeats(up.received)
    /\ \A i, j \in DOMAIN up.echoed, k, l \in DOMAIN bus.sent :
         i < j /\ bus.sent[k] = up.echoed[i] /\ bus.sent[l] = up.echoed[j] => k < l
    /\ ToSet(up.echoed) \subseteq ToSet(bus.sent)
    /\ ToSet(up.received) \subseteq ToSet(bus.received)

\* The queue is not left stopped: when the interface runs, nothing is queued and the
\* interrupt thread has nothing to do, a stopped queue has a frame in the chip, whose end
\* wakes it again.
QueueRestarts ==
    phase = "ready" /\ netdev.up /\ netdev.attached /\ netdev.carrier /\ ~ netdev.awake
        => \/ works # <<>> \/ lock # "free" \/ ist.at # "idle" \/ edge
           \/ chip.tx # 0 /\ chip.mode = "normal"
           \/ timer

-----------------------------------------------------------------------------
(* What FramesOnce and QueueRestarts need to be inductive *)

Flags == {"TX", "ERR", "RX0", "RX1"}
ErrorStates == {"active", "warning", "passive", "busoff"}
Drivers ==
    [skb : Nat, len : BOOLEAN, echo : Nat, state : ErrorStates \cup {"stopped"}, quit : BOOLEAN,
     after : SUBSET {"restart", "up", "down", "power"}, restart_tx : BOOLEAN]
Netdevs == [up : BOOLEAN, awake : BOOLEAN, attached : BOOLEAN, carrier : BOOLEAN,
            restart_ms : BOOLEAN, power : BOOLEAN]
Chips == [mode : {"sleep", "conf", "normal"}, inte : BOOLEAN, intf : SUBSET Flags,
          eflg : ErrorStates, tx : Nat, rx : [1 .. 2 -> Nat]]
ThreadStates == [at : {"idle", "woken", "loop", "read"}, intf : SUBSET Flags]
WorkLists == {<<>>, <<"tx">>, <<"restart">>, <<"tx", "restart">>, <<"restart", "tx">>}
McpTypeOK ==
    /\ drv \in Drivers /\ netdev \in Netdevs /\ chip \in Chips /\ ist \in ThreadStates
    /\ works \in WorkLists
    /\ lock \in {"free", "ist", "restart", "open"}
    /\ phase \in {"gone", "ready", "stopping", "asleep", "oops"}
    /\ edge \in BOOLEAN /\ timer \in BOOLEAN
    /\ bus \in [sent : Seq(Nat), received : Seq(Nat)]
    /\ up \in [echoed : Seq(Nat), received : Seq(Nat)]
    /\ used \in [tx : Nat, rx : Nat, err : Nat, sleep : Nat]

Increasing(s) == \A i, j \in DOMAIN s : i < j => s[i] < s[j]

\* Frames are sent and echoed by their numbers: one that waits is newer than all that were
\* sent, and one in the echo slot, which is the one in the chip, than all that were echoed.
TxInOrder ==
    /\ Increasing(bus.sent) /\ Increasing(up.echoed)
    /\ drv.skb <= used.tx /\ chip.tx <= used.tx
    /\ \A i \in DOMAIN bus.sent :
        /\ bus.sent[i] <= used.tx
        /\ drv.skb # 0 => bus.sent[i] < drv.skb
        /\ chip.tx # 0 => bus.sent[i] < chip.tx
    /\ drv.skb # 0 => chip.tx < drv.skb
    /\ ToSet(up.echoed) \subseteq ToSet(bus.sent)
    /\ drv.echo # 0 =>
        /\ drv.len
        /\ chip.tx # 0 => drv.echo = chip.tx
        /\ \A i \in DOMAIN up.echoed : up.echoed[i] < drv.echo
    /\ drv.len => drv.skb = 0

\* A frame in a receive buffer was on the bus and has not been given up.
RxOnce ==
    /\ NoRepeats(up.received) /\ ToSet(up.received) \subseteq ToSet(bus.received)
    /\ \A k \in ToSet(bus.received) : k <= used.rx
    /\ \A i \in 1 .. 2 : chip.rx[i] # 0 =>
        chip.rx[i] \in ToSet(bus.received) /\ chip.rx[i] \notin ToSet(up.received)
    /\ chip.rx[1] = chip.rx[2] => chip.rx[1] = 0

\* The interrupt thread holds the lock during its rounds; the chip runs with its interrupt.
IstHasLock ==
    /\ lock = "ist" <=> ist.at \in {"loop", "read"}
    /\ chip.mode = "normal" => chip.inte

\* A flag of an end of transmission is about a frame that was sent, and comes alone.
TxRead == ist.at = "read" /\ "TX" \in ist.intf
TxFlagIsTrue ==
    /\ "TX" \in chip.intf \/ TxRead => chip.tx = 0
    /\ ~ (TxRead /\ "TX" \in chip.intf)
    /\ ("TX" \in chip.intf \/ TxRead) /\ drv.echo # 0 => drv.echo \in ToSet(bus.sent)
    /\ TxRead => drv.state # "busoff"

\* A restart that is queued although the one before has done its work, and a frame that was
\* taken while a restart was queued.
Stale == Contains(works, "restart") /\ drv.after = {}
Overtaken == works = <<"restart", "tx">>

\* The chip has nothing to send nor an end to tell as long as it may be given a frame.
ChipIsFree ==
    /\ netdev.up /\ (netdev.awake \/ drv.skb # 0 \/ lock \in {"restart", "open"} \/ Stale \/ Overtaken) =>
        chip.tx = 0 /\ "TX" \notin chip.intf /\ ~ TxRead
    /\ netdev.awake /\ drv.skb # 0 => lock = "restart" /\ drv.after # {}

\* Bus-off is about a frame in the chip: no other is taken before the restart.
BusOffHasFrame ==
    /\ netdev.up /\ chip.eflg = "busoff" => chip.tx # 0
    /\ netdev.up /\ drv.state = "busoff" /\ (netdev.awake \/ drv.skb # 0) =>
        lock = "restart" /\ drv.after # {}

\* The phases in which little can happen
PhasesInOrder ==
    /\ ~ netdev.up =>
        /\ works = <<>> /\ ~ netdev.awake /\ netdev.attached /\ drv.skb = 0 /\ ~ drv.len
        /\ ~ timer /\ ist.at = "idle" /\ ~ edge /\ lock = "free" /\ drv.state = "stopped"
        /\ ~ drv.restart_tx /\ phase # "stopping"
        /\ drv.after # {} => phase \in {"asleep", "oops"}
    /\ lock = "open" =>
        /\ works = <<>> /\ ~ netdev.awake /\ netdev.attached /\ drv.skb = 0 /\ ~ drv.len
        /\ ~ timer /\ phase = "ready" /\ drv.state = "stopped" /\ drv.after = {}
    /\ phase = "stopping" => netdev.attached /\ ~ timer
    /\ phase = "asleep" => lock = "free" /\ ist.at = "idle" /\ (netdev.up => "up" \in drv.after)
    /\ phase = "gone" => ~ netdev.up

\* A restart that is wanted is queued or under way.
RestartIsQueued ==
    /\ "restart" \in drv.after => drv.after = {"restart"} /\ drv.restart_tx
    /\ drv.restart_tx => drv.after # {}
    /\ netdev.up /\ drv.after # {} => drv.after \cap {"restart", "up"} # {}
    /\ phase \in {"ready", "stopping"} /\ drv.after # {} =>
        Contains(works, "restart") \/ lock = "restart"

\* One with nothing to do meets a device that runs, one with something a chip that is reset.
RestartMeetsItsState ==
    /\ (lock = "restart" /\ drv.after = {}) \/ (lock # "restart" /\ (Stale \/ Overtaken)) =>
        netdev.carrier /\ drv.state # "busoff"
    /\ lock # "restart" /\ Stale => Head(works) = "restart"
    /\ lock = "restart" /\ works # <<>> => netdev.carrier
    /\ lock = "restart" /\ Contains(works, "restart") => Head(works) = "restart"
    /\ lock = "restart" /\ drv.after # {} => chip.intf = {} /\ chip.mode = "conf"

\* The flags of the chip have an interrupt or the thread, or are left to a restart.
FlagsAreServed ==
    phase = "ready" /\ netdev.up /\ chip.intf # {} =>
        \/ edge \/ ist.at \in {"woken", "loop"} \/ (ist.at = "read" /\ ist.intf # {})
        \/ drv.quit \/ drv.after # {}

RunsOrRestarts ==
    phase = "ready" /\ netdev.up /\ netdev.carrier /\ drv.after = {} =>
        chip.mode = "normal" /\ ~ drv.quit

\* A queue that is stopped has a frame to take, a frame in the chip or its end, or a restart.
QueueIsServed ==
    /\ drv.skb # 0 /\ phase # "oops" => Contains(works, "tx")
    /\ phase = "ready" /\ netdev.up /\ netdev.attached /\ netdev.carrier /\ ~ netdev.awake =>
        \/ drv.skb # 0 \/ chip.tx # 0 \/ "TX" \in chip.intf \/ TxRead
        \/ timer \/ lock = "open" \/ drv.after # {}

McpIInv ==
    /\ McpTypeOK /\ TxInOrder /\ RxOnce /\ IstHasLock /\ TxFlagIsTrue /\ ChipIsFree
    /\ BusOffHasFrame /\ PhasesInOrder /\ RestartIsQueued /\ RestartMeetsItsState
    /\ FlagsAreServed /\ RunsOrRestarts /\ QueueIsServed
=============================================================================
