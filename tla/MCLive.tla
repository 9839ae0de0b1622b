------------------------------- MODULE MCLive -------------------------------
(* What must eventually happen, one component at a time: both directions   *)
(* of the SPI queue (Write is the transmit one), the Combain service, the     *)
(* location sensor as its only client (S), the serial transport, the       *)
(* transmit list and the environment sensor.  focus names the one that     *)
(* runs; the others rest in one of their initial states.  Each fairness    *)
(* condition is the one that the component's own specification states,     *)
(* and asks nothing of the others.                                         *)
EXTENDS Mt7697qIrq, LocationService, Uart, WifiTx, Environment

CONSTANTS
    MsgSizes, SpiFails, MaxCalls, MaxWords,     \* as in Mt7697qWrite
    WriteN                                      \* the size of its ring

VARIABLES
    focus,
    wmem, wsrd, wswr, whrd, whwr, blocked, wmbx, irq, awake, pc, call, num, done, woff,
    size, ret, log, whcnt, scnt, rcnt

Write == INSTANCE Mt7697qWrite WITH
    N <- WriteN, mem <- wmem, srd <- wsrd, swr <- wswr, hrd <- whrd, hwr <- whwr,
    mbx <- wmbx, hcnt <- whcnt

S == INSTANCE LocationService WITH Clients <- {Loc}

writeVars == <<wmem, wsrd, wswr, whrd, whwr, blocked, wmbx, irq, awake, pc, call, num, done,
               woff, size, ret, log, whcnt, scnt, rcnt>>
liveVars == <<focus, writeVars, vars, allVars, uartVars, txVars, envVars>>

LiveInit ==
    /\ focus \in {"write", "irq", "combain", "sensor", "uart", "tx", "environment"}
    /\ Write!Init /\ (focus # "write" => wsrd = 0)
    /\ Init /\ (focus # "irq" => srd = CHOOSE s \in Starts : TRUE)
    /\ IF focus = "sensor" THEN S!LocInit ELSE LocInit
    /\ focus \notin {"combain", "sensor"} => combainApiKeySet
    /\ UartInit
    /\ TxInit
    /\ EnvInit

LiveNext ==
    /\ UNCHANGED focus
    /\ \/ focus = "write" /\ Write!Next /\ UNCHANGED <<vars, allVars, uartVars, txVars, envVars>>
       \/ focus = "irq" /\ Next /\ UNCHANGED <<writeVars, allVars, uartVars, txVars, envVars>>
       \/ /\ \/ focus = "combain" /\ CombainNext /\ UNCHANGED locVars
             \/ focus = "sensor" /\ S!LocNext
          /\ UNCHANGED <<writeVars, vars, uartVars, txVars, envVars>>
       \/ focus = "uart" /\ UartNext /\ UNCHANGED <<writeVars, vars, allVars, txVars, envVars>>
       \/ focus = "tx" /\ TxNext /\ UNCHANGED <<writeVars, vars, allVars, uartVars, envVars>>
       \/ focus = "environment" /\ EnvNext /\ UNCHANGED <<writeVars, vars, allVars, uartVars, txVars>>

\* As in FairSpec of Mt7697qWrite and of Mt7697qIrq, CombainFairSpec, LocFairSpec and
\* TxFairSpec; UartFairness and EnvFairness ask nothing of a component at rest.
WriteFairness ==
    /\ WF_writeVars(focus = "write" /\ Write!WriteStep)
    /\ WF_writeVars(focus = "write" /\ Write!SlaveStep)
IrqFairness ==
    /\ WF_vars(focus = "irq" /\ Isr) /\ WF_vars(focus = "irq" /\ Work)
    /\ WF_vars(focus = "irq" /\ SlaveSetsBit("tx"))
    /\ WF_vars(focus = "irq" /\ SlaveSetsBit("rx"))
    /\ WF_vars(focus = "irq" /\ SlaveInterrupts)
CombainFairness ==
    /\ WF_combainVars(focus = "combain" /\ HandleResponseAvailable)
    /\ WF_combainVars(focus = "combain" /\ Http)
SensorFairness ==
    /\ WF_allVars(focus = "sensor" /\ S!HandleResponseAvailable /\ UNCHANGED locVars)
    /\ WF_allVars(focus = "sensor" /\ S!Http /\ UNCHANGED locVars)
    /\ WF_allVars(focus = "sensor" /\ S!Handler)
TxFairness ==
    WF_txVars(focus = "tx" /\ (DataTxLink \/ DataTxKick)) /\ WF_txVars(focus = "tx" /\ TxWork)

LiveSpec ==
    /\ LiveInit /\ [][LiveNext]_liveVars
    /\ WriteFairness /\ IrqFairness /\ CombainFairness /\ SensorFairness /\ UartFairness
    /\ TxFairness /\ EnvFairness

\* CommittedIsTaken of the transmit direction: every word that a write has committed is
\* taken by the slave.
WrittenIsTaken == Write!CommittedIsTaken
=============================================================================
