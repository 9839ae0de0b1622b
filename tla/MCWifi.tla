------------------------------- MODULE MCWifi -------------------------------
(* The parts of the MT7697 Wi-Fi driver and its transports, explored one   *)
(* at a time: session management, the serial transport, the transmit list  *)
(* and the receive direction of the SPI queue.  focus names the one that   *)
(* runs; the others rest in one of their initial states.                   *)
EXTENDS WifiSme, Uart, WifiTx, Mt7697qIrq

VARIABLE focus

WifiInit ==
    /\ focus \in {"sme", "uart", "tx", "irq"}
    /\ SmeInit /\ (focus # "sme" => cfg = NoCfg("spi"))
    /\ UartInit
    /\ TxInit
    /\ Init /\ (focus # "irq" => srd = CHOOSE s \in Starts : TRUE)

WifiNext ==
    /\ UNCHANGED focus
    /\ \/ focus = "sme" /\ SmeNext /\ UNCHANGED <<uartVars, txVars, vars>>
       \/ focus = "uart" /\ UartNext /\ UNCHANGED <<smeVars, txVars, vars>>
       \/ focus = "tx" /\ TxNext /\ UNCHANGED <<smeVars, uartVars, vars>>
       \/ focus = "irq" /\ Next /\ UNCHANGED <<smeVars, uartVars, txVars>>

WifiSpec == WifiInit /\ [][WifiNext]_<<focus, smeVars, uartVars, txVars, vars>>
=============================================================================
