----------------------------- MODULE MCDevices -----------------------------
(* The board, slot and sensor drivers and the clock, explored one at a     *)
(* time: board probes, the IoT slot, triggered IIO buffers, the OPT300x    *)
(* light sensor, the LSM6DS3 motion sensor and the clock synchronisation.  *)
(* focus names the one that runs; the others rest in one of their initial  *)
(* states.                                                                 *)
EXTENDS BoardProbe, IotSlot, Iio, Opt300x, Lsm6ds3, Rtc

\* Every card with up to two interfaces, some with more, and one that cannot be read.
Items == {<<t, 0>> : t \in {"gpio", "spi", "usb", "sdio", "adc", "pcm", "uart", "plat",
                            "reserved"}}
         \cup {<<"i2c", 16>>, <<"i2c", EepromAddr>>}
AllCards == {Unreadable, <<>>} \cup {<<i>> : i \in Items} \cup (Items \X Items)
    \cup {<<<<"sdio", 0>>, <<"pcm", 0>>, <<"sdio", 0>>>>,
          <<<<"spi", 0>>, <<"i2c", 16>>, <<"gpio", 0>>>>,
          <<<<"clk", 0>>, <<"sdio", 0>>, <<"plat", 0>>, <<"usb", 0>>>>}

\* The system clock is set by less and by more than a second, backwards, and past the
\* period of the synchronisation.
const_Steps == {1, 3, -61, 300, 12079, 12200}

\* IIO devices and triggers are alike.
Symmetry == Permutations(Devs) \cup Permutations(Trigs)

VARIABLE focus

DevicesInit ==
    /\ focus \in {"board", "slot", "iio", "light", "motion", "rtc"}
    /\ BoardInit /\ (focus # "board" => board = "green" /\ signature = "known")
    /\ SlotInit /\ (focus # "slot" => card = NoCard)
    /\ IioInit
    /\ OptInit /\ (focus # "light" => opt.low = "low" /\ opt.use_irq)
    /\ LsmInit
    /\ RtcInit

DevicesNext ==
    /\ UNCHANGED focus
    /\ \/ /\ focus = "board" /\ BoardNext
          /\ UNCHANGED <<slotVars, iioVars, optVars, lsmVars, rtcVars>>
       \/ /\ focus = "slot" /\ SlotNext
          /\ UNCHANGED <<boardVars, iioVars, optVars, lsmVars, rtcVars>>
       \/ /\ focus = "iio" /\ IioNext
          /\ UNCHANGED <<boardVars, slotVars, optVars, lsmVars, rtcVars>>
       \/ /\ focus = "light" /\ OptNext
          /\ UNCHANGED <<boardVars, slotVars, iioVars, lsmVars, rtcVars>>
       \/ /\ focus = "motion" /\ LsmNext
          /\ UNCHANGED <<boardVars, slotVars, iioVars, optVars, rtcVars>>
       \/ /\ focus = "rtc" /\ RtcNext
          /\ UNCHANGED <<boardVars, slotVars, iioVars, optVars, lsmVars>>

DevicesSpec ==
    DevicesInit /\ [][DevicesNext]_<<focus, boardVars, slotVars, iioVars, optVars, lsmVars, rtcVars>>
=============================================================================
