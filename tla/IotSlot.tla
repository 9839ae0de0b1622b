------------------------------ MODULE IotSlot ------------------------------
(***************************************************************************)
(* The IoT slot manager (linux_kernel_modules/iot_slot), with the mangOH   *)
(* Red's callbacks and multiplexers behind it (mangoh_red_board.c and      *)
(* mangoh_red_mux.c): probe of a slot, enumeration of the card in it from  *)
(* the card's EEPROM, acquisition of each interface, release.              *)
(*                                                                         *)
(* A card is its EEPROM: "unreadable" (or no valid header), or the list of *)
(* the interfaces it describes.  An interface is <<type, address>>; only   *)
(* an I2C one has an address.  devm resources go when probe fails and      *)
(* after remove.                                                           *)
(***************************************************************************)
EXTENDS Integers, Sequences, FiniteSets

CONSTANTS
    Cards,          \* the cards that may be put into the slot
    Absent,         \* interfaces the board has no callbacks for
    MaxInterfaces,  \* CONFIG_IOT_SLOT_MAX_INTERFACES_PER_CARD
    SlotFailures,   \* TRUE: requests to the kernel may fail
    MaxProbes       \* bound on the number of probes

\* The entries of an EEPROM's list, each a type and an address, and the two that stand
\* for no list.
IfTypes == {"gpio", "i2c", "spi", "usb", "sdio", "adc", "pcm", "clk", "uart", "plat",
            "reserved", "last"}
IfItems == (IfTypes \cup {"none", "unreadable"}) \X Nat

ASSUME SlotAssumption ==
    /\ Cards \subseteq Seq(IfItems)
    /\ \A c \in Cards : \A k \in DOMAIN c : c[k][1] # "last"   \* it ends the list
    /\ Absent \subseteq {"adc", "uart", "sdio", "pcm"}
    /\ MaxInterfaces \in Nat /\ MaxProbes \in Nat
    /\ SlotFailures \in BOOLEAN

NoCard == <<<<"none", 0>>>>
Unreadable == <<<<"unreadable", 0>>>>
EepromAddr == 82                       \* 0x52
LastItem == <<"last", 0>>              \* EEPROM_IF_LAST
SlotPins == {"g0", "g1", "g2", "g3"}   \* pdata->gpio
Muxes == {"sdio", "pcm"}

VARIABLES
    card,           \* what is in the slot
    probes,
    slotPc,         \* "idle", or the next part of probe
    bound,          \* probe succeeded
    pins,           \* devm GPIOs held by the slot device
    adapter,        \* slot->i2c_adapter is not NULL
    adapterRefs,    \* references taken on the slot's I2C adapter
    devs,           \* addresses of the clients on that adapter
    spi,            \* a SPI device exists on the slot's chip select
    mux,            \* of each multiplexer the selection and the number of requests
    detectOut,      \* card detect is an output
    list,           \* what is left of the EEPROM's interface list
    interfaces,     \* slot->interfaces, up to num_interfaces
    ret,            \* probe's ret is not 0
    detectFailed,   \* history: card detect could once not be made an output
    releaseError,   \* history: a release function reported an error
    nullCall        \* history: an absent callback was called

slotBus == <<adapter, adapterRefs, devs, spi>>
history == <<detectFailed, releaseError, nullCall>>
slotVars == <<card, probes, slotPc, bound, pins, slotBus, mux, detectOut, list,
              interfaces, ret, history>>

Type(item) == item[1]
Count(type) == Cardinality({k \in DOMAIN interfaces : Type(interfaces[k]) = type})
Has(type) == \E k \in DOMAIN interfaces : Type(interfaces[k]) = type
Addresses == {interfaces[k][2] : k \in {j \in DOMAIN interfaces : Type(interfaces[j]) = "i2c"}}

-----------------------------------------------------------------------------
(* mangoh_red_mux.c: select counts, and switches only if nobody has asked *)

Select(m) ==
    /\ mux[m].sel = "iot" \/ mux[m].num = 0
    /\ mux' = [mux EXCEPT ![m] = [sel |-> "iot", num |-> @.num + 1]]
\* The other selection is in use, or the line cannot be switched.
SelectFails(m) == mux[m].sel # "iot" /\ (mux[m].num # 0 \/ SlotFailures)

\* What n releases leave, and whether one of them is an error.
Released(m, n) ==
    IF mux[m].sel # "iot" THEN mux[m]
    ELSE [mux[m] EXCEPT !.num = IF n > @ THEN 0 ELSE @ - n]
ReleaseFails(m, n) == n > 0 /\ (mux[m].sel # "iot" \/ n > mux[m].num)

-----------------------------------------------------------------------------
(* iot_slot_release_resources.  The selection stays with the slot; absent    *)
(* callbacks are called, except release_uart.                                *)

ClientsLeft == devs \ Addresses

PinsLeft == pins \ ((IF Has("gpio") THEN SlotPins ELSE {}) \cup {"reset", "detect"})

ReleaseResources ==
    /\ nullCall' = \E t \in Absent \ {"uart"} : Has(t)
    /\ devs' = ClientsLeft
    /\ spi' = (spi /\ ~ Has("spi"))
    /\ mux' = [m \in Muxes |-> IF m \in Absent THEN mux[m] ELSE Released(m, Count(m))]
    /\ releaseError' = (releaseError \/ \E m \in Muxes \ Absent : ReleaseFails(m, Count(m)))
    /\ adapterRefs' = IF adapter THEN adapterRefs - 1 ELSE adapterRefs
    /\ adapter' = FALSE

-----------------------------------------------------------------------------
(* iot_slot_probe *)

\* The card is changed by hand; what a probe has read of it stays read.
ChangeCard ==
    /\ slotPc = "idle" /\ ~ nullCall
    /\ card' \in IF card = NoCard THEN Cards ELSE {NoCard}
    /\ UNCHANGED <<probes, slotPc, bound, pins, slotBus, mux, detectOut, list, interfaces, ret,
                   history>>

\* iot_slot_request_essential_resources.  If one is refused, the others go again.
RequestEssential ==
    /\ slotPc = "idle" /\ ~ bound /\ ~ nullCall /\ probes < MaxProbes
    /\ probes' = probes + 1
    /\ interfaces' = <<>> /\ ret' = FALSE
    /\ \/ /\ pins' = {"reset", "detect"}
          /\ adapter' = TRUE /\ adapterRefs' = adapterRefs + 1
          /\ slotPc' = "detect"
       \/ /\ SlotFailures
          /\ UNCHANGED <<slotPc, pins, adapter, adapterRefs>>
    /\ UNCHANGED <<card, bound, devs, spi, mux, detectOut, list, history>>

\* The slot is empty: that is a success.  Otherwise card detect is driven; if that
\* fails, the function goes on and ret keeps the error.
DetectCard ==
    /\ slotPc = "detect"
    /\ IF card = NoCard
       THEN /\ bound' = TRUE /\ slotPc' = "idle"
            /\ UNCHANGED <<detectOut, ret, detectFailed>>
       ELSE /\ ret' \in {FALSE} \cup (IF SlotFailures THEN {TRUE} ELSE {})
            /\ detectOut' = ~ ret' /\ detectFailed' = (detectFailed \/ ret')
            /\ slotPc' = "load"
            /\ UNCHANGED bound
    /\ UNCHANGED <<card, probes, pins, slotBus, mux, list, interfaces, releaseError, nullCall>>

RestoreCardDetect == detectOut' = FALSE

\* probe's return: with an error, what devm holds goes, and the slot with it.
Return ==
    /\ slotPc' = "idle"
    /\ bound' = ~ ret
    /\ pins' = IF ret THEN {} ELSE pins
    /\ interfaces' = IF ret THEN <<>> ELSE interfaces

\* eeprom_if_next ends after the entry EEPROM_IF_LAST, which so is on the list.
IfList(items) == Append(items, LastItem)

\* eeprom_load, with its client made, its header read and its list built.
EepromLoaded ==
    /\ slotPc = "load" /\ EepromAddr \notin devs /\ card \notin {Unreadable, <<>>}
    /\ devs' = devs \cup {EepromAddr}
    /\ list' = IfList(card)
    /\ slotPc' = "add"
    /\ UNCHANGED <<card, probes, bound, pins, adapter, adapterRefs, spi, mux, detectOut,
                   interfaces, ret, history>>

\* eeprom_load returns NULL: its client cannot be made (the address is taken), it cannot
\* be read or its header is wrong, or its list is empty or could not be allocated; in
\* the last two cases the client stays.
EepromInvalid ==
    /\ slotPc = "load"
    /\ \/ /\ EepromAddr \in devs \/ card = Unreadable \/ SlotFailures
          /\ UNCHANGED devs
       \/ /\ EepromAddr \notin devs /\ card # Unreadable
          /\ card = <<>> \/ SlotFailures
          /\ devs' = devs \cup {EepromAddr}
    /\ RestoreCardDetect
    /\ Return
    /\ UNCHANGED <<card, probes, adapter, adapterRefs, spi, mux, list, ret, history>>

-----------------------------------------------------------------------------
(* iot_slot_enumerate's loop: one step for each entry of the list *)

Adding == slotPc = "add" /\ list # <<>> /\ Len(interfaces) < MaxInterfaces
Is(types) == Adding /\ Type(Head(list)) \in types

Acquired(item) ==
    /\ interfaces' = Append(interfaces, item)
    /\ list' = Tail(list)
    /\ UNCHANGED <<card, probes, slotPc, bound, adapter, adapterRefs, detectOut, history>>

Refused ==
    /\ ret' = TRUE /\ slotPc' = "fail"
    /\ UNCHANGED <<card, probes, bound, adapter, adapterRefs, detectOut, list, interfaces, history>>

\* The four pins are requested in turn.  A refusal of the first is not noticed; one of
\* another gives the first back and fails.
AddGpio ==
    /\ Is({"gpio"})
    /\ \E refused \in {R \in SUBSET SlotPins : SlotPins \cap pins \subseteq R /\
                                               (SlotFailures \/ R = SlotPins \cap pins)} :
       \/ /\ refused \subseteq {"g0"}
          /\ pins' = pins \cup (SlotPins \ refused)
          /\ ret' = FALSE
          /\ Acquired(Head(list))
       \/ \E k \in 1 .. 3 :
          LET pin == <<"g0", "g1", "g2", "g3">>
              before == {pin[i] : i \in 1 .. k}
          IN /\ pin[k + 1] \in refused /\ refused \cap before \subseteq {"g0"}
             /\ pins' = (pins \cup (before \ refused)) \ {"g0"}
             /\ Refused
    /\ UNCHANGED <<devs, spi, mux>>

AddI2c ==
    /\ Is({"i2c"})
    /\ LET addr == Head(list)[2] IN
       \/ /\ addr \notin devs
          /\ devs' = devs \cup {addr}
          /\ ret' = FALSE
          /\ Acquired(Head(list))
       \/ /\ addr \in devs \/ SlotFailures
          /\ UNCHANGED devs
          /\ Refused
    /\ UNCHANGED <<pins, spi, mux>>

\* Every SPI interface is on chip select 0: a second one is refused.
AddSpi ==
    /\ Is({"spi"})
    /\ \/ /\ ~ spi
          /\ spi' = TRUE
          /\ ret' = FALSE
          /\ Acquired(Head(list))
       \/ /\ spi \/ SlotFailures
          /\ UNCHANGED spi
          /\ Refused
    /\ UNCHANGED <<pins, devs, mux>>

\* SDIO, ADC, PCM and UART: the board is asked if it has a callback.
AddRequested ==
    /\ Is({"sdio", "adc", "pcm", "uart"})
    /\ LET t == Type(Head(list)) IN
       \/ /\ IF t \in Muxes \ Absent THEN Select(t) ELSE UNCHANGED mux
          /\ ret' = FALSE
          /\ Acquired(Head(list))
       \/ /\ t \notin Absent
          /\ IF t \in Muxes THEN SelectFails(t) ELSE SlotFailures
          /\ UNCHANGED mux
          /\ Refused
    /\ UNCHANGED <<pins, devs, spi>>

\* Nothing to ask for; USB is recorded as a clock.  ret stays as it is.
AddPlain ==
    /\ Is({"usb", "clk", "plat"})
    /\ Acquired(IF Type(Head(list)) = "usb" THEN <<"clk", 0>> ELSE Head(list))
    /\ UNCHANGED <<pins, devs, spi, mux, ret>>

SkipItem ==
    /\ Is({"last", "reserved"})
    /\ list' = Tail(list)
    /\ UNCHANGED <<card, probes, slotPc, bound, pins, slotBus, mux, detectOut, interfaces, ret,
                   history>>

\* The test on the number of interfaces comes before the look at the type.
TooMany ==
    /\ slotPc = "add" /\ list # <<>> /\ Len(interfaces) >= MaxInterfaces
    /\ ret' = TRUE /\ slotPc' = "fail"
    /\ UNCHANGED <<card, probes, bound, pins, slotBus, mux, detectOut, list, interfaces, history>>

\* Mutant: a failure is reported without releasing what was acquired before it.
EnumerationFailKeeps ==
    /\ slotPc = "fail" /\ slotPc' = "unload"
    /\ UNCHANGED <<card, probes, bound, pins, slotBus, mux, detectOut, list, interfaces, ret,
                   history>>

EnumerationFail ==
    /\ slotPc = "fail"
    /\ ReleaseResources
    /\ pins' = PinsLeft
    /\ slotPc' = "unload"
    /\ UNCHANGED <<card, probes, bound, detectOut, list, interfaces, ret, detectFailed>>

Enumerated ==
    /\ slotPc = "add" /\ list = <<>>
    /\ slotPc' = "unload"
    /\ UNCHANGED <<card, probes, bound, pins, slotBus, mux, detectOut, list, interfaces, ret,
                   history>>

\* Mutant: the result of the unloading replaces the one of the enumeration.
UnloadEepromForgets ==
    /\ slotPc = "unload"
    /\ devs' = devs \ {EepromAddr} /\ list' = <<>>
    /\ RestoreCardDetect
    /\ slotPc' = "idle" /\ bound' = TRUE
    /\ UNCHANGED <<card, probes, pins, adapter, adapterRefs, spi, mux, interfaces, ret, history>>

\* eeprom_unload, then card detect becomes an input again.
UnloadEeprom ==
    /\ slotPc = "unload" /\ ~ nullCall
    /\ devs' = devs \ {EepromAddr} /\ list' = <<>>
    /\ RestoreCardDetect
    /\ Return
    /\ UNCHANGED <<card, probes, adapter, adapterRefs, spi, mux, ret, history>>

\* iot_slot_remove, and the driver core's release of what devm holds.
SlotRemove ==
    /\ slotPc = "idle" /\ bound /\ ~ nullCall
    /\ ReleaseResources
    /\ pins' = {} /\ bound' = FALSE /\ interfaces' = <<>>
    /\ UNCHANGED <<card, probes, slotPc, detectOut, list, ret, detectFailed>>

-----------------------------------------------------------------------------
SlotInit ==
    /\ card \in Cards \cup {NoCard} /\ probes = 0 /\ slotPc = "idle" /\ bound = FALSE
    /\ pins = {} /\ adapter = FALSE /\ adapterRefs = 0 /\ devs = {} /\ spi = FALSE
    /\ mux = [m \in Muxes |-> [sel |-> "other", num |-> 0]]
    /\ detectOut = FALSE /\ list = <<>> /\ interfaces = <<>> /\ ret = FALSE
    /\ detectFailed = FALSE /\ releaseError = FALSE /\ nullCall = FALSE

SlotNext ==
    \/ ChangeCard \/ RequestEssential \/ DetectCard
    \/ EepromLoaded \/ EepromInvalid
    \/ AddGpio \/ AddI2c \/ AddSpi \/ AddRequested \/ AddPlain \/ SkipItem \/ TooMany
    \/ EnumerationFail \/ Enumerated \/ UnloadEeprom \/ SlotRemove

SlotSpec == SlotInit /\ [][SlotNext]_slotVars

-----------------------------------------------------------------------------
(* Properties *)

\* What an entry of a card's list is recorded as, and its place among those recorded.
Supported(item) == Type(item) \notin {"reserved", "last"}
Recorded(item) == IF Type(item) = "usb" THEN <<"clk", 0>> ELSE item
Place(items, n) == Cardinality({k \in 1 .. n : Supported(items[k])})

\* Of the first n items, those that are supported are recorded, in their order, and
\* nothing else is.
RecordedUpTo(items, n, record) ==
    /\ Len(record) = Place(items, n)
    /\ \A k \in 1 .. n : Supported(items[k]) => record[Place(items, k)] = Recorded(items[k])

\* The state has its type.
SlotTypeOK ==
    /\ slotPc \in {"idle", "detect", "load", "add", "fail", "unload"}
    /\ pins \subseteq SlotPins \cup {"reset", "detect"}
    /\ adapter \in BOOLEAN /\ adapterRefs \in 0 .. probes
    /\ mux \in [Muxes -> [sel : {"other", "iot"}, num : 0 .. MaxInterfaces]]
    /\ Len(interfaces) <= MaxInterfaces

\* What is recorded in slot->interfaces is what the slot has, as long as it has it: the
\* I2C clients and the SPI device are exactly the recorded ones, and a multiplexer
\* counts one request for each interface that needs it and then stands on the slot.  So
\* nothing of a card stays behind after a remove or a failed probe, and no release
\* function is called for what was not requested.
RecordedIsHeld ==
    /\ slotPc # "unload" \/ ~ ret =>
        /\ devs \ {EepromAddr} = Addresses
        /\ spi = Has("spi")
        /\ \A m \in Muxes \ Absent :
            mux[m].num = Count(m) /\ (Count(m) > 0 => mux[m].sel = "iot")
    /\ ~ releaseError

\* Enumeration is all or nothing: if probe succeeds on a card whose EEPROM was read,
\* every supported interface the card describes is recorded, in its order, and the
\* GPIO interface has the pins that are checked; otherwise none is.
AllOrNothing ==
    [][slotPc = "unload" /\ slotPc' = "idle" =>
        \/ ~ bound' /\ interfaces' = <<>>
        \/ /\ bound'
           /\ RecordedUpTo(card, Len(card), interfaces')
           /\ Has("gpio") => {"g1", "g2", "g3"} \subseteq pins']_slotVars

\* "I2C is released lower down because it is acquired to read the eeprom": the slot
\* has its adapter while it is bound, and no reference is left when it is not.  (When
\* card detect could not be made an output, enumerate goes on and fails at its end
\* without a release; from then on nothing is claimed.)
AdapterReleased ==
    slotPc = "idle" /\ ~ detectFailed => adapterRefs = IF bound THEN 1 ELSE 0

\* The card detect line, an output while the EEPROM is read, is an input whenever the
\* slot is not being probed.
CardDetectRestored == slotPc = "idle" => ~ detectOut

\* What a slot holds is what it has recorded, whichever step of its probe failed: the
\* devices, the multiplexers, the adapter and the card detect line.
SlotSound == SlotTypeOK /\ RecordedIsHeld /\ AdapterReleased /\ CardDetectRestored
-----------------------------------------------------------------------------
(* What SlotSound needs to be inductive *)

\* The lists and the flags have their types.
SlotListsOK ==
    /\ card \in Cards \cup {NoCard} /\ list \in Seq(IfItems) /\ interfaces \in Seq(IfItems)
    /\ probes \in Nat
    /\ bound \in BOOLEAN /\ spi \in BOOLEAN /\ detectOut \in BOOLEAN /\ ret \in BOOLEAN
    /\ detectFailed \in BOOLEAN /\ releaseError \in BOOLEAN

NothingHeld == devs \subseteq {EepromAddr} /\ ~ spi /\ \A m \in Muxes \ Absent : mux[m].num = 0

\* The parts of a probe: nothing is recorded before the list is read, nothing is held any
\* more when a probe that fails unloads the EEPROM, and the EEPROM's client is there
\* while the list is gone through.
ProbeInOrder ==
    /\ slotPc \in {"detect", "load"} \/ (slotPc = "idle" /\ ~ bound) => interfaces = <<>>
    /\ slotPc \in {"add", "unload"} /\ ret => NothingHeld
    /\ slotPc = "add" => EepromAddr \in devs
    /\ slotPc = "fail" => ret
    /\ slotPc \in {"idle", "detect"} => ~ detectOut

\* One reference at most, unless a probe went on without its card detect line.
AdapterCounted ==
    /\ adapter => adapterRefs > 0
    /\ slotPc \in {"detect", "load", "add", "fail"} => adapter
    /\ ~ detectFailed =>
        /\ adapterRefs = IF adapter THEN 1 ELSE 0
        /\ slotPc = "idle" => (adapter <=> bound)
        /\ slotPc = "unload" => (adapter <=> ~ ret)
        /\ slotPc \in {"load", "add"} => ~ ret

SlotIInv == SlotTypeOK /\ SlotListsOK /\ RecordedIsHeld /\ ProbeInOrder /\ AdapterCounted

\* What AllOrNothing needs: while the list is gone through, what is left of it follows on
\* what is recorded, at the end all of it is recorded, and a GPIO interface has its pins.
EnumerationInOrder ==
    /\ slotPc = "add" => \E n \in 0 .. Len(IfList(card)) :
        /\ Len(list) = Len(IfList(card)) - n
        /\ \A k \in 1 .. Len(list) : list[k] = IfList(card)[n + k]
        /\ RecordedUpTo(IfList(card), n, interfaces)
    /\ slotPc = "unload" /\ ~ ret => RecordedUpTo(IfList(card), Len(IfList(card)), interfaces)
    /\ slotPc = "add" \/ (slotPc = "unload" /\ ~ ret) =>
        (Has("gpio") => {"g1", "g2", "g3"} \subseteq pins)
=============================================================================
