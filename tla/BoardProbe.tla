----------------------------- MODULE BoardProbe -----------------------------
(***************************************************************************)
(* The board drivers (linux_kernel_modules/mangoh): module init and exit,  *)
(* probe, the board EEPROM's setup callback, and remove, for the mangOH    *)
(* Green, Red and Yellow.                                                  *)
(*                                                                         *)
(* The three probes have one control structure and differ in their steps,  *)
(* in where a failing step leaves the function and in the order remove     *)
(* takes things down, so each board is a table of probe steps (ProbeSteps) *)
(* and a list of what is removed (RemoveOrder).  Driver data is static: it *)
(* lives from insmod to rmmod (ptr, rev), while what was registered with   *)
(* the kernel (reg) stays until it is unregistered.                        *)
(***************************************************************************)
EXTENDS Integers, Sequences, FiniteSets

CONSTANTS
    Boards,         \* the boards looked at, of "green", "red", "yellow"
    Signatures,     \* what the board's EEPROM may hold: "known", "blank", "foreign"
    Failures,       \* TRUE: any call to the kernel may fail
    MaxLoads,       \* bound on the number of insmods
    MaxBinds        \* bound on the number of probes in one load

ASSUME BoardAssumption ==
    /\ Boards \subseteq {"green", "red", "yellow"} /\ Boards # {}
    /\ Signatures \subseteq {"known", "blank", "foreign"} /\ Signatures # {}
    /\ Failures \in BOOLEAN /\ MaxLoads \in Nat /\ MaxBinds \in Nat

VARIABLES
    board,          \* which board this is
    signature,      \* the contents of its EEPROM
    loads, binds,   \* insmods so far, probes since the last one
    mode,           \* "out" (no module), "idle" (not bound), "probe", "remove", "bound"
    pc,             \* index of the next step of probe or remove
    unloading,      \* remove was called on behalf of module exit
    forced,         \* the revision parameter: "none", "supported" or "dv2"
    rev,            \* board_rev: "unknown", "supported" or "dv2"
    ptr,            \* the fields of driver data that are not NULL, or TRUE
    reg,            \* what is registered with the kernel
    gpios,          \* devm GPIOs held by the board device
    adapters,       \* probe's local adapter pointers that are not NULL
    left,           \* history: what a probe left registered when it gave up
    exit,           \* history: how the last probe ended
    twice           \* history: what was unregistered while not registered

boardVars == <<board, signature, loads, binds, mode, pc, unloading, forced, rev,
               ptr, reg, gpios, adapters, left, exit, twice>>

\* After an unregistration of what is not registered the kernel's memory is corrupt,
\* and the model ends.
Alive == twice = {}

-----------------------------------------------------------------------------
(* The three boards as tables *)

I2c(d, a, e) == [kind |-> "i2c", what |-> d, on |-> a, exit |-> e]
Plat(d) == [kind |-> "plat", what |-> d, on |-> "none", exit |-> "cleanup"]
Get(e) == [kind |-> "adapters", what |-> "none", on |-> "primary", exit |-> e]
Other(k, e) == [kind |-> k, what |-> k, on |-> "none", exit |-> e]
Downstream == [kind |-> "adapters", what |-> "none", on |-> "switch", exit |-> "cleanup"]

GreenSteps == <<Get("leave"),
    I2c("i2c_switch", "primary", "cleanup"), I2c("accelerometer", "primary", "cleanup")>>

RedSteps == <<Get("leave"),
    I2c("eeprom", "primary", "cleanup"), Other("rev", "leave"),
    I2c("i2c_switch", "primary", "cleanup"), Downstream,
    I2c("gpio_expander", "gpio_exp", "cleanup"), Other("mux", "cleanup"),
    Plat("iot_slot"), Plat("led"),
    I2c("accelerometer", "primary", "leave"), I2c("pressure", "primary", "leave"),
    I2c("battery_charger", "batt_charger", "cleanup"),
    I2c("battery_gauge", "batt_charger", "cleanup")>>

YellowSteps == <<Get("leave"),
    I2c("eeprom", "primary", "leave"), Other("rev", "leave"),
    I2c("i2c_switch", "primary", "leave"), Downstream,
    I2c("gpio_expander", "port3", "cleanup"), Other("clientdata", "cleanup"),
    Plat("expander"), I2c("imu", "port1", "cleanup"), I2c("rtc", "port3", "cleanup"),
    I2c("battery_charger", "port2", "cleanup"), I2c("battery_gauge", "port2", "cleanup"),
    Other("light_gpio", "cleanup"), I2c("light", "port2", "cleanup")>>

ProbeSteps == CASE board = "green" -> GreenSteps
                [] board = "red" -> RedSteps
                [] board = "yellow" -> YellowSteps

GreenRemove == <<"accelerometer", "i2c_switch">>
RedRemove == <<"battery_gauge", "battery_charger", "pressure", "accelerometer", "led",
               "iot_slot", "mux", "gpio_expander", "i2c_switch", "eeprom">>
YellowRemove == <<"imu", "light", "battery_charger", "battery_gauge", "rtc", "expander",
                  "gpio_expander", "i2c_switch", "eeprom">>

RemoveOrder == CASE board = "green" -> GreenRemove
                 [] board = "red" -> RedRemove
                 [] board = "yellow" -> YellowRemove

Steps == {ProbeSteps[i] : i \in DOMAIN ProbeSteps}
Devices == {s.what : s \in {t \in Steps : t.kind \in {"i2c", "plat"}}}
DownstreamAdapters == {s.on : s \in Steps} \ {"primary", "none", "switch"}
\* Clients on adapters that exist only as long as the switch is there.
BehindSwitch == {s.what : s \in {t \in Steps : t.on \in DownstreamAdapters}}
Gpios(what) == CASE what = "mux" -> {"sdio_mux", "pcm_mux"}
                 [] what = "light_gpio" -> {"light"}
                 [] OTHER -> {}

-----------------------------------------------------------------------------
(* insmod: mangoh_*_init registers the driver and the device; probe is      *)
(* called at once.  Without the revision parameter the EEPROM decides.      *)
(* (An init that fails, with a parameter that is not a revision or because  *)
(* the device cannot be registered, gets to no probe and is left out.)      *)

RevisionOf(parameter) == IF parameter = "none" THEN "unknown" ELSE parameter

InitModule ==
    /\ mode = "out" /\ loads < MaxLoads /\ Alive
    /\ loads' = loads + 1 /\ binds' = 1
    /\ forced' \in CASE board = "green" -> {"supported"}
                     [] board = "red" -> {"none", "supported"}
                     [] board = "yellow" -> {"none", "supported", "dv2"}
    /\ rev' = RevisionOf(forced')
    /\ ptr' = {} /\ mode' = "probe" /\ pc' = 1 /\ exit' = "none"
    /\ UNCHANGED <<board, signature, unloading, reg, gpios, adapters, left, twice>>

\* A bind through sysfs, after an unbind or a failed probe.
Bind ==
    /\ mode = "idle" /\ binds < MaxBinds /\ Alive
    /\ binds' = binds + 1 /\ mode' = "probe" /\ pc' = 1 /\ exit' = "none"
    /\ UNCHANGED <<board, signature, loads, unloading, forced, rev, ptr, reg, gpios,
                   adapters, left, twice>>

-----------------------------------------------------------------------------
(* probe *)

Step == ProbeSteps[pc]
Probing(kind) == mode = "probe" /\ pc <= Len(ProbeSteps) /\ Step.kind = kind

\* A step fails.  After "goto cleanup" the adapters are put and remove runs;
\* "goto done" and "return" leave at once, with what there is.  devm resources
\* go when probe returns an error.
Fail ==
    /\ exit' = Step.exit
    /\ adapters' = {}
    /\ IF Step.exit = "cleanup"
       THEN /\ mode' = "remove" /\ pc' = 1
            /\ UNCHANGED <<gpios, left>>
       ELSE /\ mode' = "idle" /\ pc' = 0 /\ gpios' = {}
            /\ left' = left \cup reg
    /\ UNCHANGED <<board, signature, loads, binds, unloading, forced>>

Advance ==
    /\ pc' = pc + 1
    /\ UNCHANGED <<board, loads, binds, mode, unloading, forced, left, exit, twice>>

GetAdapters ==
    /\ Probing("adapters")
    /\ LET wanted == IF Step.on = "primary" THEN {"primary"} ELSE DownstreamAdapters IN
       \/ /\ adapters' = adapters \cup wanted
          /\ Advance
          /\ UNCHANGED <<signature, gpios>>
       \/ /\ Failures
          /\ Fail
          /\ UNCHANGED twice
    /\ UNCHANGED <<rev, ptr, reg>>

\* The setup callback of the board's EEPROM: sets the revision if it is not known.
\* The Yellow's writes a blank EEPROM, and takes the board for the newest.
EepromSetup ==
    \/ /\ rev # "unknown" \/ Failures
       /\ UNCHANGED <<rev, signature>>
    \/ /\ rev = "unknown"
       /\ rev' = IF signature = "known" \/ (board = "yellow" /\ signature = "blank")
                 THEN "supported" ELSE "unknown"
       /\ signature' \in IF board = "yellow" /\ signature = "blank"
                         THEN {"known"} \cup (IF Failures THEN {"blank"} ELSE {})
                         ELSE {signature}

\* i2c_new_device returns NULL when the address is taken: by what an earlier
\* probe left behind, or (a failure) by a client that somebody else made.
NewI2cDevice ==
    /\ Probing("i2c")
    /\ \/ /\ Step.what \notin reg
          /\ reg' = reg \cup {Step.what} /\ ptr' = ptr \cup {Step.what}
          /\ IF Step.what = "eeprom" THEN EepromSetup ELSE UNCHANGED <<rev, signature>>
          /\ Advance
          /\ UNCHANGED <<adapters, gpios>>
       \/ /\ Step.what \in reg \/ Failures
          /\ ptr' = ptr \ {Step.what}
          /\ Fail
          /\ UNCHANGED <<rev, reg, twice>>

CheckRevision ==
    /\ Probing("rev")
    /\ IF rev = "supported" THEN Advance /\ UNCHANGED <<signature, adapters, gpios>>
                            ELSE Fail /\ UNCHANGED twice
    /\ UNCHANGED <<rev, ptr, reg>>

\* The multiplexer, the Yellow's light interrupt (which may be missing) and its
\* test that the expander's driver is there.
Acquire ==
    /\ \E kind \in {"mux", "light_gpio", "clientdata"} : Probing(kind)
    /\ \/ /\ gpios' \in {gpios \cup Gpios(Step.what)}
                         \cup (IF Step.kind = "light_gpio" THEN {gpios} ELSE {})
          /\ ptr' = IF Step.kind = "mux" THEN ptr \cup {"mux"} ELSE ptr
          /\ Advance
          /\ UNCHANGED <<signature, adapters>>
       \/ /\ Failures
          /\ Fail
          /\ UNCHANGED <<ptr, twice>>
    /\ UNCHANGED <<rev, reg>>

RegisterPlatformDevice ==
    /\ Probing("plat")
    /\ \/ /\ Step.what \notin reg
          /\ reg' = reg \cup {Step.what} /\ ptr' = ptr \cup {Step.what}
          /\ Advance
          /\ UNCHANGED <<signature, adapters, gpios>>
       \/ /\ Step.what \in reg \/ Failures
          /\ Fail
          /\ UNCHANGED <<reg, ptr, twice>>
    /\ UNCHANGED rev

ProbeDone ==
    /\ mode = "probe" /\ pc > Len(ProbeSteps)
    /\ adapters' = {} /\ mode' = "bound" /\ pc' = 0 /\ exit' = "bound"
    /\ UNCHANGED <<board, signature, loads, binds, unloading, forced, rev, ptr, reg,
                   gpios, left, twice>>

-----------------------------------------------------------------------------
(* remove: one step for each field of driver data, none of which is reset *)

\* Mutant: an empty field ends the removal.
RemoveStopsAtNull ==
    /\ mode = "remove" /\ pc <= Len(RemoveOrder)
    /\ LET d == RemoveOrder[pc] IN
       IF d \in ptr THEN reg' = reg \ {d} /\ pc' = pc + 1
                    ELSE UNCHANGED reg /\ pc' = Len(RemoveOrder) + 1
    /\ UNCHANGED <<board, signature, loads, binds, mode, unloading, forced, rev, ptr,
                   gpios, adapters, left, exit, twice>>

\* Removing the switch removes its adapters, and the I2C core their clients.
\* What is NULL is skipped: by the Yellow's safe_i2c_unregister_device, by the
\* flags of the platform devices, elsewhere by the I2C core (where it does).
RemoveStep ==
    /\ mode = "remove" /\ pc <= Len(RemoveOrder)
    /\ pc' = pc + 1
    /\ LET d == RemoveOrder[pc] IN
       /\ reg' = IF d \notin ptr THEN reg
                 ELSE reg \ ({d} \cup (IF d = "i2c_switch" THEN BehindSwitch ELSE {}))
       /\ gpios' = IF d \in ptr THEN gpios \ Gpios(d) ELSE gpios
       /\ twice' = IF d \in ptr /\ d \in Devices \ reg THEN twice \cup {d} ELSE twice
    /\ UNCHANGED <<board, signature, loads, binds, mode, unloading, forced, rev, ptr,
                   adapters, left, exit>>

RemoveDone ==
    /\ mode = "remove" /\ pc > Len(RemoveOrder)
    /\ mode' = IF unloading THEN "out" ELSE "idle"
    /\ pc' = 0 /\ gpios' = {} /\ unloading' = FALSE
    /\ UNCHANGED <<board, signature, loads, binds, forced, rev, ptr, reg, adapters,
                   left, exit, twice>>

\* An unbind through sysfs, or rmmod of a driver that is bound.
Unbind ==
    /\ mode = "bound"
    /\ mode' = "remove" /\ pc' = 1 /\ unloading' \in BOOLEAN /\ exit' = "removed"
    /\ UNCHANGED <<board, signature, loads, binds, forced, rev, ptr, reg, gpios,
                   adapters, left, twice>>

\* rmmod of a driver whose probe failed: there is nothing to remove.
ExitModule ==
    /\ mode = "idle"
    /\ mode' = "out"
    /\ UNCHANGED <<board, signature, loads, binds, pc, unloading, forced, rev, ptr, reg,
                   gpios, adapters, left, exit, twice>>

-----------------------------------------------------------------------------
BoardInit ==
    /\ board \in Boards /\ signature \in Signatures
    /\ loads = 0 /\ binds = 0 /\ mode = "out" /\ pc = 0 /\ unloading = FALSE
    /\ forced = "none" /\ rev = "unknown" /\ ptr = {} /\ reg = {} /\ gpios = {}
    /\ adapters = {} /\ left = {} /\ exit = "none" /\ twice = {}

BoardNext ==
    \/ InitModule \/ Bind
    \/ GetAdapters \/ NewI2cDevice \/ CheckRevision \/ Acquire
    \/ RegisterPlatformDevice \/ ProbeDone
    \/ RemoveStep \/ RemoveDone \/ Unbind \/ ExitModule

BoardSpec == BoardInit /\ [][BoardNext]_boardVars

-----------------------------------------------------------------------------
(* Properties *)

\* The state has its type.
BoardTypeOK ==
    /\ mode \in {"out", "idle", "probe", "remove", "bound"}
    /\ pc \in 0 .. 1 + Len(ProbeSteps)
    /\ rev \in {"unknown", "supported", "dv2"} /\ forced \in {"none", "supported", "dv2"}
    /\ ptr \subseteq Devices \cup {"mux"} /\ reg \subseteq Devices
    /\ adapters \subseteq DownstreamAdapters \cup {"primary"}
    /\ exit \in {"none", "bound", "cleanup", "leave", "removed"}

\* After a probe that failed through its cleanup, and after a remove, the board has
\* nothing registered, no GPIO and no adapter, except for what an earlier probe that
\* left without cleanup had left behind.
NothingLeftBehind ==
    mode \in {"idle", "out"} /\ exit \in {"cleanup", "removed"} =>
        reg \subseteq left /\ gpios = {} /\ adapters = {}

\* A board that is bound is complete: every device of it was registered by this load
\* (its field in driver data is set), the revision is a supported one and no adapter
\* of the probe is held any more.
BoundIsComplete ==
    mode = "bound" => /\ reg = Devices /\ Devices \subseteq ptr
                      /\ rev = "supported" \/ board = "green"
                      /\ adapters = {}

\* In the first probe after insmod, and in the remove that goes with it, nothing is
\* unregistered that is not registered: each thing once, and no client after the
\* switch in front of it.  (Driver data is not reset by remove, so it is not so when
\* the board is bound a second time.)
UnregisteredOnce == binds = 1 => twice = {}

\* What a probe registers: all of it when the board is bound, none of it after a cleanup
\* or a remove, and nothing given back twice by the first of them.
BoardSound == BoardTypeOK /\ NothingLeftBehind /\ BoundIsComplete /\ UnregisteredOnce

-----------------------------------------------------------------------------
(* What BoardSound needs to be inductive *)

IsDevice(s) == s.kind \in {"i2c", "plat"}
\* What the probe has registered so far, and what remove has gone through.
Done == {ProbeSteps[i].what : i \in {j \in DOMAIN ProbeSteps : j < pc /\ IsDevice(ProbeSteps[j])}}
Taken == {RemoveOrder[i] : i \in {j \in DOMAIN RemoveOrder : j < pc}}
Gone == Taken \cup (IF "i2c_switch" \in Taken THEN BehindSwitch ELSE {})

\* A probe registers its steps' devices; whatever else is registered was left before.
ProbeAdds ==
    mode = "probe" =>
        /\ pc >= 1 /\ Done \subseteq reg \cap ptr /\ reg \subseteq left \cup Done
        /\ (\E i \in DOMAIN ProbeSteps : i < pc /\ ProbeSteps[i].kind = "rev") => rev = "supported"

\* Remove has all the fields it needs, and has taken down those it went through.
RemoveTakes == mode = "remove" => pc >= 1 /\ reg \subseteq left \cup (ptr \ Taken)

AtRest ==
    /\ mode \in {"idle", "out"} => reg \subseteq left /\ gpios = {}
    /\ mode # "probe" => adapters = {}

\* Until the board is bound a second time, a field that is set belongs to what is
\* registered, as far as remove has not come to it.
FirstIsFresh ==
    /\ mode # "out" => binds >= 1
    /\ binds = 1 =>
        /\ twice = {}
        /\ mode \in {"probe", "bound"} => ptr \cap Devices \subseteq reg
        /\ mode = "remove" => (ptr \cap Devices) \ Gone \subseteq reg

BoardIInv ==
    /\ board \in Boards /\ binds \in Nat
    /\ BoardTypeOK /\ BoundIsComplete /\ ProbeAdds /\ RemoveTakes /\ AtRest /\ FirstIsFresh
=============================================================================
