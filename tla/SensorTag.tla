----------------------------- MODULE SensorTag -----------------------------
(***************************************************************************)
(* The Bluetooth SensorTag application (sensorTag.c): it looks for the     *)
(* adapter, the tag and the tag's attributes among the objects that BlueZ  *)
(* announces on D-Bus, and then keeps the tag's sensors configured as the  *)
(* Data Hub last asked.  One thread serves both the D-Bus signals and the  *)
(* Data Hub's pushes, so a handler is taken whole; pushes come at any time *)
(* before or after the tag is there.  Every call to BlueZ may fail, which  *)
(* ends the process for good (faultAction: stopApp).                       *)
(*                                                                         *)
(* BlueZ announces a service before its characteristics, but the list of   *)
(* objects it already knows is in no order at all.  The 26 attributes are  *)
(* NumAttrs here.  Each sensor's period is 0 (never set, too short) or one *)
(* of the valid Periods; a push may also ask for one that is too long.     *)
(***************************************************************************)
EXTENDS Naturals

CONSTANTS
    NumAttrs,   \* services and characteristics that the application looks for
    Periods,    \* valid periods
    MaxPushes   \* bound: pushes of the Data Hub and notifications of the tag

ASSUME TagAssumption == NumAttrs \in Nat \ {0} /\ Periods \subseteq Nat \ {0} /\ MaxPushes \in Nat

VARIABLES
    app,        \* AppState, or "dead"
    adapter,    \* the adapter: "absent", "off" or "on"
    tag,        \* the tag: "absent", "nameless" or "named"
    attrs,      \* attributes that BlueZ has announced
    stored,     \* attributes that the application has stored
    hub,        \* DHubState: what the Data Hub last asked of each sensor, and of the IO
    tagChip,    \* what the tag has been told
    keys,       \* simple keys: what the tag last notified and what was pushed
    pushes      \* bound on pushes

tagVars == <<app, adapter, tag, attrs, stored, hub, tagChip, keys, pushes>>

Basic == {"irTemp", "humidity", "pressure", "light"}
Sensors == Basic \cup {"imu"}
KeyNames == {"user", "power", "reed"}

\* ValidatePeriod against the limits of the sensor
ValidatePeriod(p) == p \in Periods
TooLong == 1 + CHOOSE p \in Periods : \A q \in Periods : q <= p
HubAsked == {0, TooLong} \cup Periods

\* What the tag's configuration register of a sensor is to hold: WriteBasicConfig, and
\* WriteImuConfig with the flags of the axes, which matter only when the sensor is on.
BasicConfig(on) == [on |-> on, axes |-> FALSE]
ImuConfig(h, forceDisable) ==
    IF h["imu"].enable /\ ~ forceDisable THEN [on |-> TRUE, axes |-> h["imu"].axes]
    ELSE [on |-> FALSE, axes |-> FALSE]

WritePeriod(c, s, p) == [c EXCEPT ![s].period = p]
WriteConfig(c, s, reg) == [c EXCEPT ![s].config = reg]

\* A write, which may fail and end the process.
Written(c) ==
    \/ tagChip' = c /\ UNCHANGED app
    \/ app' = "dead" /\ UNCHANGED tagChip

-----------------------------------------------------------------------------
(* Finding the tag *)

\* AllAttributesFoundHandler: every sensor but the light sensor is configured.
Configured(c, s) ==
    IF ValidatePeriod(hub[s].period)
    THEN WriteConfig(WritePeriod(c, s, hub[s].period), s,
                     IF s = "imu" THEN ImuConfig(hub, FALSE) ELSE BasicConfig(hub[s].enable))
    ELSE WriteConfig(c, s, IF s = "imu" THEN ImuConfig(hub, TRUE) ELSE BasicConfig(FALSE))

\* Mutant: the inertial sensor is left as it is.
AllAttributesFoundButImu ==
    [Configured(Configured(Configured(tagChip, "irTemp"), "humidity"), "pressure")
        EXCEPT !["io"] = hub["io"]]
AllAttributesFound ==
    [Configured(Configured(Configured(Configured(tagChip, "irTemp"), "humidity"), "pressure"), "imu")
        EXCEPT !["io"] = hub["io"]]

\* TryProcessAsAttribute: a service is noted; a characteristic is stored when its service
\* has been noted, and the last one that was missing begins the sampling.
AttributeStored(n) ==
    /\ stored' = n
    /\ IF n = NumAttrs
       THEN \/ app' = "sampling" /\ tagChip' = AllAttributesFound
            \/ app' = "dead" /\ UNCHANGED tagChip
       ELSE app' = "attributes" /\ UNCHANGED tagChip

\* SensorTagFoundHandler connects, and goes through the objects that are known already:
\* of their characteristics some may come before the service they belong to.
SensorTagFound ==
    \/ \E n \in {attrs} \cup 0 .. attrs - 1 : AttributeStored(n)
    \/ app' = "dead" /\ UNCHANGED <<stored, tagChip>>

\* BeginSensorTagSearch starts the discovery and looks among the objects that are known.
BeginSensorTagSearch ==
    \/ tag = "named" /\ SensorTagFound
    \/ tag # "named" /\ app' = "tag" /\ UNCHANGED <<stored, tagChip>>
    \/ app' = "dead" /\ UNCHANGED <<stored, tagChip>>

AdapterFound ==
    \/ adapter = "on" /\ BeginSensorTagSearch
    \/ adapter = "off" /\ app' = "powering" /\ UNCHANGED <<stored, tagChip>>

\* GlibInit, BluezObjectManagerCreateCallback and SearchForAdapter
GlibInit ==
    /\ app = "init"
    /\ \/ adapter # "absent" /\ AdapterFound
       \/ adapter = "absent" /\ app' = "adapter" /\ UNCHANGED <<stored, tagChip>>
       \/ app' = "dead" /\ UNCHANGED <<stored, tagChip>>
    /\ UNCHANGED <<adapter, tag, attrs, hub, keys, pushes>>

\* BluezObjectAddedHandler; in a state that does not wait for the object it is ignored.
AdapterAdded ==
    /\ adapter = "absent" /\ adapter' = "off"
    /\ \/ app = "adapter" /\ app' = "powering"
       \/ app # "adapter" /\ UNCHANGED app
    /\ UNCHANGED <<tag, attrs, stored, hub, tagChip, keys, pushes>>

TagAdded ==
    /\ tag = "absent" /\ tag' = "named"
    /\ \/ app = "tag" /\ SensorTagFound
       \/ app # "tag" /\ UNCHANGED <<app, stored, tagChip>>
    /\ UNCHANGED <<adapter, attrs, hub, keys, pushes>>

\* A tag that BlueZ has no name for yet is not taken for one, and a name is no new object.
NamelessTagAdded ==
    /\ tag = "absent" /\ tag' = "nameless"
    /\ UNCHANGED <<app, adapter, attrs, stored, hub, tagChip, keys, pushes>>
TagNamed ==
    /\ tag = "nameless" /\ tag' = "named"
    /\ UNCHANGED <<app, adapter, attrs, stored, hub, tagChip, keys, pushes>>

AttributeAdded ==
    /\ tag = "named" /\ attrs < NumAttrs
    /\ attrs' = attrs + 1
    /\ \/ app = "attributes" /\ AttributeStored(stored + 1)
       \/ app # "attributes" /\ UNCHANGED <<app, stored, tagChip>>
    /\ UNCHANGED <<adapter, tag, hub, keys, pushes>>

\* AdapterPropertiesChangedHandler
AdapterPowered ==
    /\ adapter = "off" /\ app = "powering"
    /\ adapter' = "on"
    /\ BeginSensorTagSearch
    /\ UNCHANGED <<tag, attrs, hub, keys, pushes>>

-----------------------------------------------------------------------------
(* Pushes of the Data Hub *)

Push == pushes < MaxPushes /\ pushes' = pushes + 1 /\ app \notin {"init", "dead"}

EnablePush(s, on) ==
    /\ Push /\ on # hub[s].enable
    /\ hub' = [hub EXCEPT ![s].enable = on]
    /\ \/ /\ app = "sampling" /\ ValidatePeriod(hub[s].period)
          /\ Written(WriteConfig(tagChip, s, BasicConfig(on)))
       \/ /\ ~ (app = "sampling" /\ ValidatePeriod(hub[s].period))
          /\ UNCHANGED <<app, tagChip>>
    /\ UNCHANGED <<adapter, tag, attrs, stored, keys>>

\* HandleIrTempPeriodPush and its copies: a sensor that was enabled while its period was
\* not valid is switched on now.
PeriodPush(s, p) ==
    /\ Push
    /\ \/ ValidatePeriod(p) /\ p # hub[s].period
          /\ hub' = [hub EXCEPT ![s].period = p]
          /\ \/ /\ app = "sampling"
                /\ LET c == WritePeriod(tagChip, s, p)
                   IN  Written(IF hub[s].enable /\ ~ ValidatePeriod(hub[s].period)
                               THEN WriteConfig(c, s, IF s = "imu" THEN ImuConfig(hub, FALSE)
                                                      ELSE BasicConfig(TRUE))
                               ELSE c)
             \/ app # "sampling" /\ UNCHANGED <<app, tagChip>>
       \/ ~ ValidatePeriod(p) /\ UNCHANGED <<app, hub, tagChip>>
    /\ UNCHANGED <<adapter, tag, attrs, stored, keys>>

HandleIrTempEnablePush(on) == EnablePush("irTemp", on)
HandleHumidityEnablePush(on) == EnablePush("humidity", on)
HandlePressureEnablePush(on) == EnablePush("pressure", on)
HandleLightEnablePush(on) == EnablePush("light", on)
HandleIrTempPeriodPush(p) == PeriodPush("irTemp", p)
HandleHumidityPeriodPush(p) == PeriodPush("humidity", p)
HandlePressurePeriodPush(p) == PeriodPush("pressure", p)
HandleLightPeriodPush(p) == PeriodPush("light", p)
HandleImuPeriodPush(p) == PeriodPush("imu", p)

\* HandleImuEnablePush does not ask whether the tag is there: without its characteristic
\* the write goes nowhere (GDBus refuses a NULL proxy and reports no error).
ImuWritten(c) == IF app = "sampling" THEN Written(c) ELSE UNCHANGED <<app, tagChip>>

HandleImuEnablePush(flag, on) ==
    /\ Push /\ on # hub["imu"][flag]
    /\ LET h == [hub EXCEPT !["imu"][flag] = on]
           valid == ValidatePeriod(hub["imu"].period)
       IN  /\ hub' = h
           /\ \/ flag = "enable" /\ ImuWritten(WriteConfig(tagChip, "imu", ImuConfig(h, ~ valid)))
              \/ /\ flag # "enable" /\ h["imu"].enable /\ valid
                 /\ ImuWritten(WriteConfig(tagChip, "imu", ImuConfig(h, FALSE)))
              \/ flag # "enable" /\ ~ (h["imu"].enable /\ valid) /\ UNCHANGED <<app, tagChip>>
    /\ UNCHANGED <<adapter, tag, attrs, stored, keys>>

\* HandleImuAccelRangePush writes the register again and stores no new range.
HandleImuAccelRangePush ==
    /\ Push /\ hub["imu"].enable /\ ValidatePeriod(hub["imu"].period)
    /\ ImuWritten(WriteConfig(tagChip, "imu", ImuConfig(hub, FALSE)))
    /\ UNCHANGED <<adapter, tag, attrs, stored, hub, keys>>

\* HandleIOPush: a text without the three members is refused (IOSetValue).
HandleIOPush(v) ==
    /\ Push /\ v # hub["io"]
    /\ hub' = [hub EXCEPT !["io"] = v]
    /\ \/ app = "sampling" /\ Written([tagChip EXCEPT !["io"] = v])
       \/ app # "sampling" /\ UNCHANGED <<app, tagChip>>
    /\ UNCHANGED <<adapter, tag, attrs, stored, keys>>

\* SimpleKeysDataPropertiesChangedHandler pushes the keys that changed.
SimpleKeysChanged(k) ==
    /\ pushes < MaxPushes /\ pushes' = pushes + 1 /\ app = "sampling"
    /\ keys' = [notified |-> k,
                pushed |-> 
                  [n \in KeyNames |-> IF k[n] # keys.pushed[n] THEN k[n] ELSE keys.pushed[n]]]
    /\ UNCHANGED <<app, adapter, tag, attrs, stored, hub, tagChip>>

-----------------------------------------------------------------------------

\* The tag may still be configured by an earlier run of the application.
TagInit ==
    /\ app = "init" /\ adapter \in {"absent", "off", "on"} /\ tag \in {"absent", "nameless", "named"}
    /\ attrs \in IF tag = "named" THEN {0, NumAttrs} ELSE {0}
    /\ stored = 0 /\ pushes = 0
    /\ hub = [s \in Sensors \cup {"io"} |->
                IF s = "io" THEN 0 ELSE [enable |-> FALSE, axes |-> FALSE, period |-> 0]]
    /\ \E on \in BOOLEAN :
         tagChip = [s \in Sensors \cup {"io"} |->
                   IF s = "io" THEN 1 ELSE [config |-> [on |-> on, axes |-> on], period |-> 0]]
    /\ keys = [notified |-> [n \in KeyNames |-> FALSE], pushed |-> [n \in KeyNames |-> FALSE]]

TagNext ==
    \/ GlibInit \/ AdapterAdded \/ TagAdded \/ NamelessTagAdded \/ TagNamed \/ AttributeAdded
    \/ AdapterPowered
    \/ \E on \in BOOLEAN :
        \/ HandleIrTempEnablePush(on) \/ HandleHumidityEnablePush(on)
        \/ HandlePressureEnablePush(on) \/ HandleLightEnablePush(on)
        \/ \E flag \in {"enable", "axes"} : HandleImuEnablePush(flag, on)
    \/ \E p \in HubAsked :
        \/ HandleIrTempPeriodPush(p) \/ HandleHumidityPeriodPush(p)
        \/ HandlePressurePeriodPush(p) \/ HandleLightPeriodPush(p) \/ HandleImuPeriodPush(p)
    \/ HandleImuAccelRangePush
    \/ \E v \in 0 .. 1 : HandleIOPush(v)
    \/ \E n \in KeyNames : SimpleKeysChanged([keys.notified EXCEPT ![n] = ~ @])

TagSpec == TagInit /\ [][TagNext]_tagVars

-----------------------------------------------------------------------------

\* While it samples, the tag's sensors are set as the Data Hub asks, whether it asked
\* before the tag was there or after, for the period first or for the sensor first: a
\* sensor is on when it is enabled and its period is valid, and then with that period.
\* The light sensor is left out: AllAttributesFoundHandler does not configure it.
TagObeysHub ==
    app = "sampling" =>
        /\ tagChip["io"] = hub["io"]
        /\ \A s \in Sensors \ {"light"} :
            /\ tagChip[s].config.on = (hub[s].enable /\ ValidatePeriod(hub[s].period))
            /\ tagChip[s].config.on => tagChip[s].period = hub[s].period
        /\ tagChip["imu"].config.on => tagChip["imu"].config.axes = hub["imu"].axes
-----------------------------------------------------------------------------
(* What TagObeysHub needs to be inductive *)

TagTypeOK ==
    /\ hub = [s \in Sensors \cup {"io"} |-> hub[s]]
    /\ tagChip = [s \in Sensors \cup {"io"} |-> tagChip[s]]
    /\ \A s \in Sensors :
        /\ hub[s] \in [enable : BOOLEAN, axes : BOOLEAN, period : Nat]
        /\ tagChip[s] \in [config : [on : BOOLEAN, axes : BOOLEAN], period : Nat]

\* The tag has the period that was asked for, also of a sensor that is off: when it is
\* switched on, only its configuration is written.
PeriodIsTold ==
    app = "sampling" =>
        \A s \in Sensors \ {"light"} :
            ValidatePeriod(hub[s].period) => tagChip[s].period = hub[s].period

TagIInv == TagTypeOK /\ TagObeysHub /\ PeriodIsTold
=============================================================================
