---------------------------- MODULE Environment ----------------------------
(***************************************************************************)
(* The environmental sensor application Bme680EnvironmentalSensor.         *)
(*                                                                         *)
(* The Data Hub component (bsec/component.c) turns what the hub pushes     *)
(* into calls of the sensor service (bsecIntegrationComponent), whose one  *)
(* thread answers its clients and serves its timer: a sample is measured,  *)
(* read, processed by the BSEC library and handed to every registered      *)
(* handler.  While it waits for the sensor the thread answers nobody.      *)
(*                                                                         *)
(* Time is discrete: next_call of the BSEC library is "soon" at a rate and *)
(* "never" when everything is disabled.  Signals carry no numbers.         *)
(***************************************************************************)
EXTENDS Naturals, FiniteSets

CONSTANTS
  EnvClients,     \* the sessions that register reading handlers, the hub's component one of them
  HubClient,
  SaveAfter,   \* SAMPLES_BETWEEN_SAVES
  I2cFails     \* TRUE: an access to the sensor may fail

ASSUME EnvAssumption == HubClient \in EnvClients /\ SaveAfter \in Nat \ {0}

VARIABLES
  hubc,     \* the hub component: IsEnabled, AmbientTempReceived, SamplingRate
  svc,      \* struct Bme680State: samplingRate, the timer, samplesSinceSave
  subs,     \* the library's subscriptions: the rate of each virtual output
  handlers, \* HandlerRefMap: the handlers and the sessions that own them
  sample,   \* TimerHandler: where it is, and the library's settings for this sample
  chip680,  \* the sensor: its mode, and whether it holds new data
  given     \* the reading handed out last: its outputs, and the handlers that got it

envVars == <<hubc, svc, subs, handlers, sample, chip680, given>>

\* The seven virtual outputs; the raw temperature is measured even for a client that wants none.
Wanted680 == {"iaq", "co2", "voc", "pressure", "temperature", "humidity"}
Outputs680 == Wanted680 \union {"rawTemperature"}
Rates == {"disabled", "LP", "ULP"}
I2c == IF I2cFails THEN {TRUE, FALSE} ELSE {TRUE}

NoSample == [pc |-> "idle", triggers |-> FALSE, takes |-> {}, at |-> "disabled"]

EnvInit ==
  /\ hubc = [IsEnabled |-> FALSE, AmbientTempReceived |-> FALSE, SamplingRate |-> "LP"]
  /\ svc = [samplingRate |-> "disabled", timer |-> "stopped", sinceSave |-> 0]
  /\ subs = [o \in Outputs680 |-> "disabled"]
  /\ handlers = {HubClient}
  /\ sample = NoSample
  /\ chip680 = [mode |-> "sleep", new |-> FALSE]
  /\ given = [outputs |-> {}, to |-> {}]

Idle == sample.pc = "idle"

----------------------------------------------------------------------------
(* The service's functions, called by clients while its thread is idle.    *)

\* A plausible bug: the timer is left as it was.
ConfigureOnly(rate, enable) ==
  /\ subs' = [o \in Outputs680 |->
                IF o = "rawTemperature" \/ (enable /\ o \in Wanted680) THEN rate ELSE "disabled"]
  /\ svc' = [svc EXCEPT !.samplingRate = rate]

\* mangOH_bme680_Configure: a new rate restarts the timer to fire at once.
Configure(rate, enable) ==
  /\ subs' = [o \in Outputs680 |->
                IF o = "rawTemperature" \/ (enable /\ o \in Wanted680) THEN rate ELSE "disabled"]
  /\ svc' = IF rate = svc.samplingRate THEN svc
            ELSE [svc EXCEPT !.samplingRate = rate, !.timer = "soon"]

AddSensorReadingHandler(c) ==
  /\ Idle /\ c \notin handlers
  /\ handlers' = handlers \union {c}
  /\ UNCHANGED <<hubc, svc, subs, sample, chip680, given>>

\* Only its owner removes a handler, and no other event does.
RemoveSensorReadingHandler(c) ==
  /\ Idle /\ c \in handlers /\ c # HubClient
  /\ handlers' = handlers \ {c}
  /\ UNCHANGED <<hubc, svc, subs, sample, chip680, given>>

----------------------------------------------------------------------------
(* The hub component.                                                      *)

UpdateSensor(h) ==
  Configure(IF h.IsEnabled /\ h.AmbientTempReceived THEN h.SamplingRate ELSE "disabled",
            h.IsEnabled)

Pushed(h) ==
  /\ Idle /\ hubc' = h
  /\ IF h # hubc THEN UpdateSensor(h) ELSE UNCHANGED <<svc, subs>>
  /\ UNCHANGED <<handlers, sample, chip680, given>>

HandleAmbientTempPush == Pushed([hubc EXCEPT !.AmbientTempReceived = TRUE])
HandleEnablePush(on) == Pushed([hubc EXCEPT !.IsEnabled = on])
HandleLowPowerPush(low) == Pushed([hubc EXCEPT !.SamplingRate = IF low THEN "ULP" ELSE "LP"])

\* SensorReadingHandler pushes to the hub exactly the values that are valid.
SensorReadingHandler(reading) == reading

----------------------------------------------------------------------------
(* TimerHandler.                                                           *)

\* bsec_sensor_control: what the library wants of this sample.
bsec_sensor_control ==
  LET on == {o \in Outputs680 : subs[o] # "disabled"}
  IN  [pc |-> "trigger", triggers |-> on # {}, takes |-> on, at |-> svc.samplingRate]

TimerHandler ==
  /\ Idle /\ svc.timer = "soon"
  /\ svc' = [svc EXCEPT !.timer = "stopped"]
  /\ sample' = bsec_sensor_control
  /\ UNCHANGED <<hubc, subs, handlers, chip680, given>>

\* TriggerMeasurement: when a setting cannot be written the sample goes on without waiting.
TriggerMeasurement(ok) ==
  /\ sample.pc = "trigger"
  /\ IF ~sample.triggers
       THEN sample' = [sample EXCEPT !.pc = "wait"] /\ UNCHANGED chip680
       ELSE /\ sample' = [sample EXCEPT !.pc = IF ok THEN "wait" ELSE "read"]
            /\ chip680' = IF ok THEN [chip680 EXCEPT !.mode = "forced"] ELSE chip680
  /\ UNCHANGED <<hubc, svc, subs, handlers, given>>

SensorMeasures ==
  /\ chip680.mode = "forced"
  /\ chip680' = [mode |-> "sleep", new |-> TRUE]
  /\ UNCHANGED <<hubc, svc, subs, handlers, sample, given>>

\* The loop that polls the mode ends only with a good answer.
WaitMeasurement(ok) ==
  /\ sample.pc = "wait" /\ ok /\ chip680.mode # "forced"
  /\ sample' = [sample EXCEPT !.pc = "read"]
  /\ UNCHANGED <<hubc, svc, subs, handlers, chip680, given>>

\* ReadData: nothing is processed unless the data is new; the gas may not be valid.
ReadData(ok, gas) ==
  /\ sample.pc = "read"
  /\ LET reads == sample.takes # {} /\ ok
     IN  /\ sample' = [sample EXCEPT !.pc = "process",
                         !.takes = IF ~reads \/ ~chip680.new THEN {}
                                   ELSE IF gas THEN @ ELSE @ \ {"iaq", "co2", "voc"}]
         /\ chip680' = IF reads THEN [chip680 EXCEPT !.new = FALSE] ELSE chip680
  /\ UNCHANGED <<hubc, svc, subs, handlers, given>>

\* ProcessData: bsec_do_steps gives the outputs it has inputs for, and every handler the reading.
ProcessData ==
  /\ sample.pc = "process"
  /\ IF sample.takes = {} THEN UNCHANGED given
     ELSE given' = [outputs |-> SensorReadingHandler(sample.takes) \ {"rawTemperature"},
                    to |-> handlers]
  /\ sample' = [sample EXCEPT !.pc = "save"]
  /\ UNCHANGED <<hubc, svc, subs, handlers, chip680>>

\* SaveState after every SaveAfter samples, and again at the next one when it fails.
SaveState(ok) ==
  LET n == svc.sinceSave + 1
  IN  IF n < SaveAfter THEN n ELSE IF ok THEN 0 ELSE SaveAfter

\* The rest of TimerHandler: the timer is set to next_call, or to 1 ms when that is past.
TimerHandlerEnds(ok) ==
  /\ sample.pc = "save"
  /\ svc' = [svc EXCEPT !.sinceSave = SaveState(ok),
               !.timer = IF \E o \in Outputs680 : subs[o] # "disabled" THEN "later" ELSE "never"]
  /\ sample' = NoSample
  /\ UNCHANGED <<hubc, subs, handlers, chip680, given>>

PeriodPasses ==
  /\ svc.timer = "later"
  /\ svc' = [svc EXCEPT !.timer = "soon"]
  /\ UNCHANGED <<hubc, subs, handlers, sample, chip680, given>>

----------------------------------------------------------------------------

SampleSteps ==
  \/ \E ok \in I2c : \/ TriggerMeasurement(ok) \/ WaitMeasurement(ok)
                     \/ \E gas \in BOOLEAN : ReadData(ok, gas)
  \/ ProcessData
  \/ \E ok \in BOOLEAN : TimerHandlerEnds(ok)

EnvNext ==
  \/ \E c \in EnvClients : AddSensorReadingHandler(c) \/ RemoveSensorReadingHandler(c)
  \/ HandleAmbientTempPush
  \/ \E v \in BOOLEAN : \/ HandleEnablePush(v) \/ HandleLowPowerPush(v)
  \/ TimerHandler \/ SampleSteps \/ SensorMeasures \/ PeriodPasses

EnvSpec == EnvInit /\ [][EnvNext]_envVars

\* The thread serves its events, time passes, and the sensor ends its measurement and
\* answers again sooner or later.
EnvFairness ==
  /\ WF_envVars(TimerHandler) /\ WF_envVars(SampleSteps)
  /\ WF_envVars(SensorMeasures) /\ WF_envVars(PeriodPasses)

EnvFairSpec == EnvSpec /\ EnvFairness

----------------------------------------------------------------------------
(* Properties.                                                             *)

\* While the hub keeps the sensor enabled and has given an ambient temperature, samples are
\* taken again and again, whatever is pushed, configured and saved in between and however
\* often the sensor fails (TimerHandler starts its timer again, Configure starts it first).
EnabledIsSampled ==
  []<>(~(hubc.IsEnabled /\ hubc.AmbientTempReceived) \/ (sample.pc = "process"))
============================================================================
