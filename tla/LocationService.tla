-------------------------- MODULE LocationService --------------------------
(***************************************************************************)
(* The location sensor (apps/locationService/components/location.c) as a   *)
(* client of the Combain service, next to other clients of it.             *)
(*                                                                         *)
(* The sensor is a process with one event loop: a periodic Sample, Wi-Fi   *)
(* events and Combain result handlers never run inside one another.  But a *)
(* handler that makes several calls to the Combain service is several      *)
(* steps here (variable step), since the service goes on working for       *)
(* others, and on its HTTP thread, between two of them.                    *)
(*                                                                         *)
(* A position is what the code distinguishes: "good", "weak" (kept as a    *)
(* fall-back), "poor" (too inaccurate to keep) or "none" (the call failed, *)
(* and hAccuracy is whatever was on the stack).                            *)
(***************************************************************************)
EXTENDS Combain

CONSTANT Loc    \* the sensor's session with the Combain service

ASSUME LocAssumption == Loc \in Clients

VARIABLES
    waitingForWifiResults,
    waitingForCombainResults,
    combainHandle,  \* 0 is NULL
    gpsScan,        \* GpsScan: "null", or what SavedGpsScan holds
    savedRef,       \* saved_ref is not NULL
    wifi,           \* "down", "created" (createdAccessPoint), "started"
    step,           \* the next Combain call of the handler under way
    notice,         \* the result LocationResultHandler was called with
    running,        \* FALSE after exit or LE_FATAL
    fixType,        \* the last FixTypeThisPeriod pushed
    sent,           \* the last position pushed
    killed          \* history: Good GNSS destroyed the request being waited for

waiting == <<waitingForWifiResults, waitingForCombainResults, killed>>
reading == <<gpsScan, savedRef, fixType, sent>>
locVars == <<waiting, reading, combainHandle, wifi, step, notice, running>>
allVars == <<combainVars, locVars>>

Nothing == <<0, "comm">>

LocInit ==
    /\ CombainInit
    /\ waitingForWifiResults = FALSE /\ waitingForCombainResults = FALSE
    /\ combainHandle = 0
    /\ gpsScan = "null" /\ savedRef = FALSE
    /\ wifi = "down" /\ step = "idle" /\ notice = Nothing /\ running = TRUE
    /\ fixType = "" /\ sent = ""
    /\ killed = FALSE

EventLoop == running /\ step = "idle"

\* A position is pushed; the reference it is pushed with (savedRef) may be NULL.
PushJson(what) == sent' = what

\* UseGpsScan: "Weak GNSS" is pushed, and replaced by "NONE" at once.
UseGpsScan ==
    /\ IF gpsScan = "null" THEN UNCHANGED sent ELSE PushJson(gpsScan)
    /\ gpsScan' = "null"
    /\ fixType' = "NONE"
    /\ UNCHANGED savedRef

-----------------------------------------------------------------------------
(* Sample, one action for each way through it *)

\* Mutant: the answer to the request that was killed is not expected any more.
SampleGoodForgets ==
    /\ EventLoop
    /\ PushJson("gps")
    /\ gpsScan' = "null" /\ fixType' = "Good GNSS"
    /\ waitingForWifiResults' = FALSE /\ waitingForCombainResults' = FALSE
    /\ DestroyLocationRequest(Loc, combainHandle)
    /\ UNCHANGED <<killed, savedRef, combainHandle, wifi, step, notice, running>>

SampleGood ==
    /\ EventLoop
    /\ PushJson("gps")
    /\ gpsScan' = "null" /\ fixType' = "Good GNSS"
    /\ IF waitingForWifiResults \/ waitingForCombainResults
       THEN DestroyLocationRequest(Loc, combainHandle)
       ELSE UNCHANGED combainVars
    /\ waitingForWifiResults' = FALSE
    /\ killed' = waitingForCombainResults
    /\ UNCHANGED <<waitingForCombainResults, savedRef, combainHandle, wifi,
                   step, notice, running>>

SampleNoService ==
    /\ EventLoop /\ ~ combainApiKeySet
    /\ fixType' = "NONE"
    /\ UNCHANGED <<combainVars, waiting, gpsScan, savedRef, sent,
                   combainHandle, wifi, step, notice, running>>

\* A scan good enough is kept; without a position, what is kept is arbitrary.
SaveScan(pos) ==
    gpsScan' \in CASE pos = "weak" -> {"saved"}
                      [] pos = "poor" -> {gpsScan}
                      [] pos = "none" -> {gpsScan, "garbage"}

SampleBusy(pos) ==
    /\ EventLoop /\ combainApiKeySet
    /\ waitingForWifiResults \/ waitingForCombainResults
    /\ SaveScan(pos)
    /\ fixType' = "Waiting for Wifi"
    /\ UNCHANGED <<combainVars, waiting, savedRef, sent, combainHandle, wifi,
                   step, notice, running>>

\* The access point is created and the Wi-Fi client started if need be.
SampleScan(pos) ==
    /\ EventLoop /\ combainApiKeySet
    /\ ~ waitingForWifiResults /\ ~ waitingForCombainResults
    /\ SaveScan(pos)
    /\ \/ /\ wifi' = "started"
          /\ savedRef' = TRUE /\ waitingForWifiResults' = TRUE
          /\ UNCHANGED running
       \/ \* le_wifiClient_Start fails
          /\ wifi # "started" /\ wifi' = "created"
          /\ UNCHANGED <<savedRef, waitingForWifiResults, running>>
       \/ \* le_wifiClient_Create or SetInterface fails: exit
          /\ wifi = "down" /\ running' = FALSE
          /\ UNCHANGED <<wifi, savedRef, waitingForWifiResults>>
    /\ UNCHANGED <<combainVars, waitingForCombainResults, killed, fixType, sent,
                   combainHandle, step, notice>>

-----------------------------------------------------------------------------
(* WifiEventHandler *)

\* SCAN_DONE: the request is created, then filled, then submitted.
WifiScanDone ==
    /\ EventLoop /\ waitingForWifiResults
    /\ waitingForWifiResults' = FALSE
    /\ CreateLocationRequest(Loc)
    /\ combainHandle' = next'
    /\ step' = "submit"
    /\ UNCHANGED <<waitingForCombainResults, killed, reading, wifi, notice, running>>

TrySubmitRequest ==
    /\ running /\ step = "submit"
    /\ IF /\ ~ waitingForWifiResults /\ ~ waitingForCombainResults
          /\ Accepts(Loc, combainHandle)
       THEN /\ SubmitLocationRequest(Loc, combainHandle)
            /\ waitingForCombainResults' = TRUE
            /\ step' = "idle"
       ELSE /\ step' = "destroy"
            /\ UNCHANGED <<combainVars, waitingForCombainResults>>
    /\ UNCHANGED <<waitingForWifiResults, killed, reading, combainHandle, wifi,
                   notice, running>>

DestroyUnsubmitted ==
    /\ running /\ step = "destroy"
    /\ DestroyLocationRequest(Loc, combainHandle)
    /\ fixType' = "NONE"
    /\ step' = "idle"
    /\ UNCHANGED <<waiting, gpsScan, savedRef, sent, combainHandle,
                   wifi, notice, running>>

\* Every other Wi-Fi event, whether or not a scan is under way.
WifiOtherEvent ==
    /\ EventLoop /\ wifi = "started"
    /\ DestroyLocationRequest(Loc, combainHandle)
    /\ waitingForWifiResults' = FALSE
    /\ UseGpsScan
    /\ UNCHANGED <<waitingForCombainResults, killed, combainHandle, wifi, step,
                   notice, running>>

-----------------------------------------------------------------------------
(* LocationResultHandler *)

\* The call arrives; LE_FATAL if no answer is expected.
ResultArrives ==
    /\ EventLoop
    /\ ClientSeesResult(Loc)
    /\ waitingForCombainResults' = FALSE /\ killed' = FALSE
    /\ IF waitingForCombainResults
       THEN /\ notice' = Head(inbox[Loc]) /\ step' = "fetch"
            /\ UNCHANGED running
       ELSE /\ running' = FALSE
            /\ UNCHANGED <<notice, step>>
    /\ UNCHANGED <<waitingForWifiResults, reading, combainHandle, wifi>>

\* Success: the position is sent if it is inside the fence.  If it cannot be
\* fetched (the request was destroyed meanwhile) nothing is sent.
FetchSuccess(inside) ==
    /\ running /\ step = "fetch" /\ notice[2] = "success"
    /\ IF ~ HasResponse(Loc, notice[1], "success")
       THEN UNCHANGED <<combainVars, reading>>
       ELSE /\ GetResponse(Loc, notice[1], "success")
            /\ IF inside
               THEN /\ PushJson("wifi")
                    /\ savedRef' = FALSE /\ fixType' = "Wifi"
                    /\ UNCHANGED gpsScan
               ELSE UseGpsScan
    /\ step' = "idle" /\ notice' = Nothing
    /\ UNCHANGED <<waiting, combainHandle, wifi, running>>

\* Any other result is logged, and the saved scan used instead.
FetchFailure ==
    /\ running /\ step = "fetch" /\ notice[2] # "success"
    /\ IF HasResponse(Loc, notice[1], notice[2]) /\ notice[2] # "comm"
       THEN GetResponse(Loc, notice[1], notice[2])
       ELSE UNCHANGED combainVars
    /\ UseGpsScan
    /\ step' = "idle" /\ notice' = Nothing
    /\ UNCHANGED <<waiting, combainHandle, wifi, running>>

-----------------------------------------------------------------------------
Sample == \/ SampleGood \/ SampleNoService
          \/ \E pos \in {"weak", "poor", "none"} : SampleBusy(pos) \/ SampleScan(pos)

Handler == \/ TrySubmitRequest \/ DestroyUnsubmitted \/ ResultArrives
           \/ FetchFailure \/ \E inside \in BOOLEAN : FetchSuccess(inside)

Service == HandleResponseAvailable \/ Http

LocNext ==
    \/ Sample \/ WifiScanDone \/ WifiOtherEvent \/ Handler
    \/ /\ \/ \E c \in Clients \ {Loc} : ClientCall(c)
          \/ \E set \in BOOLEAN : SetApiKey(set)
          \/ Service
       /\ UNCHANGED locVars

LocSpec == LocInit /\ [][LocNext]_allVars

\* The service's threads run, the server answers or the connection fails, and
\* the sensor's event loop runs the handlers that are due.
LocFairSpec == /\ LocSpec
               /\ WF_allVars(HandleResponseAvailable /\ UNCHANGED locVars)
               /\ WF_allVars(Http /\ UNCHANGED locVars)
               /\ WF_allVars(Handler)

-----------------------------------------------------------------------------
PushesTypeOK ==
    /\ fixType \in {"", "Good GNSS", "Wifi", "NONE", "Waiting for Wifi"}
    /\ sent \in {"", "gps", "wifi", "saved", "garbage"}

LocTypeOK ==
    /\ CombainTypeOK
    /\ waitingForWifiResults \in BOOLEAN /\ waitingForCombainResults \in BOOLEAN
    /\ combainHandle \in 0 .. next
    /\ gpsScan \in {"null", "saved", "garbage"} /\ savedRef \in BOOLEAN
    /\ wifi \in {"down", "created", "started"}
    /\ step \in {"idle", "submit", "destroy", "fetch"}
    /\ running \in BOOLEAN /\ killed \in BOOLEAN
    /\ PushesTypeOK

\* LE_FATAL ("Serious error from Combain service") is never reached: an answer
\* that is on its way to the sensor is the one it waits for, and the only one,
\* whatever was destroyed and whoever else uses the service.
AnswerIsExpected ==
    \A k \in DOMAIN inbox[Loc] :
        k = 1 /\ waitingForCombainResults /\ inbox[Loc][k][1] = combainHandle

\* One thing at a time: no scan is started while a request is in transit, and a
\* new request never replaces one whose answer is due (so that combainHandle
\* names the request that is being waited for).
OneAtATime ==
    /\ ~ (waitingForWifiResults /\ waitingForCombainResults)
    /\ waitingForCombainResults => step = "idle" /\ Contains(submitted, combainHandle)

\* The fix type shown names the position that was sent last, also when the
\* request was destroyed between its notification and the fetch.
FixTypeIsHonest ==
    /\ fixType = "Good GNSS" => sent = "gps"
    /\ fixType = "Wifi" => sent = "wifi"

\* The sensor's session with the service: no answer but the one it waits for, one
\* thing at a time, and a fix type that names what was sent.
SensorSound == LocTypeOK /\ AnswerIsExpected /\ OneAtATime /\ FixTypeIsHonest

\* With the sensor as the only client, every wait for Combain ends, whatever
\* fails: the periodic sensor always gets back to scanning.
WaitingEnds == []<> ~ waitingForCombainResults

\* location.c:525: "Kill any errant WIFI scan or Combain requests as we got
\* GPS": a request killed this way does not keep the sensor waiting.
KillEndsWaiting == killed ~> ~ waitingForCombainResults
-----------------------------------------------------------------------------
(* What SensorSound needs to be inductive *)

\* A request of the sensor's that is on its way to the server or back is the one it waits
\* for, and its client has not been called yet: also when the record has been destroyed,
\* for that may leave a copy of it in the list.
PendingIsExpected ==
    \A j \in DOMAIN Requests :
        /\ Requests[j].client = Loc
        /\ Contains(submitted, Requests[j].handle) /\ ~ Contains(answered, Requests[j].handle)
        => /\ waitingForCombainResults
           /\ Requests[j].handle = combainHandle
           /\ inbox[Loc] = << >>

NoticeIsResult == step = "fetch" => notice \in Handles \X Outcomes

LocIInv == CombainIInv /\ SensorSound /\ PendingIsExpected /\ NoticeIsResult
=============================================================================
