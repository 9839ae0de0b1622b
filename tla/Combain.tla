------------------------------ MODULE Combain ------------------------------
(***************************************************************************)
(* The Combain location service (apps/locationService/combain): the list   *)
(* of request records, the API calls clients make on it, and the HTTP      *)
(* thread, joined to the main thread by two queues and an event.           *)
(*                                                                         *)
(* Clients are other processes; each call is one message, handled to the   *)
(* end by the main thread before the next.  The HTTP thread runs           *)
(* concurrently.  What a request says (AppendWifiAccessPoint and the JSON   *)
(* body) is left out: a record has its builder or not.  A server's answer  *)
(* is abstracted to how the service reads it.                              *)
(***************************************************************************)
EXTENDS Integers, Sequences, SequencesExt

CONSTANTS
    Clients,    \* client sessions
    Answers,    \* how the server's answers read, and "empty" for a failure
    MaxReqs     \* bound: requests created in a behaviour

ASSUME CombainAssumption ==
    /\ MaxReqs \in Nat
    /\ Answers \subseteq {"empty", "location", "error", "junk"}

VARIABLES
    Requests,       \* the list of RequestRecord
    next,           \* requests created so far (GenerateHandle)
    combainApiKeySet,
    RequestJson,    \* queue to the HTTP thread: handles
    ResponseJson,   \* queue from it: handle, response
    events,         \* ResponseAvailableEvent reports not handled yet
    http,           \* the HTTP thread: its step and the handle it works on
    open,           \* client sessions that are open
    inbox,          \* responseHandler calls not yet seen by each client
    submitted,      \* history: handles in submission order
    answered,       \* history: handles in the order of handler calls or drops
    gone            \* history: handles destroyed by their client, or closed

mainVars == <<Requests, next, combainApiKeySet, open, inbox, gone>>
httpVars == <<RequestJson, ResponseJson, events, http>>
combainVars == <<mainVars, httpVars, submitted, answered>>

Handles  == 1 .. MaxReqs
Nobody   == [step |-> "dequeue", handle |-> 0]
Outcomes  == {"success", "error", "parse", "comm"}

CombainInit ==
    /\ Requests = << >> /\ next = 0
    /\ combainApiKeySet \in BOOLEAN
    /\ RequestJson = << >> /\ ResponseJson = << >> /\ events = 0
    /\ http = Nobody
    /\ open = Clients
    /\ inbox = [c \in Clients |-> << >>]
    /\ submitted = << >> /\ answered = << >> /\ gone = {}

-----------------------------------------------------------------------------
(* The list of records *)

\* GetRequestRecordFromHandle: the first record with the handle (0: none).
Found(h, sessions) ==
    LET hits == {i \in DOMAIN Requests : /\ Requests[i].handle = h
                                         /\ Requests[i].client \in sessions}
    IN IF hits = {} THEN 0 ELSE CHOOSE i \in hits : \A j \in hits : i <= j

\* What a move assignment leaves of a record: its shared pointers are empty.
MovedFrom(r) == [r EXCEPT !.request = "null", !.result = "none"]

\* std::remove_if, with its result thrown away, for the records at the indices
\* in matches: the records that do not match are moved forward over the first
\* match, and the list keeps its length.  Past the last one kept, a record is
\* what moving it left, or, if it matched, what it was.
RemoveIf(s, matches) ==
    LET f       == CHOOSE i \in matches : \A j \in matches : i <= j
        rest    == {i \in DOMAIN s : i >= f} \ matches
        kept(n) == CHOOSE i \in rest : Cardinality({j \in rest : j <= i}) = n
        end     == f - 1 + Cardinality(rest)
    IN IF matches = {} THEN s
       ELSE [i \in DOMAIN s |->
               IF i < f THEN s[i]
               ELSE IF i <= end THEN s[kept(i - f + 1)]
               ELSE IF i \in matches THEN s[i] ELSE MovedFrom(s[i])]

\* Mutant: everything from the first match on is erased.
DestroyErasesTail(c, h) ==
    LET i == Found(h, {c}) IN
    /\ Requests' = IF i = 0 THEN Requests ELSE SubSeq(Requests, 1, i - 1)
    /\ gone' = IF i = 0 THEN gone ELSE gone \cup {h}

\* ma_combainLocation_DestroyLocationRequest, called by c itself or by one of
\* the functions that fetch a response.
Destroy(c, h) ==
    /\ Requests' = RemoveIf(Requests,
          {i \in DOMAIN Requests : /\ Requests[i].handle = h
                                  /\ Requests[i].client = c})
    /\ gone' = IF Found(h, {c}) = 0 THEN gone ELSE gone \cup {h}

-----------------------------------------------------------------------------
(* API calls of client c *)

CreateLocationRequest(c) ==
    /\ c \in open /\ next < MaxReqs
    /\ next' = next + 1
    /\ Requests' = Append(Requests, [handle |-> next + 1, client |-> c,
                                     request |-> "builder", result |-> "none"])
    /\ UNCHANGED <<combainApiKeySet, open, inbox, gone, httpVars, submitted,
                   answered>>

\* LE_OK: the condition under which SubmitLocationRequest accepts.
Accepts(c, h) ==
    LET i == Found(h, {c}) IN
    combainApiKeySet /\ i # 0 /\ Requests[i].request # "null"

\* Mutant: the request builder is kept, so the request may be submitted again.
SubmitKeepsBuilder(c, h) ==
    LET i == Found(h, {c}) IN
    /\ c \in open /\ Accepts(c, h) /\ Len(submitted) < MaxReqs
    /\ RequestJson' = Append(RequestJson, h)
    /\ submitted' = Append(submitted, h)
    /\ UNCHANGED <<mainVars, ResponseJson, events, http, answered>>

SubmitLocationRequest(c, h) ==
    LET i == Found(h, {c}) IN
    /\ c \in open /\ Accepts(c, h)
    /\ RequestJson' = Append(RequestJson, h)
    /\ Requests' = [Requests EXCEPT ![i].request = "null"]
    /\ submitted' = Append(submitted, h)
    /\ UNCHANGED <<next, combainApiKeySet, open, inbox, gone, ResponseJson,
                   events, http, answered>>

DestroyLocationRequest(c, h) ==
    /\ c \in open
    /\ Destroy(c, h)
    /\ UNCHANGED <<next, combainApiKeySet, open, inbox, httpVars, submitted,
                   answered>>

\* GetSuccessResponse and GetErrorResponse destroy the request;
\* GetParseFailureResult does not.  LE_UNAVAILABLE changes nothing.
HasResponse(c, h, kind) ==
    LET i == Found(h, {c}) IN i # 0 /\ Requests[i].result = kind

GetResponse(c, h, kind) ==
    /\ c \in open /\ HasResponse(c, h, kind)
    /\ IF kind = "parse" THEN UNCHANGED <<Requests, gone>> ELSE Destroy(c, h)
    /\ UNCHANGED <<next, combainApiKeySet, open, inbox, httpVars, submitted,
                   answered>>

-----------------------------------------------------------------------------
(* The main thread's other handlers *)

\* ClientSessionClosedHandler.
ClientSessionClosed(c) ==
    /\ c \in open
    /\ open' = open \ {c}
    /\ Requests' = RemoveIf(Requests,
          {i \in DOMAIN Requests : Requests[i].client = c})
    /\ gone' = gone \cup {Requests[i].handle :
                            i \in {j \in DOMAIN Requests : Requests[j].client = c}}
    /\ inbox' = [inbox EXCEPT ![c] = << >>]
    /\ UNCHANGED <<next, combainApiKeySet, httpVars, submitted, answered>>

\* SetApiKey, from the Data Hub: a key, or an empty one.
SetApiKey(set) ==
    /\ combainApiKeySet # set
    /\ combainApiKeySet' = set
    /\ UNCHANGED <<Requests, next, open, inbox, gone, httpVars, submitted,
                   answered>>

\* How a response string is read.
Parse(answer) ==
    CASE answer = "empty"    -> "comm"
      [] answer = "location" -> "success"
      [] answer = "error"    -> "error"
      [] answer = "junk"     -> "parse"

\* HandleResponseAvailable: the oldest response is stored in its record and the
\* client's handler called; a response without a record is dropped.  (A client
\* that has closed its session no longer receives the call.)
HandleResponseAvailable ==
    LET h == Head(ResponseJson)[1]
        r == Parse(Head(ResponseJson)[2])
        i == Found(h, Clients)
    IN /\ events > 0 /\ ResponseJson # << >>
       /\ events' = events - 1
       /\ ResponseJson' = Tail(ResponseJson)
       /\ answered' = Append(answered, h)
       /\ IF i = 0
          THEN UNCHANGED <<Requests, inbox>>
          ELSE LET c == Requests[i].client IN
               /\ Requests' = [Requests EXCEPT ![i].result = r]
               /\ inbox' = IF c \in open
                           THEN [inbox EXCEPT ![c] = Append(@, <<h, r>>)]
                           ELSE inbox
       /\ UNCHANGED <<next, combainApiKeySet, open, gone, RequestJson, http,
                      submitted>>

\* A client's event loop takes up a handler call.
ClientSeesResult(c) ==
    /\ inbox[c] # << >>
    /\ inbox' = [inbox EXCEPT ![c] = Tail(@)]
    /\ UNCHANGED <<Requests, next, combainApiKeySet, open, gone, httpVars,
                   submitted, answered>>

-----------------------------------------------------------------------------
(* CombainHttpThreadFunc *)

HttpDequeue ==
    /\ http.step = "dequeue" /\ RequestJson # << >>
    /\ http' = [step |-> "perform", handle |-> Head(RequestJson)]
    /\ RequestJson' = Tail(RequestJson)
    /\ UNCHANGED <<mainVars, ResponseJson, events, submitted, answered>>

\* Mutant: a failed transfer is given up without a response.
HttpForgetsFailure ==
    /\ http.step = "perform"
    /\ \E a \in Answers :
          IF a = "empty"
          THEN http' = Nobody /\ UNCHANGED ResponseJson
          ELSE /\ ResponseJson' = Append(ResponseJson, <<http.handle, a>>)
               /\ http' = [http EXCEPT !.step = "report"]
    /\ UNCHANGED <<mainVars, RequestJson, events, submitted, answered>>

\* curl_easy_perform, a failure of it, or a missing key: one response each.
HttpPerform ==
    /\ http.step = "perform"
    /\ \E a \in Answers : ResponseJson' = Append(ResponseJson, <<http.handle, a>>)
    /\ http' = [http EXCEPT !.step = "report"]
    /\ UNCHANGED <<mainVars, RequestJson, events, submitted, answered>>

\* le_event_Report.
HttpReport ==
    /\ http.step = "report"
    /\ events' = events + 1
    /\ http' = Nobody
    /\ UNCHANGED <<mainVars, RequestJson, ResponseJson, submitted, answered>>

-----------------------------------------------------------------------------
ClientCall(c) ==
    \/ CreateLocationRequest(c)
    \/ \E h \in Handles :
          \/ SubmitLocationRequest(c, h)
          \/ DestroyLocationRequest(c, h)
          \/ \E kind \in {"success", "error", "parse"} : GetResponse(c, h, kind)
    \/ ClientSeesResult(c) \/ ClientSessionClosed(c)

Http == HttpDequeue \/ HttpPerform \/ HttpReport

CombainNext ==
    \/ \E c \in Clients : ClientCall(c)
    \/ \E set \in BOOLEAN : SetApiKey(set)
    \/ HandleResponseAvailable
    \/ Http

CombainSpec == CombainInit /\ [][CombainNext]_combainVars

\* The event loop and the HTTP thread run, and the server answers or the
\* connection fails.  (curl is given a connect timeout, but none for the whole
\* transfer: this much the network must do.)
CombainFairSpec == CombainSpec /\ WF_combainVars(HandleResponseAvailable) /\ WF_combainVars(Http)

-----------------------------------------------------------------------------
CombainTypeOK ==
    /\ Requests \in Seq([handle : Handles, client : Clients,
                         request : {"null", "builder"},
                         result : Outcomes \cup {"none"}])
    /\ next \in 0 .. MaxReqs /\ events \in Nat
    /\ combainApiKeySet \in BOOLEAN
    /\ RequestJson \in Seq(Handles)
    /\ ResponseJson \in Seq(Handles \X Answers)
    /\ http \in [step : {"dequeue", "perform", "report"}, handle : 0 .. MaxReqs]
    /\ open \subseteq Clients /\ gone \subseteq Handles
    /\ inbox \in [Clients -> Seq(Handles \X Outcomes)]

\* The main thread never blocks in ResponseJson.dequeue: every report it has
\* to handle has its response in the queue, whatever the two threads do.
EventHasResponse == events <= Len(ResponseJson)

\* A request is submitted once, answered once, and in order; so the result is
\* never overwritten (the comment at combainLocationApi.cpp:382).
OnceAndInOrder ==
    /\ \A i, j \in DOMAIN submitted : submitted[i] = submitted[j] => i = j
    /\ LET InFlight == (IF http.step = "perform" THEN <<http.handle>> ELSE << >>)
                       \o RequestJson
       IN submitted = answered
                      \o [i \in DOMAIN ResponseJson |-> ResponseJson[i][1]]
                      \o InFlight

\* The two threads and their queues: no report without its response, and every
\* request submitted once and answered once, in order.
AnswersSound == CombainTypeOK /\ EventHasResponse /\ OnceAndInOrder

\* Destroying records moves others about in the list, of any client; but a
\* request that its client has not destroyed keeps its record: the builder
\* until it is submitted, and the result the client was told of until fetched.
LiveRequestsIntact ==
    \A h \in (1 .. next) \ gone :
        LET i == Found(h, open) IN
        /\ i # 0
        /\ Requests[i].request = "null" <=> Contains(submitted, h)
        /\ Requests[i].result # "none" <=> Contains(answered, h)
        /\ \A c \in open : \A k \in DOMAIN inbox[c] :
              inbox[c][k][1] = h => /\ Requests[i].client = c
                                    /\ Requests[i].result = inbox[c][k][2]

\* ma_combainLocation.api:84: the handler "will be called on completion of the
\* request" once SubmitLocationRequest returned LE_OK: a result is stored and the
\* handler called, unless the client gave the request up in the meantime.  Again and
\* again no request is outstanding.
SubmittedIsAnswered ==
    []<>(\A h \in Handles :
            Contains(submitted, h) =>
                \/ h \in gone
                \/ \E i \in DOMAIN Requests :
                     i = Found(h, Clients) /\ Requests[i].result # "none")
-----------------------------------------------------------------------------
(* The inductive invariant behind AnswersSound and LiveRequestsIntact.     *)

\* Each response in the queue has its report, or the HTTP thread is about to make it.
QueuesMatch ==
    /\ submitted \in Seq(Handles) /\ answered \in Seq(Handles)
    /\ http.step = "perform" => http.handle \in Handles
    /\ Len(ResponseJson) = events + (IF http.step = "report" THEN 1 ELSE 0)

\* However the records have been moved: those of one handle are of one client, and at
\* most one has the builder, the handle of which has not been submitted.
RecordsMatch ==
    /\ \A i, j \in DOMAIN Requests :
          Requests[i].handle = Requests[j].handle =>
            /\ Requests[i].client = Requests[j].client
            /\ Requests[i].request = "builder" /\ Requests[j].request = "builder" => i = j
    /\ \A i \in DOMAIN Requests :
          /\ Requests[i].handle <= next
          /\ Requests[i].request = "builder" => ~ Contains(submitted, Requests[i].handle)
    /\ \A k \in DOMAIN submitted : submitted[k] <= next

\* Clients are told of answered requests only.
InboxIsAnswered ==
    \A c \in open : \A k \in DOMAIN inbox[c] : Contains(answered, inbox[c][k][1])

\* The first record of handle h is what LiveRequestsIntact says of it.
LiveRecord(h, i) ==
    /\ Requests[i].handle = h /\ Requests[i].client \in open
    /\ \A j \in 1 .. (i - 1) : Requests[j].handle # h
    /\ Requests[i].request = "null" <=> Contains(submitted, h)
    /\ Requests[i].result # "none" <=> Contains(answered, h)
    /\ \A c \in open : \A k \in DOMAIN inbox[c] :
          inbox[c][k][1] = h => /\ Requests[i].client = c
                                /\ Requests[i].result = inbox[c][k][2]

LiveRecords == \A h \in (1 .. next) \ gone : \E i \in DOMAIN Requests : LiveRecord(h, i)

CombainIInv == AnswersSound /\ QueuesMatch /\ RecordsMatch /\ InboxIsAnswered /\ LiveRecords
=============================================================================
