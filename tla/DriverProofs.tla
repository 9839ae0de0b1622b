---------------------------- MODULE DriverProofs ----------------------------
(***************************************************************************)
(* Proofs about the drivers of the CAN bus and of the battery: what the    *)
(* CAN broadcast manager owes has a timer, a raw socket gets each frame    *)
(* once for each filter that matches, the fuel gauge's data memory takes   *)
(* the parameters it was given and nothing else, a fault that is present   *)
(* is reported by every routine of the chargers and what is set there      *)
(* holds, and the coulomb counter reads back the charge it is told.        *)
(***************************************************************************)
EXTENDS CanBcm, CanRaw, Bq27xxx, BqCharger, Ltc294x, FiniteSetTheorems, FunctionTheorems,
        WellFoundedInduction, TLAPS

-----------------------------------------------------------------------------
(* The broadcast manager *)

LEMMA BcmInitial == BcmInit => BcmIInv
<1> SUFFICES ASSUME BcmInit PROVE BcmIInv
  OBVIOUS
<1>1. BcmTypeOK
  BY DEF BcmInit, BcmTypeOK, NoRx, NoTx, Idle, Unseen, Contents, NoFrame
<1>2. UntoldIsMarked /\ MaskIsUnseen /\ StartedIsTimed
  BY DEF BcmInit, UntoldIsMarked, MaskIsUnseen, StartedIsTimed, NoRx, NoTx
<1> QED
  BY <1>1, <1>2 DEF BcmIInv

\* The indices that an operation uses are indices.
LEMMA UsedInIndex == ASSUME NEW mode PROVE Used(mode) \subseteq Index
  BY DEF Used, Index

\* A frame of the bus, at index i of an operation.
LEMMA UpdateKeeps ==
    ASSUME BcmIInv, NEW i \in Used(rxop.mode), NEW f \in FrameSet, rxop.on,
           NEW tm, tm \subseteq timers \cup {"rx"}, timers \subseteq tm \cup {"rx"},
           bcm_rx_update_and_send(i, f, tm),
           UNCHANGED <<bo, rxop, txop, call, calls>>
    PROVE  BcmIInv'
<1> DEFINE l == [last EXCEPT ![i] = [recv |-> TRUE, thr |-> TRUE, val |-> f]]
           m == [l EXCEPT ![i].thr = FALSE]
<1>0. BcmTypeOK
  BY DEF BcmIInv
<1>1. i \in Index /\ f \in Contents
  BY UsedInIndex DEF Contents
<1>2. /\ l \in [Index -> [recv : BOOLEAN, thr : BOOLEAN, val : Contents]]
      /\ m \in [Index -> [recv : BOOLEAN, thr : BOOLEAN, val : Contents]]
      /\ [told EXCEPT ![i] = l[i].val] \in [Index -> Contents]
  BY <1>0, <1>1, Zenon DEF BcmTypeOK
<1>3. timers \subseteq {"rx", "thr", "thr_tsklet", "tx", "tx_tsklet"}
  BY <1>0 DEF BcmTypeOK
<1>4. /\ timers' \subseteq {"rx", "thr", "thr_tsklet", "tx", "tx_tsklet"}
      /\ timers \subseteq timers' \cup {"rx"}
  BY <1>3, Zenon DEF bcm_rx_update_and_send
<1>5. kt_lastmsg' \in {kt_lastmsg, "recent"}
  BY DEF bcm_rx_update_and_send
<1>6. \/ last' = m /\ told' = [told EXCEPT ![i] = l[i].val]
      \/ last' = l /\ told' = told /\ "thr" \in timers'
  BY DEF bcm_rx_update_and_send, bcm_rx_changed
<1>7. BcmTypeOK'
  <2>1. /\ last' \in [Index -> [recv : BOOLEAN, thr : BOOLEAN, val : Contents]]
        /\ told' \in [Index -> Contents]
    <3>1. told \in [Index -> Contents]
      BY <1>0 DEF BcmTypeOK
    <3> HIDE DEF l, m
    <3> QED
      BY <1>2, <1>6, <3>1
  <2> QED
    BY <1>0, <1>4, <1>5, <2>1 DEF BcmTypeOK
<1>8. UntoldIsMarked'
  <2> SUFFICES ASSUME NEW j \in Used(rxop.mode)
               PROVE  /\ last'[j].recv /\ told'[j] # last'[j].val => last'[j].thr
                      /\ last'[j].thr /\ call.at # "flush" => timers' \cap {"thr", "thr_tsklet"} # {}
    BY DEF UntoldIsMarked
  <2>1. j \in Index
    BY UsedInIndex
  <2>2. /\ last[j].recv /\ told[j] # last[j].val => last[j].thr
        /\ last[j].thr /\ call.at # "flush" => timers \cap {"thr", "thr_tsklet"} # {}
    BY DEF BcmIInv, UntoldIsMarked
  <2>3. CASE last' = m /\ told' = [told EXCEPT ![i] = l[i].val]
    BY <1>0, <1>1, <1>4, <2>1, <2>2, <2>3 DEF BcmTypeOK
  <2>4. CASE last' = l /\ told' = told /\ "thr" \in timers'
    BY <1>0, <1>1, <1>4, <2>1, <2>2, <2>4 DEF BcmTypeOK
  <2> QED
    BY <1>6, <2>3, <2>4
<1>9. MaskIsUnseen'
  <2>1. rxop.mode = "mux" => i # 0
    BY BcmAssumption DEF Used
  <2>2. rxop.mode = "mux" => last'[0] = last[0]
    BY <1>0, <1>6, <2>1 DEF BcmTypeOK, Index
  <2> QED
    BY <2>2 DEF BcmIInv, MaskIsUnseen
<1>10. StartedIsTimed'
  BY <1>4 DEF BcmIInv, StartedIsTimed
<1> QED
  BY <1>7, <1>8, <1>9, <1>10 DEF BcmIInv

\* bcm_rx_handler, whatever it compares the frame with
LEMMA RxHandlerKeeps == ASSUME BcmIInv, NEW f \in FrameSet, bcm_rx_handler(f) PROVE BcmIInv'
<1> DEFINE i == IF rxop.mode = "mux" THEN f.mux ELSE 0
           tm == (timers \ {"rx"}) \cup (IF rxop.ival1 /\ rxop.auto THEN {"rx"} ELSE {})
<1>1. rxop.on /\ UNCHANGED <<bo, rxop, txop, call, calls>>
  BY DEF bcm_rx_handler
<1>2. i \in Used(rxop.mode)
  BY DEF Used, FrameSet
<1>3. CASE bcm_rx_update_and_send(i, f, tm)
  <2>1. tm \subseteq timers \cup {"rx"} /\ timers \subseteq tm \cup {"rx"}
    OBVIOUS
  <2> HIDE DEF i, tm
  <2> QED
    BY <1>1, <1>2, <1>3, <2>1, UpdateKeeps
<1>4. CASE timers' \in {timers \ {"rx"}, tm} /\ UNCHANGED <<last, told, kt_lastmsg>>
  BY <1>1, <1>4 DEF BcmIInv, BcmTypeOK, UntoldIsMarked, MaskIsUnseen, StartedIsTimed
<1> QED
  BY <1>3, <1>4 DEF bcm_rx_handler

\* The timers of the receive operation and its tasklet
LEMMA RxTimeoutKeeps == ASSUME BcmIInv, bcm_rx_timeout_handler PROVE BcmIInv'
<1>0. BcmTypeOK /\ UNCHANGED <<bo, rxop, told, kt_lastmsg, txop, call>> /\ timers' = timers \ {"rx"}
  BY DEF bcm_rx_timeout_handler, BcmIInv
<1>1. Unseen \in [recv : BOOLEAN, thr : BOOLEAN, val : Contents]
  BY DEF Unseen, Contents
<1>2. last' \in [Index -> [recv : BOOLEAN, thr : BOOLEAN, val : Contents]]
  BY <1>0, <1>1 DEF bcm_rx_timeout_handler, BcmTypeOK
<1>3. \A i \in Index : last'[i] = last[i] \/ last'[i] = Unseen
  BY <1>0 DEF bcm_rx_timeout_handler, BcmTypeOK
<1>4. BcmTypeOK'
  BY <1>0, <1>2 DEF BcmTypeOK
<1>5. UntoldIsMarked'
  BY <1>0, <1>3, UsedInIndex DEF BcmIInv, UntoldIsMarked, Unseen
<1>6. MaskIsUnseen'
  BY <1>0, <1>3 DEF BcmIInv, MaskIsUnseen, Index
<1>7. StartedIsTimed'
  BY <1>0 DEF BcmIInv, StartedIsTimed
<1> QED
  BY <1>4, <1>5, <1>6, <1>7 DEF BcmIInv

\* The flush tells all that is marked.
LEMMA FlushTells ==
    ASSUME BcmTypeOK, MaskIsUnseen, bcm_rx_thr_flush, UNCHANGED rxop, UntoldIsMarked
    PROVE  /\ last' \in [Index -> [recv : BOOLEAN, thr : BOOLEAN, val : Contents]]
           /\ told' \in [Index -> Contents]
           /\ rxop.on => \A i \in Used(rxop.mode) :
                 ~ last'[i].thr /\ (last'[i].recv => told'[i] = last'[i].val)
           /\ rxop.on /\ rxop.mode = "mux" => last'[0] = Unseen
<1>1. /\ \A i \in Index : last'[i] = IF i \in Throttled THEN [last[i] EXCEPT !.thr = FALSE] ELSE last[i]
      /\ \A i \in Index : told'[i] = IF i \in Throttled THEN last[i].val ELSE told[i]
      /\ DOMAIN last' = Index /\ DOMAIN told' = Index
  BY DEF bcm_rx_thr_flush
<1>2. last' \in [Index -> [recv : BOOLEAN, thr : BOOLEAN, val : Contents]]
  <2> SUFFICES ASSUME NEW i \in Index
               PROVE  last'[i] \in [recv : BOOLEAN, thr : BOOLEAN, val : Contents]
    BY DEF bcm_rx_thr_flush
  <2>1. last[i] \in [recv : BOOLEAN, thr : BOOLEAN, val : Contents]
    BY DEF BcmTypeOK
  <2>2. last'[i] = last[i] \/ last'[i] = [last[i] EXCEPT !.thr = FALSE]
    BY <1>1
  <2> QED
    BY <2>1, <2>2, Zenon
<1>3. told' \in [Index -> Contents]
  BY DEF bcm_rx_thr_flush, BcmTypeOK
<1>4. ASSUME rxop.on, NEW i \in Used(rxop.mode)
      PROVE  ~ last'[i].thr /\ (last'[i].recv => told'[i] = last'[i].val)
  <2>1. i \in Index /\ (i \in Throttled <=> last[i].thr)
    BY <1>4, UsedInIndex DEF Throttled
  <2>2. last[i] \in [recv : BOOLEAN, thr : BOOLEAN, val : Contents]
    BY <2>1 DEF BcmTypeOK
  <2>3. last[i].recv /\ told[i] # last[i].val => last[i].thr
    BY <1>4 DEF UntoldIsMarked
  <2> QED
    BY <1>1, <2>1, <2>2, <2>3
<1>5. rxop.on /\ rxop.mode = "mux" => last'[0] = Unseen
  BY <1>1 DEF MaskIsUnseen, Index, Throttled, Unseen
<1> QED
  BY <1>2, <1>3, <1>4, <1>5

LEMMA ThrTaskletKeeps == ASSUME BcmIInv, bcm_rx_thr_tsklet PROVE BcmIInv'
<1>1. bcm_rx_thr_flush /\ UNCHANGED <<bo, rxop, kt_lastmsg, txop, call>> /\ timers' = timers \ {"thr_tsklet"}
  BY DEF bcm_rx_thr_tsklet
<1>2. /\ last' \in [Index -> [recv : BOOLEAN, thr : BOOLEAN, val : Contents]]
      /\ told' \in [Index -> Contents]
      /\ rxop.on => \A i \in Used(rxop.mode) :
            ~ last'[i].thr /\ (last'[i].recv => told'[i] = last'[i].val)
      /\ rxop.on /\ rxop.mode = "mux" => last'[0] = Unseen
  BY <1>1, FlushTells DEF BcmIInv
<1>3. BcmTypeOK'
  BY <1>1, <1>2 DEF BcmIInv, BcmTypeOK
<1>4. UntoldIsMarked' /\ MaskIsUnseen'
  BY <1>1, <1>2 DEF UntoldIsMarked, MaskIsUnseen
<1>5. StartedIsTimed'
  BY <1>1 DEF BcmIInv, StartedIsTimed
<1> QED
  BY <1>3, <1>4, <1>5 DEF BcmIInv

LEMMA SetupFlushKeeps == ASSUME BcmIInv, rx_setup_flush PROVE BcmIInv'
<1>1. bcm_rx_thr_flush /\ UNCHANGED <<bo, rxop, kt_lastmsg, txop, timers>>
      /\ call.at = "flush" /\ call' = [call EXCEPT !.at = "start"]
  BY DEF rx_setup_flush
<1>2. /\ last' \in [Index -> [recv : BOOLEAN, thr : BOOLEAN, val : Contents]]
      /\ told' \in [Index -> Contents]
      /\ rxop.on => \A i \in Used(rxop.mode) :
            ~ last'[i].thr /\ (last'[i].recv => told'[i] = last'[i].val)
      /\ rxop.on /\ rxop.mode = "mux" => last'[0] = Unseen
  BY <1>1, FlushTells DEF BcmIInv
<1>3. BcmTypeOK'
  BY <1>1, <1>2 DEF BcmIInv, BcmTypeOK
<1>4. UntoldIsMarked' /\ MaskIsUnseen'
  BY <1>1, <1>2 DEF UntoldIsMarked, MaskIsUnseen
<1>5. StartedIsTimed'
  BY <1>1 DEF BcmIInv, BcmTypeOK, StartedIsTimed
<1> QED
  BY <1>3, <1>4, <1>5 DEF BcmIInv

\* The timer goes on while something is marked.
LEMMA ThrHandlerKeeps == ASSUME BcmIInv, bcm_rx_thr_handler PROVE BcmIInv'
<1>1. /\ UNCHANGED <<bo, rxop, last, told, txop, call>> /\ kt_lastmsg' \in {kt_lastmsg, "zero"}
      /\ timers' \in {timers \cup {"thr_tsklet"}, (timers \ {"thr"}) \cup {"thr_tsklet"}}
  BY DEF bcm_rx_thr_handler
<1>2. BcmTypeOK'
  BY <1>1 DEF BcmIInv, BcmTypeOK
<1>3. UntoldIsMarked' /\ MaskIsUnseen'
  BY <1>1 DEF BcmIInv, UntoldIsMarked, MaskIsUnseen
<1>4. StartedIsTimed'
  BY <1>1 DEF BcmIInv, BcmTypeOK, StartedIsTimed
<1> QED
  BY <1>2, <1>3, <1>4 DEF BcmIInv

-----------------------------------------------------------------------------
(* Setting up and removing the receive operation *)

LEMMA UnseenIsTyped == Unseen \in [recv : BOOLEAN, thr : BOOLEAN, val : Contents]
  BY DEF Unseen, Contents

LEMMA RxSetupKeeps ==
    ASSUME BcmIInv, NEW op \in [on : {TRUE}, mode : {"id", "one", "mux"}, rtr : BOOLEAN,
                                ival1 : BOOLEAN, ival2 : BOOLEAN, resume : BOOLEAN, auto : BOOLEAN],
           NEW set \in BOOLEAN, NEW start \in BOOLEAN, bcm_rx_setup(op, set, start)
    PROVE  BcmIInv'
<1>0. BcmTypeOK
  BY DEF BcmIInv
<1>1. /\ op.rtr => op.mode = "one"
      /\ rxop.on => BcmFrames(op.mode) <= BcmFrames(rxop.mode)
      /\ rxop' = [op EXCEPT !.ival1 = rxop.ival1, !.ival2 = rxop.ival2]
      /\ last' = [i \in Index |-> IF ~ rxop.on \/ (op.mode = "one" /\ i = 0) \/ op.mode = "mux"
                                  THEN Unseen ELSE last[i]]
      /\ bo' = [bo EXCEPT !.registered = IF rxop.on THEN @ ELSE bo.device]
      /\ kt_lastmsg' \in {kt_lastmsg, "zero"}
      /\ timers' = IF op.rtr THEN timers \ {"rx", "thr"} ELSE timers
      /\ call' = IF op.rtr THEN Idle
                 ELSE [at |-> IF set THEN "intervals" ELSE "start", start |-> start,
                       ival1 |-> set /\ op.ival1, ival2 |-> set /\ op.ival2]
      /\ UNCHANGED <<told, txop>> /\ call = Idle
  BY DEF bcm_rx_setup, Call
<1>2. BcmTypeOK'
  <2>1. last' \in [Index -> [recv : BOOLEAN, thr : BOOLEAN, val : Contents]]
    BY <1>0, <1>1, UnseenIsTyped DEF BcmTypeOK
  <2>2. rxop' \in [on : BOOLEAN, mode : {"id", "one", "mux"}, rtr : BOOLEAN, ival1 : BOOLEAN,
                   ival2 : BOOLEAN, resume : BOOLEAN, auto : BOOLEAN]
    BY <1>0, <1>1, Zenon DEF BcmTypeOK
  <2>3. call' \in [at : {"none", "intervals", "cancel", "flush", "start", "kill"}, start : BOOLEAN,
                   ival1 : BOOLEAN, ival2 : BOOLEAN]
    BY <1>1 DEF Idle
  <2>4. bo' \in [bound : BOOLEAN, device : BOOLEAN, registered : BOOLEAN]
    BY <1>0, <1>1 DEF BcmTypeOK
  <2> QED
    BY <1>0, <1>1, <2>1, <2>2, <2>3, <2>4 DEF BcmTypeOK
<1>3. rxop'.mode = op.mode
  BY <1>1
<1>4. UntoldIsMarked'
  <2> SUFFICES ASSUME NEW j \in Used(op.mode)
               PROVE  /\ last'[j].recv /\ told[j] # last'[j].val => last'[j].thr
                      /\ last'[j].thr => timers' \cap {"thr", "thr_tsklet"} # {}
    BY <1>1, <1>3 DEF UntoldIsMarked
  <2>1. j \in Index
    BY UsedInIndex
  <2>2. CASE last'[j] = Unseen
    BY <2>2 DEF Unseen
  <2>3. CASE last'[j] # Unseen
    <3>1. rxop.on /\ op.mode = "id" /\ j = 0 /\ last'[j] = last[j]
      BY <1>1, <2>1, <2>3 DEF Used
    <3>2. timers' = timers /\ call.at # "flush"
      BY <1>1, <3>1 DEF Idle
    <3>3. CASE rxop.mode = "mux"
      BY <2>3, <3>1, <3>3 DEF BcmIInv, MaskIsUnseen
    <3>4. CASE rxop.mode # "mux"
      BY <3>1, <3>2, <3>4 DEF BcmIInv, UntoldIsMarked, Used
    <3> QED
      BY <3>3, <3>4
  <2> QED
    BY <2>2, <2>3
<1>5. MaskIsUnseen'
  BY <1>1, <1>3 DEF MaskIsUnseen, Index
<1>6. StartedIsTimed'
  BY <1>1 DEF BcmIInv, StartedIsTimed, Idle
<1> QED
  BY <1>2, <1>4, <1>5, <1>6 DEF BcmIInv

\* The set-up goes on: the intervals, the timer is cancelled, the timer is started.
LEMMA SetupKeeps ==
    ASSUME BcmIInv, rx_setup_intervals \/ rx_setup_cancel \/ rx_setup_start
    PROVE  BcmIInv'
<1>0. BcmTypeOK
  BY DEF BcmIInv
<1>1. UNCHANGED <<bo, last, told, txop>> /\ kt_lastmsg' \in {kt_lastmsg, "zero"}
  BY DEF rx_setup_intervals, rx_setup_cancel, rx_setup_start
<1>2. rxop' = rxop \/ rxop' = [rxop EXCEPT !.ival1 = call.ival1, !.ival2 = call.ival2]
  BY DEF rx_setup_intervals, rx_setup_cancel, rx_setup_start
<1>3. /\ call'.at \notin {"kill"} /\ call.at \notin {"flush", "kill"}
      /\ call' \in [at : {"none", "intervals", "cancel", "flush", "start", "kill"}, start : BOOLEAN,
                    ival1 : BOOLEAN, ival2 : BOOLEAN]
  <2>1. \/ call.at = "intervals" /\ call' = [call EXCEPT !.at = "cancel"]
        \/ call.at = "cancel" /\ call' = [call EXCEPT !.at = "flush"]
        \/ call.at = "start" /\ call' = Idle
    BY DEF rx_setup_intervals, rx_setup_cancel, rx_setup_start
  <2>2. call \in [at : {"none", "intervals", "cancel", "flush", "start", "kill"}, start : BOOLEAN,
                  ival1 : BOOLEAN, ival2 : BOOLEAN]
    BY <1>0 DEF BcmTypeOK
  <2>3. CASE call' = Idle /\ call.at = "start"
    BY <2>3 DEF Idle
  <2>4. ASSUME NEW at \in {"cancel", "flush"}, call' = [call EXCEPT !.at = at], call.at \in {"intervals", "cancel"}
        PROVE  /\ call'.at \notin {"kill"} /\ call.at \notin {"flush", "kill"}
               /\ call' \in [at : {"none", "intervals", "cancel", "flush", "start", "kill"}, start : BOOLEAN,
                             ival1 : BOOLEAN, ival2 : BOOLEAN]
    BY <2>2, <2>4
  <2> QED
    BY <2>1, <2>3, <2>4
<1>4. /\ timers' \subseteq timers \cup {"rx"}
      /\ timers \subseteq timers' \cup {"rx", "thr"}
      /\ call'.at # "flush" => timers \subseteq timers' \cup {"rx"}
  BY <1>0 DEF rx_setup_intervals, rx_setup_cancel, rx_setup_start, BcmTypeOK
<1>5. rxop'.on = rxop.on /\ rxop'.mode = rxop.mode
  BY <1>0, <1>2, Zenon DEF BcmTypeOK
<1>6. BcmTypeOK'
  <2>1. rxop' \in [on : BOOLEAN, mode : {"id", "one", "mux"}, rtr : BOOLEAN, ival1 : BOOLEAN,
                   ival2 : BOOLEAN, resume : BOOLEAN, auto : BOOLEAN]
    <3>1. rxop \in [on : BOOLEAN, mode : {"id", "one", "mux"}, rtr : BOOLEAN, ival1 : BOOLEAN,
                    ival2 : BOOLEAN, resume : BOOLEAN, auto : BOOLEAN]
      BY <1>0 DEF BcmTypeOK
    <3>2. call.ival1 \in BOOLEAN /\ call.ival2 \in BOOLEAN
      BY <1>0 DEF BcmTypeOK
    <3>3. ASSUME NEW a \in BOOLEAN, NEW b \in BOOLEAN
          PROVE  [rxop EXCEPT !.ival1 = a, !.ival2 = b] \in
                   [on : BOOLEAN, mode : {"id", "one", "mux"}, rtr : BOOLEAN, ival1 : BOOLEAN,
                    ival2 : BOOLEAN, resume : BOOLEAN, auto : BOOLEAN]
      BY <3>1, Zenon
    <3> QED
      <4>1. CASE rxop' = rxop
        BY <3>1, <4>1
      <4>2. CASE rxop' = [rxop EXCEPT !.ival1 = call.ival1, !.ival2 = call.ival2]
        <5> DEFINE a == call.ival1
                   b == call.ival2
        <5>1. a \in BOOLEAN /\ b \in BOOLEAN /\ rxop' = [rxop EXCEPT !.ival1 = a, !.ival2 = b]
          BY <3>2, <4>2
        <5> HIDE DEF a, b
        <5> QED
          BY <3>3, <5>1, Zenon
      <4> QED
        BY <1>2, <4>1, <4>2
  <2> QED
    BY <1>0, <1>1, <1>3, <1>4, <2>1 DEF BcmTypeOK
<1>7. UntoldIsMarked'
  BY <1>1, <1>3, <1>4, <1>5 DEF BcmIInv, UntoldIsMarked
<1>8. MaskIsUnseen' /\ StartedIsTimed'
  BY <1>1, <1>3, <1>4, <1>5 DEF BcmIInv, MaskIsUnseen, StartedIsTimed
<1> QED
  BY <1>6, <1>7, <1>8 DEF BcmIInv

\* bcm_delete_rx_op and bcm_release
LEMMA RxRemovalKeeps == ASSUME BcmIInv, bcm_delete_rx_op \/ bcm_release PROVE BcmIInv'
<1>0. BcmTypeOK
  BY DEF BcmIInv
<1>1. /\ rxop' = NoRx /\ last' = [i \in Index |-> Unseen] /\ told' = [i \in Index |-> NoFrame]
      /\ kt_lastmsg' = "zero" /\ UNCHANGED txop
      /\ timers' \subseteq timers
  BY DEF bcm_delete_rx_op, bcm_release, WithoutRx
<1>2. BcmTypeOK'
  <2>1. bo' \in [bound : BOOLEAN, device : BOOLEAN, registered : BOOLEAN]
    BY <1>0, Zenon DEF bcm_delete_rx_op, bcm_release, BcmTypeOK
  <2>2. call' \in [at : {"none", "intervals", "cancel", "flush", "start", "kill"}, start : BOOLEAN,
                   ival1 : BOOLEAN, ival2 : BOOLEAN]
    BY <1>0, Zenon DEF bcm_delete_rx_op, bcm_release, BcmTypeOK, Idle
  <2>3. /\ last' \in [Index -> [recv : BOOLEAN, thr : BOOLEAN, val : Contents]]
        /\ told' \in [Index -> Contents]
    BY <1>1, UnseenIsTyped DEF Contents
  <2> QED
    BY <1>0, <1>1, <2>1, <2>2, <2>3 DEF BcmTypeOK, NoRx
<1>3. UntoldIsMarked' /\ MaskIsUnseen'
  BY <1>1 DEF UntoldIsMarked, MaskIsUnseen, NoRx
<1>4. StartedIsTimed'
  BY <1>0 DEF bcm_delete_rx_op, bcm_release, BcmIInv, StartedIsTimed, Idle, WithoutRx
<1> QED
  BY <1>2, <1>3, <1>4 DEF BcmIInv

-----------------------------------------------------------------------------
(* Transmitting *)

\* What a step does that leaves the receive operation alone
TxStep == UNCHANGED <<bo, rxop, last, told, kt_lastmsg>>

LEMMA TxStepKeeps ==
    ASSUME BcmIInv, TxStep, UNCHANGED call, StartedIsTimed',
           txop' \in [on : BOOLEAN, count : Nat, ival1 : BOOLEAN, ival2 : BOOLEAN, started : BOOLEAN,
                      dangling : BOOLEAN],
           timers' \subseteq timers \cup {"tx", "tx_tsklet"}, timers \subseteq timers' \cup {"tx", "tx_tsklet"}
    PROVE  BcmIInv'
<1>1. BcmTypeOK'
  BY DEF BcmIInv, BcmTypeOK, TxStep
<1>2. UntoldIsMarked' /\ MaskIsUnseen'
  BY DEF BcmIInv, UntoldIsMarked, MaskIsUnseen, TxStep
<1> QED
  BY <1>1, <1>2 DEF BcmIInv

LEMMA TxTimeoutKeeps == ASSUME BcmIInv, bcm_tx_timeout_handler PROVE BcmIInv'
<1>1. TxStep /\ UNCHANGED <<call, txop>> /\ timers' = (timers \ {"tx"}) \cup {"tx_tsklet"}
  BY DEF TxStep, bcm_tx_timeout_handler
<1>2. StartedIsTimed'
  BY <1>1 DEF StartedIsTimed
<1> QED
  BY <1>1, <1>2, TxStepKeeps DEF BcmIInv, BcmTypeOK

\* bcm_tx_start_timer: what is started is timed.
LEMMA StartTimed ==
    ASSUME NEW op \in [on : BOOLEAN, count : Nat, ival1 : BOOLEAN, ival2 : BOOLEAN, started : BOOLEAN,
                       dangling : BOOLEAN],
           NEW tm, bcm_tx_start_timer(op, tm)
    PROVE  /\ txop' \in [on : BOOLEAN, count : Nat, ival1 : BOOLEAN, ival2 : BOOLEAN, started : BOOLEAN,
                         dangling : BOOLEAN]
           /\ txop'.started => timers' \cap {"tx", "tx_tsklet"} # {}
           /\ timers' \subseteq tm \cup {"tx"} /\ tm \subseteq timers'
  BY DEF bcm_tx_start_timer, MayStart

LEMMA TxTaskletKeeps == ASSUME BcmIInv, bcm_tx_timeout_tsklet PROVE BcmIInv'
<1> DEFINE op == [txop EXCEPT !.count = IF txop.ival1 /\ @ > 0 THEN @ - 1 ELSE @]
           tm == timers \ {"tx_tsklet"}
<1>1. TxStep /\ UNCHANGED call /\ bcm_tx_start_timer(op, tm)
  BY DEF TxStep, bcm_tx_timeout_tsklet
<1>2. op \in [on : BOOLEAN, count : Nat, ival1 : BOOLEAN, ival2 : BOOLEAN, started : BOOLEAN,
              dangling : BOOLEAN]
  BY DEF BcmIInv, BcmTypeOK
<1>3. tm \subseteq timers /\ timers \subseteq tm \cup {"tx", "tx_tsklet"}
  OBVIOUS
<1> HIDE DEF op, tm
<1>4. /\ txop' \in [on : BOOLEAN, count : Nat, ival1 : BOOLEAN, ival2 : BOOLEAN, started : BOOLEAN,
                    dangling : BOOLEAN]
      /\ txop'.started => timers' \cap {"tx", "tx_tsklet"} # {}
      /\ timers' \subseteq tm \cup {"tx"} /\ tm \subseteq timers'
  BY <1>1, <1>2, StartTimed
<1>5. StartedIsTimed'
  BY <1>4 DEF StartedIsTimed
<1>6. timers' \subseteq timers \cup {"tx", "tx_tsklet"} /\ timers \subseteq timers' \cup {"tx", "tx_tsklet"}
  BY <1>3, <1>4
<1> QED
  BY <1>1, <1>4, <1>5, <1>6, TxStepKeeps

LEMMA TxSetupKeeps ==
    ASSUME BcmIInv, NEW n \in Nat, NEW ival1 \in BOOLEAN, NEW ival2 \in BOOLEAN,
           NEW set \in BOOLEAN, NEW start \in BOOLEAN,
           bcm_tx_setup([NoTx EXCEPT !.count = n, !.ival1 = ival1, !.ival2 = ival2], set, start)
    PROVE  BcmIInv'
<1> DEFINE op == IF set THEN [txop EXCEPT !.on = TRUE, !.count = n, !.ival1 = ival1,
                                          !.ival2 = ival2, !.started = @ /\ (ival1 \/ ival2)]
                 ELSE [txop EXCEPT !.on = TRUE]
           tm == IF set /\ ~ (ival1 \/ ival2) THEN timers \ {"tx"} ELSE timers
           next == [op EXCEPT !.count = IF @ > 0 THEN @ - 1 ELSE @]
           ms == tm \ {"tx"}
<1>1. TxStep /\ UNCHANGED call /\ call = Idle
  BY DEF TxStep, bcm_tx_setup, Call
<1>2. op \in [on : BOOLEAN, count : Nat, ival1 : BOOLEAN, ival2 : BOOLEAN, started : BOOLEAN,
              dangling : BOOLEAN]
  BY ZenonT(60) DEF BcmIInv, BcmTypeOK
<1>3. next \in [on : BOOLEAN, count : Nat, ival1 : BOOLEAN, ival2 : BOOLEAN, started : BOOLEAN,
                dangling : BOOLEAN]
  <2>1. (IF op.count > 0 THEN op.count - 1 ELSE op.count) \in Nat
    BY <1>2
  <2> HIDE DEF op
  <2> QED
    BY <1>2, <2>1
<1>4. tm \subseteq timers /\ timers \subseteq tm \cup {"tx"} /\ ms \subseteq timers /\ timers \subseteq ms \cup {"tx"}
  OBVIOUS
<1>5. \/ bcm_tx_start_timer(next, ms)
      \/ txop' = op /\ timers' = tm
  BY DEF bcm_tx_setup, NoTx
<1>6. CASE bcm_tx_start_timer(next, ms)
  <2> HIDE DEF op, tm, next, ms
  <2>1. /\ txop' \in [on : BOOLEAN, count : Nat, ival1 : BOOLEAN, ival2 : BOOLEAN, started : BOOLEAN,
                      dangling : BOOLEAN]
        /\ txop'.started => timers' \cap {"tx", "tx_tsklet"} # {}
        /\ timers' \subseteq ms \cup {"tx"} /\ ms \subseteq timers'
    BY <1>3, <1>6, StartTimed
  <2>2. StartedIsTimed'
    BY <2>1 DEF StartedIsTimed
  <2>3. timers' \subseteq timers \cup {"tx", "tx_tsklet"} /\ timers \subseteq timers' \cup {"tx", "tx_tsklet"}
    BY <1>4, <2>1
  <2> QED
    BY <1>1, <2>1, <2>2, <2>3, TxStepKeeps
<1>7. CASE txop' = op /\ timers' = tm
  <2>1. op.started => txop.started /\ tm = timers
    BY <1>2 DEF BcmIInv, BcmTypeOK
  <2>2. StartedIsTimed'
    BY <1>1, <1>7, <2>1 DEF BcmIInv, StartedIsTimed, Idle
  <2> HIDE DEF op, tm
  <2>3. timers' \subseteq timers \cup {"tx", "tx_tsklet"} /\ timers \subseteq timers' \cup {"tx", "tx_tsklet"}
    BY <1>4, <1>7
  <2> QED
    BY <1>1, <1>2, <1>7, <2>2, <2>3, TxStepKeeps
<1> QED
  BY <1>5, <1>6, <1>7

\* bcm_delete_tx_op and bcm_remove_op
LEMMA TxRemovalKeeps == ASSUME BcmIInv, bcm_delete_tx_op \/ bcm_remove_op PROVE BcmIInv'
<1>0. BcmTypeOK
  BY DEF BcmIInv
<1>1. TxStep /\ timers' = timers \ {"tx"} /\ call.at # "flush" /\ call'.at # "flush"
  BY DEF TxStep, bcm_delete_tx_op, bcm_remove_op, Call, Idle
<1>2. /\ call' \in [at : {"none", "intervals", "cancel", "flush", "start", "kill"}, start : BOOLEAN,
                    ival1 : BOOLEAN, ival2 : BOOLEAN]
      /\ txop' \in [on : BOOLEAN, count : Nat, ival1 : BOOLEAN, ival2 : BOOLEAN, started : BOOLEAN,
                    dangling : BOOLEAN]
  <2>1. (txop' = txop \/ txop' = [NoTx EXCEPT !.dangling = txop.dangling \/ "tx" \in timers])
        /\ (call' = Idle \/ call' = [Idle EXCEPT !.at = "kill"])
    BY DEF bcm_delete_tx_op, bcm_remove_op
  <2>2. txop' \in [on : BOOLEAN, count : Nat, ival1 : BOOLEAN, ival2 : BOOLEAN, started : BOOLEAN,
                   dangling : BOOLEAN]
    <3>1. CASE txop' = txop
      BY <1>0, <3>1 DEF BcmTypeOK
    <3>2. ASSUME NEW d \in BOOLEAN, txop' = [NoTx EXCEPT !.dangling = d]
          PROVE  txop' \in [on : BOOLEAN, count : Nat, ival1 : BOOLEAN, ival2 : BOOLEAN,
                            started : BOOLEAN, dangling : BOOLEAN]
      BY <3>2, Zenon DEF NoTx
    <3>3. (txop.dangling \/ "tx" \in timers) \in BOOLEAN
      OBVIOUS
    <3> QED
      BY <2>1, <3>1, <3>2, <3>3, Zenon
  <2>3. CASE call' = Idle
    BY <2>2, <2>3 DEF Idle
  <2>4. CASE call' = [Idle EXCEPT !.at = "kill"]
    BY <2>2, <2>4, Zenon DEF Idle
  <2> QED
    BY <2>1, <2>3, <2>4
<1>3. BcmTypeOK'
  BY <1>0, <1>1, <1>2 DEF TxStep, BcmTypeOK
<1>4. UntoldIsMarked' /\ MaskIsUnseen'
  BY <1>1 DEF BcmIInv, UntoldIsMarked, MaskIsUnseen, TxStep
<1>5. StartedIsTimed'
  BY DEF bcm_delete_tx_op, bcm_remove_op, StartedIsTimed, Idle, NoTx
<1> QED
  BY <1>3, <1>4, <1>5 DEF BcmIInv

-----------------------------------------------------------------------------
(* The socket, the device and time *)

LEMMA SocketKeeps ==
    ASSUME BcmIInv, bcm_connect \/ bcm_notifier \/ DeviceComes \/ IntervalPasses
    PROVE  BcmIInv'
<1>1. UNCHANGED <<rxop, last, told, txop, timers, call>>
  BY DEF bcm_connect, bcm_notifier, DeviceComes, IntervalPasses
<1>2. BcmTypeOK'
  <2>1. kt_lastmsg' \in {kt_lastmsg, "old"}
    BY DEF bcm_connect, bcm_notifier, DeviceComes, IntervalPasses
  <2>2. bo' \in [bound : BOOLEAN, device : BOOLEAN, registered : BOOLEAN]
    <3>0. bo \in [bound : BOOLEAN, device : BOOLEAN, registered : BOOLEAN]
      BY DEF BcmIInv, BcmTypeOK
    <3>1. CASE bo' = bo \/ bo' = [bo EXCEPT !.bound = TRUE]
      BY <3>0, <3>1, Zenon
    <3>2. CASE bo' = [bo EXCEPT !.device = TRUE]
      BY <3>0, <3>2, Zenon
    <3>3. CASE bo' = [bound |-> FALSE, device |-> FALSE, registered |-> FALSE]
      BY <3>3
    <3> QED
      BY <3>1, <3>2, <3>3 DEF bcm_connect, bcm_notifier, DeviceComes, IntervalPasses
  <2> QED
    BY <1>1, <2>1, <2>2 DEF BcmIInv, BcmTypeOK
<1>3. UntoldIsMarked' /\ MaskIsUnseen' /\ StartedIsTimed'
  BY <1>1 DEF BcmIInv, UntoldIsMarked, MaskIsUnseen, StartedIsTimed
<1> QED
  BY <1>2, <1>3 DEF BcmIInv

LEMMA BcmNextKeeps == BcmIInv /\ [BcmNext]_bcmVars => BcmIInv'
<1> SUFFICES ASSUME BcmIInv, [BcmNext]_bcmVars PROVE BcmIInv'
  OBVIOUS
<1>1. CASE UNCHANGED bcmVars
  BY <1>1 DEF bcmVars, BcmIInv, BcmTypeOK, UntoldIsMarked, MaskIsUnseen, StartedIsTimed
<1>2. CASE \E f \in FrameSet : bcm_rx_handler(f)
  BY <1>2, RxHandlerKeeps
<1>3. CASE bcm_rx_timeout_handler \/ bcm_rx_thr_handler \/ bcm_rx_thr_tsklet
  BY <1>3, RxTimeoutKeeps, ThrHandlerKeeps, ThrTaskletKeeps
<1>4. CASE \E mode \in {"id", "one", "mux"}, rtr, ival1, ival2, carry, auto, set, start \in BOOLEAN :
             bcm_rx_setup([on |-> TRUE, mode |-> mode, rtr |-> rtr, ival1 |-> ival1, ival2 |-> ival2,
                           resume |-> carry, auto |-> auto], set, start)
  <2>1. PICK mode \in {"id", "one", "mux"}, rtr \in BOOLEAN, ival1 \in BOOLEAN, ival2 \in BOOLEAN,
             carry \in BOOLEAN, auto \in BOOLEAN, set \in BOOLEAN, start \in BOOLEAN :
          bcm_rx_setup([on |-> TRUE, mode |-> mode, rtr |-> rtr, ival1 |-> ival1, ival2 |-> ival2,
                        resume |-> carry, auto |-> auto], set, start)
    BY <1>4, Zenon
  <2> DEFINE op == [on |-> TRUE, mode |-> mode, rtr |-> rtr, ival1 |-> ival1, ival2 |-> ival2,
                    resume |-> carry, auto |-> auto]
  <2>2. op \in [on : {TRUE}, mode : {"id", "one", "mux"}, rtr : BOOLEAN,
                ival1 : BOOLEAN, ival2 : BOOLEAN, resume : BOOLEAN, auto : BOOLEAN]
    OBVIOUS
  <2>3. bcm_rx_setup(op, set, start)
    BY <2>1
  <2> HIDE DEF op
  <2> QED
    BY <2>2, <2>3, RxSetupKeeps, Zenon
<1>5. CASE rx_setup_intervals \/ rx_setup_cancel \/ rx_setup_flush \/ rx_setup_start
  BY <1>5, SetupKeeps, SetupFlushKeeps
<1>6. CASE bcm_delete_rx_op \/ bcm_release
  BY <1>6, RxRemovalKeeps
<1>7. CASE bcm_tx_timeout_handler \/ bcm_tx_timeout_tsklet
  BY <1>7, TxTimeoutKeeps, TxTaskletKeeps
<1>8. CASE \E n \in 0 .. MaxCount, ival1, ival2, set, start \in BOOLEAN :
             bcm_tx_setup([NoTx EXCEPT !.count = n, !.ival1 = ival1, !.ival2 = ival2], set, start)
  <2>1. PICK n \in 0 .. MaxCount, ival1 \in BOOLEAN, ival2 \in BOOLEAN, set \in BOOLEAN, start \in BOOLEAN :
          bcm_tx_setup([NoTx EXCEPT !.count = n, !.ival1 = ival1, !.ival2 = ival2], set, start)
    BY <1>8, Zenon
  <2>2. n \in Nat
    BY BcmAssumption
  <2> QED
    BY <2>1, <2>2, TxSetupKeeps, Zenon
<1>9. CASE bcm_delete_tx_op \/ bcm_remove_op
  BY <1>9, TxRemovalKeeps
<1>10. CASE bcm_connect \/ bcm_notifier \/ DeviceComes \/ IntervalPasses
  BY <1>10, SocketKeeps
<1> QED
  BY <1>1, <1>2, <1>3, <1>4, <1>5, <1>6, <1>7, <1>8, <1>9, <1>10, Zenon DEF BcmNext

\* The inductive invariant of the broadcast manager holds in every reachable state, for all
\* multiplexer values, contents, counts and numbers of system calls.
THEOREM BcmInvariant == BcmSpec => []BcmIInv
<1>1. BcmInit => BcmIInv
  BY BcmInitial
<1>2. BcmIInv /\ [BcmNext]_bcmVars => BcmIInv'
  BY BcmNextKeeps
<1> QED
  BY <1>1, <1>2, PTL DEF BcmSpec

\* What the broadcast manager (bcm_rx_handler, bcm_rx_setup, bcm_tx_setup and their timers)
\* owes always has a timer: content the user was not told is marked and the throttling timer
\* or its tasklet is under way, and a transmission under way has its timer or its tasklet.
THEOREM OwedIsTimed == BcmSpec => []OwedHasTimer
<1>1. BcmIInv => OwedHasTimer
  BY DEF BcmIInv, UntoldIsMarked, StartedIsTimed, OwedHasTimer
<1> QED
  BY <1>1, BcmInvariant, PTL
-----------------------------------------------------------------------------
(* Raw sockets: what a filter lets through                                   *)

\* The entry that find_rcv_list makes of a filter gets the frames that the filter matches.
LEMMA FilterMeans ==
    ASSUME NEW f \in Filter, Answerable(f), NEW id \in Frames
    PROVE  Gets(find_rcv_list(f), id) <=> Matches(f, id)
<1> DEFINE C == f.can_id
           M == f.mask
           m == IF "EFF" \in M /\ "EFF" \notin C THEN M \cap {"s", "EFF", "RTR"} ELSE M
           c == C \cap m
           single == {"EFF", "RTR"} \subseteq m /\ "RTR" \notin c
           e == find_rcv_list(f)
<1>0. SUFFICES Gets(e, id) <=> Matches(f, id)
  OBVIOUS
<1>1. /\ C \subseteq {"s", "e", "EFF", "RTR", "INV"} /\ M \subseteq {"s", "e", "EFF", "RTR", "ERR"}
      /\ "ERR" \notin id => id \subseteq {"s", "e", "EFF", "RTR"} /\ ("e" \in id => "EFF" \in id)
  BY DEF Filter, Frames
<1>2. {"s", "EFF", "RTR"} = SFF_MASK \cup EFF_RTR_FLAGS /\ EFF_RTR_FLAGS = {"EFF", "RTR"}
      /\ {"s", "e", "EFF", "RTR"} = EFF_MASK \cup EFF_RTR_FLAGS /\ SFF_MASK = {"s"}
  BY DEF SFF_MASK, EFF_RTR_FLAGS, EFF_MASK
<1>3. CASE "ERR" \in M
  <2>1. e = [list |-> "ERR", can_id |-> C, mask |-> M \ {"ERR"}]
    BY <1>3 DEF find_rcv_list
  <2>2. e.list = "ERR" /\ e.mask = M \ {"ERR"}
    BY <2>1
  <2> QED
    BY <1>3, <2>2 DEF Gets, Matches
<1>4. CASE "ERR" \notin M
  <2> DEFINE list == CASE "INV" \in C -> "INV"
                       [] "INV" \notin C /\ m = {} -> "ALL"
                       [] single /\ "INV" \notin C /\ "EFF" \in c
                            /\ m = {"s", "e", "EFF", "RTR"} -> "EFF"
                       [] single /\ "INV" \notin C /\ "EFF" \notin c
                            /\ m = {"s", "EFF", "RTR"} -> "SFF"
                       [] OTHER -> "FIL"
  <2>1. e = [list |-> list, can_id |-> c, mask |-> m]
    BY <1>2, <1>4 DEF find_rcv_list
  <2>2. e.list = list /\ e.can_id = c /\ e.mask = m
    BY <2>1
  <2> HIDE DEF e
  <2>3. \/ "INV" \in C /\ list = "INV"
        \/ "INV" \notin C /\ m = {} /\ list = "ALL"
        \/ /\ single /\ "INV" \notin C /\ "EFF" \in c /\ m = {"s", "e", "EFF", "RTR"}
           /\ list = "EFF"
        \/ /\ single /\ "INV" \notin C /\ "EFF" \notin c /\ m = {"s", "EFF", "RTR"}
           /\ list = "SFF"
        \/ "INV" \notin C /\ list = "FIL"
    OBVIOUS
  <2> HIDE DEF list
  <2>4. CASE "ERR" \in id
    <3>1. list # "ERR"
      BY <2>3
    <3> QED
      BY <1>4, <2>2, <2>4, <3>1, Zenon DEF Gets, Matches
  <2>5. CASE "ERR" \notin id
    <3>0. Matches(f, id) <=> (id \cap M = C \cap M) # ("INV" \in C)
      BY <1>4, <2>5 DEF Matches
    <3>1. /\ "INV" \in C => (Matches(f, id) <=> id \cap M # C \cap M)
          /\ "INV" \notin C => (Matches(f, id) <=> id \cap M = C \cap M)
      BY <3>0
    <3>2. id \cap m = c <=> id \cap M = C \cap M
      <4>1. CASE "EFF" \in M /\ "EFF" \notin C
        <5>1. "e" \notin M \/ "e" \notin C
          BY <1>4, <4>1 DEF Answerable
        <5>2. m = M \cap {"s", "EFF", "RTR"}
          BY <4>1
        <5>3. ASSUME id \cap m = c PROVE id \cap M = C \cap M
          <6>1. "EFF" \notin id /\ "e" \notin id
            BY <1>1, <2>5, <4>1, <5>2, <5>3
          <6>2. id \cap M = id \cap m
            BY <1>1, <2>5, <5>2, <6>1
          <6>3. C \cap M = C \cap m
            BY <1>1, <1>4, <5>1, <5>2
          <6> QED
            BY <5>3, <6>2, <6>3
        <5>4. ASSUME id \cap M = C \cap M PROVE id \cap m = c
          BY <5>2, <5>4
        <5> QED
          BY <5>3, <5>4
      <4>2. CASE ~ ("EFF" \in M /\ "EFF" \notin C)
        BY <4>2
      <4> QED
        BY <4>1, <4>2
    <3> HIDE DEF m, c
    <3>3. CASE "INV" \in C /\ list = "INV"
      <4>1. Gets(e, id) <=> id \cap m # c
        BY <2>2, <2>5, <3>3 DEF Gets
      <4> QED
        BY <3>1, <3>2, <3>3, <4>1, Zenon
    <3>4. CASE "INV" \notin C /\ m = {} /\ list = "ALL"
      <4>1. Gets(e, id)
        BY <2>2, <2>5, <3>4 DEF Gets
      <4>2. id \cap m = c
        BY <3>4 DEF c
      <4> QED
        BY <3>1, <3>2, <3>4, <4>1, <4>2, Zenon
    <3>5. CASE "INV" \notin C /\ list = "FIL"
      <4>1. Gets(e, id) <=> id \cap m = c
        BY <2>2, <2>5, <3>5 DEF Gets
      <4> QED
        BY <3>1, <3>2, <3>5, <4>1, Zenon
    <3>6. CASE /\ single /\ "INV" \notin C /\ "EFF" \in c /\ m = {"s", "e", "EFF", "RTR"}
               /\ list = "EFF"
      <4>1. Gets(e, id) <=> "RTR" \notin id /\ "EFF" \in id /\ c = id
        BY <2>2, <2>5, <3>6 DEF Gets
      <4>2. id \cap m = id
        BY <1>1, <2>5, <3>6
      <4>3. c = id => "RTR" \notin id /\ "EFF" \in id
        BY <3>6
      <4> QED
        BY <3>1, <3>2, <3>6, <4>1, <4>2, <4>3, Zenon
    <3>7. CASE /\ single /\ "INV" \notin C /\ "EFF" \notin c /\ m = {"s", "EFF", "RTR"}
               /\ list = "SFF"
      <4>1. Gets(e, id) <=> "RTR" \notin id /\ "EFF" \notin id /\ c = id \cap {"s"}
        BY <1>2, <2>2, <2>5, <3>7 DEF Gets
      <4>2. id \cap m = c => "RTR" \notin id /\ "EFF" \notin id
        BY <3>7
      <4>3. "RTR" \notin id /\ "EFF" \notin id => id \cap m = id \cap {"s"}
        BY <3>7
      <4> QED
        BY <3>1, <3>2, <3>7, <4>1, <4>2, <4>3, Zenon
    <3> QED
      BY <2>3, <3>3, <3>4, <3>5, <3>6, <3>7
  <2> QED
    BY <2>4, <2>5
<1> QED
  BY <1>3, <1>4

\* The condition is exact: the entry of any other filter gets a frame that the filter does not
\* match, or fails to get one that it does match.
LEMMA UnanswerableDeviates ==
    ASSUME NEW f \in Filter, ~ Answerable(f)
    PROVE  \E id \in Frames : ~ (Gets(find_rcv_list(f), id) <=> Matches(f, id))
<1> DEFINE C == f.can_id
           M == f.mask
           m == M \cap {"s", "EFF", "RTR"}
           c == C \cap m
           single == {"EFF", "RTR"} \subseteq m /\ "RTR" \notin c
           e == find_rcv_list(f)
           list == CASE "INV" \in C -> "INV"
                     [] "INV" \notin C /\ m = {} -> "ALL"
                     [] single /\ "INV" \notin C /\ "EFF" \in c
                          /\ m = {"s", "e", "EFF", "RTR"} -> "EFF"
                     [] single /\ "INV" \notin C /\ "EFF" \notin c
                          /\ m = {"s", "EFF", "RTR"} -> "SFF"
                     [] OTHER -> "FIL"
<1>1. "ERR" \notin M /\ "EFF" \in M /\ "EFF" \notin C /\ "e" \in M /\ "e" \in C
  BY DEF Answerable
<1>2. {"s", "EFF", "RTR"} = SFF_MASK \cup EFF_RTR_FLAGS /\ EFF_RTR_FLAGS = {"EFF", "RTR"}
      /\ {"s", "e", "EFF", "RTR"} = EFF_MASK \cup EFF_RTR_FLAGS /\ SFF_MASK = {"s"}
  BY DEF SFF_MASK, EFF_RTR_FLAGS, EFF_MASK
<1>3. e = [list |-> list, can_id |-> c, mask |-> m]
  BY <1>1, <1>2 DEF find_rcv_list
<1>4. e.list = list /\ e.can_id = c /\ e.mask = m
  BY <1>3
<1>5. "EFF" \in m /\ "EFF" \notin c /\ "e" \notin c /\ "ERR" \notin c /\ c \subseteq {"s", "RTR"}
      /\ c \cap m = c
  BY <1>1
<1>6. c \in Frames
  BY <1>5 DEF Frames
<1>7. \/ "INV" \in C /\ list = "INV"
      \/ "INV" \notin C /\ list = "FIL"
      \/ "INV" \notin C /\ "RTR" \notin c /\ list = "SFF"
  BY <1>5
<1>8. c \cap M # C \cap M
  BY <1>1, <1>5
<1>9. Matches(f, c) <=> (c \cap M = C \cap M) # ("INV" \in C)
  BY <1>1, <1>5 DEF Matches
<1>10. /\ "INV" \in C => Matches(f, c)
       /\ "INV" \notin C => ~ Matches(f, c)
  BY <1>8, <1>9
<1> HIDE DEF e, m, list
<1>11. CASE "INV" \in C /\ list = "INV"
  <2>1. ~ Gets(e, c)
    BY <1>4, <1>5, <1>11 DEF Gets
  <2> QED
    BY <1>6, <1>10, <1>11, <2>1 DEF e
<1>12. CASE "INV" \notin C /\ list = "FIL"
  <2>1. Gets(e, c)
    BY <1>4, <1>5, <1>12 DEF Gets
  <2> QED
    BY <1>6, <1>10, <1>12, <2>1 DEF e
<1>13. CASE "INV" \notin C /\ "RTR" \notin c /\ list = "SFF"
  <2>1. c = c \cap SFF_MASK
    BY <1>2, <1>5, <1>13
  <2>2. Gets(e, c)
    BY <1>4, <1>5, <1>13, <2>1 DEF Gets
  <2> QED
    BY <1>6, <1>10, <1>13, <2>2 DEF e
<1> QED
  BY <1>7, <1>11, <1>12, <1>13

-----------------------------------------------------------------------------
(* Raw sockets: bags of entries                                              *)

\* How often a bag has an element.
Copies(e, B) == IF e \in DOMAIN B THEN B[e] ELSE 0

Bagged(B) == B = [e \in DOMAIN B |-> B[e]] /\ \A e \in DOMAIN B : B[e] \in Nat /\ B[e] > 0

\* Bags that have every element equally often are equal.
LEMMA BagsAreEqual ==
    ASSUME NEW A, NEW B, Bagged(A), Bagged(B), \A e : Copies(e, A) = Copies(e, B)
    PROVE  A = B
<1>1. ASSUME NEW e \in DOMAIN A PROVE e \in DOMAIN B /\ B[e] = A[e]
  <2>1. Copies(e, A) = A[e] /\ A[e] > 0 /\ A[e] \in Nat /\ Copies(e, A) = Copies(e, B)
    BY <1>1 DEF Bagged, Copies
  <2> QED
    BY <2>1 DEF Copies
<1>2. ASSUME NEW e \in DOMAIN B PROVE e \in DOMAIN A
  <2>1. Copies(e, B) = B[e] /\ B[e] > 0 /\ B[e] \in Nat /\ Copies(e, A) = Copies(e, B)
    BY <1>2 DEF Bagged, Copies
  <2> QED
    BY <2>1 DEF Copies
<1>3. DOMAIN A = DOMAIN B
  BY <1>1, <1>2
<1>4. A = [e \in DOMAIN A |-> A[e]] /\ B = [e \in DOMAIN B |-> B[e]]
  BY DEF Bagged
<1> QED
  BY <1>1, <1>3, <1>4

\* The copies in a bag, in the empty one, in a union and in a difference.
LEMMA CopiesAreCounted == ASSUME NEW B, NEW e, Bagged(B) PROVE Copies(e, B) \in Nat
  BY DEF Bagged, Copies

LEMMA EmptyIsBagged == Bagged(EmptyBag) /\ \A e : Copies(e, EmptyBag) = 0
<1>1. EmptyBag = [e \in {} |-> 1]
  BY DEF EmptyBag, SetToBag
<1>2. DOMAIN EmptyBag = {}
  BY <1>1
<1>3. EmptyBag = [e \in DOMAIN EmptyBag |-> EmptyBag[e]]
  BY <1>1, <1>2
<1> QED
  BY <1>2, <1>3 DEF Bagged, Copies

LEMMA UnionIsBagged ==
    ASSUME NEW A, NEW B, Bagged(A), Bagged(B)
    PROVE  Bagged(A (+) B) /\ \A e : Copies(e, A (+) B) = Copies(e, A) + Copies(e, B)
<1> DEFINE F == [e \in (DOMAIN A) \cup (DOMAIN B) |-> Copies(e, A) + Copies(e, B)]
<1>1. A (+) B = F
  BY DEF (+), Copies
<1>2. \A e : Copies(e, A) \in Nat /\ Copies(e, B) \in Nat
  BY CopiesAreCounted
<1>3. \A e \in DOMAIN A : Copies(e, A) > 0
  BY DEF Bagged, Copies
<1>4. \A e \in DOMAIN B : Copies(e, B) > 0
  BY DEF Bagged, Copies
<1>5. DOMAIN F = (DOMAIN A) \cup (DOMAIN B) /\ F = [e \in DOMAIN F |-> F[e]]
      /\ \A e \in (DOMAIN A) \cup (DOMAIN B) : F[e] = Copies(e, A) + Copies(e, B)
  OBVIOUS
<1>6. \A e : e \notin (DOMAIN A) \cup (DOMAIN B) => Copies(e, A) = 0 /\ Copies(e, B) = 0
  BY DEF Copies
<1> HIDE DEF F
<1>7. \A e : Copies(e, F) = Copies(e, A) + Copies(e, B)
  <2> TAKE e
  <2>1. CASE e \in (DOMAIN A) \cup (DOMAIN B)
    BY <1>5, <2>1 DEF Copies
  <2>2. CASE e \notin (DOMAIN A) \cup (DOMAIN B)
    <3>1. Copies(e, F) = 0
      BY <1>5, <2>2 DEF Copies
    <3> QED
      BY <1>6, <2>2, <3>1
  <2> QED
    BY <2>1, <2>2
<1>8. Bagged(F)
  <2>1. ASSUME NEW e \in DOMAIN F PROVE F[e] \in Nat /\ F[e] > 0
    BY <1>2, <1>3, <1>4, <1>5
  <2> QED
    BY <1>5, <2>1 DEF Bagged
<1> QED
  BY <1>1, <1>7, <1>8

LEMMA DifferenceIsBagged ==
    ASSUME NEW A, NEW B, Bagged(A), Bagged(B)
    PROVE  /\ Bagged(A (-) B)
           /\ \A e : Copies(e, A (-) B) =
                       IF Copies(e, A) > Copies(e, B) THEN Copies(e, A) - Copies(e, B) ELSE 0
<1> DEFINE G == [e \in DOMAIN A |-> IF e \in DOMAIN B THEN A[e] - B[e] ELSE A[e]]
           D == {d \in DOMAIN G : G[d] > 0}
           F == [e \in D |-> G[e]]
<1>1. A (-) B = F
  BY DEF (-)
<1>2. \A e : Copies(e, A) \in Nat /\ Copies(e, B) \in Nat
  BY CopiesAreCounted
<1>3. DOMAIN G = DOMAIN A /\ \A e \in DOMAIN A : G[e] = Copies(e, A) - Copies(e, B)
  <2>1. ASSUME NEW e \in DOMAIN A PROVE G[e] = Copies(e, A) - Copies(e, B)
    <3>1. A[e] \in Nat
      BY DEF Bagged
    <3> QED
      BY <3>1 DEF Copies
  <2> QED
    BY <2>1
<1> HIDE DEF G
<1>4. DOMAIN F = D /\ F = [e \in DOMAIN F |-> F[e]] /\ \A e \in D : F[e] = G[e]
  OBVIOUS
<1>5. D = {d \in DOMAIN A : Copies(d, A) - Copies(d, B) > 0}
  BY <1>3
<1>6. \A e : e \notin DOMAIN A => Copies(e, A) = 0
  BY DEF Copies
<1> HIDE DEF F, D
<1>7. ASSUME NEW e \in D PROVE F[e] = Copies(e, A) - Copies(e, B) /\ F[e] > 0 /\ F[e] \in Nat
  <2>1. e \in DOMAIN A /\ Copies(e, A) - Copies(e, B) > 0
    BY <1>5, <1>7
  <2>2. F[e] = Copies(e, A) - Copies(e, B)
    BY <1>3, <1>4, <1>7, <2>1
  <2> QED
    BY <1>2, <2>1, <2>2
<1>8. ASSUME NEW e
      PROVE  Copies(e, F) = IF Copies(e, A) > Copies(e, B) THEN Copies(e, A) - Copies(e, B) ELSE 0
  <2>1. CASE e \in D
    <3>1. Copies(e, F) = F[e] /\ F[e] = Copies(e, A) - Copies(e, B) /\ F[e] > 0
      BY <1>4, <1>7, <2>1 DEF Copies
    <3>2. Copies(e, A) \in Nat /\ Copies(e, B) \in Nat
      BY <1>2
    <3> QED
      BY <3>1, <3>2
  <2>2. CASE e \notin D
    <3>1. Copies(e, F) = 0
      BY <1>4, <2>2 DEF Copies
    <3>2. Copies(e, A) \in Nat /\ Copies(e, B) \in Nat
      BY <1>2
    <3>3. ~ Copies(e, A) > Copies(e, B)
      BY <1>5, <1>6, <2>2, <3>2
    <3> QED
      BY <3>1, <3>3
  <2> QED
    BY <2>1, <2>2
<1>9. Bagged(F)
  BY <1>4, <1>7 DEF Bagged
<1> QED
  BY <1>1, <1>8, <1>9

\* A bag is part of another one that has every element at least as often.
LEMMA PartByCopies ==
    ASSUME NEW A, NEW B, Bagged(A), Bagged(B), \A e : Copies(e, A) <= Copies(e, B)
    PROVE  A \sqsubseteq B
<1>1. ASSUME NEW e \in DOMAIN A PROVE e \in DOMAIN B /\ A[e] <= B[e]
  <2>1. Copies(e, A) = A[e] /\ A[e] > 0 /\ A[e] \in Nat /\ Copies(e, A) <= Copies(e, B)
    BY <1>1 DEF Bagged, Copies
  <2> QED
    BY <2>1 DEF Copies
<1> QED
  BY <1>1 DEF \sqsubseteq

\* What has been added is there to be taken away, and leaves what was there.
LEMMA AddThenRemove ==
    ASSUME NEW A, NEW B, Bagged(A), Bagged(B)
    PROVE  /\ B \sqsubseteq A (+) B /\ (A (+) B) (-) B = A
           /\ A \sqsubseteq A (+) B /\ (A (+) B) (-) A = B
<1>1. /\ Bagged(A (+) B) /\ \A e : Copies(e, A (+) B) = Copies(e, A) + Copies(e, B)
  BY UnionIsBagged
<1>2. \A e : Copies(e, A) \in Nat /\ Copies(e, B) \in Nat
  BY CopiesAreCounted
<1>3. /\ Bagged((A (+) B) (-) B)
      /\ \A e : Copies(e, (A (+) B) (-) B) =
                  IF Copies(e, A (+) B) > Copies(e, B) THEN Copies(e, A (+) B) - Copies(e, B) ELSE 0
  BY <1>1, DifferenceIsBagged
<1>4. /\ Bagged((A (+) B) (-) A)
      /\ \A e : Copies(e, (A (+) B) (-) A) =
                  IF Copies(e, A (+) B) > Copies(e, A) THEN Copies(e, A (+) B) - Copies(e, A) ELSE 0
  BY <1>1, DifferenceIsBagged
<1>5. \A e : Copies(e, (A (+) B) (-) B) = Copies(e, A)
  BY <1>1, <1>2, <1>3
<1>6. \A e : Copies(e, (A (+) B) (-) A) = Copies(e, B)
  BY <1>1, <1>2, <1>4
<1>7. \A e : Copies(e, A) <= Copies(e, A (+) B) /\ Copies(e, B) <= Copies(e, A (+) B)
  BY <1>1, <1>2
<1>8. (A (+) B) (-) B = A
  BY <1>3, <1>5, BagsAreEqual
<1>9. (A (+) B) (-) A = B
  BY <1>4, <1>6, BagsAreEqual
<1>10. B \sqsubseteq A (+) B /\ A \sqsubseteq A (+) B
  BY <1>1, <1>7, PartByCopies
<1> QED
  BY <1>8, <1>9, <1>10

\* Unions are the same in any order.
LEMMA UnionsCommute ==
    ASSUME NEW A, NEW B, Bagged(A), Bagged(B) PROVE A (+) B = B (+) A
<1>1. /\ Bagged(A (+) B) /\ \A e : Copies(e, A (+) B) = Copies(e, A) + Copies(e, B)
  BY UnionIsBagged
<1>2. /\ Bagged(B (+) A) /\ \A e : Copies(e, B (+) A) = Copies(e, B) + Copies(e, A)
  BY UnionIsBagged
<1>3. \A e : Copies(e, A) \in Nat /\ Copies(e, B) \in Nat
  BY CopiesAreCounted
<1>4. \A e : Copies(e, A (+) B) = Copies(e, B (+) A)
  BY <1>1, <1>2, <1>3
<1> QED
  BY <1>1, <1>2, <1>4, BagsAreEqual

LEMMA UnionsAssociate ==
    ASSUME NEW A, NEW B, NEW C, Bagged(A), Bagged(B), Bagged(C)
    PROVE  (A (+) B) (+) C = A (+) (B (+) C)
<1>1. /\ Bagged(A (+) B) /\ \A e : Copies(e, A (+) B) = Copies(e, A) + Copies(e, B)
  BY UnionIsBagged
<1>2. /\ Bagged(B (+) C) /\ \A e : Copies(e, B (+) C) = Copies(e, B) + Copies(e, C)
  BY UnionIsBagged
<1>3. /\ Bagged((A (+) B) (+) C)
      /\ \A e : Copies(e, (A (+) B) (+) C) = Copies(e, A (+) B) + Copies(e, C)
  BY <1>1, UnionIsBagged
<1>4. /\ Bagged(A (+) (B (+) C))
      /\ \A e : Copies(e, A (+) (B (+) C)) = Copies(e, A) + Copies(e, B (+) C)
  BY <1>2, UnionIsBagged
<1>5. \A e : Copies(e, A) \in Nat /\ Copies(e, B) \in Nat /\ Copies(e, C) \in Nat
  BY CopiesAreCounted
<1>6. \A e : Copies(e, (A (+) B) (+) C) = Copies(e, A (+) (B (+) C))
  BY <1>1, <1>2, <1>3, <1>4, <1>5
<1> QED
  BY <1>3, <1>4, <1>6, BagsAreEqual

LEMMA UnionWithEmpty ==
    ASSUME NEW A, Bagged(A)
    PROVE  EmptyBag (+) A = A /\ A (-) A = EmptyBag /\ A \sqsubseteq A
<1>1. Bagged(EmptyBag) /\ \A e : Copies(e, EmptyBag) = 0
  BY EmptyIsBagged
<1>2. /\ Bagged(EmptyBag (+) A)
      /\ \A e : Copies(e, EmptyBag (+) A) = Copies(e, EmptyBag) + Copies(e, A)
  BY <1>1, UnionIsBagged
<1>3. \A e : Copies(e, A) \in Nat
  BY CopiesAreCounted
<1>4. EmptyBag (+) A = A
  BY <1>1, <1>2, <1>3, BagsAreEqual
<1>5. /\ A \sqsubseteq EmptyBag (+) A /\ (EmptyBag (+) A) (-) A = EmptyBag
  BY <1>1, AddThenRemove
<1> QED
  BY <1>4, <1>5

-----------------------------------------------------------------------------
(* Raw sockets: the entries of a list of filters                             *)

\* The places of a list of filters that give an entry
Places(fs, e) == {i \in DOMAIN fs : find_rcv_list(fs[i]) = e}

LEMMA PlacesAreFinite ==
    ASSUME NEW S, NEW fs \in Seq(S), NEW e
    PROVE  /\ IsFiniteSet(Places(fs, e)) /\ Cardinality(Places(fs, e)) \in Nat
           /\ ExistsBijection(1 .. Cardinality(Places(fs, e)), Places(fs, e))
           /\ Cardinality(Places(fs, e)) = 0 <=> Places(fs, e) = {}
<1>1. Len(fs) \in Nat /\ DOMAIN fs = 1 .. Len(fs)
  OBVIOUS
<1>2. IsFiniteSet(DOMAIN fs)
  BY <1>1, FS_Interval
<1>3. Places(fs, e) \subseteq DOMAIN fs
  BY DEF Places
<1>4. IsFiniteSet(Places(fs, e))
  BY <1>2, <1>3, FS_Subset
<1> QED
  BY <1>4, FS_CardinalityType, FS_EmptySet

LEMMA EntriesAreBagged ==
    ASSUME NEW S, NEW fs \in Seq(S)
    PROVE  /\ Bagged(Entries(fs)) /\ \A e : Copies(e, Entries(fs)) = Cardinality(Places(fs, e))
           /\ DOMAIN Entries(fs) = {find_rcv_list(fs[i]) : i \in DOMAIN fs}
<1> DEFINE D == {find_rcv_list(fs[i]) : i \in DOMAIN fs}
           F == [e \in D |-> Cardinality(Places(fs, e))]
<1>1. Entries(fs) = F
  BY DEF Entries, Places
<1>2. DOMAIN F = D /\ F = [e \in DOMAIN F |-> F[e]]
      /\ \A e \in D : F[e] = Cardinality(Places(fs, e))
  OBVIOUS
<1>3. \A e : e \in D <=> Places(fs, e) # {}
  BY DEF Places
<1> HIDE DEF F, D
<1>4. \A e : /\ Cardinality(Places(fs, e)) \in Nat
             /\ Cardinality(Places(fs, e)) = 0 <=> Places(fs, e) = {}
  BY PlacesAreFinite
<1>5. ASSUME NEW e \in D PROVE F[e] \in Nat /\ F[e] > 0
  <2>1. F[e] = Cardinality(Places(fs, e))
    BY <1>2
  <2>2. Places(fs, e) # {}
    BY <1>3
  <2> QED
    BY <1>4, <2>1, <2>2
<1>6. ASSUME NEW e PROVE Copies(e, F) = Cardinality(Places(fs, e))
  <2>1. CASE e \in D
    BY <1>2, <2>1 DEF Copies
  <2>2. CASE e \notin D
    <3>1. Copies(e, F) = 0
      BY <1>2, <2>2 DEF Copies
    <3>2. Places(fs, e) = {}
      BY <1>3, <2>2
    <3> QED
      BY <1>4, <3>1, <3>2, Zenon
  <2> QED
    BY <2>1, <2>2
<1>7. Bagged(F)
  BY <1>2, <1>5 DEF Bagged
<1> QED
  BY <1>1, <1>2, <1>6, <1>7 DEF D

\* One list of filters after another one
LEMMA EntriesOfBoth ==
    ASSUME NEW S, NEW fs \in Seq(S), NEW gs \in Seq(S)
    PROVE  Entries(fs \o gs) = Entries(fs) (+) Entries(gs)
<1> DEFINE hs == fs \o gs
           n == Len(fs)
<1>0. hs \in Seq(S) /\ n \in Nat /\ Len(gs) \in Nat /\ Len(hs) = n + Len(gs)
      /\ DOMAIN fs = 1 .. n /\ DOMAIN gs = 1 .. Len(gs) /\ DOMAIN hs = 1 .. (n + Len(gs))
  OBVIOUS
<1>1. /\ \A i \in 1 .. n : hs[i] = fs[i]
      /\ \A i \in 1 .. Len(gs) : hs[n + i] = gs[i]
  BY <1>0
<1> HIDE DEF hs, n
<1>2. ASSUME NEW e
      PROVE  Cardinality(Places(hs, e)) = Cardinality(Places(fs, e)) + Cardinality(Places(gs, e))
  <2> DEFINE P == Places(fs, e)
             Q == Places(gs, e)
             R == {n + i : i \in Q}
  <2>1. P \subseteq 1 .. n /\ Q \subseteq 1 .. Len(gs)
    BY <1>0 DEF Places
  <2>2. \A i \in 1 .. (n + Len(gs)) : i \in 1 .. n \/ (i - n \in 1 .. Len(gs) /\ i = n + (i - n))
    BY <1>0
  <2>3. Places(hs, e) \subseteq P \cup R
    <3> SUFFICES ASSUME NEW i \in Places(hs, e) PROVE i \in P \cup R
      OBVIOUS
    <3>1. i \in 1 .. (n + Len(gs)) /\ find_rcv_list(hs[i]) = e
      BY <1>0 DEF Places
    <3>2. CASE i \in 1 .. n
      BY <1>0, <1>1, <3>1, <3>2 DEF Places
    <3>3. CASE i - n \in 1 .. Len(gs) /\ i = n + (i - n)
      <4>1. gs[i - n] = hs[i]
        BY <1>1, <3>3
      <4>2. i - n \in Q
        BY <1>0, <3>1, <3>3, <4>1 DEF Places
      <4> QED
        BY <3>3, <4>2
    <3> QED
      BY <2>2, <3>1, <3>2, <3>3
  <2>4. P \cup R \subseteq Places(hs, e)
    <3>1. ASSUME NEW i \in P PROVE i \in Places(hs, e)
      <4>1. i \in 1 .. n /\ find_rcv_list(fs[i]) = e
        BY <1>0 DEF Places
      <4>2. i \in 1 .. (n + Len(gs))
        BY <1>0, <4>1
      <4> QED
        BY <1>0, <1>1, <4>1, <4>2 DEF Places
    <3>2. ASSUME NEW i \in Q PROVE n + i \in Places(hs, e)
      <4>1. i \in 1 .. Len(gs) /\ find_rcv_list(gs[i]) = e
        BY <1>0 DEF Places
      <4>2. n + i \in 1 .. (n + Len(gs))
        BY <1>0, <4>1
      <4> QED
        BY <1>0, <1>1, <4>1, <4>2 DEF Places
    <3> QED
      BY <3>1, <3>2
  <2>5. Places(hs, e) = P \cup R
    BY <2>3, <2>4
  <2>6. P \cap R = {}
    BY <1>0, <2>1
  <2>7. /\ IsFiniteSet(P) /\ IsFiniteSet(Q)
    BY PlacesAreFinite
  <2>8. IsFiniteSet(R) /\ Cardinality(R) = Cardinality(Q)
    <3> DEFINE b == [i \in Q |-> n + i]
    <3>0. \A i \in Q : i \in Int
      BY <2>1
    <3>1. b \in Bijection(Q, R)
      <4>1. b \in [Q -> R] /\ \A i \in Q : b[i] = n + i
        OBVIOUS
      <4>2. ASSUME NEW i \in Q, NEW j \in Q, b[i] = b[j] PROVE i = j
        BY <1>0, <3>0, <4>2
      <4>3. \A r \in R : \E i \in Q : b[i] = r
        OBVIOUS
      <4> HIDE DEF b, R, Q
      <4> QED
        BY <4>1, <4>2, <4>3, Fun_IsBij
    <3>2. ExistsBijection(Q, R)
      BY <3>1 DEF ExistsBijection
    <3> QED
      BY <2>7, <3>2, FS_Bijection
  <2> HIDE DEF P, Q, R
  <2>9. Cardinality(P \cup R) = Cardinality(P) + Cardinality(R) - Cardinality(P \cap R)
    BY <2>7, <2>8, FS_Union
  <2>10. Cardinality(P \cap R) = 0 /\ Cardinality(P) \in Nat /\ Cardinality(R) \in Nat
    BY <2>6, <2>7, <2>8, FS_EmptySet, FS_CardinalityType, Zenon
  <2> QED
    BY <2>5, <2>8, <2>9, <2>10 DEF P, Q
<1>3. /\ Bagged(Entries(hs)) /\ \A e : Copies(e, Entries(hs)) = Cardinality(Places(hs, e))
  BY <1>0, EntriesAreBagged, Zenon
<1>4. /\ Bagged(Entries(fs)) /\ \A e : Copies(e, Entries(fs)) = Cardinality(Places(fs, e))
  BY EntriesAreBagged, Zenon
<1>5. /\ Bagged(Entries(gs)) /\ \A e : Copies(e, Entries(gs)) = Cardinality(Places(gs, e))
  BY EntriesAreBagged, Zenon
<1>6. /\ Bagged(Entries(fs) (+) Entries(gs))
      /\ \A e : Copies(e, Entries(fs) (+) Entries(gs)) =
                  Copies(e, Entries(fs)) + Copies(e, Entries(gs))
  BY <1>4, <1>5, UnionIsBagged
<1>7. \A e : Copies(e, Entries(hs)) = Copies(e, Entries(fs) (+) Entries(gs))
  BY <1>2, <1>3, <1>4, <1>5, <1>6
<1>8. Entries(hs) = Entries(fs) (+) Entries(gs)
  BY <1>3, <1>6, <1>7, BagsAreEqual
<1> QED
  BY <1>8 DEF hs

LEMMA NoFiltersNoEntries == Entries(<<>>) = EmptyBag
<1>1. DOMAIN <<>> = {}
  OBVIOUS
<1>2. Entries(<<>>) = [e \in {} |-> Cardinality({i \in {} : find_rcv_list(<<>>[i]) = e})]
  BY <1>1 DEF Entries
<1> QED
  BY <1>2 DEF EmptyBag, SetToBag

\* A frame is given to a socket once for each of the filters whose entry gets it.
LEMMA FramesPerFilter ==
    ASSUME NEW S, NEW fs \in Seq(S), NEW id
    PROVE  Cardinality(Got(Entries(fs), id)) =
             Cardinality({i \in DOMAIN fs : Gets(find_rcv_list(fs[i]), id)})
<1> DEFINE E == Entries(fs)
           G == Got(E, id)
           T == {i \in DOMAIN fs : Gets(find_rcv_list(fs[i]), id)}
           g(e) == CHOOSE b : b \in Bijection(1 .. Cardinality(Places(fs, e)), Places(fs, e))
           f == [x \in G |-> g(x[1])[x[2]]]
<1>1. DOMAIN E = {find_rcv_list(fs[i]) : i \in DOMAIN fs}
      /\ \A e \in DOMAIN E : E[e] = Cardinality(Places(fs, e))
  <2>1. Bagged(E) /\ \A e : Copies(e, E) = Cardinality(Places(fs, e))
    BY EntriesAreBagged, Zenon
  <2>2. DOMAIN E = {find_rcv_list(fs[i]) : i \in DOMAIN fs}
    BY EntriesAreBagged, Zenon
  <2> HIDE DEF E
  <2> QED
    BY <2>1, <2>2 DEF Copies
<1> HIDE DEF E
<1>2. ASSUME NEW e PROVE g(e) \in Bijection(1 .. Cardinality(Places(fs, e)), Places(fs, e))
  <2>1. ExistsBijection(1 .. Cardinality(Places(fs, e)), Places(fs, e))
    BY PlacesAreFinite
  <2> QED
    BY <2>1 DEF ExistsBijection
<1> HIDE DEF g
<1>3. ASSUME NEW e
      PROVE  /\ \A k \in 1 .. Cardinality(Places(fs, e)) : g(e)[k] \in Places(fs, e)
             /\ \A k, l \in 1 .. Cardinality(Places(fs, e)) : g(e)[k] = g(e)[l] => k = l
             /\ \A i \in Places(fs, e) : \E k \in 1 .. Cardinality(Places(fs, e)) : g(e)[k] = i
  <2> DEFINE b == g(e)
             P == Places(fs, e)
             n == 1 .. Cardinality(P)
  <2>1. b \in Bijection(n, P)
    BY <1>2
  <2> HIDE DEF b, P, n
  <2>2. b \in [n -> P] /\ (\A k, l \in n : b[k] = b[l] => k = l) /\ \A i \in P : \E k \in n : b[k] = i
    BY <2>1, Fun_BijectionProperties
  <2> QED
    BY <2>2 DEF b, P, n
<1>4. ASSUME NEW x \in G
      PROVE  /\ x[1] \in DOMAIN E /\ Gets(x[1], id) /\ x[2] \in 1 .. Cardinality(Places(fs, x[1]))
             /\ x = <<x[1], x[2]>>
  <2>1. PICK e \in DOMAIN E : Gets(e, id) /\ x \in {e} \X (1 .. E[e])
    BY DEF Got
  <2>2. x[1] = e /\ x[2] \in 1 .. E[e] /\ x = <<x[1], x[2]>>
    BY <2>1
  <2> QED
    BY <1>1, <2>1, <2>2
<1>5. ASSUME NEW e \in DOMAIN E, Gets(e, id), NEW k \in 1 .. Cardinality(Places(fs, e))
      PROVE  <<e, k>> \in G
  <2>1. <<e, k>> \in {e} \X (1 .. E[e])
    BY <1>1
  <2> QED
    BY <1>5, <2>1 DEF Got
<1> HIDE DEF G
<1>6. \A x \in G : f[x] = g(x[1])[x[2]]
  OBVIOUS
<1>7. ASSUME NEW x \in G PROVE f[x] \in T /\ f[x] \in Places(fs, x[1])
  <2>1. f[x] \in Places(fs, x[1])
    BY <1>3, <1>4, <1>6
  <2> QED
    BY <1>4, <2>1, Zenon DEF Places
<1>8. f \in [G -> T]
  BY <1>7
<1> HIDE DEF f
<1>9. ASSUME NEW x \in G, NEW y \in G, f[x] = f[y] PROVE x = y
  <2>1. x[1] = y[1]
    BY <1>7, <1>9 DEF Places
  <2>2. x[2] = y[2]
    BY <1>3, <1>4, <1>6, <1>9, <2>1
  <2> QED
    BY <1>4, <2>1, <2>2
<1>10. ASSUME NEW i \in T PROVE \E x \in G : f[x] = i
  <2> DEFINE e == find_rcv_list(fs[i])
  <2>1. e \in DOMAIN E /\ Gets(e, id) /\ i \in Places(fs, e)
    BY <1>1 DEF Places
  <2> HIDE DEF e
  <2>2. PICK k \in 1 .. Cardinality(Places(fs, e)) : g(e)[k] = i
    BY <1>3, <2>1
  <2>3. <<e, k>> \in G
    BY <1>5, <2>1
  <2>4. f[<<e, k>>] = g(e)[k]
    BY <1>6, <2>3
  <2> QED
    BY <2>2, <2>3, <2>4
<1> HIDE DEF T
<1>11. f \in Bijection(G, T)
  BY <1>8, <1>9, <1>10, Fun_IsBij
<1>12. ExistsBijection(T, G)
  BY <1>11, Fun_ExistsBijSymmetric DEF ExistsBijection
<1>13. IsFiniteSet(T)
  <2>1. Len(fs) \in Nat /\ DOMAIN fs = 1 .. Len(fs)
    OBVIOUS
  <2>2. IsFiniteSet(DOMAIN fs)
    BY <2>1, FS_Interval
  <2>3. T \subseteq DOMAIN fs
    BY DEF T
  <2> QED
    BY <2>2, <2>3, FS_Subset
<1>14. Cardinality(G) = Cardinality(T)
  BY <1>12, <1>13, FS_Bijection
<1> QED
  BY <1>14 DEF G, T, E

-----------------------------------------------------------------------------
(* Raw sockets: the lists hold the filters in force                          *)

\* The lists of filters that a socket can have, and the entries of the two together.
LEMMA FiltersOfSocket ==
    ASSUME RawTypeOK
    PROVE  /\ ro.filter \in Seq(Filter) /\ ErrFilter(ro.err_mask) \in Seq(Filter)
           /\ AllFilters(ro) \in Seq(Filter)
           /\ Entries(AllFilters(ro)) = Entries(ro.filter) (+) Entries(ErrFilter(ro.err_mask))
<1>1. /\ ro.filter \in FilterLists \cup {<<>>, <<MASK_ALL>>} /\ ro.err_mask \in ErrMasks \cup {{}}
  BY DEF RawTypeOK, RawSock
<1>2. MASK_ALL \in Filter
  BY DEF MASK_ALL, Filter
<1>3. ro.filter \in Seq(Filter)
  <2>1. FilterLists \subseteq Seq(Filter)
    BY RawAssumption DEF RawAssumption
  <2>2. <<MASK_ALL>> \in Seq(Filter) /\ <<>> \in Seq(Filter)
    BY <1>2
  <2> QED
    BY <1>1, <2>1, <2>2, Zenon
<1>4. ErrFilter(ro.err_mask) \in Seq(Filter)
  <2>1. ro.err_mask \subseteq {"s", "e"}
    BY <1>1, RawAssumption, Zenon DEF RawAssumption
  <2>2. [can_id |-> {}, mask |-> ro.err_mask \cup {"ERR"}] \in Filter
    BY <2>1 DEF Filter
  <2> QED
    BY <2>2 DEF ErrFilter
<1>5. AllFilters(ro) = ro.filter \o ErrFilter(ro.err_mask)
  BY DEF AllFilters
<1> QED
  BY <1>3, <1>4, <1>5, EntriesOfBoth

LEMMA FilterListsAreTyped ==
    /\ \A fs \in FilterLists : fs \in Seq(Filter)
    /\ \A m \in ErrMasks : ErrFilter(m) \in Seq(Filter)
<1>1. ASSUME NEW m \in ErrMasks PROVE ErrFilter(m) \in Seq(Filter)
  <2>1. m \subseteq {"s", "e"}
    BY RawAssumption DEF RawAssumption
  <2>2. [can_id |-> {}, mask |-> m \cup {"ERR"}] \in Filter
    BY <2>1 DEF Filter
  <2> QED
    BY <2>2 DEF ErrFilter
<1> QED
  BY <1>1, RawAssumption DEF RawAssumption

\* The two lists when the socket is bound to one of them and when it is not bound.
LEMMA ListsByBinding ==
    ASSUME RawIInv
    PROVE  /\ DOMAIN rcv = {"any", "can0"} /\ rcv = [d \in {"any", "can0"} |-> rcv[d]]
           /\ \A d \in {"any", "can0"} :
                 rcv[d] = IF ro.bound /\ ro.ifindex = d THEN Entries(AllFilters(ro)) ELSE EmptyBag
<1>1. ro.bound => ro.open
  BY DEF RawIInv
<1>2. \A d : BoundTo(d) <=> ro.bound /\ ro.ifindex = d
  BY <1>1 DEF BoundTo
<1>3. rcv = [d \in {"any", "can0"} |-> IF BoundTo(d) THEN Entries(AllFilters(ro)) ELSE EmptyBag]
  BY DEF RawIInv, ListsAreFilters
<1> QED
  BY <1>2, <1>3

\* A system call that finds the socket bound finds its device too.
LEMMA DeviceIsFound ==
    ASSUME Window = FALSE, RawIInv, Syscall, ro.bound
    PROVE  Found(ro.ifindex) /\ OptDev = ro.ifindex /\ ro.ifindex \in {"any", "can0"}
<1>1. /\ device \in {"gone", "present", "unlisted"} /\ ro.ifindex \in {"any", "can0"}
      /\ ro.ifindex = "can0" => device # "gone"
  BY DEF RawIInv, RawTypeOK, RawSock
<1>2. device # "unlisted"
  BY DEF Syscall
<1>3. Found(ro.ifindex)
  BY <1>1, <1>2 DEF Found
<1> QED
  BY <1>1, <1>3 DEF OptDev

\* What registering and unregistering do to the lists, field by field.
FourLists(l) == l = [rcv |-> l.rcv, ml_priv |-> l.ml_priv, onZero |-> l.onZero,
                     missing |-> l.missing]

LEMMA RegisterByField ==
    ASSUME NEW l, FourLists(l),
           NEW d \in DOMAIN l.rcv, NEW fs
    PROVE  raw_enable(l, d, fs) = [rcv |-> [l.rcv EXCEPT ![d] = l.rcv[d] (+) Entries(fs)],
                                   ml_priv |-> l.ml_priv, onZero |-> l.onZero,
                                   missing |-> l.missing]
<1>1. raw_enable(l, d, fs) = [l EXCEPT !.rcv = [l.rcv EXCEPT ![d] = l.rcv[d] (+) Entries(fs)]]
  BY DEF raw_enable, can_rx_register
<1> DEFINE r == [l.rcv EXCEPT ![d] = l.rcv[d] (+) Entries(fs)]
<1> HIDE DEF r
<1>2. [l EXCEPT !.rcv = r] = [rcv |-> r, ml_priv |-> l.ml_priv, onZero |-> l.onZero,
                              missing |-> l.missing]
  BY DEF FourLists
<1> QED
  BY <1>1, <1>2 DEF r

LEMMA UnregisterByField ==
    ASSUME NEW l, FourLists(l),
           l.ml_priv \in BOOLEAN, l.onZero \in BOOLEAN,
           NEW d \in DOMAIN l.rcv, NEW fs, Entries(fs) \sqsubseteq l.rcv[d]
    PROVE  /\ raw_disable(l, d, fs).rcv = [l.rcv EXCEPT ![d] = l.rcv[d] (-) Entries(fs)]
           /\ raw_disable(l, d, fs).ml_priv \in BOOLEAN
           /\ raw_disable(l, d, fs).onZero \in BOOLEAN
           /\ raw_disable(l, d, fs).missing <=> l.missing
<1> DEFINE rest == l.rcv[d] (-) Entries(fs)
           r == [l.rcv EXCEPT ![d] = rest]
           free == d = "can0" /\ l.onZero /\ rest = EmptyBag /\ l.rcv[d] # EmptyBag
           lost == ~ Entries(fs) \sqsubseteq l.rcv[d]
<1>1. raw_disable(l, d, fs) =
        [l EXCEPT !.rcv = r, !.ml_priv = l.ml_priv /\ ~ free, !.onZero = l.onZero /\ ~ free,
                  !.missing = l.missing \/ lost]
  BY DEF raw_disable, can_rx_unregister
<1> DEFINE m == l.ml_priv /\ ~ free
           z == l.onZero /\ ~ free
           g == l.missing \/ lost
<1>2. m \in BOOLEAN /\ z \in BOOLEAN /\ (g <=> l.missing)
  OBVIOUS
<1>3. raw_disable(l, d, fs) = [l EXCEPT !.rcv = r, !.ml_priv = m, !.onZero = z, !.missing = g]
  BY <1>1
<1> HIDE DEF r, m, z, g
<1>4. /\ raw_disable(l, d, fs).rcv = r /\ raw_disable(l, d, fs).ml_priv = m
      /\ raw_disable(l, d, fs).onZero = z /\ raw_disable(l, d, fs).missing = g
  <2> DEFINE x == raw_disable(l, d, fs)
  <2>1. x = [l EXCEPT !.rcv = r, !.ml_priv = m, !.onZero = z, !.missing = g]
    BY <1>3
  <2> HIDE DEF x
  <2>2. DOMAIN l = {"rcv", "ml_priv", "onZero", "missing"}
    BY DEF FourLists
  <2>3. x.rcv = r /\ x.ml_priv = m /\ x.onZero = z /\ x.missing = g
    BY <2>1, <2>2
  <2> QED
    BY <2>3 DEF x
<1> QED
  BY <1>2, <1>4 DEF r

\* Every step keeps the lists true to the socket, as long as no system call comes while the
\* device goes.
LEMMA RawInitKeepsAll == RawInit => RawIInv
<1> SUFFICES ASSUME RawInit PROVE RawIInv
  OBVIOUS
<1>1. /\ ro.open = FALSE /\ ro.bound = FALSE /\ ro.ifindex = "any" /\ ro.filter = <<>>
      /\ ro.err_mask = {}
  BY DEF RawInit, Closed
<1>2. RawTypeOK
  BY <1>1, Zenon DEF RawInit, RawTypeOK, RawSock, Closed
<1>3. ListsAreFilters
  BY <1>1 DEF RawInit, ListsAreFilters, BoundTo
<1> QED
  BY <1>1, <1>2, <1>3 DEF RawIInv, RawInit

\* The invariant again, from the fields of the next state.
LEMMA RawIInvNext ==
    ASSUME RawTypeOK', DOMAIN rcv' = {"any", "can0"}, rcv' = [d \in DOMAIN rcv' |-> rcv'[d]],
           \A d \in {"any", "can0"} :
              rcv'[d] = IF ro'.bound /\ ro'.ifindex = d THEN Entries(AllFilters(ro')) ELSE EmptyBag,
           ~ missing', ro'.bound => ro'.open /\ (ro'.ifindex = "can0" => device' # "gone")
    PROVE  RawIInv'
<1>1. \A d : BoundTo(d)' <=> ro'.bound /\ ro'.ifindex = d
  BY DEF BoundTo
<1>2. ListsAreFilters'
  BY <1>1 DEF ListsAreFilters
<1> QED
  BY <1>2 DEF RawIInv

LEMMA NetdevKeepsAll == ASSUME RawIInv, NetdevRegister \/ NetdevUnlisted PROVE RawIInv'
<1>1. /\ DOMAIN rcv = {"any", "can0"} /\ rcv = [d \in {"any", "can0"} |-> rcv[d]]
      /\ \A d \in {"any", "can0"} :
            rcv[d] = IF ro.bound /\ ro.ifindex = d THEN Entries(AllFilters(ro)) ELSE EmptyBag
  BY ListsByBinding
<1>2. /\ ro' = ro /\ missing' = missing
  BY DEF NetdevRegister, NetdevUnlisted
<1>3. /\ RawTypeOK /\ ~ missing /\ (ro.bound => ro.open)
      /\ ro.bound /\ ro.ifindex = "can0" => device # "gone"
  BY DEF RawIInv
<1>4. /\ device' \in {"present", "unlisted"} /\ ml_priv' \in BOOLEAN /\ onZero' \in BOOLEAN
  <2>1. ml_priv \in BOOLEAN /\ onZero \in BOOLEAN
    BY <1>3 DEF RawTypeOK
  <2>2. CASE NetdevRegister
    BY <2>2, Zenon DEF NetdevRegister
  <2>3. CASE NetdevUnlisted
    BY <2>1, <2>3 DEF NetdevUnlisted
  <2> QED
    BY <2>2, <2>3
<1>5. RawTypeOK'
  <2>1. ro' \in RawSock
    BY <1>2, <1>3 DEF RawTypeOK
  <2> QED
    BY <1>4, <2>1 DEF RawTypeOK
<1>6. rcv' = rcv
  <2>1. CASE NetdevRegister
    <3>1. rcv["can0"] = EmptyBag /\ rcv' = [rcv EXCEPT !["can0"] = EmptyBag]
      BY <1>1, <1>3, <2>1 DEF NetdevRegister
    <3> QED
      BY <1>1, <3>1, Zenon
  <2>2. CASE NetdevUnlisted
    BY <2>2 DEF NetdevUnlisted
  <2> QED
    BY <2>1, <2>2
<1>7. /\ DOMAIN rcv' = {"any", "can0"} /\ rcv' = [d \in DOMAIN rcv' |-> rcv'[d]]
      /\ \A d \in {"any", "can0"} :
            rcv'[d] = IF ro'.bound /\ ro'.ifindex = d THEN Entries(AllFilters(ro')) ELSE EmptyBag
  BY <1>1, <1>2, <1>6
<1>8. ~ missing' /\ (ro'.bound => ro'.open /\ (ro'.ifindex = "can0" => device' # "gone"))
  BY <1>2, <1>3, <1>4
<1> QED
  BY <1>5, <1>7, <1>8, RawIInvNext

LEMMA RawInitSockKeepsAll == ASSUME RawIInv, raw_init PROVE RawIInv'
<1>1. /\ DOMAIN rcv = {"any", "can0"} /\ rcv = [d \in {"any", "can0"} |-> rcv[d]]
      /\ \A d \in {"any", "can0"} :
            rcv[d] = IF ro.bound /\ ro.ifindex = d THEN Entries(AllFilters(ro)) ELSE EmptyBag
  BY ListsByBinding
<1>2. /\ ro' = [Closed EXCEPT !.open = TRUE, !.filter = <<MASK_ALL>>] /\ ~ ro.open
      /\ UNCHANGED <<device, rcv, ml_priv, onZero, missing>>
  BY DEF raw_init
<1>3. ro'.bound = FALSE
  BY <1>2 DEF Closed
<1>4. RawTypeOK /\ ~ missing /\ ~ ro.bound
  BY <1>2 DEF RawIInv
<1>5. RawTypeOK'
  BY <1>2, <1>4, Zenon DEF RawTypeOK, RawSock, Closed
<1> QED
  BY <1>1, <1>2, <1>3, <1>4, <1>5, RawIInvNext

LEMMA BindKeepsAll ==
    ASSUME Window = FALSE, RawIInv, NEW d \in {"any", "can0"}, raw_bind(d) PROVE RawIInv'
<1> DEFINE E == Entries(AllFilters(ro))
           on == raw_enable(Lists, d, AllFilters(ro))
           off == raw_disable(on, ro.ifindex, AllFilters(ro))
           new == [ro EXCEPT !.bound = TRUE, !.ifindex = d]
<1>1. /\ DOMAIN rcv = {"any", "can0"} /\ rcv = [x \in {"any", "can0"} |-> rcv[x]]
      /\ \A x \in {"any", "can0"} :
            rcv[x] = IF ro.bound /\ ro.ifindex = x THEN E ELSE EmptyBag
  BY ListsByBinding
<1>2. /\ Syscall /\ ~ (ro.bound /\ ro.ifindex = d) /\ Found(d)
      /\ SetLists(IF ro.bound /\ Found(ro.ifindex) THEN off ELSE on)
      /\ ro' = new /\ UNCHANGED <<device, socks>>
  BY DEF raw_bind
<1>3. /\ RawTypeOK /\ ~ missing /\ ro.open
  BY <1>2 DEF RawIInv, Syscall
<1>4. /\ ro'.open = ro.open /\ ro'.bound = TRUE /\ ro'.ifindex = d /\ ro'.filter = ro.filter
      /\ ro'.err_mask = ro.err_mask /\ AllFilters(ro') = AllFilters(ro)
      /\ ro' \in RawSock
  BY <1>2, <1>3, Zenon DEF RawTypeOK, RawSock, AllFilters
<1>5. Bagged(E)
  BY <1>3, FiltersOfSocket, EntriesAreBagged, Zenon
<1> HIDE DEF E
<1>6. EmptyBag (+) E = E /\ E (-) E = EmptyBag /\ E \sqsubseteq E
  BY <1>5, UnionWithEmpty
<1>7. on = [rcv |-> [rcv EXCEPT ![d] = E], ml_priv |-> ml_priv, onZero |-> onZero,
            missing |-> missing]
  <2>1. /\ Lists.rcv = rcv /\ Lists.ml_priv = ml_priv /\ Lists.onZero = onZero
        /\ Lists.missing = missing
        /\ FourLists(Lists)
    BY DEF Lists, FourLists
  <2>2. d \in DOMAIN Lists.rcv /\ rcv[d] = EmptyBag
    BY <1>1, <1>2, <2>1
  <2>3. on = [rcv |-> [Lists.rcv EXCEPT ![d] = Lists.rcv[d] (+) E],
              ml_priv |-> Lists.ml_priv, onZero |-> Lists.onZero, missing |-> Lists.missing]
    BY <2>1, <2>2, RegisterByField DEF E
  <2> QED
    BY <1>6, <2>1, <2>2, <2>3
<1>8. /\ on.rcv = [rcv EXCEPT ![d] = E] /\ on.ml_priv = ml_priv /\ on.onZero = onZero
      /\ on.missing = missing
      /\ FourLists(on)
  BY <1>7 DEF FourLists
<1>9. ml_priv \in BOOLEAN /\ onZero \in BOOLEAN /\ device \in {"gone", "present", "unlisted"}
  BY <1>3 DEF RawTypeOK
<1> HIDE DEF on, new
<1>10. /\ ml_priv' \in BOOLEAN /\ onZero' \in BOOLEAN /\ ~ missing'
       /\ DOMAIN rcv' = {"any", "can0"} /\ rcv' = [x \in DOMAIN rcv' |-> rcv'[x]]
       /\ \A x \in {"any", "can0"} : rcv'[x] = IF x = d THEN E ELSE EmptyBag
  <2>1. CASE ro.bound
    <3>1. Found(ro.ifindex) /\ ro.ifindex \in {"any", "can0"}
      BY <1>2, <2>1, DeviceIsFound, Zenon
    <3>2. ro.ifindex # d /\ rcv[ro.ifindex] = E
      BY <1>1, <1>2, <2>1, <3>1
    <3>3. ro.ifindex \in DOMAIN on.rcv /\ on.rcv[ro.ifindex] = E
      BY <1>1, <1>8, <3>1, <3>2
    <3>4. /\ off.rcv = [on.rcv EXCEPT ![ro.ifindex] = EmptyBag]
          /\ off.ml_priv \in BOOLEAN /\ off.onZero \in BOOLEAN /\ (off.missing <=> on.missing)
      <4>1. on.ml_priv \in BOOLEAN /\ on.onZero \in BOOLEAN
        BY <1>8, <1>9
      <4>2. Entries(AllFilters(ro)) \sqsubseteq on.rcv[ro.ifindex]
        BY <1>6, <3>3 DEF E
      <4>3. FourLists(on)
        BY <1>8
      <4>4. /\ off.rcv = [on.rcv EXCEPT ![ro.ifindex] =
                           on.rcv[ro.ifindex] (-) Entries(AllFilters(ro))]
            /\ off.ml_priv \in BOOLEAN /\ off.onZero \in BOOLEAN /\ (off.missing <=> on.missing)
        BY <3>3, <4>1, <4>2, <4>3, UnregisterByField, Zenon
      <4> QED
        BY <1>6, <3>3, <4>4 DEF E
    <3> HIDE DEF off
    <3>5. /\ rcv' = off.rcv /\ ml_priv' = off.ml_priv /\ onZero' = off.onZero
          /\ missing' = off.missing
      BY <1>2, <2>1, <3>1 DEF SetLists
    <3>6. \A x \in {"any", "can0"} : x = d \/ x = ro.ifindex
      BY <3>1, <3>2
    <3> QED
      BY <1>1, <1>3, <1>8, <3>1, <3>2, <3>4, <3>5, <3>6, Zenon
  <2>2. CASE ~ ro.bound
    <3>1. /\ rcv' = on.rcv /\ ml_priv' = on.ml_priv /\ onZero' = on.onZero
          /\ missing' = on.missing
      BY <1>2, <2>2 DEF SetLists
    <3> QED
      BY <1>1, <1>3, <1>8, <1>9, <2>2, <3>1, Zenon
  <2> QED
    BY <2>1, <2>2
<1>11. RawTypeOK'
  BY <1>2, <1>4, <1>9, <1>10 DEF RawTypeOK
<1>12. d = "can0" => device' # "gone"
  BY <1>2 DEF Found
<1>13. \A x \in {"any", "can0"} :
          rcv'[x] = IF ro'.bound /\ ro'.ifindex = x THEN Entries(AllFilters(ro')) ELSE EmptyBag
  BY <1>4, <1>10 DEF E
<1> QED
  BY <1>3, <1>4, <1>10, <1>11, <1>12, <1>13, RawIInvNext

LEMMA ReleaseKeepsAll == ASSUME Window = FALSE, RawIInv, raw_release PROVE RawIInv'
<1> DEFINE E == Entries(AllFilters(ro))
           off == raw_disable(Lists, ro.ifindex, AllFilters(ro))
<1>1. /\ DOMAIN rcv = {"any", "can0"} /\ rcv = [x \in {"any", "can0"} |-> rcv[x]]
      /\ \A x \in {"any", "can0"} :
            rcv[x] = IF ro.bound /\ ro.ifindex = x THEN E ELSE EmptyBag
  BY ListsByBinding
<1>2. /\ Syscall /\ SetLists(IF ro.bound /\ Found(ro.ifindex) THEN off ELSE Lists)
      /\ ro' = Closed /\ UNCHANGED <<device, socks>>
  BY DEF raw_release
<1>3. /\ RawTypeOK /\ ~ missing
  BY DEF RawIInv
<1>4. ro'.bound = FALSE
  BY <1>2 DEF Closed
<1>5. Bagged(E)
  BY <1>3, FiltersOfSocket, EntriesAreBagged, Zenon
<1> HIDE DEF E
<1>6. E (-) E = EmptyBag /\ E \sqsubseteq E
  BY <1>5, UnionWithEmpty
<1>7. /\ Lists.rcv = rcv /\ Lists.ml_priv = ml_priv /\ Lists.onZero = onZero
      /\ Lists.missing = missing
      /\ FourLists(Lists)
  BY DEF Lists, FourLists
<1>8. ml_priv \in BOOLEAN /\ onZero \in BOOLEAN
  BY <1>3 DEF RawTypeOK
<1>9. /\ ml_priv' \in BOOLEAN /\ onZero' \in BOOLEAN /\ ~ missing'
      /\ DOMAIN rcv' = {"any", "can0"} /\ rcv' = [x \in DOMAIN rcv' |-> rcv'[x]]
      /\ \A x \in {"any", "can0"} : rcv'[x] = EmptyBag
  <2>1. CASE ro.bound
    <3>1. Found(ro.ifindex) /\ ro.ifindex \in {"any", "can0"}
      BY <1>2, <2>1, DeviceIsFound, Zenon
    <3>2. ro.ifindex \in DOMAIN Lists.rcv /\ Lists.rcv[ro.ifindex] = E
      BY <1>1, <1>7, <2>1, <3>1
    <3>3. /\ off.rcv = [Lists.rcv EXCEPT ![ro.ifindex] = EmptyBag]
          /\ off.ml_priv \in BOOLEAN /\ off.onZero \in BOOLEAN /\ (off.missing <=> Lists.missing)
      BY <1>6, <1>7, <1>8, <3>2, UnregisterByField DEF E
    <3> HIDE DEF off
    <3>4. /\ rcv' = off.rcv /\ ml_priv' = off.ml_priv /\ onZero' = off.onZero
          /\ missing' = off.missing
      BY <1>2, <2>1, <3>1 DEF SetLists
    <3> QED
      BY <1>1, <1>3, <1>7, <3>1, <3>3, <3>4, Zenon
  <2>2. CASE ~ ro.bound
    <3>1. /\ rcv' = rcv /\ ml_priv' = ml_priv /\ onZero' = onZero /\ missing' = missing
      BY <1>2, <1>7, <2>2 DEF SetLists
    <3> QED
      BY <1>1, <1>3, <1>8, <2>2, <3>1
  <2> QED
    BY <2>1, <2>2
<1>10. RawTypeOK'
  BY <1>2, <1>3, <1>9 DEF RawTypeOK, RawSock, Closed
<1> QED
  BY <1>4, <1>9, <1>10, RawIInvNext

\* An option replaces some filters by others: the new ones are registered before the old ones
\* are unregistered, and the rest stays registered throughout.
LEMMA OptionKeepsAll ==
    ASSUME Window = FALSE, RawIInv, Syscall, NEW old \in Seq(Filter), NEW new \in Seq(Filter),
           NEW r \in RawSock, SetLists(Replaced(old, new)), ro' = r, UNCHANGED device,
           r.open = ro.open, r.bound = ro.bound, r.ifindex = ro.ifindex,
           NEW rest, Bagged(rest), Entries(AllFilters(ro)) = Entries(old) (+) rest,
           Entries(AllFilters(r)) = Entries(new) (+) rest
    PROVE  RawIInv'
<1> DEFINE E == Entries(AllFilters(ro))
           N == Entries(AllFilters(r))
           d == OptDev
           on == raw_enable(Lists, d, new)
           off == raw_disable(on, d, old)
<1>1. /\ DOMAIN rcv = {"any", "can0"} /\ rcv = [x \in {"any", "can0"} |-> rcv[x]]
      /\ \A x \in {"any", "can0"} :
            rcv[x] = IF ro.bound /\ ro.ifindex = x THEN E ELSE EmptyBag
  BY ListsByBinding
<1>2. /\ RawTypeOK /\ ~ missing /\ (ro.bound => ro.open)
      /\ ro.bound /\ ro.ifindex = "can0" => device # "gone"
  BY DEF RawIInv
<1>3. /\ Lists.rcv = rcv /\ Lists.ml_priv = ml_priv /\ Lists.onZero = onZero
      /\ Lists.missing = missing
      /\ FourLists(Lists)
  BY DEF Lists, FourLists
<1>4. ml_priv \in BOOLEAN /\ onZero \in BOOLEAN
  BY <1>2 DEF RawTypeOK
<1>5. Bagged(Entries(old)) /\ Bagged(Entries(new))
  BY EntriesAreBagged, Zenon
<1>6. Entries(old) \sqsubseteq E (+) Entries(new) /\ (E (+) Entries(new)) (-) Entries(old) = N
  <2> DEFINE A == Entries(old)
             B == Entries(new)
  <2>0. Bagged(A) /\ Bagged(B) /\ Bagged(rest) /\ E = A (+) rest /\ N = B (+) rest
    BY <1>5
  <2> HIDE DEF A, B, E, N
  <2>1. (A (+) rest) (+) B = A (+) (rest (+) B) /\ rest (+) B = B (+) rest
    <3>1. (A (+) rest) (+) B = A (+) (rest (+) B)
      BY <2>0, UnionsAssociate
    <3>2. rest (+) B = B (+) rest
      BY <2>0, UnionsCommute, Zenon
    <3> QED
      BY <3>1, <3>2
  <2>2. Bagged(rest (+) B)
    BY <2>0, UnionIsBagged
  <2>3. A \sqsubseteq A (+) (rest (+) B) /\ (A (+) (rest (+) B)) (-) A = rest (+) B
    BY <2>0, <2>2, AddThenRemove
  <2>4. A \sqsubseteq E (+) B /\ (E (+) B) (-) A = N
    BY <2>0, <2>1, <2>3, Zenon
  <2> QED
    BY <2>4 DEF A, B
<1> HIDE DEF E, N, d
<1>7. /\ ml_priv' \in BOOLEAN /\ onZero' \in BOOLEAN /\ ~ missing'
      /\ DOMAIN rcv' = {"any", "can0"} /\ rcv' = [x \in DOMAIN rcv' |-> rcv'[x]]
      /\ \A x \in {"any", "can0"} :
            rcv'[x] = IF ro.bound /\ ro.ifindex = x THEN N ELSE EmptyBag
  <2>1. CASE ro.bound
    <3>1. d = ro.ifindex /\ ro.ifindex \in {"any", "can0"}
      BY <2>1, DeviceIsFound, Zenon DEF d
    <3>2. d \in DOMAIN Lists.rcv /\ Lists.rcv[d] = E
      BY <1>1, <1>3, <2>1, <3>1
    <3>3. on = [rcv |-> [Lists.rcv EXCEPT ![d] = E (+) Entries(new)],
                ml_priv |-> Lists.ml_priv, onZero |-> Lists.onZero, missing |-> Lists.missing]
      BY <1>3, <3>2, RegisterByField
    <3>4. /\ on.rcv = [rcv EXCEPT ![d] = E (+) Entries(new)] /\ on.ml_priv = ml_priv
          /\ on.onZero = onZero /\ on.missing = missing
          /\ FourLists(on)
      BY <1>3, <3>3 DEF FourLists
    <3>5. d \in DOMAIN on.rcv /\ on.rcv[d] = E (+) Entries(new)
      BY <1>1, <3>1, <3>4
    <3> HIDE DEF on
    <3>6. /\ off.rcv = [on.rcv EXCEPT ![d] = N]
          /\ off.ml_priv \in BOOLEAN /\ off.onZero \in BOOLEAN /\ (off.missing <=> on.missing)
      <4>1. on.ml_priv \in BOOLEAN /\ on.onZero \in BOOLEAN /\ Entries(old) \sqsubseteq on.rcv[d]
        BY <1>4, <1>6, <3>4, <3>5
      <4>2. FourLists(on)
        BY <3>4
      <4>3. /\ off.rcv = [on.rcv EXCEPT ![d] = on.rcv[d] (-) Entries(old)]
            /\ off.ml_priv \in BOOLEAN /\ off.onZero \in BOOLEAN /\ (off.missing <=> on.missing)
        BY <3>5, <4>1, <4>2, UnregisterByField
      <4> QED
        BY <1>6, <3>5, <4>3
    <3>7. Replaced(old, new) = off
      BY <2>1 DEF Replaced, on, d
    <3> HIDE DEF off
    <3>8. /\ rcv' = off.rcv /\ ml_priv' = off.ml_priv /\ onZero' = off.onZero
          /\ missing' = off.missing
      BY <3>7 DEF SetLists
    <3>9. rcv' = [[rcv EXCEPT ![d] = E (+) Entries(new)] EXCEPT ![d] = N] /\ d \in {"any", "can0"}
      BY <3>1, <3>4, <3>6, <3>8
    <3>10. ml_priv' \in BOOLEAN /\ onZero' \in BOOLEAN /\ ~ missing'
      BY <1>2, <3>4, <3>6, <3>8
    <3>11. /\ DOMAIN rcv' = {"any", "can0"} /\ rcv' = [x \in DOMAIN rcv' |-> rcv'[x]]
           /\ \A x \in {"any", "can0"} : rcv'[x] = IF x = d THEN N ELSE rcv[x]
      BY <1>1, <3>9, Zenon
    <3> QED
      BY <1>1, <2>1, <3>1, <3>10, <3>11
  <2>2. CASE ~ ro.bound
    <3>1. Replaced(old, new) = Lists
      BY <2>2 DEF Replaced
    <3>2. /\ rcv' = rcv /\ ml_priv' = ml_priv /\ onZero' = onZero /\ missing' = missing
      BY <1>3, <3>1 DEF SetLists
    <3> QED
      BY <1>1, <1>2, <1>4, <2>2, <3>2
  <2> QED
    BY <2>1, <2>2
<1>8. RawTypeOK'
  BY <1>2, <1>7 DEF RawTypeOK
<1>9. \A x \in {"any", "can0"} :
         rcv'[x] = IF ro'.bound /\ ro'.ifindex = x THEN Entries(AllFilters(ro')) ELSE EmptyBag
  BY <1>7 DEF N
<1> QED
  BY <1>2, <1>7, <1>8, <1>9, RawIInvNext

LEMMA FilterOptionKeepsAll ==
    ASSUME Window = FALSE, RawIInv, NEW fs \in FilterLists, raw_setsockopt_filter(fs)
    PROVE  RawIInv'
<1> DEFINE r == [ro EXCEPT !.filter = fs]
           err == ErrFilter(ro.err_mask)
<1>1. /\ Syscall /\ SetLists(Replaced(ro.filter, fs)) /\ ro' = r /\ UNCHANGED device
  BY DEF raw_setsockopt_filter
<1>2. RawTypeOK
  BY DEF RawIInv
<1>3. /\ r \in RawSock
      /\ r.open = ro.open /\ r.bound = ro.bound /\ r.ifindex = ro.ifindex
      /\ r.filter = fs /\ r.err_mask = ro.err_mask
  BY <1>2 DEF RawTypeOK, RawSock
<1> HIDE DEF r
<1>4. /\ ro.filter \in Seq(Filter) /\ err \in Seq(Filter)
      /\ Entries(AllFilters(ro)) = Entries(ro.filter) (+) Entries(err)
  BY <1>2, FiltersOfSocket
<1>5. fs \in Seq(Filter)
  BY FilterListsAreTyped
<1>6. AllFilters(r) = fs \o err
  BY <1>3 DEF AllFilters
<1>7. Bagged(Entries(err))
  BY <1>4, EntriesAreBagged, Zenon
<1> HIDE DEF err
<1>8. Entries(AllFilters(r)) = Entries(fs) (+) Entries(err)
  BY <1>4, <1>5, <1>6, EntriesOfBoth
<1> QED
  BY <1>1, <1>3, <1>4, <1>5, <1>7, <1>8, OptionKeepsAll, Zenon

LEMMA ErrOptionKeepsAll ==
    ASSUME Window = FALSE, RawIInv, NEW m \in ErrMasks, raw_setsockopt_err_filter(m)
    PROVE  RawIInv'
<1> DEFINE r == [ro EXCEPT !.err_mask = m]
           err == ErrFilter(ro.err_mask)
           new == ErrFilter(m)
<1>1. /\ Syscall /\ SetLists(Replaced(err, new)) /\ ro' = r /\ UNCHANGED device
  BY DEF raw_setsockopt_err_filter
<1>2. RawTypeOK
  BY DEF RawIInv
<1>3. /\ r \in RawSock
      /\ r.open = ro.open /\ r.bound = ro.bound /\ r.ifindex = ro.ifindex
      /\ r.filter = ro.filter /\ r.err_mask = m
  BY <1>2 DEF RawTypeOK, RawSock
<1> HIDE DEF r
<1>4. /\ ro.filter \in Seq(Filter) /\ err \in Seq(Filter)
      /\ Entries(AllFilters(ro)) = Entries(ro.filter) (+) Entries(err)
  BY <1>2, FiltersOfSocket
<1>5. new \in Seq(Filter)
  BY FilterListsAreTyped
<1>6. AllFilters(r) = ro.filter \o new
  BY <1>3 DEF AllFilters
<1> HIDE DEF err, new
<1>7. Bagged(Entries(ro.filter)) /\ Bagged(Entries(err)) /\ Bagged(Entries(new))
  BY <1>4, <1>5, EntriesAreBagged, Zenon
<1>8. Entries(AllFilters(r)) = Entries(ro.filter) (+) Entries(new)
  BY <1>4, <1>5, <1>6, EntriesOfBoth
<1>9. /\ Entries(AllFilters(ro)) = Entries(err) (+) Entries(ro.filter)
      /\ Entries(AllFilters(r)) = Entries(new) (+) Entries(ro.filter)
  BY <1>4, <1>7, <1>8, UnionsCommute
<1> QED
  BY <1>1, <1>3, <1>4, <1>5, <1>7, <1>9, OptionKeepsAll, Zenon

LEMMA NotifierKeepsAll == ASSUME RawIInv, raw_notifier PROVE RawIInv'
<1> DEFINE E == Entries(AllFilters(ro))
           core == IF rcv["can0"] = EmptyBag THEN [Lists EXCEPT !.ml_priv = FALSE]
                   ELSE [Lists EXCEPT !.onZero = TRUE]
           mine == ro.open /\ ro.ifindex = "can0"
           off == raw_disable(core, "can0", AllFilters(ro))
           r == [ro EXCEPT !.bound = FALSE, !.ifindex = "any", !.filter = <<>>]
<1>1. /\ DOMAIN rcv = {"any", "can0"} /\ rcv = [x \in {"any", "can0"} |-> rcv[x]]
      /\ \A x \in {"any", "can0"} :
            rcv[x] = IF ro.bound /\ ro.ifindex = x THEN E ELSE EmptyBag
  BY ListsByBinding
<1>2. /\ device' = "gone" /\ SetLists(IF mine /\ ro.bound THEN off ELSE core)
      /\ ro' = IF mine THEN r ELSE ro
  BY DEF raw_notifier
<1>3. RawTypeOK /\ ~ missing /\ (ro.bound => ro.open)
  BY DEF RawIInv
<1>4. ml_priv \in BOOLEAN /\ onZero \in BOOLEAN /\ ro.ifindex \in {"any", "can0"}
  BY <1>3 DEF RawTypeOK, RawSock
<1>5. /\ core.rcv = rcv /\ core.ml_priv \in BOOLEAN /\ core.onZero \in BOOLEAN
      /\ core.missing = missing
      /\ FourLists(core)
  BY <1>4, Zenon DEF Lists, FourLists
<1> HIDE DEF core
<1>6. Bagged(E)
  BY <1>3, FiltersOfSocket, EntriesAreBagged, Zenon
<1> HIDE DEF E
<1>7. E (-) E = EmptyBag /\ E \sqsubseteq E
  BY <1>6, UnionWithEmpty
<1>8. CASE mine
  <2>1. /\ r.bound = FALSE
        /\ r \in RawSock
    BY <1>3, Zenon DEF RawTypeOK, RawSock
  <2>2. /\ ml_priv' \in BOOLEAN /\ onZero' \in BOOLEAN /\ ~ missing'
        /\ DOMAIN rcv' = {"any", "can0"} /\ rcv' = [x \in DOMAIN rcv' |-> rcv'[x]]
        /\ \A x \in {"any", "can0"} : rcv'[x] = EmptyBag
    <3>1. CASE ro.bound
      <4>1. "can0" \in DOMAIN core.rcv /\ core.rcv["can0"] = E
        BY <1>1, <1>5, <1>8, <3>1
      <4>2. /\ off.rcv = [core.rcv EXCEPT !["can0"] = EmptyBag]
            /\ off.ml_priv \in BOOLEAN /\ off.onZero \in BOOLEAN /\ (off.missing <=> core.missing)
        BY <1>5, <1>7, <4>1, UnregisterByField DEF E
      <4> HIDE DEF off
      <4>3. /\ rcv' = off.rcv /\ ml_priv' = off.ml_priv /\ onZero' = off.onZero
            /\ missing' = off.missing
        BY <1>2, <1>8, <3>1 DEF SetLists
      <4> QED
        BY <1>1, <1>3, <1>5, <1>8, <4>2, <4>3, Zenon
    <3>2. CASE ~ ro.bound
      <4>1. /\ rcv' = core.rcv /\ ml_priv' = core.ml_priv /\ onZero' = core.onZero
            /\ missing' = core.missing
        BY <1>2, <3>2 DEF SetLists
      <4> QED
        BY <1>1, <1>3, <1>5, <3>2, <4>1
    <3> QED
      BY <3>1, <3>2
  <2>3. ro' = r
    BY <1>2, <1>8
  <2>4. RawTypeOK'
    BY <1>2, <2>1, <2>2, <2>3 DEF RawTypeOK
  <2> HIDE DEF r
  <2> QED
    BY <2>1, <2>2, <2>3, <2>4, RawIInvNext
<1>9. CASE ~ mine
  <2>1. /\ rcv' = core.rcv /\ ml_priv' = core.ml_priv /\ onZero' = core.onZero
        /\ missing' = core.missing /\ ro' = ro
    BY <1>2, <1>9 DEF SetLists
  <2>2. RawTypeOK'
    BY <1>2, <1>3, <1>5, <2>1 DEF RawTypeOK
  <2>3. ro.bound => ro.ifindex # "can0"
    BY <1>3, <1>9
  <2> QED
    BY <1>1, <1>3, <1>5, <2>1, <2>2, <2>3, RawIInvNext DEF E
<1> QED
  BY <1>8, <1>9

\* The lists are true to the socket: they hold its filters where it is bound and nothing else,
\* and whatever is unregistered is found, so long as no system call comes between a device's
\* leaving the list of devices and its notifiers (raw.c, af_can.c).
THEOREM ListsAreTrue == ASSUME Window = FALSE PROVE RawSpec => [](RawIInv /\ UnregisterFinds)
<1>1. RawInit => RawIInv
  BY RawInitKeepsAll
<1>2. RawIInv /\ [RawNext]_rawVars => RawIInv'
  <2> SUFFICES ASSUME RawIInv, [RawNext]_rawVars PROVE RawIInv'
    OBVIOUS
  <2>1. CASE NetdevRegister \/ NetdevUnlisted
    BY <2>1, NetdevKeepsAll
  <2>2. CASE raw_notifier
    BY <2>2, NotifierKeepsAll
  <2>3. CASE raw_init
    BY <2>3, RawInitSockKeepsAll
  <2>4. CASE raw_release
    BY <2>4, ReleaseKeepsAll, Zenon
  <2>5. CASE \E d \in {"any", "can0"} : raw_bind(d)
    BY <2>5, BindKeepsAll, Zenon
  <2>6. CASE \E fs \in FilterLists : raw_setsockopt_filter(fs)
    BY <2>6, FilterOptionKeepsAll, Zenon
  <2>7. CASE \E m \in ErrMasks : raw_setsockopt_err_filter(m)
    BY <2>7, ErrOptionKeepsAll, Zenon
  <2>8. CASE UNCHANGED rawVars
    BY <2>8 DEF rawVars, RawIInv, RawTypeOK, ListsAreFilters, BoundTo
  <2> QED
    BY <2>1, <2>2, <2>3, <2>4, <2>5, <2>6, <2>7, <2>8 DEF RawNext
<1>3. RawIInv => UnregisterFinds
  BY DEF RawIInv, UnregisterFinds
<1> QED
  BY <1>1, <1>2, <1>3, PTL DEF RawSpec

\* A socket gets a frame once for each of its filters that match as can_rx_register documents
\* it, given only filters that a frame can answer (af_can.c, can_receive and find_rcv_list).
THEOREM FiltersDeliver ==
    ASSUME Window = FALSE, \A fs \in FilterLists : \A i \in DOMAIN fs : Answerable(fs[i])
    PROVE  RawSpec => []DeliversAsDocumented
<1>1. RawSpec => [](RawIInv /\ UnregisterFinds)
  BY ListsAreTrue, Zenon
<1>2. RawIInv => DeliversAsDocumented
  <2> SUFFICES ASSUME RawIInv, NEW id \in Frames
               PROVE  can_receive(id) =
                        IF ro.open /\ ro.bound
                        THEN Cardinality({i \in DOMAIN AllFilters(ro) :
                                            Matches(AllFilters(ro)[i], id)})
                        ELSE 0
    BY DEF DeliversAsDocumented
  <2> DEFINE fs == AllFilters(ro)
             M == {i \in DOMAIN fs : Matches(fs[i], id)}
  <2>1. RawTypeOK /\ (ro.bound => ro.open)
    BY DEF RawIInv
  <2>2. ro.ifindex \in {"any", "can0"}
    BY <2>1 DEF RawTypeOK, RawSock
  <2>3. \A d \in {"any", "can0"} :
           rcv[d] = IF ro.bound /\ ro.ifindex = d THEN Entries(fs) ELSE EmptyBag
    BY ListsByBinding
  <2>4. fs \in Seq(Filter)
    BY <2>1, FiltersOfSocket
  <2>5. \A i \in DOMAIN fs : fs[i] \in Filter /\ Answerable(fs[i])
    <3>1. /\ ro.filter \in Seq(Filter) /\ ErrFilter(ro.err_mask) \in Seq(Filter)
          /\ fs = ro.filter \o ErrFilter(ro.err_mask)
      BY <2>1, FiltersOfSocket DEF AllFilters
    <3>2. \A i \in DOMAIN ro.filter : Answerable(ro.filter[i])
      <4>1. ro.filter \in FilterLists \cup {<<>>, <<MASK_ALL>>}
        BY <2>1 DEF RawTypeOK, RawSock
      <4>2. Answerable(MASK_ALL)
        BY DEF Answerable, MASK_ALL
      <4>3. CASE ro.filter \in FilterLists
        BY <4>3
      <4>4. CASE ro.filter = <<>>
        BY <4>4
      <4>5. CASE ro.filter = <<MASK_ALL>>
        BY <4>2, <4>5
      <4> QED
        BY <4>1, <4>3, <4>4, <4>5
    <3>3. \A i \in DOMAIN ErrFilter(ro.err_mask) : Answerable(ErrFilter(ro.err_mask)[i])
      BY DEF ErrFilter, Answerable
    <3> DEFINE a == ro.filter
               b == ErrFilter(ro.err_mask)
    <3>4. a \in Seq(Filter) /\ b \in Seq(Filter) /\ fs = a \o b
          /\ (\A i \in DOMAIN a : Answerable(a[i])) /\ (\A i \in DOMAIN b : Answerable(b[i]))
      BY <3>1, <3>2, <3>3
    <3> HIDE DEF a, b, fs
    <3>5. ASSUME NEW i \in DOMAIN fs PROVE fs[i] \in Filter /\ Answerable(fs[i])
      <4>1. DOMAIN a = 1 .. Len(a) /\ DOMAIN b = 1 .. Len(b) /\ DOMAIN fs = 1 .. (Len(a) + Len(b))
            /\ Len(a) \in Nat /\ Len(b) \in Nat
        BY <3>4
      <4>2. CASE i <= Len(a)
        <5>1. i \in DOMAIN a /\ fs[i] = a[i]
          BY <3>4, <4>1, <4>2
        <5> QED
          BY <3>4, <5>1
      <4>3. CASE i > Len(a)
        <5>1. i - Len(a) \in DOMAIN b /\ fs[i] = b[i - Len(a)]
          BY <3>4, <4>1, <4>3
        <5> QED
          BY <3>4, <5>1
      <4> QED
        BY <4>1, <4>2, <4>3
    <3> QED
      BY <3>5
  <2> HIDE DEF fs
  <2>6. M = {i \in DOMAIN fs : Gets(find_rcv_list(fs[i]), id)}
    BY <2>5, FilterMeans
  <2>7. Cardinality(Got(Entries(fs), id)) = Cardinality(M)
    BY <2>4, <2>6, FramesPerFilter
  <2>8. Cardinality(Got(EmptyBag, id)) = 0
    <3>1. DOMAIN EmptyBag = {}
      BY DEF EmptyBag, SetToBag
    <3>2. Got(EmptyBag, id) = {}
      BY <3>1 DEF Got
    <3> QED
      BY <3>2, FS_EmptySet
  <2>9. Cardinality(M) \in Nat
    <3>1. Len(fs) \in Nat /\ DOMAIN fs = 1 .. Len(fs)
      BY <2>4
    <3>2. IsFiniteSet(DOMAIN fs)
      BY <3>1, FS_Interval
    <3>3. IsFiniteSet(M)
      BY <3>2, FS_Subset
    <3> QED
      BY <3>3, FS_CardinalityType
  <2> HIDE DEF M
  <2>10. can_receive(id) = Cardinality(Got(rcv["any"], id)) + Cardinality(Got(rcv["can0"], id))
    BY DEF can_receive
  <2>11. CASE ro.bound
    <3>1. \/ rcv["any"] = Entries(fs) /\ rcv["can0"] = EmptyBag
          \/ rcv["any"] = EmptyBag /\ rcv["can0"] = Entries(fs)
      BY <2>2, <2>3, <2>11
    <3>2. can_receive(id) = Cardinality(M)
      BY <2>7, <2>8, <2>9, <2>10, <3>1
    <3> QED
      BY <2>1, <2>11, <3>2 DEF M, fs
  <2>12. CASE ~ ro.bound
    BY <2>3, <2>8, <2>10, <2>12
  <2> QED
    BY <2>11, <2>12
<1> QED
  BY <1>1, <1>2, PTL

-----------------------------------------------------------------------------
(* The fuel gauge *)

LEMMA ConfFields ==
    ASSUME NEW c, NEW pc, NEW w, NEW bd, NEW bt, NEW fl,
           c = [pc |-> pc, writes |-> w, bd |-> bd, bt |-> bt, failed |-> fl]
    PROVE  /\ c.pc = pc /\ c.writes = w /\ c.bd = bd /\ c.bt = bt /\ c.failed = fl
           /\ c["bd"] = bd /\ c["bt"] = bt
  OBVIOUS

\* The three fields are in one block, whose buffer is the first.
LEMMA OneBlock ==
    /\ Same
    /\ Wanted = IF {"capacity", "energy"} \subseteq info
                  THEN {"capacity", "energy"} \union (info \intersect {"voltage"})
                  ELSE {}
<1>1. Same
  BY DEF Same, bq27426_dm_regs, Fields
<1>2. CASE {"capacity", "energy"} \subseteq info
  BY <1>1, <1>2 DEF Wanted
<1>3. CASE ~ ({"capacity", "energy"} \subseteq info)
  BY <1>1, <1>3 DEF Wanted
<1> QED
  BY <1>1, <1>2, <1>3

LEMMA GaugeInitial == GaugeInit => GaugeIInv
<1> SUFFICES ASSUME GaugeInit PROVE GaugeIInv
  OBVIOUS
<1>1. PICK N \in SUBSET Fields :
        gauge = [mem |-> [m \in Words |-> IF m \in N THEN "new" ELSE "old"],
                 sealed |-> TRUE, cfgup |-> FALSE]
  BY Zenon DEF GaugeInit
<1>2. "rest" \notin N /\ "rest" \in Words
  BY DEF Fields, Words
<1>3. GaugeStateOK
  BY <1>1, <1>2 DEF GaugeInit, GaugeStateOK
<1>4. BufferWasRead
  BY DEF GaugeInit, BufferWasRead, NoData
<1>5. WantedIsKept
  BY <1>1 DEF GaugeInit, WantedIsKept
<1> QED
  BY <1>3, <1>4, <1>5 DEF GaugeIInv

\* What the changes of a block do to it.
LEMMA UpdateBlock ==
    ASSUME NEW buf \in [has_data : BOOLEAN, dirty : BOOLEAN,
                        data : [Words -> {"old", "new", "junk"}]],
           NEW f \in Fields
    PROVE  LET u == update_dm_block(buf, f) IN
           /\ u \in [has_data : BOOLEAN, dirty : BOOLEAN,
                     data : [Words -> {"old", "new", "junk"}]]
           /\ u.has_data = buf.has_data
           /\ buf.dirty => u.dirty
           /\ buf.has_data => u.data[f] = "new"
           /\ \A w \in Words \ {f} : u.data[w] = buf.data[w]
           /\ ~ buf.has_data => u = buf
           /\ ~ u.dirty => u = buf
<1>1. f \in Words
  BY DEF Words
<1>2. CASE ~ buf.has_data \/ buf.data[f] = "new"
  BY <1>2 DEF update_dm_block
<1>3. CASE ~ (~ buf.has_data \/ buf.data[f] = "new")
  <2> DEFINE u == [buf EXCEPT !.data[f] = "new", !.dirty = TRUE]
  <2>1. update_dm_block(buf, f) = u
    BY <1>3 DEF update_dm_block
  <2>2. u.has_data = buf.has_data /\ u.dirty = TRUE /\ u.data = [buf.data EXCEPT ![f] = "new"]
    OBVIOUS
  <2>3. u.data \in [Words -> {"old", "new", "junk"}]
    BY <1>1, <2>2
  <2>4. u \in [has_data : BOOLEAN, dirty : BOOLEAN, data : [Words -> {"old", "new", "junk"}]]
    BY <2>2, <2>3, Zenon
  <2>5. u.data[f] = "new" /\ \A w \in Words \ {f} : u.data[w] = buf.data[w]
    BY <1>1, <2>2
  <2> QED
    BY <1>3, <2>1, <2>2, <2>4, <2>5
<1> QED
  BY <1>2, <1>3

\* A buffer that was read from the memory m, and changed since or not.
ReadFrom(b, m) ==
    /\ b \in [has_data : BOOLEAN, dirty : BOOLEAN, data : [Words -> {"old", "new", "junk"}]]
    /\ b.dirty => b.has_data
    /\ b.has_data => b.data \in [Words -> {"old", "new"}] /\ b.data["rest"] = "old"
    /\ b.has_data /\ ~ b.dirty => b.data = m

LEMMA ReadGivesMemory ==
    ASSUME GaugeStateOK, NEW ok \in BOOLEAN
    PROVE  /\ ReadFrom(read_dm_block(NoData, ok), gauge.mem) /\ ReadFrom(NoData, gauge.mem)
           /\ ok => read_dm_block(NoData, ok).has_data
           /\ ~ NoData.has_data /\ ~ NoData.dirty
<1>1. NoData \in [has_data : BOOLEAN, dirty : BOOLEAN, data : [Words -> {"old", "new", "junk"}]]
      /\ NoData.has_data = FALSE /\ NoData.dirty = FALSE
  BY DEF NoData
<1>2. ReadFrom(NoData, gauge.mem)
  BY <1>1 DEF ReadFrom
<1>3. gauge.mem \in [Words -> {"old", "new"}] /\ gauge.mem["rest"] = "old"
  BY DEF GaugeStateOK
<1>4. gauge.mem \in [Words -> {"old", "new", "junk"}]
  BY <1>3
<1>5. CASE ok
  BY <1>1, <1>2, <1>3, <1>4, <1>5 DEF read_dm_block, ReadFrom
<1>6. CASE ~ ok
  <2>1. read_dm_block(NoData, ok) = NoData
    BY <1>1, <1>6, Zenon DEF read_dm_block, NoData
  <2> QED
    BY <1>1, <1>2, <1>6, <2>1
<1> QED
  BY <1>1, <1>2, <1>5, <1>6

LEMMA UpdateKeepsRead ==
    ASSUME NEW m, NEW b, ReadFrom(b, m), NEW f \in Fields
    PROVE  /\ ReadFrom(update_dm_block(b, f), m)
           /\ update_dm_block(b, f).has_data = b.has_data
           /\ b.has_data => update_dm_block(b, f).data[f] = "new"
           /\ \A w \in Words \ {f} : update_dm_block(b, f).data[w] = b.data[w]
<1> DEFINE u == update_dm_block(b, f)
<1>1. /\ u \in [has_data : BOOLEAN, dirty : BOOLEAN, data : [Words -> {"old", "new", "junk"}]]
      /\ u.has_data = b.has_data
      /\ b.has_data => u.data[f] = "new"
      /\ \A w \in Words \ {f} : u.data[w] = b.data[w]
      /\ ~ b.has_data => u = b
      /\ ~ u.dirty => u = b
  BY UpdateBlock DEF ReadFrom
<1>2. "rest" \in Words \ {f}
  BY DEF Words, Fields
<1> HIDE DEF u
<1>3. ASSUME u.has_data PROVE u.data \in [Words -> {"old", "new"}] /\ u.data["rest"] = "old"
  <2>1. b.has_data /\ b.data \in [Words -> {"old", "new"}] /\ b.data["rest"] = "old"
    BY <1>1, <1>3 DEF ReadFrom
  <2>2. u.data \in [Words -> {"old", "new", "junk"}]
    BY <1>1
  <2>3. \A w \in Words : u.data[w] \in {"old", "new"}
    BY <1>1, <2>1
  <2> QED
    BY <1>1, <1>2, <2>1, <2>2, <2>3
<1>4. (u.dirty => u.has_data) /\ (u.has_data /\ ~ u.dirty => u.data = m)
  BY <1>1 DEF ReadFrom
<1>5. ReadFrom(u, m)
  BY <1>1, <1>3, <1>4 DEF ReadFrom
<1> QED
  BY <1>1, <1>5 DEF u

\* What set_config_reads fills the first buffer with, whether the access failed or not.
LEMMA FilledBuffer ==
    ASSUME GaugeStateOK, NEW ok \in BOOLEAN,
           NEW first, first = IF {"capacity", "energy"} \subseteq info
                              THEN update_dm_block(update_dm_block(
                                     read_dm_block(NoData, ok), "capacity"), "energy")
                              ELSE NoData,
           NEW bd, bd = IF "voltage" \in info THEN update_dm_block(first, "voltage") ELSE first
    PROVE  /\ ReadFrom(bd, gauge.mem)
           /\ ok => \A f \in Wanted : bd.has_data /\ bd.data[f] = "new"
<1> DEFINE m == gauge.mem
           b0 == read_dm_block(NoData, ok)
           b1 == update_dm_block(b0, "capacity")
           b2 == update_dm_block(b1, "energy")
<1>f. {"capacity", "energy", "voltage"} = Fields
  BY DEF Fields
<1>d. /\ "capacity" \in Words \ {"energy"} /\ "capacity" \in Words \ {"voltage"}
      /\ "energy" \in Words \ {"voltage"}
  BY DEF Words, Fields
<1>0. ReadFrom(b0, m) /\ ReadFrom(NoData, m) /\ (ok => b0.has_data)
  BY ReadGivesMemory
<1>h. first = IF {"capacity", "energy"} \subseteq info THEN b2 ELSE NoData
  OBVIOUS
<1> HIDE DEF m, b0
<1>1. /\ ReadFrom(b1, m) /\ b1.has_data = b0.has_data
      /\ b0.has_data => b1.data["capacity"] = "new"
  BY <1>0, <1>f, UpdateKeepsRead
<1> HIDE DEF b1
<1>2. /\ ReadFrom(b2, m) /\ b2.has_data = b1.has_data
      /\ b1.has_data => b2.data["energy"] = "new"
      /\ b2.data["capacity"] = b1.data["capacity"]
  BY <1>1, <1>f, <1>d, UpdateKeepsRead
<1> HIDE DEF b2
<1>3. ReadFrom(first, m)
  BY <1>0, <1>2, <1>h
<1>4. /\ ReadFrom(update_dm_block(first, "voltage"), m)
      /\ update_dm_block(first, "voltage").has_data = first.has_data
      /\ first.has_data => update_dm_block(first, "voltage").data["voltage"] = "new"
      /\ update_dm_block(first, "voltage").data["capacity"] = first.data["capacity"]
      /\ update_dm_block(first, "voltage").data["energy"] = first.data["energy"]
  BY <1>3, <1>f, <1>d, UpdateKeepsRead
<1>5. ReadFrom(bd, m)
  BY <1>3, <1>4
<1>6. ASSUME ok, {"capacity", "energy"} \subseteq info
      PROVE  \A f \in Wanted : bd.has_data /\ bd.data[f] = "new"
  <2>1. first = b2 /\ first.has_data /\ first.data["capacity"] = "new" /\ first.data["energy"] = "new"
    BY <1>0, <1>1, <1>2, <1>6, <1>h, Zenon
  <2>2. CASE "voltage" \in info
    BY <1>4, <1>6, <2>1, <2>2, OneBlock, Zenon
  <2>3. CASE "voltage" \notin info
    BY <1>6, <2>1, <2>3, OneBlock, Zenon
  <2> QED
    BY <2>2, <2>3
<1>7. ~ ({"capacity", "energy"} \subseteq info) => Wanted = {}
  BY OneBlock
<1> QED
  BY <1>5, <1>6, <1>7 DEF m

\* What a step of the configuration does that fills no buffer: it moves on, and may change
\* the modes of the chip.
Moves(to, w, fl) == conf' = [conf EXCEPT !.pc = to, !.writes = w, !.failed = fl]
ConfStages == {"start", "unseal", "read", "bd", "data", "reset", "bt", "seal", "done"}

LEMMA MovesKeeps ==
    ASSUME GaugeIInv, Configures, NEW to \in ConfStages, NEW w \in {"bd", "bt"},
           NEW fl \in BOOLEAN, Moves(to, w, fl)
    PROVE  /\ conf'.pc = to /\ conf'.writes = w /\ conf'.failed = fl
           /\ conf'.bd = conf.bd /\ conf'.bt = conf.bt
           /\ conf' = [pc |-> to, writes |-> w, bd |-> conf.bd, bt |-> conf.bt, failed |-> fl]
           /\ info' = info /\ work' = work /\ rdr' = rdr /\ Wanted' = Wanted
<1>1. conf = [pc |-> conf.pc, writes |-> conf.writes, bd |-> conf.bd, bt |-> conf.bt,
              failed |-> conf.failed]
  BY DEF GaugeIInv, GaugeStateOK
<1>2. conf' = [pc |-> to, writes |-> w, bd |-> conf.bd, bt |-> conf.bt, failed |-> fl]
  BY <1>1, Zenon DEF Moves
<1>3. info' = info /\ work' = work /\ rdr' = rdr
  BY DEF Configures
<1> QED
  BY <1>2, <1>3 DEF Wanted, Same

\* The modes of the chip change, its memory stays.
LEMMA ModesChange ==
    ASSUME GaugeStateOK, NEW se \in BOOLEAN, NEW cu \in BOOLEAN,
           gauge' = [gauge EXCEPT !.sealed = se, !.cfgup = cu]
    PROVE  /\ gauge' \in [mem : [Words -> {"old", "new"}], sealed : BOOLEAN, cfgup : BOOLEAN]
           /\ gauge'.mem = gauge.mem /\ gauge'.sealed = se /\ gauge'.cfgup = cu
  BY Zenon DEF GaugeStateOK

\* A step that moves on and leaves the memory alone keeps the types and the buffers.
LEMMA MovesKeepTypes ==
    ASSUME GaugeIInv, Configures, NEW to \in ConfStages, NEW w \in {"bd", "bt"},
           NEW fl \in BOOLEAN, Moves(to, w, fl), NEW se \in BOOLEAN, NEW cu \in BOOLEAN,
           gauge' = [gauge EXCEPT !.sealed = se, !.cfgup = cu],
           to \in {"data", "reset"} => w = "bd" /\ conf.bd.dirty
    PROVE  GaugeStateOK' /\ BufferWasRead'
<1>1. /\ conf'.pc = to /\ conf'.writes = w /\ conf'.failed = fl
      /\ conf'.bd = conf.bd /\ conf'.bt = conf.bt
      /\ conf' = [pc |-> to, writes |-> w, bd |-> conf.bd, bt |-> conf.bt, failed |-> fl]
      /\ info' = info /\ work' = work /\ rdr' = rdr
  BY MovesKeeps
<1>2. /\ gauge' \in [mem : [Words -> {"old", "new"}], sealed : BOOLEAN, cfgup : BOOLEAN]
      /\ gauge'.mem = gauge.mem
  <2>1. GaugeStateOK
    BY DEF GaugeIInv
  <2> QED
    BY <2>1, ModesChange, Zenon
<1>3. GaugeStateOK'
  BY <1>1, <1>2 DEF GaugeIInv, GaugeStateOK, ConfStages
<1>4. BufferWasRead'
  BY <1>1 DEF GaugeIInv, BufferWasRead
<1> QED
  BY <1>3, <1>4

LEMMA SettingsKeep ==
    ASSUME GaugeIInv, register_and_settings PROVE GaugeIInv'
<1> DEFINE to == battery_settings
<1>0. /\ Configures /\ conf.pc = "start" /\ gauge' = gauge
      /\ conf' = [conf EXCEPT !.pc = to, !.failed = conf.failed \/ ~ TRUE]
  BY DEF register_and_settings, ConfGoes
<1>1. to \in {"unseal", "done"} /\ to \in ConfStages
  BY DEF battery_settings, ConfStages
<1>2. to = "done" => Wanted = {}
  BY OneBlock DEF battery_settings
<1>3. conf.writes \in {"bd", "bt"} /\ conf.failed \in BOOLEAN
      /\ gauge.sealed \in BOOLEAN /\ gauge.cfgup \in BOOLEAN
  BY DEF GaugeIInv, GaugeStateOK
<1> HIDE DEF to
<1>4. conf = [pc |-> conf.pc, writes |-> conf.writes, bd |-> conf.bd, bt |-> conf.bt,
              failed |-> conf.failed]
  BY DEF GaugeIInv, GaugeStateOK
<1>5. (conf.failed \/ ~ TRUE) = conf.failed
  BY <1>3
<1>6. Moves(to, conf.writes, conf.failed)
  BY <1>0, <1>4, <1>5, Zenon DEF Moves
<1>7. gauge' = [gauge EXCEPT !.sealed = gauge.sealed, !.cfgup = gauge.cfgup]
  BY <1>0, Zenon DEF GaugeIInv, GaugeStateOK
<1>8. GaugeStateOK' /\ BufferWasRead'
  <2>1. ~ (to \in {"data", "reset"})
    BY <1>1
  <2> QED
    BY <1>0, <1>1, <1>3, <1>6, <1>7, <2>1, MovesKeepTypes, Zenon
<1>9. conf'.pc = to /\ conf'.failed = conf.failed /\ conf'.bd = conf.bd /\ Wanted' = Wanted
  BY <1>0, <1>1, <1>3, <1>6, MovesKeeps, Zenon
<1>10. WantedIsKept'
  BY <1>0, <1>1, <1>2, <1>9 DEF GaugeIInv, WantedIsKept
<1> QED
  BY <1>8, <1>10 DEF GaugeIInv

LEMMA GoesIsMove ==
    ASSUME GaugeIInv, NEW to, NEW ok \in BOOLEAN, ConfGoes(to, ok)
    PROVE  /\ Moves(to, conf.writes, conf.failed \/ ~ ok)
           /\ conf.writes \in {"bd", "bt"} /\ conf.failed \in BOOLEAN
           /\ (conf.failed \/ ~ ok) \in BOOLEAN
           /\ gauge.sealed \in BOOLEAN /\ gauge.cfgup \in BOOLEAN
<1>1. conf = [pc |-> conf.pc, writes |-> conf.writes, bd |-> conf.bd, bt |-> conf.bt,
              failed |-> conf.failed]
      /\ conf.writes \in {"bd", "bt"} /\ conf.failed \in BOOLEAN
      /\ gauge.sealed \in BOOLEAN /\ gauge.cfgup \in BOOLEAN
  BY DEF GaugeIInv, GaugeStateOK
<1>2. conf' = [conf EXCEPT !.pc = to, !.failed = conf.failed \/ ~ ok]
  BY DEF ConfGoes
<1>3. conf' = [conf EXCEPT !.pc = to, !.writes = conf.writes, !.failed = conf.failed \/ ~ ok]
  BY <1>1, <1>2, Zenon
<1> QED
  BY <1>1, <1>3 DEF Moves

\* The seal, and the configuration mode, as they are set or as they stay.
LEMMA GaugeModes ==
    ASSUME GaugeStateOK
    PROVE  /\ gauge = [mem |-> gauge.mem, sealed |-> gauge.sealed, cfgup |-> gauge.cfgup]
           /\ gauge.sealed \in BOOLEAN /\ gauge.cfgup \in BOOLEAN
<1>1. gauge \in [mem : [Words -> {"old", "new"}], sealed : BOOLEAN, cfgup : BOOLEAN]
  BY DEF GaugeStateOK
<1> QED
  BY <1>1

LEMMA SealSet ==
    ASSUME GaugeStateOK, NEW b
    PROVE  [gauge EXCEPT !.sealed = b] = [gauge EXCEPT !.sealed = b, !.cfgup = gauge.cfgup]
  BY GaugeModes, Zenon

LEMMA ModeSet ==
    ASSUME GaugeStateOK, NEW b
    PROVE  [gauge EXCEPT !.cfgup = b] = [gauge EXCEPT !.sealed = gauge.sealed, !.cfgup = b]
  BY GaugeModes, Zenon

LEMMA UnsealKeeps ==
    ASSUME GaugeIInv, NEW ok \in BOOLEAN, battery_unseal(ok) PROVE GaugeIInv'
<1> DEFINE to == IF ok THEN "read" ELSE "done"
           fl == conf.failed \/ ~ ok
           se == gauge.sealed /\ ~ ok
<1>0. Configures /\ conf.pc = "unseal" /\ ConfGoes(to, ok)
      /\ gauge' = [gauge EXCEPT !.sealed = se]
  BY DEF battery_unseal
<1>1. to \in ConfStages /\ ~ (to \in {"data", "reset"})
  BY DEF ConfStages
<1>2. Moves(to, conf.writes, fl) /\ conf.writes \in {"bd", "bt"} /\ fl \in BOOLEAN
  BY <1>0, GoesIsMove
<1>3. se \in BOOLEAN /\ gauge' = [gauge EXCEPT !.sealed = se, !.cfgup = gauge.cfgup]
      /\ gauge.cfgup \in BOOLEAN /\ GaugeStateOK
  <2>1. GaugeStateOK
    BY DEF GaugeIInv
  <2>2. gauge.sealed \in BOOLEAN /\ gauge.cfgup \in BOOLEAN
    BY <2>1, GaugeModes
  <2>3. se \in BOOLEAN
    BY <2>2
  <2> HIDE DEF se
  <2>4. [gauge EXCEPT !.sealed = se] = [gauge EXCEPT !.sealed = se, !.cfgup = gauge.cfgup]
    BY <2>1, SealSet, Zenon
  <2> QED
    BY <1>0, <2>1, <2>2, <2>3, <2>4, Zenon
<1>4. fl = (conf.failed \/ ~ ok) /\ (to = "done" => ~ ok) /\ to \in {"read", "done"}
  OBVIOUS
<1> HIDE DEF to, fl, se
<1>5. GaugeStateOK' /\ BufferWasRead'
  BY <1>0, <1>1, <1>2, <1>3, MovesKeepTypes, Zenon
<1>6. conf'.pc = to /\ conf'.failed = fl
  BY <1>0, <1>1, <1>2, MovesKeeps, Zenon
<1>7. gauge'.cfgup = gauge.cfgup
  BY <1>3, ModesChange, Zenon
<1>8. WantedIsKept'
  BY <1>0, <1>4, <1>6, <1>7, Zenon DEF GaugeIInv, WantedIsKept
<1> QED
  BY <1>5, <1>8 DEF GaugeIInv

LEMMA ReadsKeep ==
    ASSUME GaugeIInv, NEW ok1 \in BOOLEAN, NEW ok2 \in BOOLEAN, set_config_reads(ok1, ok2)
    PROVE  GaugeIInv'
<1> DEFINE full == {"capacity", "energy"} \subseteq info
           first == IF full THEN update_dm_block(update_dm_block(
                                   read_dm_block(NoData, ok1), "capacity"), "energy")
                            ELSE NoData
           bd == IF "voltage" \in info THEN update_dm_block(first, "voltage") ELSE first
           fl == conf.failed \/ ~ ok1 \/ ~ ok2
<1>0. Configures /\ conf.pc = "read" /\ gauge' = gauge
      /\ conf' = [conf EXCEPT !.pc = "bd", !.bd = bd, !.bt = NoData, !.failed = fl]
  BY OneBlock DEF set_config_reads
<1>1. ReadFrom(bd, gauge.mem) /\ (ok1 => \A f \in Wanted : bd.has_data /\ bd.data[f] = "new")
  BY FilledBuffer DEF GaugeIInv
<1> HIDE DEF bd
<1>2. /\ conf = [pc |-> conf.pc, writes |-> conf.writes, bd |-> conf.bd, bt |-> conf.bt,
                 failed |-> conf.failed]
      /\ conf.writes \in {"bd", "bt"} /\ fl \in BOOLEAN
  BY DEF GaugeIInv, GaugeStateOK
<1> HIDE DEF fl
<1>3. conf' = [pc |-> "bd", writes |-> conf.writes, bd |-> bd, bt |-> NoData, failed |-> fl]
  BY <1>0, <1>2, Zenon
<1>4. info' = info /\ work' = work /\ rdr' = rdr /\ Wanted' = Wanted
  BY <1>0 DEF Configures, Wanted, Same
<1>5. GaugeStateOK'
  BY <1>0, <1>2, <1>3, <1>4, Zenon DEF GaugeIInv, GaugeStateOK
<1>6. BufferWasRead'
  BY <1>1, <1>3 DEF BufferWasRead, ReadFrom
<1>7. ASSUME ~ fl PROVE ok1 /\ ~ conf.failed
  BY <1>7 DEF fl
<1>8. ~ conf.failed => ~ gauge.cfgup
  BY <1>0 DEF GaugeIInv, WantedIsKept
<1>9. ASSUME ~ fl, ~ bd.dirty PROVE \A f \in Wanted : gauge.mem[f] = "new"
  BY <1>1, <1>7, <1>9 DEF ReadFrom
<1>10. WantedIsKept'
  BY <1>0, <1>1, <1>3, <1>4, <1>7, <1>8, <1>9 DEF WantedIsKept
<1> QED
  BY <1>5, <1>6, <1>10 DEF GaugeIInv

\* The configuration mode is entered or left, or the command is not taken.
LEMMA ModeCommand ==
    ASSUME GaugeStateOK, NEW active \in BOOLEAN, NEW ok \in BOOLEAN, cfgupdate_priv(active, ok)
    PROVE  \E cu \in BOOLEAN :
             /\ gauge' = [gauge EXCEPT !.sealed = gauge.sealed, !.cfgup = cu]
             /\ ok => cu = active
<1>1. PICK taken \in {ok, TRUE} :
        gauge' = IF taken THEN [gauge EXCEPT !.cfgup = active] ELSE gauge
  BY Zenon DEF cfgupdate_priv
<1>2. CASE taken = TRUE
  <2>1. gauge' = [gauge EXCEPT !.cfgup = active]
    BY <1>1, <1>2
  <2>2. [gauge EXCEPT !.cfgup = active]
          = [gauge EXCEPT !.sealed = gauge.sealed, !.cfgup = active]
    BY ModeSet, Zenon
  <2>3. gauge' = [gauge EXCEPT !.sealed = gauge.sealed, !.cfgup = active]
    BY <2>1, <2>2, Zenon
  <2> QED
    BY <2>3, Zenon
<1>3. CASE taken = FALSE
  <2>1. ~ ok
    BY <1>1, <1>3, Zenon
  <2>2. gauge' = [gauge EXCEPT !.sealed = gauge.sealed, !.cfgup = gauge.cfgup]
        /\ gauge.cfgup \in BOOLEAN
    BY <1>1, <1>3, GaugeModes, Zenon
  <2> QED
    BY <2>1, <2>2, Zenon
<1>4. taken = TRUE \/ taken = FALSE
  BY <1>1
<1> QED
  BY <1>2, <1>3, <1>4, Zenon

LEMMA WriteBeginsKeeps ==
    ASSUME GaugeIInv, NEW b \in {"bd", "bt"}, NEW ok \in BOOLEAN, write_dm_block_begins(b, ok)
    PROVE  GaugeIInv'
<1>0. Configures /\ conf.pc = b /\ GaugeStateOK
  BY DEF write_dm_block_begins, GaugeIInv
<1>1. /\ conf.writes \in {"bd", "bt"} /\ conf.failed \in BOOLEAN
      /\ conf = [pc |-> conf.pc, writes |-> conf.writes, bd |-> conf.bd, bt |-> conf.bt,
                 failed |-> conf.failed]
      /\ conf["bd"] = conf.bd /\ conf["bt"] = conf.bt /\ ~ conf["bt"].dirty
      /\ gauge.sealed \in BOOLEAN /\ gauge.cfgup \in BOOLEAN
  BY GaugeModes DEF GaugeIInv, GaugeStateOK, BufferWasRead, NoData
<1>2. After[b] \in ConfStages /\ ~ (After[b] \in {"data", "reset"}) /\ After["bd"] = "bt"
      /\ After["bt"] = "seal"
  BY DEF After, ConfStages
<1>3. CASE ~ conf[b].dirty
  <2>1. ConfGoes(After[b], TRUE) /\ gauge' = gauge
    BY <1>3, Zenon DEF write_dm_block_begins
  <2>2. (conf.failed \/ ~ TRUE) = conf.failed
    BY <1>1
  <2>3. Moves(After[b], conf.writes, conf.failed)
    BY <2>1, <2>2, GoesIsMove, Zenon
  <2>4. gauge' = [gauge EXCEPT !.sealed = gauge.sealed, !.cfgup = gauge.cfgup]
    BY <2>1, <1>0, GaugeModes, Zenon
  <2>5. GaugeStateOK' /\ BufferWasRead'
    BY <1>0, <1>1, <1>2, <2>3, <2>4, MovesKeepTypes, Zenon
  <2>6. conf'.pc = After[b] /\ conf'.failed = conf.failed /\ conf'.bd = conf.bd /\ Wanted' = Wanted
    BY <1>0, <1>1, <1>2, <2>3, MovesKeeps, Zenon
  <2>7. b = "bd" => ~ conf.bd.dirty
    BY <1>3, <1>1
  <2>8. WantedIsKept'
    BY <1>0, <1>2, <2>1, <2>6, <2>7 DEF GaugeIInv, WantedIsKept
  <2> QED
    BY <2>5, <2>8 DEF GaugeIInv
<1>4. CASE conf[b].dirty
  <2> DEFINE to == IF ok THEN "data" ELSE After[b]
             fl == conf.failed \/ ~ ok
  <2>0. b = "bd" /\ conf.bd.dirty
    BY <1>1, <1>4
  <2>1. conf' = [conf EXCEPT !.pc = to, !.writes = b, !.failed = fl] /\ cfgupdate_priv(TRUE, ok)
    BY <1>4, Zenon DEF write_dm_block_begins
  <2>2. PICK cu \in BOOLEAN : /\ gauge' = [gauge EXCEPT !.sealed = gauge.sealed, !.cfgup = cu]
                              /\ ok => cu = TRUE
    BY <1>0, <2>1, ModeCommand, Zenon
  <2>3. to \in ConfStages /\ Moves(to, b, fl) /\ fl \in BOOLEAN
        /\ (ok => to = "data") /\ (~ ok => fl) /\ (fl \/ ok) /\ (~ fl => ~ conf.failed)
    BY <1>1, <1>2, <2>1 DEF Moves, ConfStages
  <2> HIDE DEF to, fl
  <2>4. GaugeStateOK' /\ BufferWasRead'
    BY <1>0, <1>1, <2>0, <2>2, <2>3, MovesKeepTypes, Zenon
  <2>5. conf'.pc = to /\ conf'.failed = fl /\ conf'.bd = conf.bd /\ Wanted' = Wanted
    BY <1>0, <2>3, MovesKeeps, Zenon
  <2>6. ASSUME ~ fl PROVE conf'.pc = "data" /\ ~ conf.failed
    BY <2>3, <2>5, <2>6
  <2>7. WantedIsKept'
    BY <1>0, <2>0, <2>5, <2>6 DEF GaugeIInv, WantedIsKept
  <2> QED
    BY <2>4, <2>7 DEF GaugeIInv
<1> QED
  BY <1>3, <1>4

LEMMA WriteDataKeeps ==
    ASSUME GaugeIInv, NEW ok \in BOOLEAN, write_dm_block_data(ok) PROVE GaugeIInv'
<1> DEFINE fl == conf.failed \/ ~ ok
<1>0. /\ Configures /\ conf.pc = "data" /\ ConfGoes("reset", ok)
      /\ gauge' = IF ok THEN [gauge EXCEPT !.mem = conf[conf.writes].data] ELSE gauge
      /\ GaugeStateOK /\ BufferWasRead /\ WantedIsKept
  BY DEF write_dm_block_data, GaugeIInv
<1>1. /\ conf.writes = "bd" /\ conf.bd.dirty /\ conf["bd"] = conf.bd
      /\ conf.bd.has_data /\ conf.bd.data \in [Words -> {"old", "new"}]
      /\ conf.bd.data["rest"] = "old"
  BY <1>0 DEF BufferWasRead, GaugeStateOK
<1>2. gauge = [mem |-> gauge.mem, sealed |-> gauge.sealed, cfgup |-> gauge.cfgup]
      /\ gauge.sealed \in BOOLEAN /\ gauge.cfgup \in BOOLEAN
      /\ gauge.mem \in [Words -> {"old", "new"}] /\ gauge.mem["rest"] = "old"
  BY <1>0, GaugeModes DEF GaugeStateOK
<1>3. gauge'.mem = (IF ok THEN conf.bd.data ELSE gauge.mem)
      /\ gauge' = [mem |-> gauge'.mem, sealed |-> gauge.sealed, cfgup |-> gauge.cfgup]
  BY <1>0, <1>1, <1>2
<1>4. gauge' \in [mem : [Words -> {"old", "new"}], sealed : BOOLEAN, cfgup : BOOLEAN]
      /\ gauge'.mem["rest"] = "old"
  BY <1>1, <1>2, <1>3
<1>5. Moves("reset", conf.writes, fl) /\ conf.writes \in {"bd", "bt"} /\ fl \in BOOLEAN
  BY <1>0, GoesIsMove
<1>6. fl = FALSE => ok /\ ~ conf.failed
  BY <1>0 DEF GaugeStateOK
<1> HIDE DEF fl
<1>7. /\ conf'.pc = "reset" /\ conf'.writes = conf.writes /\ conf'.failed = fl
      /\ conf'.bd = conf.bd /\ conf'.bt = conf.bt
      /\ conf' = [pc |-> "reset", writes |-> conf.writes, bd |-> conf.bd, bt |-> conf.bt,
                  failed |-> fl]
      /\ info' = info /\ work' = work /\ rdr' = rdr /\ Wanted' = Wanted
  <2>1. "reset" \in ConfStages
    BY DEF ConfStages
  <2> QED
    BY <1>0, <1>5, <2>1, MovesKeeps, Zenon
<1>8. GaugeStateOK'
  BY <1>0, <1>4, <1>5, <1>7 DEF GaugeStateOK
<1>9. BufferWasRead'
  BY <1>0, <1>1, <1>7 DEF BufferWasRead
<1>10. ASSUME ~ fl PROVE \A f \in Wanted : gauge'.mem[f] = "new"
  BY <1>0, <1>3, <1>5, <1>6, <1>10 DEF WantedIsKept
<1>11. WantedIsKept'
  BY <1>7, <1>10 DEF WantedIsKept
<1> QED
  BY <1>8, <1>9, <1>11 DEF GaugeIInv

LEMMA ResetKeeps ==
    ASSUME GaugeIInv, NEW ok \in BOOLEAN, write_dm_block_resets(ok) PROVE GaugeIInv'
<1> DEFINE fl == conf.failed \/ ~ ok
<1>0. /\ Configures /\ conf.pc = "reset" /\ ConfGoes(After[conf.writes], ok)
      /\ cfgupdate_priv(FALSE, ok)
      /\ GaugeStateOK /\ BufferWasRead /\ WantedIsKept
  BY Zenon DEF write_dm_block_resets, GaugeIInv
<1>1. conf.writes = "bd" /\ After[conf.writes] = "bt"
  BY <1>0 DEF BufferWasRead, After
<1>2. PICK cu \in BOOLEAN : /\ gauge' = [gauge EXCEPT !.sealed = gauge.sealed, !.cfgup = cu]
                            /\ ok => cu = FALSE
  <2>1. FALSE \in BOOLEAN
    OBVIOUS
  <2> QED
    BY <1>0, <2>1, ModeCommand, Zenon
<1>3. Moves("bt", conf.writes, fl) /\ conf.writes \in {"bd", "bt"} /\ fl \in BOOLEAN
      /\ gauge.sealed \in BOOLEAN
  BY <1>0, <1>1, GoesIsMove
<1>4. fl = FALSE => ok /\ ~ conf.failed
  BY <1>0 DEF GaugeStateOK
<1>5. "bt" \in ConfStages /\ ~ ("bt" \in {"data", "reset"})
  BY DEF ConfStages
<1> HIDE DEF fl
<1>6. GaugeStateOK' /\ BufferWasRead'
  BY <1>0, <1>2, <1>3, <1>5, MovesKeepTypes, Zenon
<1>7. conf'.pc = "bt" /\ conf'.failed = fl /\ Wanted' = Wanted
  BY <1>0, <1>3, <1>5, MovesKeeps, Zenon
<1>8. gauge'.mem = gauge.mem /\ gauge'.cfgup = cu
  BY <1>0, <1>2, <1>3, ModesChange, Zenon
<1>9. WantedIsKept'
  BY <1>0, <1>2, <1>3, <1>4, <1>7, <1>8 DEF WantedIsKept
<1> QED
  BY <1>6, <1>9 DEF GaugeIInv

LEMMA SealKeeps ==
    ASSUME GaugeIInv, NEW ok \in BOOLEAN, battery_seal(ok) PROVE GaugeIInv'
<1> DEFINE fl == conf.failed \/ ~ ok
           se == gauge.sealed \/ ok
<1>0. /\ Configures /\ conf.pc = "seal" /\ ConfGoes("done", ok)
      /\ gauge' = [gauge EXCEPT !.sealed = se]
      /\ GaugeStateOK /\ BufferWasRead /\ WantedIsKept
  BY DEF battery_seal, GaugeIInv
<1>1. Moves("done", conf.writes, fl) /\ conf.writes \in {"bd", "bt"} /\ fl \in BOOLEAN
      /\ gauge.sealed \in BOOLEAN /\ gauge.cfgup \in BOOLEAN
  BY <1>0, GoesIsMove
<1>2. fl = FALSE => ok /\ ~ conf.failed
  BY <1>0 DEF GaugeStateOK
<1>3. (ok => se = TRUE) /\ se \in BOOLEAN
  BY <1>1
<1>4. "done" \in ConfStages /\ ~ ("done" \in {"data", "reset"})
  BY DEF ConfStages
<1> HIDE DEF fl, se
<1>5. gauge' = [gauge EXCEPT !.sealed = se, !.cfgup = gauge.cfgup]
  BY <1>0, SealSet, Zenon
<1>6. GaugeStateOK' /\ BufferWasRead'
  BY <1>0, <1>1, <1>3, <1>4, <1>5, MovesKeepTypes, Zenon
<1>7. conf'.pc = "done" /\ conf'.failed = fl /\ Wanted' = Wanted
  BY <1>0, <1>1, <1>4, MovesKeeps, Zenon
<1>8. gauge'.mem = gauge.mem /\ gauge'.sealed = se /\ gauge'.cfgup = gauge.cfgup
  BY <1>0, <1>1, <1>3, <1>5, ModesChange, Zenon
<1>9. WantedIsKept'
  BY <1>0, <1>1, <1>2, <1>3, <1>7, <1>8 DEF WantedIsKept
<1> QED
  BY <1>6, <1>9 DEF GaugeIInv

\* Polling touches neither the chip's memory nor the configuration.
LEMMA PollsKeep ==
    ASSUME GaugeIInv, PollSteps PROVE GaugeIInv'
<1>1. info' = info /\ gauge' = gauge /\ conf' = conf
  BY DEF PollSteps, Polls, setup_ends, TimePasses, WorkFires, work_updates, work_schedules,
     irq_handler_thread, get_property, property_cancels, property_updates, property_schedules,
     poll_interval_param_set, external_power_changed, teardown_stops, teardown_cancels,
     teardown_unregisters, teardown_ends
<1>2. work \in [sched : BOOLEAN, pc : {"idle", "update", "again"}]
      /\ rdr \in [Readers -> {"out", "cancel", "update", "again"}]
  BY DEF GaugeIInv, GaugeStateOK
<1>3. work' \in [sched : BOOLEAN, pc : {"idle", "update", "again"}]
  <2>1. \/ work' = [work EXCEPT !.sched = TRUE] \/ work' = [work EXCEPT !.sched = FALSE]
        \/ work' = [sched |-> FALSE, pc |-> "update"] \/ work' = [sched |-> TRUE, pc |-> "idle"]
        \/ work' = [work EXCEPT !.pc = "again"] \/ work' = [work EXCEPT !.pc = "idle"]
        \/ work' = work
    BY DEF PollSteps, setup_ends, TimePasses, WorkFires, work_updates, work_schedules,
     irq_handler_thread, get_property, property_cancels, property_updates, property_schedules,
     poll_interval_param_set, external_power_changed, teardown_stops, teardown_cancels,
     teardown_unregisters, teardown_ends, cancel_delayed_work_sync, Restarts
  <2>2. work = [sched |-> work.sched, pc |-> work.pc] /\ work.sched \in BOOLEAN
        /\ work.pc \in {"idle", "update", "again"}
    BY <1>2
  <2>3. \/ work' = [sched |-> TRUE, pc |-> work.pc] \/ work' = [sched |-> FALSE, pc |-> work.pc]
        \/ work' = [sched |-> FALSE, pc |-> "update"] \/ work' = [sched |-> TRUE, pc |-> "idle"]
        \/ work' = [sched |-> work.sched, pc |-> "again"]
        \/ work' = [sched |-> work.sched, pc |-> "idle"]
        \/ work' = work
    BY <2>1, <2>2
  <2>4. ASSUME NEW b \in BOOLEAN, NEW p \in {"idle", "update", "again"}
        PROVE  [sched |-> b, pc |-> p] \in [sched : BOOLEAN, pc : {"idle", "update", "again"}]
    OBVIOUS
  <2> QED
    BY <1>2, <2>2, <2>3, <2>4, Zenon
<1>4. rdr' \in [Readers -> {"out", "cancel", "update", "again"}]
  BY <1>2 DEF PollSteps, setup_ends, TimePasses, WorkFires, work_updates, work_schedules,
     irq_handler_thread, get_property, property_cancels, property_updates, property_schedules,
     poll_interval_param_set, external_power_changed, teardown_stops, teardown_cancels,
     teardown_unregisters, teardown_ends
<1> QED
  BY <1>1, <1>3, <1>4 DEF GaugeIInv, GaugeStateOK, BufferWasRead, WantedIsKept, Wanted, Same

LEMMA GaugeNextKeeps == GaugeIInv /\ [GaugeNext]_gaugeVars => GaugeIInv'
<1> SUFFICES ASSUME GaugeIInv, [GaugeNext]_gaugeVars PROVE GaugeIInv'
  OBVIOUS
<1>b. GaugeBus \subseteq BOOLEAN
  BY Zenon DEF GaugeBus
<1>1. CASE register_and_settings
  BY <1>1, SettingsKeep
<1>2. ASSUME NEW ok \in GaugeBus, battery_unseal(ok) PROVE GaugeIInv'
  BY <1>b, <1>2, UnsealKeeps
<1>3. ASSUME NEW ok \in GaugeBus, NEW ok2 \in GaugeBus, set_config_reads(ok, ok2)
      PROVE  GaugeIInv'
  BY <1>b, <1>3, ReadsKeep
<1>4. ASSUME NEW ok \in GaugeBus, NEW b \in {"bd", "bt"}, write_dm_block_begins(b, ok)
      PROVE  GaugeIInv'
  BY <1>b, <1>4, WriteBeginsKeeps
<1>5. ASSUME NEW ok \in GaugeBus, write_dm_block_data(ok) PROVE GaugeIInv'
  BY <1>b, <1>5, WriteDataKeeps
<1>6. ASSUME NEW ok \in GaugeBus, write_dm_block_resets(ok) PROVE GaugeIInv'
  BY <1>b, <1>6, ResetKeeps
<1>7. ASSUME NEW ok \in GaugeBus, battery_seal(ok) PROVE GaugeIInv'
  BY <1>b, <1>7, SealKeeps
<1>8. CASE PollSteps
  BY <1>8, PollsKeep
<1>9. CASE UNCHANGED gaugeVars
  BY <1>9 DEF gaugeVars, GaugeIInv, GaugeStateOK, BufferWasRead, WantedIsKept, Wanted, Same
<1> QED
  BY <1>1, <1>2, <1>3, <1>4, <1>5, <1>6, <1>7, <1>8, <1>9 DEF GaugeNext, ConfigSteps

\* The invariant of the gauge's configuration holds in every reachable state, for any
\* readers and whatever accesses fail.
THEOREM GaugeInvariant == GaugeSpec => []GaugeIInv
<1> QED
  BY GaugeInitial, GaugeNextKeeps, PTL DEF GaugeSpec

\* Whatever access fails while bq27xxx_battery_set_config writes the parameters, the data
\* memory never holds bytes that were neither read from it nor asked for; and when none
\* failed all parameters are there in the end, and the chip is sealed.
THEOREM ParametersAreTaken == GaugeSpec => []ConfigTaken
<1>1. GaugeIInv => ConfigTaken
  <2> SUFFICES ASSUME GaugeIInv PROVE ConfigTaken
    OBVIOUS
  <2>1. gauge.mem \in [Words -> {"old", "new"}] /\ gauge.mem["rest"] = "old"
        /\ info \subseteq Fields /\ work.pc \in {"idle", "update", "again"}
        /\ \A r \in Readers : rdr[r] \in {"out", "cancel", "update", "again"}
    BY DEF GaugeIInv, GaugeStateOK
  <2>2. gauge.mem \in [Words -> {"old", "new", "junk"}]
    BY <2>1
  <2>3. \A w \in Words : gauge.mem[w] # "junk"
    BY <2>1
  <2>4. conf.pc = "done" /\ ~conf.failed =>
          (\A f \in Wanted : gauge.mem[f] = "new") /\ gauge.sealed /\ ~gauge.cfgup
    BY DEF GaugeIInv, WantedIsKept
  <2> QED
    BY <2>1, <2>2, <2>3, <2>4 DEF ConfigTaken, GaugeTypeOK
<1> QED
  BY <1>1, GaugeInvariant, PTL

-----------------------------------------------------------------------------
(* The chargers *)

\* A step that changes neither the faults nor the interrupt nor the copies: a setting, a
\* reset of the registers, a read of the fault register by a routine.
FaultsStay == \E x : \/ chip' = chip \/ chip' = [chip EXCEPT !.set = x]
                     \/ chip' = [chip EXCEPT !.latch = {}]

LEMMA FaultsStayTyped ==
    ASSUME chip \in [set : {chip.set}, pg : BOOLEAN, now : SUBSET Faults, latch : SUBSET Faults],
           FaultsStay
    PROVE  /\ chip' \in [set : {chip'.set}, pg : BOOLEAN, now : SUBSET Faults,
                         latch : SUBSET Faults]
           /\ chip'.now = chip.now
<1>1. PICK x : \/ chip' = chip \/ chip' = [chip EXCEPT !.set = x]
               \/ chip' = [chip EXCEPT !.latch = {}]
  BY DEF FaultsStay
<1>2. chip = [set |-> chip.set, pg |-> chip.pg, now |-> chip.now, latch |-> chip.latch]
      /\ chip.pg \in BOOLEAN /\ chip.now \in SUBSET Faults /\ chip.latch \in SUBSET Faults
  OBVIOUS
<1>3. \/ chip' = [set |-> chip.set, pg |-> chip.pg, now |-> chip.now, latch |-> chip.latch]
      \/ chip' = [set |-> x, pg |-> chip.pg, now |-> chip.now, latch |-> chip.latch]
      \/ chip' = [set |-> chip.set, pg |-> chip.pg, now |-> chip.now, latch |-> {}]
  BY <1>1, <1>2
<1>4. ASSUME NEW y, NEW l \in SUBSET Faults,
             chip' = [set |-> y, pg |-> chip.pg, now |-> chip.now, latch |-> l]
      PROVE  /\ chip' \in [set : {chip'.set}, pg : BOOLEAN, now : SUBSET Faults,
                           latch : SUBSET Faults]
             /\ chip'.now = chip.now
  BY <1>2, <1>4
<1>5. {} \in SUBSET Faults
  OBVIOUS
<1> QED
  BY <1>2, <1>3, <1>4, <1>5, Zenon

LEMMA ReportInitial == BqInit => ReportIInv
<1> SUFFICES ASSUME BqInit PROVE ReportIInv
  OBVIOUS
<1>1. chip = [set |-> Defaults(part), pg |-> FALSE, now |-> {}, latch |-> {}]
      /\ bdi = [phase |-> "off", ss_reg |-> FALSE, f_reg |-> {}, valid |-> {}]
      /\ irq = [pending |-> FALSE, pc |-> "idle", missed |-> FALSE]
  BY DEF BqInit
<1> QED
  BY <1>1 DEF ReportIInv, ReportTypeOK, CopyIsCurrent

LEMMA SettingsStay ==
    ASSUME bq24190_settings \/ bq25601_settings \/ WatchdogExpires
    PROVE  FaultsStay /\ bdi' = bdi /\ irq' = irq
<1>1. CASE WatchdogExpires
  BY <1>1, Zenon DEF WatchdogExpires, FaultsStay
<1>2. ASSUME NEW f, NEW v, NEW ok, set_field_val(f, v, ok) PROVE FaultsStay
  <2>1. CASE ok
    <3>1. chip' = [chip EXCEPT !.set[f] = find_idx(Table(f), v)]
      BY <1>2, <2>1 DEF set_field_val
    <3>2. chip' = [chip EXCEPT !.set = [chip.set EXCEPT ![f] = find_idx(Table(f), v)]]
      BY <3>1
    <3> QED
      BY <3>2, Zenon DEF FaultsStay
  <2>2. CASE ~ ok
    BY <1>2, <2>2 DEF set_field_val, FaultsStay
  <2> QED
    BY <2>1, <2>2
<1>3. Setting => bdi' = bdi /\ irq' = irq
  BY DEF Setting
<1>4. ASSUME NEW f, NEW v, chip' = [chip EXCEPT !.set[f] = v] PROVE FaultsStay
  <2>1. chip' = [chip EXCEPT !.set = [chip.set EXCEPT ![f] = v]]
    BY <1>4
  <2> QED
    BY <2>1, Zenon DEF FaultsStay
<1>5. chip' = chip => FaultsStay
  BY DEF FaultsStay
<1>6. ASSUME NEW v, NEW ok, charger_set_voltage(v, ok) \/ battery_set_temp_alert_max(v, ok)
             \/ bq24190_set_current(v, ok) \/ bq25601_set_current(v, ok)
      PROVE  FaultsStay /\ Setting
  BY <1>2, <1>6, Zenon DEF charger_set_voltage, battery_set_temp_alert_max, bq24190_set_current,
     bq25601_set_current
<1>7. ASSUME NEW writes, NEW n, ChargeTypeSet(writes, n) PROVE FaultsStay /\ Setting
  BY <1>7 DEF ChargeTypeSet, FaultsStay
<1>8. ASSUME NEW type, bq24190_set_charge_type(type) \/ bq25601_set_charge_type(type)
      PROVE  FaultsStay /\ Setting
  BY <1>7, <1>8, Zenon DEF bq24190_set_charge_type, bq25601_set_charge_type
<1>9. ASSUME NEW on, NEW ok, battery_set_online(on, ok) PROVE FaultsStay /\ Setting
  <2>1. chip' = chip \/ chip' = [chip EXCEPT !.set["batfet"] = on]
    BY <1>9 DEF battery_set_online
  <2> QED
    BY <1>4, <1>5, <1>9, <2>1, Zenon DEF battery_set_online
<1>10. ASSUME NEW on, NEW ok, sysfs_store_hiz(on, ok) PROVE FaultsStay /\ Setting
  <2>1. chip' = chip \/ chip' = [chip EXCEPT !.set["hiz"] = on]
    BY <1>10 DEF sysfs_store_hiz
  <2> QED
    BY <1>4, <1>5, <1>10, <2>1, Zenon DEF sysfs_store_hiz
<1>11. ASSUME NEW f, NEW v, NEW ok, sysfs_store(f, v, ok) PROVE FaultsStay /\ Setting
  <2>1. chip' = chip \/ chip' = [chip EXCEPT !.set[f] = v % FieldSize(f)]
    BY <1>11, Zenon DEF sysfs_store
  <2> QED
    BY <1>4, <1>5, <1>11, <2>1, Zenon DEF sysfs_store
<1>12. CASE bq24190_settings
  <2>1. FaultsStay /\ Setting
    BY <1>6, <1>8, <1>9, <1>10, <1>11, <1>12, Zenon DEF bq24190_settings,
       bq24190_charger_set_property, bq24190_battery_set_property
  <2> QED
    BY <1>3, <2>1
<1>13. CASE bq25601_settings
  <2>1. FaultsStay /\ Setting
    BY <1>6, <1>8, <1>9, <1>10, <1>11, <1>13, Zenon DEF bq25601_settings,
       bq25601_charger_set_property, bq25601_battery_set_property, bq25601_charger_set_voltage,
       bq25601_battery_set_temp_alert_max, bq25601_battery_set_online, bq25601_sysfs_store
  <2> QED
    BY <1>3, <2>1
<1>14. WatchdogExpires => bdi' = bdi /\ irq' = irq
  BY DEF WatchdogExpires
<1> QED
  BY <1>1, <1>12, <1>13, <1>14

\* The chip's faults come and go, its supply changes.
LEMMA ChipKeepsReports ==
    ASSUME ReportIInv, NEW f \in Faults, ChipFaults(f) \/ ChipRecovers(f) \/ SupplyChanges
    PROVE  ReportIInv'
<1>1. /\ chip = [set |-> chip.set, pg |-> chip.pg, now |-> chip.now, latch |-> chip.latch]
      /\ chip.pg \in BOOLEAN /\ chip.now \in SUBSET Faults /\ chip.latch \in SUBSET Faults
      /\ bdi \in [phase : {"off", "init", "on", "asleep"}, ss_reg : BOOLEAN,
                  f_reg : SUBSET Faults, valid : SUBSET Routines]
      /\ irq \in [pending : BOOLEAN, pc : {"idle", "f"}, missed : BOOLEAN]
  BY DEF ReportIInv, ReportTypeOK
<1>2. bdi' = bdi /\ irq' = [irq EXCEPT !.pending = bdi.phase # "off"]
  BY DEF ChipFaults, ChipRecovers, SupplyChanges, Edge
<1>3. irq' \in [pending : BOOLEAN, pc : {"idle", "f"}, missed : BOOLEAN]
      /\ irq'.pending = (bdi.phase # "off")
  BY <1>1, <1>2, Zenon
<1>4. \/ chip' = [chip EXCEPT !.now = @ \union {f}, !.latch = @ \union {f}]
      \/ chip' = [chip EXCEPT !.now = @ \ {f}]
      \/ chip' = [chip EXCEPT !.pg = ~@]
  BY DEF ChipFaults, ChipRecovers, SupplyChanges
<1>5. \/ chip' = [set |-> chip.set, pg |-> chip.pg, now |-> chip.now \union {f},
                  latch |-> chip.latch \union {f}]
      \/ chip' = [set |-> chip.set, pg |-> chip.pg, now |-> chip.now \ {f}, latch |-> chip.latch]
      \/ chip' = [set |-> chip.set, pg |-> ~ chip.pg, now |-> chip.now, latch |-> chip.latch]
  BY <1>1, <1>4, Zenon
<1>6. chip' \in [set : {chip'.set}, pg : BOOLEAN, now : SUBSET Faults, latch : SUBSET Faults]
  <2>1. ASSUME NEW y, NEW p \in BOOLEAN, NEW n \in SUBSET Faults, NEW l \in SUBSET Faults,
               chip' = [set |-> y, pg |-> p, now |-> n, latch |-> l]
        PROVE  chip' \in [set : {chip'.set}, pg : BOOLEAN, now : SUBSET Faults,
                          latch : SUBSET Faults]
    BY <2>1
  <2>2. /\ chip.now \union {f} \in SUBSET Faults /\ chip.latch \union {f} \in SUBSET Faults
        /\ chip.now \ {f} \in SUBSET Faults /\ (~ chip.pg) \in BOOLEAN
    BY <1>1
  <2> QED
    BY <1>1, <1>5, <2>1, <2>2, Zenon
<1>7. ReportTypeOK'
  BY <1>1, <1>2, <1>3, <1>6 DEF ReportTypeOK
<1>8. CopyIsCurrent'
  BY <1>2, <1>3 DEF CopyIsCurrent
<1> QED
  BY <1>7, <1>8 DEF ReportIInv

\* The copies stay or are spent: a setting, a report, a change of the power state after
\* which no edge is lost.
LEMMA CopyStays ==
    ASSUME ReportIInv, FaultsStay,
           NEW p \in {"off", "init", "on", "asleep"}, NEW valid \in SUBSET bdi.valid,
           bdi' = [phase |-> p, ss_reg |-> bdi.ss_reg, f_reg |-> bdi.f_reg, valid |-> valid],
           \/ irq' = irq /\ (bdi.phase # "off" \/ valid = {})
           \/ irq' = [irq EXCEPT !.pending = FALSE] /\ p = "off"
    PROVE  ReportIInv'
<1>1. /\ chip \in [set : {chip.set}, pg : BOOLEAN, now : SUBSET Faults, latch : SUBSET Faults]
      /\ bdi.phase \in {"off", "init", "on", "asleep"} /\ bdi.ss_reg \in BOOLEAN
      /\ bdi.f_reg \in SUBSET Faults /\ bdi.valid \in SUBSET Routines
      /\ irq \in [pending : BOOLEAN, pc : {"idle", "f"}, missed : BOOLEAN]
  BY DEF ReportIInv, ReportTypeOK
<1>2. /\ chip' \in [set : {chip'.set}, pg : BOOLEAN, now : SUBSET Faults, latch : SUBSET Faults]
      /\ chip'.now = chip.now
  BY <1>1, FaultsStayTyped
<1>3. bdi' \in [phase : {"off", "init", "on", "asleep"}, ss_reg : BOOLEAN,
                f_reg : SUBSET Faults, valid : SUBSET Routines]
  BY <1>1
<1>4. irq' \in [pending : BOOLEAN, pc : {"idle", "f"}, missed : BOOLEAN]
  BY <1>1, Zenon
<1>5. ReportTypeOK'
  BY <1>2, <1>3, <1>4 DEF ReportTypeOK
<1>6. CopyIsCurrent'
  BY <1>2 DEF ReportIInv, CopyIsCurrent
<1> QED
  BY <1>5, <1>6 DEF ReportIInv

\* The interrupt thread: the status register, then the fault register.
LEMMA IrqReadsStatusKeepsReports ==
    ASSUME ReportIInv, NEW ok \in BOOLEAN, NEW hiz_ok \in BOOLEAN, irq_reads_ss(ok, hiz_ok)
    PROVE  ReportIInv'
<1>1. /\ chip \in [set : {chip.set}, pg : BOOLEAN, now : SUBSET Faults, latch : SUBSET Faults]
      /\ bdi \in [phase : {"off", "init", "on", "asleep"}, ss_reg : BOOLEAN,
                  f_reg : SUBSET Faults, valid : SUBSET Routines]
  BY DEF ReportIInv, ReportTypeOK
<1>2. FaultsStay
  <2>1. chip' = chip \/ chip' = [chip EXCEPT !.set.hiz = FALSE]
    BY DEF irq_reads_ss
  <2>2. chip' = chip \/ chip' = [chip EXCEPT !.set = [chip.set EXCEPT !.hiz = FALSE]]
    BY <2>1
  <2> QED
    BY <2>2 DEF FaultsStay
<1>3. chip' \in [set : {chip'.set}, pg : BOOLEAN, now : SUBSET Faults, latch : SUBSET Faults]
  BY <1>1, <1>2, FaultsStayTyped
<1>4. bdi' = bdi \/ bdi' = [bdi EXCEPT !.ss_reg = chip.pg]
  BY DEF irq_reads_ss
<1>5. bdi' \in [phase : {"off", "init", "on", "asleep"}, ss_reg : BOOLEAN,
                f_reg : SUBSET Faults, valid : SUBSET Routines]
  BY <1>1, <1>4
<1>6. irq' = [pending |-> FALSE, pc |-> IF ok THEN "f" ELSE "idle", missed |-> ~ok]
  BY DEF irq_reads_ss
<1>7. irq' \in [pending : BOOLEAN, pc : {"idle", "f"}, missed : BOOLEAN]
      /\ (irq'.pc # "idle" \/ irq'.missed)
  <2>1. CASE ok = TRUE
    BY <1>6, <2>1
  <2>2. CASE ok = FALSE
    BY <1>6, <2>2, Zenon
  <2> QED
    BY <2>1, <2>2, Zenon
<1>8. ReportTypeOK' /\ CopyIsCurrent'
  BY <1>3, <1>5, <1>7 DEF ReportTypeOK, CopyIsCurrent
<1> QED
  BY <1>8 DEF ReportIInv

LEMMA IrqReadsFaultsKeepsReports ==
    ASSUME ReportIInv, NEW ok \in BOOLEAN, irq_reads_f(ok)
    PROVE  ReportIInv'
<1>1. /\ chip \in [set : {chip.set}, pg : BOOLEAN, now : SUBSET Faults, latch : SUBSET Faults]
      /\ bdi \in [phase : {"off", "init", "on", "asleep"}, ss_reg : BOOLEAN,
                  f_reg : SUBSET Faults, valid : SUBSET Routines]
      /\ irq \in [pending : BOOLEAN, pc : {"idle", "f"}, missed : BOOLEAN]
  BY DEF ReportIInv, ReportTypeOK
<1>2. FaultsStay
  BY DEF irq_reads_f, FaultsRead, FaultsStay
<1>3. /\ chip' \in [set : {chip'.set}, pg : BOOLEAN, now : SUBSET Faults, latch : SUBSET Faults]
      /\ chip'.now = chip.now
  BY <1>1, <1>2, FaultsStayTyped
<1>4. FaultRegister \in SUBSET Faults /\ chip.now \subseteq FaultRegister
  BY <1>1 DEF FaultRegister
<1>5. \/ bdi' = bdi /\ (ok => bdi.f_reg = FaultRegister)
      \/ bdi' = [bdi EXCEPT !.f_reg = FaultRegister, !.valid = Routines]
  BY DEF irq_reads_f
<1>6. bdi' \in [phase : {"off", "init", "on", "asleep"}, ss_reg : BOOLEAN,
                f_reg : SUBSET Faults, valid : SUBSET Routines]
      /\ (ok => chip.now \subseteq bdi'.f_reg)
  <2>1. CASE bdi' = bdi /\ (ok => bdi.f_reg = FaultRegister)
    BY <1>1, <1>4, <2>1
  <2>2. CASE bdi' = [bdi EXCEPT !.f_reg = FaultRegister, !.valid = Routines]
    <3>1. Routines \in SUBSET Routines
      OBVIOUS
    <3> HIDE DEF FaultRegister
    <3> QED
      BY <1>1, <1>4, <2>2, <3>1, Zenon DEF FaultsRead
  <2>3. bdi' = [bdi EXCEPT !.f_reg = FaultRegister, !.valid = Routines]
        \/ (bdi' = bdi /\ (ok => bdi.f_reg = FaultRegister))
    BY <1>5
  <2> QED
    BY <2>1, <2>2, <2>3
<1>7. irq' = [irq EXCEPT !.pc = "idle", !.missed = ~ok]
  BY DEF irq_reads_f
<1>8. irq' \in [pending : BOOLEAN, pc : {"idle", "f"}, missed : BOOLEAN]
      /\ (~ irq'.missed => ok)
  BY <1>1, <1>7, Zenon
<1>9. ReportTypeOK'
  BY <1>3, <1>6, <1>8 DEF ReportTypeOK
<1>10. CopyIsCurrent'
  BY <1>3, <1>6, <1>8 DEF CopyIsCurrent
<1> QED
  BY <1>9, <1>10 DEF ReportIInv

\* The routines: a copy is spent, or the chip is read and the latch emptied.
LEMMA RoutinesKeepReports ==
    ASSUME ReportIInv, NEW r \in Routines, NEW ok, NEW f_ok, Look(r, ok) \/ Read(r, f_ok, ok)
    PROVE  ReportIInv'
<1>1. bdi \in [phase : {"off", "init", "on", "asleep"}, ss_reg : BOOLEAN,
               f_reg : SUBSET Faults, valid : SUBSET Routines]
  BY DEF ReportIInv, ReportTypeOK
<1>2. bdi = [phase |-> bdi.phase, ss_reg |-> bdi.ss_reg, f_reg |-> bdi.f_reg, valid |-> bdi.valid]
  BY <1>1
<1>3. FaultsStay /\ irq' = irq
  BY DEF Look, Read, FaultsStay, FaultsRead
<1>4. CASE Look(r, ok)
  <2>1. bdi.phase = "on"
    BY <1>4 DEF Look
  <2>2. bdi' = bdi \/ bdi' = [bdi EXCEPT !.valid = @ \ {r}]
    BY <1>4 DEF Look
  <2>3. PICK valid \in SUBSET bdi.valid :
          bdi' = [phase |-> "on", ss_reg |-> bdi.ss_reg, f_reg |-> bdi.f_reg, valid |-> valid]
    <3>1. \/ bdi' = [phase |-> "on", ss_reg |-> bdi.ss_reg, f_reg |-> bdi.f_reg,
                     valid |-> bdi.valid]
          \/ bdi' = [phase |-> "on", ss_reg |-> bdi.ss_reg, f_reg |-> bdi.f_reg,
                     valid |-> bdi.valid \ {r}]
      BY <1>2, <2>1, <2>2
    <3>2. bdi.valid \in SUBSET bdi.valid /\ bdi.valid \ {r} \in SUBSET bdi.valid
      OBVIOUS
    <3> QED
      BY <3>1, <3>2, Zenon
  <2> QED
    BY <1>3, <2>1, <2>3, CopyStays
<1>5. CASE Read(r, f_ok, ok)
  <2>1. bdi' = bdi
    BY <1>5 DEF Read
  <2>2. /\ chip' \in [set : {chip'.set}, pg : BOOLEAN, now : SUBSET Faults,
                      latch : SUBSET Faults]
        /\ chip'.now = chip.now
    BY <1>3, FaultsStayTyped DEF ReportIInv, ReportTypeOK
  <2> QED
    BY <1>3, <2>1, <2>2 DEF ReportIInv, ReportTypeOK, CopyIsCurrent
<1> QED
  BY <1>4, <1>5

\* Start, initialisation, removal, suspend and resume.
LEMMA PowerKeepsReports ==
    ASSUME ReportIInv, NEW ok, NEW host,
           probe_irq \/ hw_init(ok, host) \/ remove(ok) \/ pm_suspend(ok) \/ pm_resume(ok)
    PROVE  ReportIInv'
<1>1. /\ bdi \in [phase : {"off", "init", "on", "asleep"}, ss_reg : BOOLEAN,
                  f_reg : SUBSET Faults, valid : SUBSET Routines]
      /\ irq \in [pending : BOOLEAN, pc : {"idle", "f"}, missed : BOOLEAN]
      /\ chip \in [set : {chip.set}, pg : BOOLEAN, now : SUBSET Faults, latch : SUBSET Faults]
  BY DEF ReportIInv, ReportTypeOK
<1>2. bdi = [phase |-> bdi.phase, ss_reg |-> bdi.ss_reg, f_reg |-> bdi.f_reg, valid |-> bdi.valid]
  BY <1>1
<1>3. bdi.valid \in SUBSET bdi.valid /\ {} \in SUBSET bdi.valid
  OBVIOUS
<1>4. register_reset(ok) => FaultsStay
  BY Zenon DEF register_reset, FaultsStay
<1>5. CASE probe_irq
  <2>1. /\ bdi' = [phase |-> "init", ss_reg |-> FALSE, f_reg |-> {}, valid |-> {}]
        /\ irq' = [irq EXCEPT !.pending = FALSE, !.missed = FALSE] /\ chip' = chip
    BY <1>5 DEF probe_irq
  <2>2. bdi' \in [phase : {"off", "init", "on", "asleep"}, ss_reg : BOOLEAN,
                  f_reg : SUBSET Faults, valid : SUBSET Routines] /\ bdi'.valid = {}
    BY <2>1
  <2>3. irq' \in [pending : BOOLEAN, pc : {"idle", "f"}, missed : BOOLEAN]
    BY <1>1, <2>1, Zenon
  <2>4. ReportTypeOK' /\ CopyIsCurrent'
    BY <1>1, <2>1, <2>2, <2>3 DEF ReportTypeOK, CopyIsCurrent
  <2> QED
    BY <2>4 DEF ReportIInv
<1>6. CASE hw_init(ok, host)
  <2>1. FaultsStay
    BY <1>6, Zenon DEF hw_init, FaultsStay
  <2>2. bdi.phase = "init"
    BY <1>6 DEF hw_init
  <2>3. \/ bdi' = [bdi EXCEPT !.phase = "on"] /\ irq' = irq
        \/ bdi' = [bdi EXCEPT !.phase = "off"] /\ irq' = [irq EXCEPT !.pending = FALSE]
    BY <1>6 DEF hw_init
  <2>4. \/ /\ bdi' = [phase |-> "on", ss_reg |-> bdi.ss_reg, f_reg |-> bdi.f_reg,
                      valid |-> bdi.valid]
           /\ irq' = irq
        \/ /\ bdi' = [phase |-> "off", ss_reg |-> bdi.ss_reg, f_reg |-> bdi.f_reg,
                      valid |-> bdi.valid]
           /\ irq' = [irq EXCEPT !.pending = FALSE]
    BY <1>2, <2>3
  <2> QED
    BY <1>3, <2>1, <2>2, <2>4, CopyStays
<1>7. CASE remove(ok)
  <2>1. FaultsStay /\ irq' = [irq EXCEPT !.pending = FALSE]
    BY <1>4, <1>7 DEF remove
  <2>2. bdi' = [phase |-> "off", ss_reg |-> bdi.ss_reg, f_reg |-> bdi.f_reg, valid |-> bdi.valid]
    BY <1>2, <1>7 DEF remove
  <2> QED
    BY <1>3, <2>1, <2>2, CopyStays
<1>8. CASE pm_suspend(ok)
  <2>1. FaultsStay /\ irq' = irq /\ bdi.phase = "on"
    BY <1>4, <1>8 DEF pm_suspend
  <2>2. bdi' = [phase |-> "asleep", ss_reg |-> bdi.ss_reg, f_reg |-> bdi.f_reg,
                valid |-> bdi.valid]
    BY <1>2, <1>8 DEF pm_suspend
  <2> QED
    BY <1>3, <2>1, <2>2, CopyStays
<1>9. CASE pm_resume(ok)
  <2>1. FaultsStay /\ irq' = irq /\ bdi.phase = "asleep"
    BY <1>4, <1>9 DEF pm_resume
  <2>2. bdi' = [phase |-> "on", ss_reg |-> bdi.ss_reg, f_reg |-> bdi.f_reg, valid |-> {}]
    BY <1>2, <1>9, Zenon DEF pm_resume
  <2> QED
    BY <1>3, <2>1, <2>2, CopyStays
<1> QED
  BY <1>5, <1>6, <1>7, <1>8, <1>9

LEMMA ReportNextKeeps == ReportIInv /\ [BqNext]_bqVars => ReportIInv'
<1> SUFFICES ASSUME ReportIInv, [BqNext]_bqVars PROVE ReportIInv'
  OBVIOUS
<1>1. /\ bdi \in [phase : {"off", "init", "on", "asleep"}, ss_reg : BOOLEAN,
                  f_reg : SUBSET Faults, valid : SUBSET Routines]
      /\ "chrg" \in Faults
      /\ "charger_health" \in Routines /\ "battery_status" \in Routines
      /\ "battery_health" \in Routines
      /\ \A ok \in Bus : ok \in BOOLEAN
  BY Zenon DEF ReportIInv, ReportTypeOK, Faults, Routines, Reports, Bus
<1>2. ASSUME bq24190_settings \/ bq25601_settings \/ WatchdogExpires PROVE ReportIInv'
  <2>1. FaultsStay /\ bdi' = bdi /\ irq' = irq
    BY <1>2, SettingsStay
  <2>2. /\ chip' \in [set : {chip'.set}, pg : BOOLEAN, now : SUBSET Faults,
                      latch : SUBSET Faults]
        /\ chip'.now = chip.now
    BY <2>1, FaultsStayTyped DEF ReportIInv, ReportTypeOK
  <2> QED
    BY <2>1, <2>2 DEF ReportIInv, ReportTypeOK, CopyIsCurrent
<1>3. CASE ChipSteps
  <2>1. ASSUME NEW f \in Faults, ChipFaults(f) \/ ChipRecovers(f) PROVE ReportIInv'
    BY <2>1, ChipKeepsReports
  <2>2. CASE SupplyChanges
    BY <1>1, <2>2, ChipKeepsReports
  <2> QED
    BY <1>2, <1>3, <2>1, <2>2, Zenon DEF ChipSteps
<1>4. CASE bq24190_reports \/ bq25601_reports
  <2>1. bq25601_reports => bq24190_reports
    BY Zenon DEF bq25601_reports, bq24190_reports, bq25601_charger_get_health,
       bq25601_battery_get_status, bq25601_battery_get_health, bq25601_irq_handler_thread
  <2>2. CASE charger_get_health
    BY <1>1, <2>2, RoutinesKeepReports, Zenon DEF charger_get_health
  <2>3. CASE battery_get_status
    BY <1>1, <2>3, RoutinesKeepReports, Zenon DEF battery_get_status
  <2>4. CASE battery_get_health
    BY <1>1, <2>4, RoutinesKeepReports, Zenon DEF battery_get_health
  <2>5. ASSUME NEW ok \in Bus, irq_reads_f(ok) \/ \E h \in Bus : irq_reads_ss(ok, h)
        PROVE  ReportIInv'
    BY <1>1, <2>5, IrqReadsFaultsKeepsReports, IrqReadsStatusKeepsReports, Zenon
  <2> QED
    BY <1>4, <2>1, <2>2, <2>3, <2>4, <2>5, Zenon DEF bq24190_reports
<1>5. CASE bq24190_power \/ bq25601_power
  <2>1. bq25601_power => bq24190_power
    BY Zenon DEF bq25601_power, bq24190_power, bq25601_probe, bq25601_hw_init, bq25601_remove,
       bq25601_pm_suspend, bq25601_pm_resume
  <2> QED
    BY <1>5, <2>1, PowerKeepsReports, Zenon DEF bq24190_power
<1>6. CASE UNCHANGED bqVars
  BY <1>6 DEF bqVars, ReportIInv, ReportTypeOK, CopyIsCurrent
<1> QED
  BY <1>2, <1>3, <1>4, <1>5, <1>6, Zenon DEF BqNext

\* Whatever faults come and go, whichever accesses of the bus fail and however the driver is
\* stopped, suspended and resumed: a copy of the fault register that some routine has yet
\* to report is no older than the chip's present faults, or the interrupt thread is about
\* to renew it.
THEOREM ReportInvariant == BqSpec => []ReportIInv
<1>1. BqInit => ReportIInv
  BY ReportInitial
<1>2. ReportIInv /\ [BqNext]_bqVars => ReportIInv'
  BY ReportNextKeeps
<1> QED
  BY <1>1, <1>2, PTL DEF BqSpec

\* bq24190_irq_handler_thread and the routines *_get_health and *_get_status of both
\* chargers: when the thread has run without a failure, each routine's next report has
\* every fault that is present.
THEOREM FaultsAreReported == BqSpec => []PresentFaultReported
<1>1. ReportIInv => PresentFaultReported
  <2> SUFFICES ASSUME ReportIInv, bdi.phase = "on", irq.pc = "idle", ~irq.pending, ~irq.missed,
                      NEW r \in Routines
               PROVE  chip.now \intersect Reports[r] \subseteq Reported(r)
    BY DEF PresentFaultReported
  <2>1. CASE r \in bdi.valid
    <3>1. chip.now \subseteq bdi.f_reg
      BY <2>1 DEF ReportIInv, CopyIsCurrent
    <3> QED
      BY <2>1, <3>1 DEF Reported
  <2>2. CASE r \notin bdi.valid
    BY <2>2 DEF Reported, FaultRegister
  <2> QED
    BY <2>1, <2>2
<1> QED
  BY <1>1, ReportInvariant, PTL

-----------------------------------------------------------------------------
(* The chargers: the search in a table                                       *)

\* A set of numbers that is not empty has a least element.
LEMMA LeastIndex ==
    ASSUME NEW T, T \subseteq Nat, T # {}
    PROVE  \E x \in T : \A y \in T : x <= y
<1> DEFINE R == {ss \in Nat \X Nat : ss[1] < ss[2]}
<1>1. IsWellFoundedOn(R, Nat)
  BY NatLessThanWellFounded DEF OpToRel
<1>2. PICK x \in T : \A y \in T : ~ (<<y, x>> \in R)
  <2> HIDE DEF R
  <2> QED
    BY <1>1, WFMin, Zenon
<1>3. ASSUME NEW y \in T PROVE x <= y
  <2>1. x \in Nat /\ y \in Nat /\ <<y, x>> \notin R
    BY <1>2
  <2>2. ~ (y < x)
    BY <2>1
  <2> QED
    BY <2>1, <2>2
<1> QED
  BY <1>3

LEMMA MinIs ==
    ASSUME NEW S \in SUBSET Int, NEW x \in S, \A y \in S : x <= y PROVE Min(S) = x
<1>1. /\ Min(S) \in S /\ \A y \in S : Min(S) =< y
  BY Zenon DEF Min
<1>2. Min(S) <= x /\ x <= Min(S)
  BY <1>1, Zenon
<1>3. Min(S) \in Int /\ x \in Int
  BY <1>1, Zenon
<1> QED
  BY <1>2, <1>3

LEMMA MaxIs ==
    ASSUME NEW S \in SUBSET Int, NEW x \in S, \A y \in S : y <= x PROVE Max(S) = x
<1>0. \A y \in S : x >= y
  OBVIOUS
<1>1. /\ Max(S) \in S /\ \A y \in S : Max(S) >= y
  BY <1>0, Zenon DEF Max
<1>2. Max(S) >= x /\ x >= Max(S)
  BY <1>0, <1>1, Zenon
<1>3. Max(S) \in Int /\ x \in Int
  BY <1>1, Zenon
<1> QED
  BY <1>2, <1>3

Ascending(tbl, n) ==
    /\ n \in Nat /\ n >= 2 /\ DOMAIN tbl = 0 .. (n - 1)
    /\ \A i \in 0 .. (n - 1) : tbl[i] \in Int
    /\ \A i, j \in 0 .. (n - 1) : i < j => tbl[i] < tbl[j]

LEMMA TableLength == ASSUME NEW n \in Nat, n >= 2 PROVE Cardinality(0 .. (n - 1)) = n
<1>1. 0 \in Int /\ n - 1 \in Int
  OBVIOUS
<1>2. Cardinality(0 .. (n - 1)) = IF 0 > n - 1 THEN 0 ELSE (n - 1) - 0 + 1
  BY <1>1, FS_Interval, Zenon
<1> QED
  BY <1>2

\* The index found: nothing up to it is above v but the first entry, and the next one is.
LEMMA FindIdx ==
    ASSUME NEW tbl, NEW n, Ascending(tbl, n), NEW v \in Int
    PROVE  /\ find_idx(tbl, v) \in 0 .. (n - 1)
           /\ \A i \in 1 .. find_idx(tbl, v) : ~ v < tbl[i]
           /\ find_idx(tbl, v) < n - 1 => v < tbl[find_idx(tbl, v) + 1]
<1> DEFINE above == {i \in 1 .. (n - 1) : v < tbl[i]} \union {n}
<1>1. n \in Nat /\ n >= 2 /\ Cardinality(DOMAIN tbl) = n
  BY TableLength DEF Ascending
<1>2. above \subseteq Nat /\ above # {} /\ above \in SUBSET Int
  BY <1>1
<1>3. PICK x \in above : \A y \in above : x <= y
  <2> HIDE DEF above
  <2> QED
    BY <1>2, LeastIndex, Zenon
<1>4. Min(above) = x
  <2> HIDE DEF above
  <2> QED
    BY <1>2, <1>3, MinIs
<1>5. find_idx(tbl, v) = x - 1
  BY <1>1, <1>4, Zenon DEF find_idx
<1>6. x \in 1 .. n /\ (x = n \/ v < tbl[x])
  BY <1>1, <1>3
<1>7. \A i \in 1 .. (x - 1) : ~ v < tbl[i]
  <2> SUFFICES ASSUME NEW i \in 1 .. (x - 1), v < tbl[i] PROVE FALSE
    OBVIOUS
  <2>1. i \in 1 .. (n - 1)
    BY <1>1, <1>6
  <2>2. i \in above
    BY <2>1
  <2> QED
    BY <1>3, <1>6, <2>2
<1> QED
  BY <1>1, <1>5, <1>6, <1>7

\* So the entry there is the highest one that does not exceed v, or the lowest one.
LEMMA FoundIsBest ==
    ASSUME NEW tbl, NEW n, Ascending(tbl, n), NEW v \in Int
    PROVE  LET offered == {tbl[i] : i \in DOMAIN tbl}
           IN  tbl[find_idx(tbl, v)] = Max({y \in offered : y <= v} \union {Min(offered)})
<1> DEFINE offered == {tbl[i] : i \in DOMAIN tbl}
           idx == find_idx(tbl, v)
           S == {y \in offered : y <= v} \union {tbl[0]}
<1>1. /\ idx \in 0 .. (n - 1)
      /\ \A i \in 1 .. idx : ~ v < tbl[i]
      /\ idx < n - 1 => v < tbl[idx + 1]
  BY FindIdx
<1> HIDE DEF idx
<1>2. /\ n \in Nat /\ n >= 2 /\ DOMAIN tbl = 0 .. (n - 1)
      /\ \A i \in 0 .. (n - 1) : tbl[i] \in Int
      /\ \A i, j \in 0 .. (n - 1) : i < j => tbl[i] < tbl[j]
  BY DEF Ascending
<1>3. Min(offered) = tbl[0]
  <2>0. 0 \in 0 .. (n - 1)
    BY <1>2
  <2>1. offered \in SUBSET Int /\ tbl[0] \in offered
    BY <1>2, <2>0, Zenon
  <2>2. ASSUME NEW y \in offered PROVE tbl[0] <= y
    <3>1. PICK i \in 0 .. (n - 1) : y = tbl[i]
      BY <1>2
    <3>2. i = 0 \/ (0 < i /\ tbl[0] < tbl[i])
      BY <1>2, <2>0
    <3> QED
      BY <1>2, <2>0, <3>1, <3>2
  <2>3. \A y \in offered : tbl[0] <= y
    BY <2>2
  <2> HIDE DEF offered
  <2> QED
    BY <2>1, <2>3, MinIs, Zenon
<1>4. S \in SUBSET Int
  BY <1>2
<1>5. tbl[idx] \in S
  <2>1. CASE idx = 0
    BY <2>1
  <2>2. CASE idx # 0
    <3>1. idx \in 1 .. idx /\ ~ v < tbl[idx] /\ tbl[idx] \in Int
      BY <1>1, <1>2, <2>2
    <3> QED
      BY <1>1, <1>2, <3>1
  <2> QED
    BY <2>1, <2>2
<1>6. \A y \in S : y <= tbl[idx]
  <2> SUFFICES ASSUME NEW y \in S PROVE y <= tbl[idx]
    OBVIOUS
  <2>1. tbl[0] <= tbl[idx]
    BY <1>1, <1>2
  <2>2. ASSUME NEW i \in 0 .. (n - 1), y = tbl[i], y <= v PROVE y <= tbl[idx]
    <3>1. CASE i <= idx
      BY <1>1, <1>2, <2>2, <3>1
    <3>2. CASE idx < i
      <4>1. idx < n - 1 /\ idx + 1 \in 0 .. (n - 1) /\ v < tbl[idx + 1]
        BY <1>1, <1>2, <3>2
      <4>2. tbl[idx + 1] <= tbl[i]
        BY <1>1, <1>2, <3>2, <4>1
      <4> QED
        BY <1>2, <2>2, <4>1, <4>2
    <3> QED
      BY <1>1, <3>1, <3>2
  <2> QED
    BY <1>2, <2>1, <2>2
<1>7. Max(S) = tbl[idx]
  <2> HIDE DEF S
  <2> QED
    BY <1>4, <1>5, <1>6, MaxIs, Zenon
<1> QED
  BY <1>3, <1>7, Zenon DEF idx

LEMMA FieldReadsBack ==
    ASSUME NEW tbl, NEW n, Ascending(tbl, n), NEW v \in 0 .. (n - 1)
    PROVE  get_field_val(tbl, v) = tbl[v]
<1>1. n \in Nat /\ n >= 2 /\ Cardinality(DOMAIN tbl) = n
  BY TableLength DEF Ascending
<1>2. {v, n - 1} \in SUBSET Int /\ v \in {v, n - 1} /\ \A y \in {v, n - 1} : v <= y
  BY <1>1
<1>3. Min({v, n - 1}) = v
  BY <1>2, MinIs
<1> QED
  BY <1>1, <1>3 DEF get_field_val

\* The tables.
LEMMA Tables ==
    ASSUME part \in Parts, NEW f \in Settings
    PROVE  \E n \in Nat : Ascending(Table(f), n) /\ n <= FieldSize(f) /\ FieldSize(f) \in Nat
<1>1. Ascending(bq24190_ccc_ichg_values, 64)
  BY DEF Ascending, bq24190_ccc_ichg_values
<1>2. Ascending(bq24190_cvc_vreg_values, 57)
  BY DEF Ascending, bq24190_cvc_vreg_values
<1>3. Ascending(bq24190_ictrc_treg_values, 4)
  BY DEF Ascending, bq24190_ictrc_treg_values
<1>4. Ascending(bq25601_ccc_ichg_values, 52)
  <2>1. \A i \in 0 .. 51 :
          /\ i <= 36 => bq25601_ccc_ichg_values[i] = 60000 * i
          /\ i = 37 => bq25601_ccc_ichg_values[i] = 2200000
          /\ i = 38 => bq25601_ccc_ichg_values[i] = 2260000
          /\ i > 38 => bq25601_ccc_ichg_values[i] = 60000 * (i - 1)
    BY DEF bq25601_ccc_ichg_values
  <2>2. DOMAIN bq25601_ccc_ichg_values = 0 .. 51
    BY DEF bq25601_ccc_ichg_values
  <2> QED
    BY <2>1, <2>2 DEF Ascending
<1>5. Ascending(bq25601_cvc_vreg_values, 25)
  BY DEF Ascending, bq25601_cvc_vreg_values
<1>6. Ascending(bq25601_cttc_treg_values, 2)
  BY DEF Ascending, bq25601_cttc_treg_values
<1>7. CASE part = "bq24190" /\ f = "ichg"
  <2>1. Table(f) = bq24190_ccc_ichg_values /\ FieldSize(f) = 64
    BY <1>7 DEF Table, FieldSize
  <2> QED
    BY <1>1, <2>1
<1>8. CASE part = "bq24190" /\ f = "vreg"
  <2>1. Table(f) = bq24190_cvc_vreg_values /\ FieldSize(f) = 64
    BY <1>8 DEF Table, FieldSize
  <2> QED
    BY <1>2, <2>1
<1>9. CASE part = "bq24190" /\ f = "treg"
  <2>1. Table(f) = bq24190_ictrc_treg_values /\ FieldSize(f) = 4
    BY <1>9 DEF Table, FieldSize
  <2> QED
    BY <1>3, <2>1
<1>10. CASE part = "bq25601" /\ f = "ichg"
  <2>1. Table(f) = bq25601_ccc_ichg_values /\ FieldSize(f) = 64
    BY <1>10 DEF Table, FieldSize
  <2> QED
    BY <1>4, <2>1
<1>11. CASE part = "bq25601" /\ f = "vreg"
  <2>1. Table(f) = bq25601_cvc_vreg_values /\ FieldSize(f) = 32
    BY <1>11 DEF Table, FieldSize
  <2> QED
    BY <1>5, <2>1
<1>12. CASE part = "bq25601" /\ f = "treg"
  <2>1. Table(f) = bq25601_cttc_treg_values /\ FieldSize(f) = 2
    BY <1>12 DEF Table, FieldSize
  <2> QED
    BY <1>6, <2>1
<1> QED
  BY <1>7, <1>8, <1>9, <1>10, <1>11, <1>12 DEF Parts, Settings

\* In trickle mode the table is the one of a fifth of the currents, all multiples of 5.
Fifths == [i \in 0 .. 63 |-> 102400 + 12800 * i]

LEMMA FifthsAre ==
    /\ Ascending(Fifths, 64) /\ Ascending(bq24190_ccc_ichg_values, 64)
    /\ \A i \in 0 .. 63 : /\ bq24190_ccc_ichg_values[i] = 5 * Fifths[i]
                          /\ bq24190_ccc_ichg_values[i] \div 5 = Fifths[i]
    /\ \A v \in Int : find_idx(bq24190_ccc_ichg_values, v * 5) = find_idx(Fifths, v)
<1>1. Ascending(Fifths, 64) /\ Ascending(bq24190_ccc_ichg_values, 64)
  BY DEF Ascending, Fifths, bq24190_ccc_ichg_values
<1>2. \A i \in 0 .. 63 : /\ bq24190_ccc_ichg_values[i] = 5 * Fifths[i]
                         /\ bq24190_ccc_ichg_values[i] \div 5 = Fifths[i]
                         /\ Fifths[i] \in Int
  BY DEF Fifths, bq24190_ccc_ichg_values
<1>3. ASSUME NEW v \in Int
      PROVE  find_idx(bq24190_ccc_ichg_values, v * 5) = find_idx(Fifths, v)
  <2>1. Cardinality(DOMAIN Fifths) = 64 /\ Cardinality(DOMAIN bq24190_ccc_ichg_values) = 64
    <3>1. 64 \in Nat /\ 64 >= 2
      OBVIOUS
    <3>2. Cardinality(0 .. (64 - 1)) = 64
      BY <3>1, TableLength, Zenon
    <3>3. DOMAIN Fifths = 0 .. (64 - 1) /\ DOMAIN bq24190_ccc_ichg_values = 0 .. (64 - 1)
      BY <1>1, Zenon DEF Ascending
    <3> QED
      BY <3>2, <3>3, Zenon
  <2>2. ASSUME NEW i \in 1 .. (64 - 1)
        PROVE  v * 5 < bq24190_ccc_ichg_values[i] <=> v < Fifths[i]
    <3>1. i \in 0 .. 63
      OBVIOUS
    <3>2. PICK w \in Int : w = Fifths[i] /\ bq24190_ccc_ichg_values[i] = 5 * w
      BY <1>2, <3>1, Zenon
    <3>3. v * 5 < 5 * w <=> v < w
      OBVIOUS
    <3> QED
      BY <3>2, <3>3
  <2>3. {i \in 1 .. (64 - 1) : v * 5 < bq24190_ccc_ichg_values[i]}
          = {i \in 1 .. (64 - 1) : v < Fifths[i]}
    BY <2>2
  <2> QED
    BY <2>1, <2>3, Zenon DEF find_idx
<1> QED
  BY <1>1, <1>2, <1>3

LEMMA SettingIsFound == SettingsIInv => SettingIsBest
<1> SUFFICES ASSUME SettingsIInv, NEW f \in Settings, asked[f] # None
             PROVE  TakenBack(f) = Max({v \in Offered(f) : v <= asked[f]} \union {Min(Offered(f))})
  BY DEF SettingIsBest
<1>1. /\ chip.set[f] = find_idx(Table(f), Sought(f, asked[f])) /\ part \in Parts
      /\ part = "bq25601" => ~chip.set.force20
      /\ asked[f] \in Int
  BY DEF SettingsIInv, SetTypeOK, FieldIsFound
<1>2. CASE f = "ichg" /\ chip.set.force20
  <2>1. part = "bq24190" /\ Table(f) = bq24190_ccc_ichg_values
    BY <1>1, <1>2 DEF Parts, Table
  <2>2. chip.set.ichg = find_idx(Fifths, asked[f])
    BY <1>1, <1>2, <2>1, FifthsAre DEF Sought
  <2>3. chip.set.ichg \in 0 .. (64 - 1)
    <3>1. 64 \in Nat
      OBVIOUS
    <3>2. find_idx(Fifths, asked[f]) \in 0 .. (64 - 1)
      BY <1>1, <3>1, FindIdx, FifthsAre, Zenon
    <3> QED
      BY <2>2, <3>2
  <2>4. TakenBack(f) = Fifths[chip.set.ichg]
    <3>1. get_field_val(bq24190_ccc_ichg_values, chip.set.ichg)
            = bq24190_ccc_ichg_values[chip.set.ichg]
      BY <2>3, FifthsAre, FieldReadsBack
    <3>2. TakenBack(f) = get_field_val(bq24190_ccc_ichg_values, chip.set.ichg) \div 5
      BY <1>2, <2>1 DEF TakenBack, bq24190_get_current
    <3> QED
      BY <2>3, <3>1, <3>2, FifthsAre
  <2>5. Offered(f) = {Fifths[i] : i \in DOMAIN Fifths}
    <3>1. DOMAIN Fifths = 0 .. 63 /\ DOMAIN bq24190_ccc_ichg_values = 0 .. 63
      BY DEF Fifths, bq24190_ccc_ichg_values
    <3>2. Offered(f) = {bq24190_ccc_ichg_values[i] \div 5 : i \in 0 .. 63}
      BY <1>2, <2>1, <3>1 DEF Offered
    <3> QED
      BY <3>1, <3>2, FifthsAre
  <2>6. Fifths[find_idx(Fifths, asked[f])]
          = Max({y \in {Fifths[i] : i \in DOMAIN Fifths} : y <= asked[f]}
                  \union {Min({Fifths[i] : i \in DOMAIN Fifths})})
    <3>1. 64 \in Nat
      OBVIOUS
    <3> QED
      BY <1>1, <3>1, FoundIsBest, FifthsAre, Zenon
  <2> QED
    BY <2>2, <2>4, <2>5, <2>6
<1>3. CASE ~ (f = "ichg" /\ chip.set.force20)
  <2>1. PICK n \in Nat : Ascending(Table(f), n)
    BY <1>1, Tables
  <2>2. chip.set[f] = find_idx(Table(f), asked[f])
    BY <1>1, <1>3 DEF Sought
  <2>3. chip.set[f] \in 0 .. (n - 1)
    BY <1>1, <2>1, <2>2, FindIdx
  <2>4. TakenBack(f) = Table(f)[chip.set[f]]
    <3>1. get_field_val(Table(f), chip.set[f]) = Table(f)[chip.set[f]]
      BY <2>1, <2>3, FieldReadsBack
    <3>2. TakenBack(f) = get_field_val(Table(f), chip.set[f])
      BY <1>1, <1>3, Zenon DEF TakenBack, bq24190_get_current, bq25601_get_current, Table, Parts
    <3> QED
      BY <3>1, <3>2
  <2>5. Offered(f) = {Table(f)[i] : i \in DOMAIN Table(f)}
    BY <1>3 DEF Offered
  <2> QED
    BY <1>1, <2>1, <2>2, <2>4, <2>5, FoundIsBest, Zenon
<1> QED
  BY <1>2, <1>3

-----------------------------------------------------------------------------
(* The chargers: the three shapes of a step that touches the settings       *)

\* A switch of the chip at most: no field changes, and a request for a current ends when
\* the trickle bit changes.
FlagsMove ==
    /\ part' = part /\ DOMAIN chip'.set = DOMAIN chip.set
    /\ \A f \in Settings : chip'.set[f] = chip.set[f]
    /\ \A k \in BqFlags : chip'.set[k] \in BOOLEAN
    /\ part = "bq25601" => chip'.set.force20 = chip.set.force20
    /\ asked' = IF chip'.set.force20 # chip.set.force20
                  THEN [asked EXCEPT !.ichg = None] ELSE asked

LEMMA FlagsMoveKeeps == ASSUME SettingsIInv, FlagsMove PROVE SettingsIInv'
<1>1. /\ part' = part /\ part \in Parts /\ DOMAIN chip'.set = BqFlags \union Settings
      /\ \A f \in Settings : chip'.set[f] = chip.set[f]
      /\ \A k \in BqFlags : chip'.set[k] \in BOOLEAN
      /\ asked \in [Settings -> Int] /\ "force20" \in BqFlags
  BY DEF SettingsIInv, SetTypeOK, FlagsMove, BqFlags
<1>2. \A f \in Settings : FieldSize(f)' = FieldSize(f) /\ Table(f)' = Table(f)
  BY <1>1 DEF FieldSize, Table
<1>3. asked' \in [Settings -> Int] /\ \A f \in Settings : asked'[f] \in {asked[f], None}
  BY <1>1 DEF FlagsMove, None
<1>4. SetTypeOK'
  BY <1>1, <1>2, <1>3 DEF SettingsIInv, SetTypeOK
<1>5. ASSUME NEW f \in Settings, asked'[f] # None
      PROVE  chip'.set[f] = find_idx(Table(f), IF f = "ichg" /\ chip'.set.force20
                                                 THEN asked'[f] * 5 ELSE asked'[f])
  <2>1. asked'[f] = asked[f] /\ asked[f] # None
    BY <1>3, <1>5
  <2>2. chip.set[f] = find_idx(Table(f), IF f = "ichg" /\ chip.set.force20
                                           THEN asked[f] * 5 ELSE asked[f])
    BY <2>1 DEF SettingsIInv, FieldIsFound, Sought
  <2>3. f = "ichg" => chip'.set.force20 = chip.set.force20
    <3> SUFFICES ASSUME f = "ichg", chip'.set.force20 # chip.set.force20 PROVE FALSE
      OBVIOUS
    <3>1. asked' = [asked EXCEPT !.ichg = None]
      BY DEF FlagsMove
    <3>2. asked'[f] = None
      BY <1>1, <3>1
    <3> QED
      BY <1>5, <3>2
  <2> QED
    BY <1>1, <2>1, <2>2, <2>3
<1>6. FieldIsFound'
  <2>1. \A f \in Settings : asked'[f] # None => chip'.set[f] = find_idx(Table(f)', Sought(f, asked[f])')
    BY <1>2, <1>5 DEF Sought
  <2>2. part' = "bq25601" => ~ chip'.set.force20
    BY <1>1 DEF SettingsIInv, FieldIsFound, FlagsMove
  <2> QED
    BY <2>1, <2>2 DEF FieldIsFound
<1> QED
  BY <1>4, <1>6 DEF SettingsIInv

\* One field takes the value that the search finds for what user space is told, or any
\* value and user space is told of none.
FieldSet(f, v, x) ==
    /\ part' = part /\ chip'.set = [chip.set EXCEPT ![f] = x]
    /\ asked' = [asked EXCEPT ![f] = v]
    /\ v # None => x = find_idx(Table(f), Sought(f, v))

LEMMA FieldSetKeeps ==
    ASSUME SettingsIInv, NEW f \in Settings, NEW v \in Int, NEW x \in 0 .. (FieldSize(f) - 1),
           FieldSet(f, v, x)
    PROVE  SettingsIInv'
<1>1. /\ part' = part /\ part \in Parts /\ DOMAIN chip.set = BqFlags \union Settings
      /\ asked \in [Settings -> Int] /\ "force20" \in BqFlags
      /\ chip'.set = [chip.set EXCEPT ![f] = x] /\ asked' = [asked EXCEPT ![f] = v]
      /\ \A k \in BqFlags : chip.set[k] \in BOOLEAN /\ k \notin Settings
  BY DEF SettingsIInv, SetTypeOK, FieldSet, BqFlags, Settings
<1>2. \A g \in Settings : FieldSize(g)' = FieldSize(g) /\ Table(g)' = Table(g)
  BY <1>1 DEF FieldSize, Table
<1>3. /\ DOMAIN chip'.set = BqFlags \union Settings
      /\ \A k \in BqFlags : chip'.set[k] = chip.set[k]
      /\ chip'.set[f] = x /\ \A g \in Settings : g # f => chip'.set[g] = chip.set[g]
  BY <1>1
<1>4. /\ asked' \in [Settings -> Int] /\ asked'[f] = v
      /\ \A g \in Settings : g # f => asked'[g] = asked[g]
  BY <1>1
<1>5. SetTypeOK'
  BY <1>1, <1>2, <1>3, <1>4 DEF SettingsIInv, SetTypeOK
<1>6. ASSUME NEW g \in Settings, asked'[g] # None
      PROVE  chip'.set[g] = find_idx(Table(g), IF g = "ichg" /\ chip'.set.force20
                                                 THEN asked'[g] * 5 ELSE asked'[g])
  <2>1. CASE g = f
    BY <1>1, <1>3, <1>4, <1>6, <2>1 DEF FieldSet, Sought
  <2>2. CASE g # f
    BY <1>1, <1>3, <1>4, <1>6, <2>2 DEF SettingsIInv, FieldIsFound, Sought
  <2> QED
    BY <2>1, <2>2
<1>7. FieldIsFound'
  <2>1. \A g \in Settings : asked'[g] # None => chip'.set[g] = find_idx(Table(g)', Sought(g, asked[g])')
    BY <1>2, <1>6 DEF Sought
  <2>2. part' = "bq25601" => ~ chip'.set.force20
    BY <1>1, <1>3 DEF SettingsIInv, FieldIsFound
  <2> QED
    BY <2>1, <2>2 DEF FieldIsFound
<1> QED
  BY <1>5, <1>7 DEF SettingsIInv

\* The settings are the defaults again, with or without the watchdog, or stay as they are,
\* and user space is told of none.
Reset ==
    /\ part' = part /\ asked' = NothingAsked
    /\ chip'.set \in {chip.set, Defaults(part), set_mode_host(Defaults(part))}

LEMMA DefaultsAre ==
    ASSUME part \in Parts, NEW s \in {Defaults(part), set_mode_host(Defaults(part))}
    PROVE  /\ DOMAIN s = BqFlags \union Settings
           /\ \A k \in BqFlags : s[k] \in BOOLEAN
           /\ \A f \in Settings : s[f] \in 0 .. (FieldSize(f) - 1)
           /\ s.force20 = FALSE /\ s.term = TRUE /\ s.chg = TRUE
<1>1. PICK i \in Nat, vv \in Nat, t \in Nat :
        /\ Defaults(part) = [chg |-> TRUE, force20 |-> FALSE, term |-> TRUE, hiz |-> FALSE,
                             batfet |-> TRUE, wdt |-> TRUE, ichg |-> i, vreg |-> vv, treg |-> t]
        /\ i \in 0 .. (FieldSize("ichg") - 1) /\ vv \in 0 .. (FieldSize("vreg") - 1)
        /\ t \in 0 .. (FieldSize("treg") - 1)
  <2>1. CASE part = "bq24190"
    <3>1. /\ FieldSize("ichg") = 64 /\ FieldSize("vreg") = 64 /\ FieldSize("treg") = 4
      BY <2>1 DEF FieldSize
    <3>2. 24 \in 0 .. (64 - 1) /\ 44 \in 0 .. (64 - 1) /\ 3 \in 0 .. (4 - 1)
          /\ 24 \in Nat /\ 44 \in Nat /\ 3 \in Nat
      OBVIOUS
    <3>3. Defaults(part) = [chg |-> TRUE, force20 |-> FALSE, term |-> TRUE, hiz |-> FALSE,
                            batfet |-> TRUE, wdt |-> TRUE, ichg |-> 24, vreg |-> 44, treg |-> 3]
      BY <2>1 DEF Defaults
    <3> QED
      BY <3>1, <3>2, <3>3, Zenon
  <2>2. CASE part = "bq25601"
    <3>1. /\ FieldSize("ichg") = 64 /\ FieldSize("vreg") = 32 /\ FieldSize("treg") = 2
      BY <2>2 DEF FieldSize
    <3>2. 34 \in 0 .. (64 - 1) /\ 11 \in 0 .. (32 - 1) /\ 1 \in 0 .. (2 - 1)
          /\ 34 \in Nat /\ 11 \in Nat /\ 1 \in Nat
      OBVIOUS
    <3>3. Defaults(part) = [chg |-> TRUE, force20 |-> FALSE, term |-> TRUE, hiz |-> FALSE,
                            batfet |-> TRUE, wdt |-> TRUE, ichg |-> 34, vreg |-> 11, treg |-> 1]
      BY <2>2 DEF Defaults
    <3> QED
      BY <3>1, <3>2, <3>3, Zenon
  <2> QED
    BY <2>1, <2>2 DEF Parts
<1> DEFINE d == Defaults(part)
<1>2. DOMAIN d = BqFlags \union Settings /\ \A k \in BqFlags : d[k] \in BOOLEAN
  BY <1>1 DEF BqFlags, Settings
<1>3. \A f \in Settings : d[f] \in 0 .. (FieldSize(f) - 1)
  <2>1. d.ichg = i /\ d.vreg = vv /\ d.treg = t
    BY <1>1
  <2> QED
    BY <1>1, <2>1, Zenon DEF Settings
<1>4. d.force20 = FALSE /\ d.term = TRUE /\ d.chg = TRUE
  BY <1>1
<1>5. s = d \/ s = [d EXCEPT !.wdt = FALSE]
  BY DEF set_mode_host
<1> HIDE DEF d
<1>6. DOMAIN s = DOMAIN d /\ \A k \in DOMAIN d : s[k] = d[k] \/ (k = "wdt" /\ s[k] = FALSE)
  BY <1>5
<1> QED
  BY <1>2, <1>3, <1>4, <1>6, Zenon DEF BqFlags, Settings

LEMMA DefaultsKeep == ASSUME SettingsIInv, Reset PROVE SettingsIInv'
<1>1. /\ part' = part /\ part \in Parts /\ asked' = [f \in Settings |-> None] /\ None \in Int
  BY DEF SettingsIInv, SetTypeOK, Reset, NothingAsked, None
<1>2. \A f \in Settings : FieldSize(f)' = FieldSize(f) /\ Table(f)' = Table(f)
  BY <1>1 DEF FieldSize, Table
<1>3. /\ DOMAIN chip'.set = BqFlags \union Settings
      /\ \A k \in BqFlags : chip'.set[k] \in BOOLEAN
      /\ \A f \in Settings : chip'.set[f] \in 0 .. (FieldSize(f) - 1)
      /\ part = "bq25601" => ~ chip'.set.force20
  <2>1. CASE chip'.set = chip.set
    BY <2>1 DEF SettingsIInv, SetTypeOK, FieldIsFound
  <2>2. CASE chip'.set # chip.set
    BY <1>1, <2>2, DefaultsAre, Zenon DEF Reset
  <2> QED
    BY <2>1, <2>2
<1>4. asked' \in [Settings -> Int] /\ \A f \in Settings : asked'[f] = None
  BY <1>1
<1>5. SetTypeOK'
  BY <1>1, <1>2, <1>3, <1>4 DEF SetTypeOK
<1>6. FieldIsFound'
  BY <1>1, <1>3, <1>4 DEF FieldIsFound
<1> QED
  BY <1>5, <1>6 DEF SettingsIInv

-----------------------------------------------------------------------------
(* The chargers: which shape each handler has                               *)

\* The charger is switched on only when the termination agrees with the charge type.
OnWhenSetUp ==
    part = "bq24190" /\ ~ chip.set.chg /\ chip'.set.chg =>
      (bq24190_get_charge_type' = "fast") = chip'.set.term

SettingsKept == SettingsIInv' /\ OnWhenSetUp

LEMMA ResetIsKept == ASSUME SettingsIInv, Reset PROVE SettingsKept
<1>1. SettingsIInv' /\ part \in Parts
  BY DefaultsKeep DEF SettingsIInv, SetTypeOK
<1>2. CASE chip'.set = chip.set
  BY <1>1, <1>2 DEF SettingsKept, OnWhenSetUp
<1>3. CASE chip'.set # chip.set
  <2>1. chip'.set.chg = TRUE /\ chip'.set.force20 = FALSE /\ chip'.set.term = TRUE
    BY <1>1, <1>3, DefaultsAre, Zenon DEF Reset
  <2>2. bq24190_get_charge_type' = "fast"
    BY <2>1 DEF bq24190_get_charge_type
  <2> QED
    BY <1>1, <2>1, <2>2, Zenon DEF SettingsKept, OnWhenSetUp
<1> QED
  BY <1>2, <1>3

LEMMA FieldSetIsKept ==
    ASSUME SettingsIInv, NEW f \in Settings, NEW v \in Int, NEW x \in 0 .. (FieldSize(f) - 1),
           FieldSet(f, v, x)
    PROVE  SettingsKept
<1>1. SettingsIInv'
  BY FieldSetKeeps
<1>2. chip'.set.chg = chip.set.chg
  <2>1. f # "chg" /\ chip'.set = [chip.set EXCEPT ![f] = x]
    BY DEF FieldSet, Settings
  <2> QED
    BY <2>1
<1> QED
  BY <1>1, <1>2 DEF SettingsKept, OnWhenSetUp

LEMMA SameIsKept ==
    ASSUME SettingsIInv, chip'.set = chip.set, asked' = asked, part' = part PROVE SettingsKept
<1>1. FlagsMove
  BY DEF FlagsMove, SettingsIInv, SetTypeOK
<1>2. SettingsIInv'
  BY <1>1, FlagsMoveKeeps
<1> QED
  BY <1>2 DEF SettingsKept, OnWhenSetUp

LEMMA SwitchIsKept ==
    ASSUME SettingsIInv, NEW k \in {"hiz", "batfet"}, NEW b \in BOOLEAN,
           chip'.set = [chip.set EXCEPT ![k] = b], asked' = asked, part' = part
    PROVE  SettingsKept
<1>1. DOMAIN chip.set = BqFlags \union Settings /\ \A l \in BqFlags : chip.set[l] \in BOOLEAN
  BY DEF SettingsIInv, SetTypeOK
<1>2. /\ DOMAIN chip'.set = DOMAIN chip.set
      /\ \A l \in Settings : chip'.set[l] = chip.set[l]
      /\ \A l \in BqFlags : chip'.set[l] \in BOOLEAN
      /\ chip'.set.force20 = chip.set.force20 /\ chip'.set.chg = chip.set.chg
  BY <1>1 DEF BqFlags, Settings
<1>3. FlagsMove
  BY <1>2, Zenon DEF FlagsMove
<1>4. SettingsIInv'
  BY <1>3, FlagsMoveKeeps
<1> QED
  BY <1>2, <1>4 DEF SettingsKept, OnWhenSetUp

\* A charge type: each write is to another field, the first n of them are done.
LEMMA WriteIs ==
    ASSUME NEW writes, NEW n \in Nat, NEW set, NEW i \in Nat, i >= 1,
           NEW k \in DOMAIN set, writes[i][1] = k,
           \A j \in 1 .. n : writes[j][1] = k => j = i
    PROVE  /\ i <= n => AfterWrites(writes, n, set)[k] = writes[i][2]
           /\ ~ i <= n => AfterWrites(writes, n, set)[k] = set[k]
<1>1. ASSUME i <= n PROVE AfterWrites(writes, n, set)[k] = writes[i][2]
  <2> DEFINE w == CHOOSE j \in 1 .. n : writes[j][1] = k
  <2>1. i \in 1 .. n
    BY <1>1
  <2>2. w = i
    BY <2>1, Zenon
  <2> HIDE DEF w
  <2>3. AfterWrites(writes, n, set)[k] = writes[w][2]
    BY <2>1, Zenon DEF AfterWrites, w
  <2> QED
    BY <2>2, <2>3
<1>2. ASSUME ~ i <= n PROVE AfterWrites(writes, n, set)[k] = set[k]
  <2>1. ~ \E j \in 1 .. n : writes[j][1] = k
    <3> SUFFICES ASSUME NEW j \in 1 .. n, writes[j][1] = k PROVE FALSE
      OBVIOUS
    <3>1. j = i
      OBVIOUS
    <3> QED
      BY <1>2, <3>1
  <2> QED
    BY <2>1, Zenon DEF AfterWrites
<1> QED
  BY <1>1, <1>2

LEMMA NotWritten ==
    ASSUME NEW writes, NEW n, NEW set, NEW k \in DOMAIN set, \A j \in 1 .. n : writes[j][1] # k
    PROVE  AfterWrites(writes, n, set)[k] = set[k]
BY Zenon DEF AfterWrites

\* What any number of the writes leaves of the settings, chg being written last.
LEMMA NoneWritten ==
    ASSUME NEW writes, NEW n \in 0 .. 1, NEW set, DOMAIN set = BqFlags \union Settings,
           writes[1][1] = "chg", writes[1][2] = FALSE
    PROVE  /\ \A k \in BqFlags \union Settings :
                k # "chg" => AfterWrites(writes, n, set)[k] = set[k]
           /\ AfterWrites(writes, n, set).chg \in {set.chg, FALSE}
<1>1. 1 \in Nat /\ \A j \in 1 .. n : j = 1
  OBVIOUS
<1>2. \A k \in BqFlags \union Settings : k # "chg" => AfterWrites(writes, n, set)[k] = set[k]
  BY <1>1, NotWritten
<1>3. "chg" \in DOMAIN set
  BY DEF BqFlags
<1>4. \/ AfterWrites(writes, n, set)["chg"] = writes[1][2]
      \/ AfterWrites(writes, n, set)["chg"] = set["chg"]
  <2>1. n \in Nat /\ 1 >= 1 /\ \A j \in 1 .. n : writes[j][1] = "chg" => j = 1
    BY <1>1
  <2> QED
    BY <1>1, <1>3, <2>1, WriteIs
<1> QED
  BY <1>2, <1>4, Zenon

LEMMA TwoWritten ==
    ASSUME NEW writes, NEW n \in 0 .. 2, NEW set, DOMAIN set = BqFlags \union Settings,
           writes[1][1] = "term", writes[2][1] = "chg"
    PROVE  /\ \A k \in BqFlags \union Settings :
                k \notin {"term", "chg"} => AfterWrites(writes, n, set)[k] = set[k]
           /\ AfterWrites(writes, n, set).term \in {set.term, writes[1][2]}
           /\ AfterWrites(writes, n, set).chg \in {set.chg, writes[2][2]}
<1>1. 2 \in Nat
  OBVIOUS
<1>2. \A j \in 1 .. n : j = 1 \/ j = 2
  BY <1>1
<1>3. \A k \in BqFlags \union Settings :
        k \notin {"term", "chg"} => AfterWrites(writes, n, set)[k] = set[k]
  BY <1>1, <1>2, NotWritten
<1>4. "term" \in DOMAIN set /\ "chg" \in DOMAIN set
  BY DEF BqFlags
<1>5. /\ n \in Nat /\ 1 \in Nat /\ 1 >= 1 /\ 2 \in Nat /\ 2 >= 1
      /\ \A j \in 1 .. n : writes[j][1] = "term" => j = 1
      /\ \A j \in 1 .. n : writes[j][1] = "chg" => j = 2
  BY <1>2
<1>6. /\ 1 <= n => AfterWrites(writes, n, set)["term"] = writes[1][2]
      /\ ~ 1 <= n => AfterWrites(writes, n, set)["term"] = set["term"]
  BY <1>4, <1>5, WriteIs
<1>7. /\ 2 <= n => AfterWrites(writes, n, set)["chg"] = writes[2][2]
      /\ ~ 2 <= n => AfterWrites(writes, n, set)["chg"] = set["chg"]
  BY <1>4, <1>5, WriteIs
<1> QED
  BY <1>3, <1>6, <1>7

LEMMA ThreeWritten ==
    ASSUME NEW writes, NEW n \in 0 .. 3, NEW set, DOMAIN set = BqFlags \union Settings,
           writes[1][1] = "force20", writes[2][1] = "term", writes[3][1] = "chg"
    PROVE  /\ \A k \in BqFlags \union Settings :
                k \notin {"force20", "term", "chg"} => AfterWrites(writes, n, set)[k] = set[k]
           /\ AfterWrites(writes, n, set).force20 \in {set.force20, writes[1][2]}
           /\ AfterWrites(writes, n, set).term \in {set.term, writes[2][2]}
           /\ \/ AfterWrites(writes, n, set).chg = set.chg
              \/ /\ AfterWrites(writes, n, set).chg = writes[3][2]
                 /\ AfterWrites(writes, n, set).force20 = writes[1][2]
                 /\ AfterWrites(writes, n, set).term = writes[2][2]
<1>1. 3 \in Nat
  OBVIOUS
<1>2. \A j \in 1 .. n : j = 1 \/ j = 2 \/ j = 3
  BY <1>1
<1>3. \A k \in BqFlags \union Settings :
        k \notin {"force20", "term", "chg"} => AfterWrites(writes, n, set)[k] = set[k]
  BY <1>1, <1>2, NotWritten
<1>4. "force20" \in DOMAIN set /\ "term" \in DOMAIN set /\ "chg" \in DOMAIN set
  BY DEF BqFlags
<1>5. /\ n \in Nat /\ 1 \in Nat /\ 1 >= 1 /\ 2 \in Nat /\ 2 >= 1 /\ 3 \in Nat /\ 3 >= 1
      /\ \A j \in 1 .. n : writes[j][1] = "force20" => j = 1
      /\ \A j \in 1 .. n : writes[j][1] = "term" => j = 2
      /\ \A j \in 1 .. n : writes[j][1] = "chg" => j = 3
  BY <1>2
<1>6. /\ 1 <= n => AfterWrites(writes, n, set)["force20"] = writes[1][2]
      /\ ~ 1 <= n => AfterWrites(writes, n, set)["force20"] = set["force20"]
  BY <1>4, <1>5, WriteIs
<1>7. /\ 2 <= n => AfterWrites(writes, n, set)["term"] = writes[2][2]
      /\ ~ 2 <= n => AfterWrites(writes, n, set)["term"] = set["term"]
  BY <1>4, <1>5, WriteIs
<1>8. /\ 3 <= n => AfterWrites(writes, n, set)["chg"] = writes[3][2]
      /\ ~ 3 <= n => AfterWrites(writes, n, set)["chg"] = set["chg"]
  BY <1>4, <1>5, WriteIs
<1>9. CASE n = 3
  <2>1. 1 <= n /\ 2 <= n /\ 3 <= n
    BY <1>9
  <2> QED
    BY <1>3, <1>6, <1>7, <1>8, <2>1, Zenon
<1>10. CASE n # 3
  <2>1. ~ 3 <= n
    BY <1>10
  <2> QED
    BY <1>3, <1>6, <1>7, <1>8, <2>1
<1> QED
  BY <1>9, <1>10

\* A charge type switches flags only, and chg goes on with the termination that fits.
LEMMA TypeIsKept ==
    ASSUME SettingsIInv, NEW type \in ChargeTypes,
           NEW writes, NEW n \in 0 .. Len(writes),
           \/ part = "bq24190" /\ writes = bq24190_charge_type_writes(type)
           \/ /\ part = "bq25601"
              /\ writes = IF type = "none" THEN << <<"chg", FALSE>> >>
                          ELSE << <<"term", type = "fast">>, <<"chg", TRUE>> >>,
           chip'.set = AfterWrites(writes, n, chip.set), part' = part,
           asked' = IF chip'.set.force20 # chip.set.force20
                      THEN [asked EXCEPT !.ichg = None] ELSE asked
    PROVE  SettingsKept
<1> DEFINE s == AfterWrites(writes, n, chip.set)
<1>1. DOMAIN chip.set = BqFlags \union Settings /\ \A k \in BqFlags : chip.set[k] \in BOOLEAN
  BY DEF SettingsIInv, SetTypeOK
<1>2. DOMAIN s = DOMAIN chip.set
  BY DEF AfterWrites
<1>3. SUFFICES /\ \A k \in {"hiz", "batfet", "wdt"} \union Settings : s[k] = chip.set[k]
               /\ s.chg \in BOOLEAN /\ s.force20 \in BOOLEAN /\ s.term \in BOOLEAN
               /\ part = "bq25601" => s.force20 = chip.set.force20
               /\ part = "bq24190" /\ ~ chip.set.chg /\ s.chg => s.term = ~ s.force20
  <2>1. /\ \A k \in {"hiz", "batfet", "wdt"} \union Settings : s[k] = chip.set[k]
        /\ s.chg \in BOOLEAN /\ s.force20 \in BOOLEAN /\ s.term \in BOOLEAN
        /\ part = "bq25601" => s.force20 = chip.set.force20
        /\ part = "bq24190" /\ ~ chip.set.chg /\ s.chg => s.term = ~ s.force20
    BY <1>3
  <2>2. chip'.set = s
    OBVIOUS
  <2> HIDE DEF s
  <2>3. \A k \in BqFlags : s[k] \in BOOLEAN
    BY <1>1, <2>1 DEF BqFlags
  <2>4. FlagsMove
    BY <1>2, <2>1, <2>2, <2>3 DEF FlagsMove
  <2>5. SettingsIInv'
    BY <2>4, FlagsMoveKeeps
  <2>6. OnWhenSetUp
    <3> SUFFICES ASSUME part = "bq24190", ~ chip.set.chg, chip'.set.chg
                 PROVE  (bq24190_get_charge_type' = "fast") = chip'.set.term
      BY DEF OnWhenSetUp
    <3>1. chip'.set.term = ~ chip'.set.force20 /\ chip'.set.force20 \in BOOLEAN
      BY <2>1, <2>2
    <3>2. bq24190_get_charge_type' = IF chip'.set.force20 THEN "trickle" ELSE "fast"
      BY DEF bq24190_get_charge_type
    <3> QED
      BY <3>1, <3>2
  <2> QED
    BY <2>5, <2>6 DEF SettingsKept
<1>4. CASE type = "none"
  <2>1. writes = << <<"chg", FALSE>> >>
    BY <1>4, Zenon DEF bq24190_charge_type_writes
  <2>2. n \in 0 .. 1 /\ writes[1][1] = "chg" /\ writes[1][2] = FALSE
    BY <2>1
  <2>3. /\ \A k \in BqFlags \union Settings : k # "chg" => s[k] = chip.set[k]
        /\ s.chg \in {chip.set.chg, FALSE}
    BY <1>1, <2>2, NoneWritten, Zenon
  <2> HIDE DEF s
  <2> QED
    BY <1>1, <2>3, Zenon DEF BqFlags, Settings
<1>5. CASE type # "none" /\ part = "bq24190"
  <2> DEFINE a == type = "trickle"
             b == type = "fast"
  <2>1. writes = << <<"force20", a>>, <<"term", b>>, <<"chg", TRUE>> >>
    BY <1>5, Zenon DEF bq24190_charge_type_writes
  <2>2. a \in BOOLEAN /\ b \in BOOLEAN /\ b = ~ a
    BY <1>5 DEF ChargeTypes
  <2> HIDE DEF a, b
  <2>3. /\ n \in 0 .. 3 /\ writes[1][1] = "force20" /\ writes[2][1] = "term"
        /\ writes[3][1] = "chg" /\ writes[1][2] = a /\ writes[2][2] = b /\ writes[3][2] = TRUE
    BY <2>1
  <2>4. \A k \in BqFlags \union Settings :
          k \notin {"force20", "term", "chg"} => s[k] = chip.set[k]
    <3>1. \A j \in 1 .. n : j = 1 \/ j = 2 \/ j = 3
      BY <2>3
    <3>2. \A j \in 1 .. n : writes[j][1] \in {"force20", "term", "chg"}
      BY <2>3, <3>1, Zenon
    <3> QED
      BY <1>1, <3>2, NotWritten
  <2>5. s.force20 \in {chip.set.force20, writes[1][2]} /\ s.term \in {chip.set.term, writes[2][2]}
    BY <1>1, <2>3, ThreeWritten, Zenon
  <2>6. \/ s.chg = chip.set.chg
        \/ s.chg = writes[3][2] /\ s.force20 = writes[1][2] /\ s.term = writes[2][2]
    BY <1>1, <2>3, ThreeWritten, Zenon
  <2> HIDE DEF s
  <2> QED
    BY <1>1, <1>5, <2>2, <2>3, <2>4, <2>5, <2>6, Zenon DEF BqFlags, Settings
<1>6. CASE type # "none" /\ part = "bq25601"
  <2> DEFINE b == type = "fast"
  <2>1. writes = << <<"term", b>>, <<"chg", TRUE>> >> /\ b \in BOOLEAN
    BY <1>6, Zenon
  <2> HIDE DEF b
  <2>2. /\ n \in 0 .. 2 /\ writes[1][1] = "term" /\ writes[2][1] = "chg"
        /\ writes[1][2] = b /\ writes[2][2] = TRUE
    BY <2>1
  <2>3. /\ \A k \in BqFlags \union Settings : k \notin {"term", "chg"} => s[k] = chip.set[k]
        /\ s.term \in {chip.set.term, writes[1][2]} /\ s.chg \in {chip.set.chg, writes[2][2]}
    BY <1>1, <2>2, TwoWritten, Zenon
  <2> HIDE DEF s
  <2> QED
    BY <1>1, <1>6, <2>1, <2>2, <2>3, Zenon DEF BqFlags, Settings
<1> QED
  BY <1>4, <1>5, <1>6, Zenon

LEMMA ChipIs ==
    ASSUME ReportIInv
    PROVE  chip = [set |-> chip.set, pg |-> chip.pg, now |-> chip.now, latch |-> chip.latch]
BY DEF ReportIInv, ReportTypeOK

LEMMA SetIs == ASSUME ReportIInv, NEW x, chip' = [chip EXCEPT !.set = x] PROVE chip'.set = x
<1>1. chip' = [set |-> x, pg |-> chip.pg, now |-> chip.now, latch |-> chip.latch]
  BY ChipIs
<1> QED
  BY <1>1

LEMMA SetFieldIs ==
    ASSUME ReportIInv, NEW f, NEW x, chip' = [chip EXCEPT !.set[f] = x]
    PROVE  chip'.set = [chip.set EXCEPT ![f] = x]
<1>1. chip' = [chip EXCEPT !.set = [chip.set EXCEPT ![f] = x]]
  OBVIOUS
<1> QED
  BY <1>1, SetIs

LEMMA SetStays ==
    ASSUME ReportIInv, NEW x, NEW y,
           \/ chip' = chip \/ chip' = FaultsRead \/ chip' = [chip EXCEPT !.pg = x]
           \/ chip' = [chip EXCEPT !.now = x] \/ chip' = [chip EXCEPT !.now = x, !.latch = y]
    PROVE  chip'.set = chip.set
<1>1. chip = [set |-> chip.set, pg |-> chip.pg, now |-> chip.now, latch |-> chip.latch]
  BY ChipIs
<1>2. PICK p, q, r : chip' = [set |-> chip.set, pg |-> p, now |-> q, latch |-> r]
  BY <1>1, Zenon DEF FaultsRead
<1> QED
  BY <1>2

\* A request: the index found is one that the field has bits for.
LEMMA RequestIsKept ==
    ASSUME SettingsIInv, ReportIInv, NEW f \in Settings, NEW v \in Int, NEW ok,
           part' = part, set_field_val(f, Sought(f, v), ok), Asked(f, v, ok)
    PROVE  SettingsKept
<1>1. CASE ok
  <2> DEFINE x == find_idx(Table(f), Sought(f, v))
  <2>1. chip'.set = [chip.set EXCEPT ![f] = x]
    BY <1>1, SetFieldIs DEF set_field_val
  <2>2. asked' = [asked EXCEPT ![f] = v]
    BY <1>1 DEF Asked
  <2>3. PICK n \in Nat : Ascending(Table(f), n) /\ n <= FieldSize(f) /\ FieldSize(f) \in Nat
    BY Tables DEF SettingsIInv, SetTypeOK
  <2>4. Sought(f, v) \in Int
    BY DEF Sought
  <2>5. x \in 0 .. (n - 1)
    BY <2>3, <2>4, FindIdx
  <2>6. FieldSet(f, v, x)
    BY <2>1, <2>2 DEF FieldSet
  <2> HIDE DEF x
  <2>7. x \in 0 .. (FieldSize(f) - 1)
    BY <2>3, <2>5
  <2> QED
    BY <2>6, <2>7, FieldSetIsKept
<1>2. CASE ~ ok
  <2>1. chip' = chip /\ asked' = asked
    BY <1>2 DEF set_field_val, Asked
  <2> QED
    BY <2>1, SameIsKept
<1> QED
  BY <1>1, <1>2

LEMMA CallbacksKeep ==
    ASSUME SettingsIInv, ReportIInv, NEW v \in Int, NEW ok,
           \/ charger_set_voltage(v, ok) \/ battery_set_temp_alert_max(v, ok)
           \/ part = "bq24190" /\ bq24190_set_current(v, ok)
           \/ part = "bq25601" /\ bq25601_set_current(v, ok)
    PROVE  SettingsKept
<1>0. Setting => part' = part
  BY DEF Setting
<1>1. "vreg" \in Settings /\ "treg" \in Settings /\ "ichg" \in Settings
  BY DEF Settings
<1>2. CASE charger_set_voltage(v, ok)
  <2>1. Sought("vreg", v) = v
    BY DEF Sought
  <2> QED
    BY <1>0, <1>1, <1>2, <2>1, RequestIsKept DEF charger_set_voltage
<1>3. CASE battery_set_temp_alert_max(v, ok)
  <2>1. Sought("treg", v) = v
    BY DEF Sought
  <2> QED
    BY <1>0, <1>1, <1>3, <2>1, RequestIsKept DEF battery_set_temp_alert_max
<1>4. CASE part = "bq24190" /\ bq24190_set_current(v, ok)
  <2>1. Sought("ichg", v) = IF chip.set.force20 THEN v * 5 ELSE v
    BY DEF Sought
  <2> QED
    BY <1>0, <1>1, <1>4, <2>1, RequestIsKept DEF bq24190_set_current
<1>5. CASE part = "bq25601" /\ bq25601_set_current(v, ok)
  <2>1. Sought("ichg", v) = v
    BY <1>5 DEF Sought, SettingsIInv, FieldIsFound
  <2> QED
    BY <1>0, <1>1, <1>5, <2>1, RequestIsKept DEF bq25601_set_current
<1> QED
  BY <1>2, <1>3, <1>4, <1>5

LEMMA FilesKeep ==
    ASSUME SettingsIInv, ReportIInv, NEW ok, NEW b \in BOOLEAN, NEW f \in Settings, NEW v \in Nat,
           battery_set_online(b, ok) \/ sysfs_store_hiz(b, ok) \/ sysfs_store(f, v, ok)
    PROVE  SettingsKept
<1>0. part' = part
  BY DEF battery_set_online, sysfs_store_hiz, sysfs_store, Setting
<1>1. CASE chip' = chip /\ asked' = asked
  BY <1>0, <1>1, SameIsKept
<1>2. ASSUME NEW k \in {"hiz", "batfet"}, chip' = [chip EXCEPT !.set[k] = b], asked' = asked
      PROVE  SettingsKept
  BY <1>0, <1>2, SetFieldIs, SwitchIsKept
<1>3. CASE battery_set_online(b, ok)
  <2>1. chip' = chip \/ chip' = [chip EXCEPT !.set["batfet"] = b]
    BY <1>3 DEF battery_set_online
  <2>2. asked' = asked
    BY <1>3 DEF battery_set_online
  <2> QED
    BY <1>1, <1>2, <2>1, <2>2
<1>4. CASE sysfs_store_hiz(b, ok)
  <2>1. chip' = chip \/ chip' = [chip EXCEPT !.set["hiz"] = b]
    BY <1>4 DEF sysfs_store_hiz
  <2>2. asked' = asked
    BY <1>4 DEF sysfs_store_hiz
  <2> QED
    BY <1>1, <1>2, <2>1, <2>2
<1>5. CASE sysfs_store(f, v, ok) /\ ok
  <2> DEFINE x == v % FieldSize(f)
  <2>1. chip'.set = [chip.set EXCEPT ![f] = x]
    BY <1>5, SetFieldIs DEF sysfs_store
  <2>2. asked' = [asked EXCEPT ![f] = None] /\ None \in Int
    BY <1>5 DEF sysfs_store, None
  <2>3. FieldSize(f) \in {64, 32, 4, 2}
    BY DEF FieldSize, SettingsIInv, SetTypeOK, Parts, Settings
  <2>4. x \in 0 .. (FieldSize(f) - 1)
    BY <2>3
  <2>5. FieldSet(f, None, x)
    BY <1>0, <2>1, <2>2 DEF FieldSet
  <2> QED
    BY <2>2, <2>4, <2>5, FieldSetIsKept
<1>6. CASE sysfs_store(f, v, ok) /\ ~ ok
  BY <1>1, <1>6 DEF sysfs_store
<1> QED
  BY <1>3, <1>4, <1>5, <1>6

LEMMA TypesKeep ==
    ASSUME SettingsIInv, ReportIInv, NEW type \in ChargeTypes,
           \/ part = "bq24190" /\ bq24190_set_charge_type(type)
           \/ part = "bq25601" /\ bq25601_set_charge_type(type)
    PROVE  SettingsKept
<1>1. PICK writes, n :
        /\ n \in Done(writes)
        /\ \/ part = "bq24190" /\ writes = bq24190_charge_type_writes(type)
           \/ /\ part = "bq25601"
              /\ writes = IF type = "none" THEN << <<"chg", FALSE>> >>
                          ELSE << <<"term", type = "fast">>, <<"chg", TRUE>> >>
        /\ ChargeTypeSet(writes, n)
  BY Zenon DEF bq24190_set_charge_type, bq25601_set_charge_type
<1> QED
  <2>1. Len(writes) \in Nat
    BY <1>1 DEF bq24190_charge_type_writes
  <2>2. n \in 0 .. Len(writes)
    BY <1>1, <2>1 DEF Done
  <2>3. chip'.set = AfterWrites(writes, n, chip.set)
    BY <1>1, SetIs DEF ChargeTypeSet
  <2>4. part' = part /\ asked' = IF chip'.set.force20 # chip.set.force20
                                   THEN [asked EXCEPT !.ichg = None] ELSE asked
    BY <1>1 DEF ChargeTypeSet, Setting
  <2> QED
    BY <1>1, <2>2, <2>3, <2>4, TypeIsKept, Zenon

LEMMA PowerKeepsSettings ==
    ASSUME SettingsIInv, ReportIInv, NEW ok, NEW host,
           probe_irq \/ hw_init(ok, host) \/ remove(ok) \/ pm_suspend(ok) \/ pm_resume(ok)
           \/ WatchdogExpires
    PROVE  SettingsKept
<1>1. part' = part
  BY DEF probe_irq, hw_init, remove, pm_suspend, pm_resume, WatchdogExpires
<1>2. CASE chip' = chip /\ asked' = asked
  BY <1>1, <1>2, SameIsKept
<1>3. CASE chip' = [chip EXCEPT !.set = Defaults(part)] /\ asked' = NothingAsked
  <2>1. chip'.set = Defaults(part)
    BY <1>3, SetIs
  <2> QED
    BY <1>1, <1>3, <2>1, ResetIsKept DEF Reset
<1>4. register_reset(ok) => SettingsKept
  BY <1>2, <1>3 DEF register_reset
<1>5. CASE probe_irq
  BY <1>2, <1>5 DEF probe_irq
<1>6. CASE hw_init(ok, host)
  <2>1. PICK x \in {chip.set, Defaults(part), set_mode_host(Defaults(part))} :
          chip' = [chip EXCEPT !.set = x]
    BY <1>6 DEF hw_init
  <2>2. chip'.set = x /\ asked' = NothingAsked
    BY <1>6, <2>1, SetIs DEF hw_init
  <2> QED
    BY <1>1, <2>2, ResetIsKept DEF Reset
<1>7. CASE remove(ok) \/ pm_suspend(ok) \/ pm_resume(ok)
  BY <1>4, <1>7 DEF remove, pm_suspend, pm_resume
<1>8. CASE WatchdogExpires
  BY <1>3, <1>8 DEF WatchdogExpires
<1> QED
  BY <1>5, <1>6, <1>7, <1>8

LEMMA ReportsKeepSettings ==
    ASSUME SettingsIInv, ReportIInv, NEW r, NEW f, NEW ok, NEW h,
           \/ ChipFaults(f) \/ ChipRecovers(f) \/ SupplyChanges
           \/ irq_reads_ss(ok, h) \/ irq_reads_f(ok) \/ Look(r, ok) \/ Read(r, h, ok)
    PROVE  SettingsKept
<1>1. part' = part /\ asked' = asked
  BY DEF ChipFaults, ChipRecovers, SupplyChanges, irq_reads_ss, irq_reads_f, Look, Read
<1>2. CASE chip'.set = chip.set
  BY <1>1, <1>2, SameIsKept
<1>3. CASE irq_reads_ss(ok, h) /\ chip' # chip
  <2>1. chip' = [chip EXCEPT !.set["hiz"] = FALSE]
    BY <1>3, Zenon DEF irq_reads_ss
  <2>2. chip'.set = [chip.set EXCEPT !["hiz"] = FALSE]
    BY <2>1, SetFieldIs
  <2> QED
    BY <1>1, <2>2, SwitchIsKept, Zenon
<1>4. CASE ChipFaults(f) \/ ChipRecovers(f) \/ SupplyChanges
  <2>1. \/ chip' = [chip EXCEPT !.pg = ~ chip.pg] \/ chip' = [chip EXCEPT !.now = chip.now \ {f}]
        \/ chip' = [chip EXCEPT !.now = chip.now \union {f}, !.latch = chip.latch \union {f}]
    BY <1>4 DEF ChipFaults, ChipRecovers, SupplyChanges
  <2> QED
    BY <1>2, <2>1, SetStays, Zenon
<1>5. CASE (irq_reads_ss(ok, h) /\ chip' = chip) \/ irq_reads_f(ok) \/ Look(r, ok) \/ Read(r, h, ok)
  <2>1. chip' = chip \/ chip' = FaultsRead
    BY <1>5 DEF irq_reads_f, Look, Read
  <2> QED
    BY <1>2, <2>1, SetStays, Zenon
<1> QED
  BY <1>3, <1>4, <1>5

LEMMA SettingsNextKeep ==
    ASSUME SettingsIInv, ReportIInv, [BqNext]_bqVars PROVE SettingsKept
<1>1. /\ Requests.ichg \subseteq Int /\ Requests.vreg \subseteq Int /\ Requests.treg \subseteq Int
      /\ RawValues \subseteq Nat
  BY BqAssumption DEF Settings
<1>2. CASE ChipSteps
  BY <1>2, ReportsKeepSettings, PowerKeepsSettings, Zenon DEF ChipSteps
<1>3. CASE bq24190_reports \/ bq25601_reports
  <2>1. bq25601_reports => bq24190_reports
    BY Zenon DEF bq25601_reports, bq24190_reports, bq25601_charger_get_health,
       bq25601_battery_get_status, bq25601_battery_get_health, bq25601_irq_handler_thread
  <2> QED
    BY <1>3, <2>1, ReportsKeepSettings, Zenon DEF bq24190_reports, charger_get_health,
       battery_get_status, battery_get_health
<1>4. CASE bq24190_power \/ bq25601_power
  <2>1. bq25601_power => bq24190_power
    BY Zenon DEF bq25601_power, bq24190_power, bq25601_probe, bq25601_hw_init, bq25601_remove,
       bq25601_pm_suspend, bq25601_pm_resume
  <2> QED
    BY <1>4, <2>1, PowerKeepsSettings, Zenon DEF bq24190_power
<1>5. ASSUME NEW b \in BOOLEAN, NEW ok, battery_set_online(b, ok) \/ sysfs_store_hiz(b, ok)
      PROVE  SettingsKept
  <2>1. "ichg" \in Settings /\ 0 \in Nat
    BY DEF Settings
  <2> QED
    BY <1>5, <2>1, FilesKeep, Zenon
<1>6. ASSUME NEW f \in Settings, NEW v \in RawValues, NEW ok, sysfs_store(f, v, ok)
      PROVE  SettingsKept
  <2>1. TRUE \in BOOLEAN /\ v \in Nat
    BY <1>1
  <2> QED
    BY <1>6, <2>1, FilesKeep, Zenon
<1>7. CASE part = "bq24190" /\ bq24190_settings
  <2>1. CASE bq24190_charger_set_property
    <3>1. PICK ok \in Bus :
            \/ \E v \in Requests.ichg : bq24190_set_current(v, ok)
            \/ \E v \in Requests.vreg : charger_set_voltage(v, ok)
            \/ \E type \in ChargeTypes : bq24190_set_charge_type(type)
      BY <2>1, Zenon DEF bq24190_charger_set_property
    <3> QED
      BY <1>1, <1>7, <3>1, CallbacksKeep, TypesKeep
  <2>2. CASE bq24190_battery_set_property
    <3>1. PICK ok \in Bus :
            \/ \E v \in Requests.treg : battery_set_temp_alert_max(v, ok)
            \/ \E online \in BOOLEAN : battery_set_online(online, ok)
      BY <2>2, Zenon DEF bq24190_battery_set_property
    <3> QED
      BY <1>1, <1>5, <3>1, CallbacksKeep
  <2> QED
    BY <1>5, <1>6, <1>7, <2>1, <2>2, Zenon DEF bq24190_settings
<1>8. CASE part = "bq25601" /\ bq25601_settings
  <2>1. CASE bq25601_charger_set_property
    <3>1. PICK ok \in Bus :
            \/ \E v \in Requests.ichg : bq25601_set_current(v, ok)
            \/ \E v \in Requests.vreg : charger_set_voltage(v, ok)
            \/ \E type \in ChargeTypes : bq25601_set_charge_type(type)
      BY <2>1, Zenon DEF bq25601_charger_set_property, bq25601_charger_set_voltage
    <3> QED
      BY <1>1, <1>8, <3>1, CallbacksKeep, TypesKeep
  <2>2. CASE bq25601_battery_set_property
    <3>1. PICK ok \in Bus :
            \/ \E v \in Requests.treg : battery_set_temp_alert_max(v, ok)
            \/ \E online \in BOOLEAN : battery_set_online(online, ok)
      BY <2>2, Zenon DEF bq25601_battery_set_property, bq25601_battery_set_temp_alert_max,
         bq25601_battery_set_online
    <3> QED
      BY <1>1, <1>5, <3>1, CallbacksKeep
  <2> QED
    BY <1>5, <1>6, <1>8, <2>1, <2>2, Zenon DEF bq25601_settings, bq25601_sysfs_store
<1>9. CASE UNCHANGED bqVars
  BY <1>9, SameIsKept DEF bqVars
<1> QED
  BY <1>2, <1>3, <1>4, <1>7, <1>8, <1>9, Zenon DEF BqNext

\* A routine is owed only what it looks at.
LEMMA OwedKeeps == ASSUME OwedTypeOK, [BqNext]_bqVars PROVE OwedTypeOK'
<1>1. CASE owed' = owed \/ owed' = NothingOwed
  BY <1>1 DEF OwedTypeOK, NothingOwed
<1>2. ASSUME NEW r, owed' = [owed EXCEPT ![r] = {}] PROVE OwedTypeOK'
  BY <1>2 DEF OwedTypeOK
<1>3. ASSUME NEW f, ChipFaults(f) PROVE OwedTypeOK'
  BY <1>3 DEF ChipFaults, OwedTypeOK
<1>4. CASE ChipSteps
  <2>1. ASSUME NEW f, ChipRecovers(f) \/ SupplyChanges \/ WatchdogExpires PROVE owed' = owed
    BY <2>1 DEF ChipRecovers, SupplyChanges, WatchdogExpires
  <2> QED
    BY <1>1, <1>3, <1>4, <2>1, Zenon DEF ChipSteps
<1>5. ASSUME NEW r, NEW ok, NEW h,
             Look(r, ok) \/ Read(r, h, ok) \/ irq_reads_f(ok) \/ irq_reads_ss(ok, h)
      PROVE  OwedTypeOK'
  <2>1. owed' = owed \/ owed' = [owed EXCEPT ![r] = {}]
    BY <1>5 DEF Look, Read, irq_reads_f, irq_reads_ss
  <2> QED
    BY <1>1, <1>2, <2>1
<1>6. CASE bq24190_reports \/ bq25601_reports
  <2>1. bq25601_reports => bq24190_reports
    BY Zenon DEF bq25601_reports, bq24190_reports, bq25601_charger_get_health,
       bq25601_battery_get_status, bq25601_battery_get_health, bq25601_irq_handler_thread
  <2> QED
    BY <1>5, <1>6, <2>1, Zenon DEF bq24190_reports, charger_get_health,
       battery_get_status, battery_get_health
<1>7. ASSUME NEW ok, NEW h, probe_irq \/ hw_init(ok, h) \/ remove(ok) \/ pm_suspend(ok) \/ pm_resume(ok)
      PROVE  OwedTypeOK'
  <2>1. owed' = owed \/ owed' = NothingOwed
    BY <1>7 DEF probe_irq, hw_init, remove, pm_suspend, pm_resume
  <2> QED
    BY <1>1, <2>1
<1>8. CASE bq24190_power \/ bq25601_power
  <2>1. bq25601_power => bq24190_power
    BY Zenon DEF bq25601_power, bq24190_power, bq25601_probe, bq25601_hw_init, bq25601_remove,
       bq25601_pm_suspend, bq25601_pm_resume
  <2> QED
    BY <1>7, <1>8, <2>1, Zenon DEF bq24190_power
<1>9. CASE bq24190_settings \/ bq25601_settings
  <2>1. Setting => owed' = owed
    BY DEF Setting
  <2>2. ASSUME NEW f, NEW v, NEW ok,
               \/ charger_set_voltage(v, ok) \/ battery_set_temp_alert_max(v, ok)
               \/ bq24190_set_current(v, ok) \/ bq25601_set_current(v, ok)
               \/ bq24190_set_charge_type(v) \/ bq25601_set_charge_type(v)
               \/ battery_set_online(v, ok) \/ sysfs_store_hiz(v, ok) \/ sysfs_store(f, v, ok)
        PROVE  Setting
    BY <2>2, Zenon DEF charger_set_voltage, battery_set_temp_alert_max, bq24190_set_current,
       bq25601_set_current, bq24190_set_charge_type, bq25601_set_charge_type, ChargeTypeSet,
       battery_set_online, sysfs_store_hiz, sysfs_store
  <2>3. Setting
    BY <1>9, <2>2, Zenon DEF bq24190_settings, bq25601_settings, bq24190_charger_set_property,
       bq24190_battery_set_property, bq25601_charger_set_property, bq25601_battery_set_property,
       bq25601_charger_set_voltage, bq25601_battery_set_temp_alert_max,
       bq25601_battery_set_online, bq25601_sysfs_store
  <2> QED
    BY <1>1, <2>1, <2>3
<1>10. CASE UNCHANGED bqVars
  BY <1>1, <1>10 DEF bqVars
<1> QED
  BY <1>4, <1>6, <1>8, <1>9, <1>10, Zenon DEF BqNext

LEMMA SettingsInitial == BqInit => SettingsIInv /\ OwedTypeOK
<1> SUFFICES ASSUME BqInit PROVE SettingsIInv /\ OwedTypeOK
  OBVIOUS
<1>1. /\ part \in Parts /\ chip.set = Defaults(part) /\ asked = [f \in Settings |-> None]
      /\ owed = [r \in Routines |-> {}] /\ None \in Int
  BY DEF BqInit, NothingAsked, NothingOwed, None
<1>2. SetTypeOK
  BY <1>1, DefaultsAre DEF SetTypeOK
<1>3. FieldIsFound
  BY <1>1, DefaultsAre, Zenon DEF FieldIsFound
<1>4. OwedTypeOK
  BY <1>1 DEF OwedTypeOK
<1> QED
  BY <1>2, <1>3, <1>4 DEF SettingsIInv

\* Whatever is requested, stored, reset and refused in whatever order: as long as a request
\* holds, its field is the one the search finds for it with the trickle bit as it now is.
THEOREM SettingsInvariant == BqSpec => []SettingsIInv
<1>1. BqInit => SettingsIInv
  BY SettingsInitial
<1>2. SettingsIInv /\ ReportIInv /\ [BqNext]_bqVars => SettingsIInv'
  BY SettingsNextKeep DEF SettingsKept
<1> QED
  BY <1>1, <1>2, ReportInvariant, PTL DEF BqSpec

LEMMA OwedInvariant == BqSpec => []OwedTypeOK
<1>1. BqInit => OwedTypeOK
  BY SettingsInitial
<1>2. OwedTypeOK /\ [BqNext]_bqVars => OwedTypeOK'
  BY OwedKeeps
<1> QED
  BY <1>1, <1>2, PTL DEF BqSpec

\* set_current, set_voltage, set_temp_alert_max and set_charge_type of both chargers: the
\* value in force for a request is the highest one the chip offers that does not exceed it
\* (or the lowest one), and the charger is never switched on before the termination agrees
\* with the charge type.
THEOREM SettingsAreHeld == BqSpec => SettingsHold
<1>1. SettingsIInv /\ OwedTypeOK /\ ReportIInv => BqTypeOK /\ SettingIsBest
  <2> SUFFICES ASSUME SettingsIInv, OwedTypeOK, ReportIInv PROVE BqTypeOK /\ SettingIsBest
    OBVIOUS
  <2>1. SettingIsBest
    BY SettingIsFound
  <2>2. BqTypeOK
    BY DEF BqTypeOK, SettingsIInv, SetTypeOK, OwedTypeOK, ReportIInv, ReportTypeOK
  <2> QED
    BY <2>1, <2>2
<1>2. SettingsIInv /\ ReportIInv /\ [BqNext]_bqVars
        => [part = "bq24190" /\ ~chip.set.chg /\ chip'.set.chg
              => (bq24190_get_charge_type' = "fast") = chip'.set.term]_bqVars
  BY SettingsNextKeep DEF SettingsKept, OnWhenSetUp
<1> QED
  BY <1>1, <1>2, SettingsInvariant, OwedInvariant, ReportInvariant, PTL
     DEF BqSpec, SettingsHold, EnabledWhenSetUp

-----------------------------------------------------------------------------
(* The coulomb counter: the rounding                                         *)

\* Division of C is that of the absolute values, with the sign of the quotient.
LEMMA CDivides ==
    ASSUME NEW a \in Nat, NEW b \in Nat, b > 0
    PROVE  /\ CDiv(a, b) = a \div b /\ CDiv(-a, b) = -(a \div b)
           /\ CDiv(a, -b) = -(a \div b) /\ CDiv(-a, -b) = a \div b
           /\ a \div b \in Nat
<1>1. Abs(a) = a /\ Abs(-a) = a /\ Abs(b) = b /\ Abs(-b) = b
  BY DEF Abs
<1>2. a \div b \in Nat
  OBVIOUS
<1>3. CASE a = 0
  <2>1. 0 \div b = 0
    OBVIOUS
  <2> QED
    BY <1>1, <1>3, <2>1 DEF CDiv
<1>4. CASE a > 0
  BY <1>1, <1>2, <1>4 DEF CDiv
<1> QED
  BY <1>2, <1>3, <1>4

\* What is lost by dividing by d and multiplying again is less than d.
LEMMA Quotient ==
    ASSUME NEW a \in Nat, NEW d \in Nat, d > 0
    PROVE  /\ a \div d \in Nat /\ (a \div d) * d \in Nat
           /\ (a \div d) * d <= a /\ a < (a \div d) * d + d
<1> DEFINE n == a \div d
<1>1. n \in Nat /\ a = d * n + (a % d) /\ a % d \in 0 .. (d - 1)
  OBVIOUS
<1>2. d * n = n * d
  BY <1>1
<1> QED
  BY <1>1, <1>2

\* A product grows with its first factor.
LEMMA Product ==
    ASSUME NEW m \in Nat, NEW n \in Nat, NEW d \in Nat, m <= n
    PROVE  m * d \in Nat /\ n * d \in Nat /\ m * d <= n * d
  OBVIOUS

\* A tenth of the charge of one count, with its sign.
LEMMA Tenth ==
    ASSUME NEW q \in Int, Abs(q) >= 10
    PROVE  \E d \in Nat : /\ d > 0 /\ d \div 100 = Abs(q) \div 1000
                          /\ CDiv(q, 10) = IF q < 0 THEN -d ELSE d
<1> DEFINE d == Abs(q) \div 10
<1>1. Abs(q) \in Nat
  BY DEF Abs
<1>2. d \in Nat /\ d > 0 /\ d \div 100 = Abs(q) \div 1000
  BY <1>1
<1>3. CDiv(q, 10) = IF q < 0 THEN -d ELSE d
  BY DEF CDiv, Abs
<1> QED
  BY <1>2, <1>3

\* The charge u through the register and back, by its absolute values.
LEMMA BackAndForth ==
    ASSUME NEW u \in Nat, NEW d \in Nat, d > 0,
           NEW n \in Nat, n = (u * 100) \div d
    PROVE  /\ (n * d) \div 100 <= u
           /\ u - (n * d) \div 100 <= d \div 100 + 1
<1>1. u * 100 \in Nat
  OBVIOUS
<1>2. n * d \in Nat /\ n * d <= u * 100 /\ u * 100 < n * d + d
  BY <1>1, Quotient
<1> DEFINE p == n * d
<1>3. p \in Nat /\ p <= u * 100 /\ u * 100 < p + d
  BY <1>2
<1> HIDE DEF p
<1>4. p \div 100 <= u /\ u - (p \div 100) <= d \div 100 + 1
  BY <1>3
<1> QED
  BY <1>4 DEF p

LEMMA Hundredth ==
    ASSUME NEW p \in Nat
    PROVE  CDiv(p, 100) = p \div 100 /\ CDiv(-p, 100) = -(p \div 100) /\ p \div 100 \in Nat
<1>1. 100 \in Nat /\ 100 > 0
  OBVIOUS
<1> QED
  BY <1>1, CDivides, Zenon

LEMMA FullRegister == MAX_VALUE \in Nat /\ 0 < MAX_VALUE
  BY DEF MAX_VALUE

FullCharge(d) == (MAX_VALUE * d) \div 100

LEMMA FullScaleIs ==
    ASSUME NEW d \in Nat, d > 0, CDiv(ltc.Qlsb, 10) = IF ltc.Qlsb < 0 THEN -d ELSE d
    PROVE  FullScale = FullCharge(d) /\ FullCharge(d) \in Nat
<1> DEFINE p == MAX_VALUE * d
<1>1. p \in Nat /\ MAX_VALUE * (-d) = -p
  BY DEF MAX_VALUE
<1>2. convert_bin_to_uAh(MAX_VALUE) = CDiv(IF ltc.Qlsb < 0 THEN -p ELSE p, 100)
  BY <1>1 DEF convert_bin_to_uAh
<1> HIDE DEF p
<1>3. CDiv(p, 100) = p \div 100 /\ CDiv(-p, 100) = -(p \div 100) /\ p \div 100 \in Nat
  BY <1>1, Hundredth
<1>4. Abs(CDiv(IF ltc.Qlsb < 0 THEN -p ELSE p, 100)) = p \div 100
  BY <1>3 DEF Abs
<1>5. FullCharge(d) = p \div 100
  BY DEF FullCharge, p
<1> QED
  BY <1>2, <1>3, <1>4, <1>5 DEF FullScale

\* With a positive resistor the register holds the count, at most its maximum.
LEMMA PositiveReadsBack ==
    ASSUME NEW u \in Nat, NEW d \in Nat, d > 0, CDiv(ltc.Qlsb, 10) = d, ~ ltc.Qlsb < 0,
           meter.acc = ValueOf(u)
    PROVE  LET top == IF u > FullCharge(d) THEN FullCharge(d) ELSE u
           IN  get_charge_now <= top /\ top - get_charge_now <= d \div 100 + 1
<1> DEFINE n == (u * 100) \div d
           m == IF n < MAX_VALUE THEN n ELSE MAX_VALUE
<1>1. u * 100 \in Nat /\ n \in Nat
  OBVIOUS
<1>2. CDiv(u * 100, d) = n
  BY <1>1, CDivides
<1>3. meter.acc = m
  BY <1>2 DEF ValueOf, convert_uAh_to_bin
<1>4. m \in Nat /\ m * d \in Nat
  BY <1>1 DEF MAX_VALUE
<1>5. get_charge_now = (m * d) \div 100
  <2>1. get_charge_now = CDiv(m * d, 100)
    BY <1>3 DEF get_charge_now, convert_bin_to_uAh
  <2> QED
    BY <1>4, <2>1, Hundredth
<1>6. (n * d) \div 100 <= u /\ u - (n * d) \div 100 <= d \div 100 + 1
  BY <1>1, BackAndForth
<1>7. n * d \in Nat /\ n * d <= u * 100
  BY <1>1, Quotient
<1>8. CASE n < MAX_VALUE
  <2>1. m = n
    BY <1>8
  <2>2. n * d <= MAX_VALUE * d /\ MAX_VALUE * d \in Nat
    BY <1>1, <1>8, Product DEF MAX_VALUE
  <2>3. u * 100 < MAX_VALUE * d
    <3>1. n + 1 <= MAX_VALUE /\ n + 1 \in Nat
      BY <1>1, <1>8 DEF MAX_VALUE
    <3>2. (n + 1) * d <= MAX_VALUE * d
      BY <3>1, Product DEF MAX_VALUE
    <3>3. (n + 1) * d = n * d + d
      BY <1>1
    <3>4. u * 100 < n * d + d
      BY <1>1, Quotient
    <3> QED
      BY <1>7, <2>2, <3>2, <3>3, <3>4
  <2>4. u <= FullCharge(d)
    <3> DEFINE p == MAX_VALUE * d
    <3>1. p \in Nat /\ u * 100 < p
      BY <2>2, <2>3
    <3> HIDE DEF p
    <3>2. u <= p \div 100
      BY <3>1
    <3> QED
      BY <3>2 DEF FullCharge, p
  <2>5. FullCharge(d) \in Nat
    BY <2>2 DEF FullCharge
  <2>6. get_charge_now = (n * d) \div 100
    BY <1>5, <2>1, Zenon
  <2>7. ~ u > FullCharge(d)
    BY <2>4, <2>5
  <2> HIDE DEF n
  <2> QED
    BY <1>6, <2>6, <2>7
<1>9. CASE ~ n < MAX_VALUE
  <2>1. m = MAX_VALUE
    BY <1>9
  <2>2. MAX_VALUE * d <= n * d /\ MAX_VALUE * d \in Nat
    BY <1>1, <1>9, Product DEF MAX_VALUE
  <2>3. get_charge_now = FullCharge(d)
    BY <1>5, <2>1 DEF FullCharge
  <2>4. FullCharge(d) <= u /\ FullCharge(d) \in Nat
    <3> DEFINE p == MAX_VALUE * d
    <3>1. p \in Nat /\ p <= u * 100
      BY <1>1, <1>7, <2>2
    <3> HIDE DEF p
    <3>2. p \div 100 <= u /\ p \div 100 \in Nat
      BY <3>1
    <3> QED
      BY <3>2 DEF FullCharge, p
  <2>5. d \div 100 \in Nat
    OBVIOUS
  <2> QED
    BY <2>3, <2>4, <2>5
<1> QED
  BY <1>8, <1>9

\* With a negative one it counts down from its maximum, and a charge beyond it is refused.
LEMMA NegativeReadsBack ==
    ASSUME NEW u \in Nat, NEW d \in Nat, d > 0, CDiv(ltc.Qlsb, 10) = -d, ltc.Qlsb < 0,
           meter.acc = ValueOf(u), meter.acc \in 0 .. MAX_VALUE
    PROVE  LET top == IF u > FullCharge(d) THEN FullCharge(d) ELSE u
           IN  get_charge_now <= top /\ top - get_charge_now <= d \div 100 + 1
<1> DEFINE n == (u * 100) \div d
<1>1. u * 100 \in Nat /\ n \in Nat
  OBVIOUS
<1>2. CDiv(u * 100, -d) = -n
  <2>1. CDiv(u * 100, -d) = -((u * 100) \div d)
    BY <1>1, CDivides, Zenon
  <2> QED
    BY <2>1
<1> DEFINE back == -n
<1>3. /\ meter.acc = (IF back < MAX_VALUE THEN back ELSE MAX_VALUE) + MAX_VALUE
      /\ back \in Int /\ back <= 0 /\ back = -n
  <2>1. convert_uAh_to_bin(u) = IF back < MAX_VALUE THEN back ELSE MAX_VALUE
    BY <1>2 DEF convert_uAh_to_bin
  <2>2. meter.acc = convert_uAh_to_bin(u) + MAX_VALUE
    BY DEF ValueOf
  <2> QED
    BY <1>1, <2>1, <2>2
<1> HIDE DEF back, n
<1>4. n <= MAX_VALUE /\ meter.acc - MAX_VALUE = -n
  <2>1. MAX_VALUE \in Nat /\ 0 < MAX_VALUE
    BY FullRegister, Zenon
  <2>2. meter.acc = back + MAX_VALUE
    BY <1>3, <2>1
  <2>3. meter.acc = (-n) + MAX_VALUE
    BY <1>3, <2>2
  <2> QED
    BY <1>1, <2>1, <2>3
<1>5. get_charge_now = (n * d) \div 100
  <2>1. get_charge_now = CDiv((-n) * (-d), 100)
    BY <1>4 DEF get_charge_now, convert_bin_to_uAh
  <2>2. (-n) * (-d) = n * d /\ n * d \in Nat
    BY <1>1
  <2> QED
    BY <2>1, <2>2, Hundredth
<1>6. (n * d) \div 100 <= u /\ u - (n * d) \div 100 <= d \div 100 + 1
  BY <1>1, BackAndForth DEF n
<1>7. n * d <= MAX_VALUE * d /\ n * d \in Nat /\ MAX_VALUE * d \in Nat
  <2>1. MAX_VALUE \in Nat
    BY FullRegister, Zenon
  <2> QED
    BY <1>1, <1>4, <2>1, Product
<1> DEFINE p == n * d
           f == MAX_VALUE * d
<1>8. p \in Nat /\ f \in Nat /\ p <= f /\ p \div 100 <= u /\ u - p \div 100 <= d \div 100 + 1
  BY <1>6, <1>7
<1>9. get_charge_now = p \div 100 /\ FullCharge(d) = f \div 100
  BY <1>5 DEF FullCharge
<1> HIDE DEF p, f
<1>10. p \div 100 <= f \div 100 /\ p \div 100 \in Nat /\ f \div 100 \in Nat /\ d \div 100 \in Nat
  BY <1>8
<1> QED
  BY <1>8, <1>9, <1>10

LEMMA ValueReadsBack == LtcIInv => ChargeReadsBack
<1> SUFFICES ASSUME LtcIInv PROVE ChargeReadsBack
  OBVIOUS
<1>1. LtcTypeOK
  BY DEF LtcIInv, LtcFieldsOK, LtcTypeOK
<1>2. ASSUME charged # NoCharge
      PROVE  LET got == get_charge_now
                 top == IF charged > FullScale THEN FullScale ELSE charged
             IN  got <= top /\ top - got <= Abs(ltc.Qlsb) \div 1000 + 1
  <2>1. charged \in Nat /\ meter.acc = ValueOf(charged) /\ meter.acc \in 0 .. MAX_VALUE
    BY <1>2 DEF LtcIInv, LtcFieldsOK, ValueIsOfCharge
  <2>2. ltc.Qlsb \in Int /\ Abs(ltc.Qlsb) >= 10
    BY DEF LtcIInv, LtcFieldsOK, ValueIsOfCharge
  <2>3. PICK d \in Nat : /\ d > 0 /\ d \div 100 = Abs(ltc.Qlsb) \div 1000
                         /\ CDiv(ltc.Qlsb, 10) = IF ltc.Qlsb < 0 THEN -d ELSE d
    BY <2>2, Tenth
  <2>4. FullScale = FullCharge(d)
    BY <2>3, FullScaleIs
  <2>5. LET top == IF charged > FullCharge(d) THEN FullCharge(d) ELSE charged
        IN  get_charge_now <= top /\ top - get_charge_now <= d \div 100 + 1
    BY <2>1, <2>3, PositiveReadsBack, NegativeReadsBack
  <2> QED
    BY <2>3, <2>4, <2>5
<1> QED
  BY <1>1, <1>2 DEF ChargeReadsBack

-----------------------------------------------------------------------------
(* The coulomb counter: the steps                                            *)

\* Steps of the driver's power states and of its work touch no value.
LEMMA ValueKept ==
    ASSUME LtcIInv, setter' = setter, charged' = charged,
           ltc' \in [phase : {"off", "on", "asleep"}, Qlsb : Int, charge : Int],
           ltc'.Qlsb = ltc.Qlsb,
           meter' \in [on : BOOLEAN, ready : BOOLEAN, acc : 0..MAX_VALUE], meter'.acc = meter.acc,
           ltcWork' \in {"none", "scheduled", "runs"}
    PROVE  LtcIInv'
<1>1. LtcFieldsOK'
  BY DEF LtcIInv, LtcFieldsOK
<1>2. /\ Abs(ltc'.Qlsb) >= 10
      /\ setter'.pc \in {"stop", "write"} => setter'.value = ValueOf(setter.asked)
      /\ charged' # NoCharge => meter'.acc = ValueOf(charged)
  BY DEF LtcIInv, ValueIsOfCharge
<1>3. ValueIsOfCharge'
  BY <1>2 DEF ValueIsOfCharge, ValueOf, convert_uAh_to_bin
<1> QED
  BY <1>1, <1>3 DEF LtcIInv

LEMMA ProbeKeepsValue == ASSUME LtcIInv, NEW ok \in LtcBus, probe(ok) PROVE LtcIInv'
<1> DEFINE on == meter.on \/ ok
           ready == meter.ready \/ ok
<1>1. /\ meter \in [on : BOOLEAN, ready : BOOLEAN, acc : 0..MAX_VALUE]
      /\ ltc \in [phase : {"off", "on", "asleep"}, Qlsb : Int, charge : Int]
      /\ ltcWork \in {"none", "scheduled", "runs"} /\ ok \in BOOLEAN
  BY Zenon DEF LtcIInv, LtcFieldsOK, LtcBus
<1>2. on \in BOOLEAN /\ ready \in BOOLEAN
  BY <1>1, Zenon
<1>3. meter' = [meter EXCEPT !.ready = ready, !.on = on]
  BY <1>1 DEF probe, ltc_reset
<1> HIDE DEF on, ready
<1>4. /\ meter' \in [on : BOOLEAN, ready : BOOLEAN, acc : 0..MAX_VALUE]
      /\ meter'.acc = meter.acc
  BY <1>1, <1>2, <1>3, Zenon
<1>5. ltc' = ltc \/ ltc' = [ltc EXCEPT !.phase = "on", !.charge = 0]
  BY DEF probe
<1>6. /\ ltc' \in [phase : {"off", "on", "asleep"}, Qlsb : Int, charge : Int]
      /\ ltc'.Qlsb = ltc.Qlsb
  <2>1. 0 \in Int
    OBVIOUS
  <2> QED
    BY <1>1, <1>5, <2>1, Zenon
<1>7. ltcWork' \in {"none", "scheduled", "runs"} /\ setter' = setter /\ charged' = charged
  BY <1>1 DEF probe
<1> QED
  BY <1>4, <1>6, <1>7, ValueKept

LEMMA WorkKeepsValue ==
    ASSUME LtcIInv, NEW ok \in LtcBus, work_ends(ok) \/ WorkRuns PROVE LtcIInv'
<1>1. /\ meter \in [on : BOOLEAN, ready : BOOLEAN, acc : 0..MAX_VALUE] /\ meter.acc \in Int
      /\ ltc \in [phase : {"off", "on", "asleep"}, Qlsb : Int, charge : Int]
  BY DEF LtcIInv, LtcFieldsOK
<1>2. ltc' = ltc \/ ltc' = [ltc EXCEPT !.charge = meter.acc] \/ ltc' = [ltc EXCEPT !.charge = -1]
  BY DEF work_ends, WorkRuns
<1>3. /\ ltc' \in [phase : {"off", "on", "asleep"}, Qlsb : Int, charge : Int]
      /\ ltc'.Qlsb = ltc.Qlsb
  BY <1>1, <1>2
<1>4. /\ ltcWork' \in {"none", "scheduled", "runs"}
      /\ UNCHANGED <<meter, setter, charged>>
  BY DEF work_ends, WorkRuns
<1> QED
  BY <1>1, <1>3, <1>4, ValueKept

LEMMA PowerKeepsValue == ASSUME LtcIInv, suspend \/ resume \/ ltc_remove PROVE LtcIInv'
<1>1. /\ meter \in [on : BOOLEAN, ready : BOOLEAN, acc : 0..MAX_VALUE]
      /\ ltc \in [phase : {"off", "on", "asleep"}, Qlsb : Int, charge : Int]
      /\ ltcWork \in {"none", "scheduled", "runs"}
  BY DEF LtcIInv, LtcFieldsOK
<1>2. PICK phase \in {"off", "on", "asleep"} : ltc' = [ltc EXCEPT !.phase = phase]
  BY DEF suspend, resume, ltc_remove
<1>3. /\ ltc' \in [phase : {"off", "on", "asleep"}, Qlsb : Int, charge : Int]
      /\ ltc'.Qlsb = ltc.Qlsb
  BY <1>1, <1>2
<1>4. /\ ltcWork' \in {"none", "scheduled", "runs"}
      /\ UNCHANGED <<meter, setter, charged>>
  BY DEF suspend, resume, ltc_remove, cancel_delayed_work
<1> QED
  BY <1>1, <1>3, <1>4, ValueKept

LEMMA CountsKeepsValue == ASSUME LtcIInv, NEW v \in Levels, Counts(v) PROVE LtcIInv'
<1>1. /\ meter' = [meter EXCEPT !.acc = v] /\ charged' = NoCharge
      /\ UNCHANGED <<ltc, setter, ltcWork>> /\ v \in 0..MAX_VALUE
  BY LtcAssumption DEF Counts
<1>2. LtcFieldsOK'
  BY <1>1 DEF LtcIInv, LtcFieldsOK
<1>3. ValueIsOfCharge'
  BY <1>1 DEF LtcIInv, ValueIsOfCharge, ValueOf, convert_uAh_to_bin
<1> QED
  BY <1>2, <1>3 DEF LtcIInv

LEMMA SetKeepsValue == ASSUME LtcIInv, NEW uAh \in Charges, set_charge_now(uAh) PROVE LtcIInv'
<1>1. /\ setter' = [pc |-> "stop", value |-> ValueOf(uAh), asked |-> uAh, failed |-> FALSE]
      /\ ValueOf(uAh) \in 0..MAX_VALUE /\ uAh \in Nat
      /\ UNCHANGED <<ltc, meter, ltcWork, charged>>
  BY LtcAssumption DEF set_charge_now, ValueOf
<1>2. LtcFieldsOK'
  BY <1>1 DEF LtcIInv, LtcFieldsOK
<1>3. ValueIsOfCharge'
  BY <1>1 DEF LtcIInv, ValueIsOfCharge, ValueOf, convert_uAh_to_bin
<1> QED
  BY <1>2, <1>3 DEF LtcIInv

LEMMA WritesKeepValue ==
    ASSUME LtcIInv, NEW ok \in LtcBus, set_stops(ok) \/ set_writes(ok) \/ set_starts(ok)
    PROVE  LtcIInv'
<1>1. ok \in BOOLEAN
  BY Zenon DEF LtcBus
<1>2. /\ setter'.pc \in {"out", "start", "write"} /\ setter'.failed \in BOOLEAN
      /\ setter' = [setter EXCEPT !.pc = setter'.pc, !.failed = setter'.failed]
  BY <1>1, Zenon DEF set_stops, set_writes, set_starts, LtcIInv, LtcFieldsOK
<1>3. meter'.on \in BOOLEAN
  <2>1. (meter.on /\ ~ ok) \in BOOLEAN /\ (meter.on \/ ok) \in BOOLEAN
    BY <1>1, Zenon DEF LtcIInv, LtcFieldsOK
  <2> QED
    BY <2>1, Zenon DEF set_stops, set_writes, set_starts, LtcIInv, LtcFieldsOK
<1>4. /\ UNCHANGED <<ltc, ltcWork>>
      /\ \/ charged' = charged /\ meter'.acc = meter.acc
         \/ charged' = setter.asked /\ meter'.acc = setter.value /\ setter.pc = "write"
      /\ setter'.pc = "write" => setter.pc = "stop"
      /\ meter' \in [on : {meter'.on}, ready : {meter.ready}, acc : {meter.acc, setter.value}]
  BY <1>2, Zenon DEF set_stops, set_writes, set_starts, LtcIInv, LtcFieldsOK
<1>5. setter'.asked = setter.asked /\ setter'.value = setter.value
  BY <1>2, Zenon DEF LtcIInv, LtcFieldsOK
<1>6. LtcFieldsOK'
  BY <1>2, <1>3, <1>4, Zenon DEF LtcIInv, LtcFieldsOK
<1>7. ValueIsOfCharge'
  BY <1>2, <1>4, <1>5 DEF LtcIInv, ValueIsOfCharge, ValueOf, convert_uAh_to_bin
<1> QED
  BY <1>6, <1>7 DEF LtcIInv

LEMMA LtcStep == ASSUME LtcIInv, [LtcNext]_ltcVars PROVE LtcIInv'
<1>1. CASE UNCHANGED ltcVars
  BY <1>1 DEF ltcVars, LtcIInv, LtcFieldsOK, ValueIsOfCharge, ValueOf, convert_uAh_to_bin
<1>2. TRUE \in LtcBus
  BY Zenon DEF LtcBus
<1> QED
  BY Zenon, <1>1, <1>2, ProbeKeepsValue, WorkKeepsValue, PowerKeepsValue, CountsKeepsValue,
     SetKeepsValue, WritesKeepValue DEF LtcNext

\* What is on its way to the register or in it is the value of the charge that was set.
THEOREM CoulombInvariant == LtcSpec => []LtcIInv
<1>1. LtcInit => LtcIInv
  <2> SUFFICES ASSUME LtcInit PROVE LtcIInv
    OBVIOUS
  <2>1. ltc.Qlsb \in Int /\ Abs(ltc.Qlsb) >= 10
        /\ ltc \in [phase : {"off", "on", "asleep"}, Qlsb : Int, charge : Int]
    BY LtcAssumption DEF LtcInit
  <2>2. meter \in [on : BOOLEAN, ready : BOOLEAN, acc : 0..MAX_VALUE]
    BY LtcAssumption, Zenon DEF LtcInit
  <2>3. setter \in [pc : {"out", "stop", "write", "start"}, value : 0..MAX_VALUE,
                    asked : Nat, failed : BOOLEAN]
    BY DEF LtcInit, MAX_VALUE
  <2> QED
    BY <2>1, <2>2, <2>3 DEF LtcInit, LtcIInv, LtcFieldsOK, ValueIsOfCharge
<1> QED
  BY <1>1, LtcStep, PTL DEF LtcSpec

\* A charge that was set reads back, until charge flows, to within one count below, and one
\* beyond the register's range as its full scale (ltc294x_set_charge_now,
\* ltc294x_get_charge_now): for every sense resistor of either sign the driver can divide
\* by, every prescaler and every charge, whatever accesses fail.
THEOREM SetChargeReadsBack == LtcSpec => []ChargeReadsBack
  BY CoulombInvariant, ValueReadsBack, PTL

=============================================================================
