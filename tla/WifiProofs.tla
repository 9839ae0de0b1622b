----------------------------- MODULE WifiProofs -----------------------------
(***************************************************************************)
(* Proofs about the Wi-Fi driver's serial transport (Uart), for every set  *)
(* of callers and every frame length, its session management (WifiSme),    *)
(* for every set of stations and channels, and its transmission (WifiTx),  *)
(* for every pool and any number of packets.                               *)
(***************************************************************************)
EXTENDS Uart, WifiSme, WifiTx, SequenceTheorems, TLAPS

-----------------------------------------------------------------------------
(* The serial transport *)


\* The words for "no frame" and "a frame cut short" name no writer.
LEMMA NoSuchWriter == "none" \notin Writers /\ "torn" \notin Writers /\ "closer" \in Writers
BY UartAssumption DEF Writers

\* It holds before the driver is bound.
LEMMA InitUart == UartInit => UartIInv
<1> SUFFICES ASSUME UartInit PROVE UartIInv
  OBVIOUS
<1>1. UartTypeOK
  <2>1. mid \in [who : Writers \cup {"none", "torn"}, left : 0 .. FrameLen]
    BY UartAssumption DEF UartInit
  <2>2. {handle, closeFlag, rxQueued, torn, mixed, gaveUp} \subseteq BOOLEAN
    BY DEF UartInit
  <2>3. writer \in [Writers -> {"idle", "lock", "busy", "done", "failed"}]
    BY DEF UartInit
  <2> QED
    BY <2>1, <2>2, <2>3 DEF UartInit, UartTypeOK
<1>2. FramesWhole /\ WriterHasMutex /\ CloseWaitsForRx
  BY NoSuchWriter DEF UartInit, FramesWhole, WriterHasMutex, CloseWaitsForRx
<1> QED
  BY <1>1, <1>2 DEF UartIInv

\* mt7697_uart_write, from its call to its return.
LEMMA WriteStepsKeep ==
    ASSUME UartIInv, NEW w \in Writers,
           UartWrite(w) \/ WriteLock(w) \/ WritePiece(w) \/ WriteFails(w) \/ WriteReturns(w)
    PROVE  UartIInv'
<1>i. UartTypeOK /\ FramesWhole /\ WriterHasMutex /\ CloseWaitsForRx
  BY DEF UartIInv
<1>t. /\ writer \in [Writers -> {"idle", "lock", "busy", "done", "failed"}]
      /\ mid \in [who : Writers \cup {"none", "torn"}, left : 0 .. FrameLen]
      /\ mid.who \in Writers \cup {"none", "torn"} /\ mid.left \in 0 .. FrameLen
      /\ FrameLen \in Nat /\ FrameLen > 0
  BY <1>i, UartAssumption DEF UartTypeOK
<1>1. CASE UartWrite(w)
  <2>1. UartTypeOK'
    BY <1>i, <1>1 DEF UartWrite, UartTypeOK
  <2>2. WriterHasMutex'
    BY <1>i, <1>t, <1>1 DEF UartWrite, WriterHasMutex
  <2>3. CloseWaitsForRx' /\ FramesWhole'
    BY <1>i, <1>t, <1>1, NoSuchWriter DEF UartWrite, CloseWaitsForRx, FramesWhole
  <2> QED
    BY <2>1, <2>2, <2>3 DEF UartIInv
<1>2. CASE WriteLock(w)
  <2>1. UartTypeOK'
    BY <1>i, <1>2 DEF WriteLock, UartTypeOK
  <2>2. WriterHasMutex'
    BY <1>i, <1>t, <1>2, NoSuchWriter DEF WriteLock, WriterHasMutex
  <2>3. CloseWaitsForRx' /\ FramesWhole'
    BY <1>i, <1>t, <1>2, NoSuchWriter DEF WriteLock, CloseWaitsForRx, FramesWhole
  <2> QED
    BY <2>1, <2>2, <2>3 DEF UartIInv
<1>3. CASE WritePiece(w)
  <2>1. /\ writer[w] = "busy" /\ mutex = w /\ fd = "open" /\ uartUp = "bound"
        /\ UNCHANGED <<fd, handle, closeFlag, mutex, rx, rxQueued, closer, uartUp, torn, gaveUp>>
        /\ mixed' = (mixed \/ mid.who \notin {"none", w})
    BY <1>i, <1>3 DEF WritePiece, WriterHasMutex
  <2>2. PICK n \in 1 .. UartPieces(w) :
             /\ mid' = IF n = UartPieces(w) THEN [who |-> "none", left |-> 0]
                       ELSE [who |-> w, left |-> UartPieces(w) - n]
             /\ writer' = [writer EXCEPT ![w] = IF n = UartPieces(w) THEN "done" ELSE "busy"]
    BY <1>3 DEF WritePiece
  <2>3. UartPieces(w) \in 1 .. FrameLen
    BY <1>i, <1>t DEF UartPieces, WriterHasMutex
  <2>4. n # UartPieces(w) => UartPieces(w) - n \in 1 .. (FrameLen - 1)
    BY <1>t, <2>3
  <2>5. /\ mid' \in [who : Writers \cup {"none", "torn"}, left : 0 .. FrameLen]
        /\ \/ mid'.who = "none"
           \/ mid'.who = w /\ mid'.left \in 1 .. (FrameLen - 1) /\ writer'[w] = "busy"
    BY <1>t, <2>2, <2>4
  <2>6. /\ writer' \in [Writers -> {"idle", "lock", "busy", "done", "failed"}]
        /\ writer'[w] \in {"busy", "done"}
        /\ \A v \in Writers \ {w} : writer'[v] = writer[v]
    BY <1>t, <2>2
  <2>7. UartTypeOK'
    BY <1>i, <2>1, <2>5, <2>6 DEF UartTypeOK
  <2>8. WriterHasMutex'
    BY <1>i, <2>1, <2>5, <2>6, NoSuchWriter DEF WriterHasMutex
  <2>9. CloseWaitsForRx'
    BY <1>i, <2>1, <2>6, NoSuchWriter DEF CloseWaitsForRx
  <2>10. FramesWhole'
    <3>1. mid.who \notin {"none", w} => mid.who = "torn"
      BY <1>i, <1>t, <2>1 DEF WriterHasMutex
    <3> QED
      BY <1>i, <2>1, <3>1 DEF WriterHasMutex, FramesWhole
  <2> QED
    BY <2>7, <2>8, <2>9, <2>10 DEF UartIInv
<1>4. CASE WriteFails(w)
  <2>1. UartTypeOK'
    BY <1>i, <1>t, <1>4 DEF WriteFails, UartTypeOK
  <2>2. WriterHasMutex'
    BY <1>i, <1>t, <1>4, NoSuchWriter DEF WriteFails, WriterHasMutex
  <2>3. CloseWaitsForRx' /\ FramesWhole'
    BY <1>i, <1>t, <1>4, NoSuchWriter DEF WriteFails, CloseWaitsForRx, FramesWhole
  <2> QED
    BY <2>1, <2>2, <2>3 DEF UartIInv
<1>5. CASE WriteReturns(w)
  <2>1. UartTypeOK'
    BY <1>i, <1>t, <1>5 DEF WriteReturns, UartTypeOK
  <2>2. WriterHasMutex'
    BY <1>i, <1>t, <1>5, NoSuchWriter DEF WriteReturns, WriterHasMutex
  <2>3. CloseWaitsForRx' /\ FramesWhole'
    BY <1>i, <1>t, <1>5, NoSuchWriter DEF WriteReturns, CloseWaitsForRx, FramesWhole
  <2> QED
    BY <2>1, <2>2, <2>3 DEF UartIInv
<1> QED
  BY <1>1, <1>2, <1>3, <1>4, <1>5

\* mt7697_uart_open and mt7697_uart_close.
LEMMA SessionStepsKeep ==
    ASSUME UartIInv,
           \/ UartOpen \/ UartOpenFails \/ UartClose \/ CloseWakes \/ CloseSignalled \/ CloseFile
    PROVE  UartIInv'
<1>i. UartTypeOK /\ FramesWhole /\ WriterHasMutex /\ CloseWaitsForRx
  BY DEF UartIInv
<1>t. writer \in [Writers -> {"idle", "lock", "busy", "done", "failed"}]
  BY <1>i DEF UartTypeOK
<1>1. UartTypeOK'
  BY <1>i DEF UartOpen, UartOpenFails, UartClose, CloseWakes, CloseSignalled, CloseFile, UartTypeOK
<1>2. WriterHasMutex' /\ FramesWhole'
  BY <1>i, <1>t, NoSuchWriter
     DEF UartOpen, UartOpenFails, UartClose, CloseWakes, CloseSignalled, CloseFile,
         WriterHasMutex, FramesWhole
<1>3. CloseWaitsForRx'
  <2>1. CASE UartOpen
    BY <1>i, <2>1 DEF UartOpen, CloseWaitsForRx
  <2>2. CASE UartOpenFails
    BY <1>i, <2>2 DEF UartOpenFails, CloseWaitsForRx
  <2>3. CASE UartClose
    BY <1>i, <1>t, <2>3, NoSuchWriter DEF UartClose, CloseWaitsForRx
  <2>4. CASE CloseWakes
    BY <1>i, <2>4 DEF CloseWakes, CloseWaitsForRx
  <2>5. CASE CloseSignalled
    BY <1>i, <2>5 DEF CloseSignalled, CloseWaitsForRx
  <2>6. CASE CloseFile
    BY <1>i, <2>6, NoSuchWriter DEF CloseFile, CloseWaitsForRx, WriterHasMutex
  <2> QED
    BY <2>1, <2>2, <2>3, <2>4, <2>5, <2>6
<1> QED
  BY <1>1, <1>2, <1>3 DEF UartIInv

\* The receive work.
LEMMA RxStepsKeep ==
    ASSUME UartIInv, RxPoll \/ RxRead \/ RxReadFails \/ RxHandled
    PROVE  UartIInv'
<1>i. UartTypeOK /\ FramesWhole /\ WriterHasMutex /\ CloseWaitsForRx
  BY DEF UartIInv
<1>1. /\ UNCHANGED <<fd, handle, mutex, closer, writer, mid, uartUp, torn, mixed, gaveUp>>
      /\ \/ rx' \in {"read", "handle", "poll"} /\ rx # "idle" /\ UNCHANGED <<closeFlag, rxQueued>>
         \/ RxEnds /\ fd = "open" /\ rx # "idle"
  BY DEF RxPoll, RxRead, RxReadFails, RxHandled
<1>2. UartTypeOK'
  BY <1>i, <1>1 DEF UartTypeOK, RxEnds
<1>3. WriterHasMutex' /\ FramesWhole'
  BY <1>i, <1>1 DEF WriterHasMutex, FramesWhole
<1>4. CloseWaitsForRx'
  BY <1>i, <1>1 DEF CloseWaitsForRx, RxEnds
<1> QED
  BY <1>2, <1>3, <1>4 DEF UartIInv

\* The chip's messages, probe and remove, and the ends in an oops.
LEMMA OtherStepsKeep ==
    ASSUME UartIInv,
           \/ UartOpenUnbound \/ RxNoFile \/ ChipAnswers \/ ChipSends \/ UartProbe \/ UartRemove
           \/ UNCHANGED uartVars
    PROVE  UartIInv'
<1>i. UartTypeOK /\ FramesWhole /\ WriterHasMutex /\ CloseWaitsForRx
  BY DEF UartIInv
<1>1. CASE UartProbe
  <2>1. UartTypeOK' /\ FramesWhole'
    BY <1>i, <1>1 DEF UartProbe, UartTypeOK, FramesWhole
  <2>2. WriterHasMutex' /\ CloseWaitsForRx'
    BY <1>i, <1>1, NoSuchWriter DEF UartProbe, UartTypeOK, WriterHasMutex, CloseWaitsForRx
  <2> QED
    BY <2>1, <2>2 DEF UartIInv
<1>2. CASE ~ UartProbe
  <2>1. /\ UNCHANGED <<fd, handle, closeFlag, mutex, rx, rxQueued, closer, writer, mid, torn,
                       mixed, gaveUp>>
        /\ uartUp' \in {uartUp, "absent", "oops"}
        /\ uartUp' = "absent" => uartUp = "absent" \/ \A w \in Writers : writer[w] = "idle"
    BY <1>2 DEF UartOpenUnbound, RxNoFile, Oops, ChipAnswers, ChipSends, UartRemove, uartVars
  <2>2. UartTypeOK'
    BY <1>i, <2>1 DEF UartTypeOK
  <2>3. WriterHasMutex' /\ FramesWhole'
    BY <1>i, <2>1 DEF WriterHasMutex, FramesWhole
  <2>4. CloseWaitsForRx'
    BY <1>i, <2>1 DEF CloseWaitsForRx
  <2> QED
    BY <2>2, <2>3, <2>4 DEF UartIInv
<1> QED
  BY <1>1, <1>2

\* Every step keeps the invariant.
LEMMA NextUart == UartIInv /\ [UartNext]_uartVars => UartIInv'
<1> SUFFICES ASSUME UartIInv, [UartNext]_uartVars PROVE UartIInv'
  OBVIOUS
<1>1. CASE \E w \in Writers : \/ UartWrite(w) \/ WriteLock(w) \/ WritePiece(w) \/ WriteFails(w)
                              \/ WriteReturns(w)
  BY <1>1, WriteStepsKeep
<1>2. CASE UartOpen \/ UartOpenFails \/ UartClose \/ CloseWakes \/ CloseSignalled \/ CloseFile
  BY <1>2, SessionStepsKeep
<1>3. CASE RxPoll \/ RxRead \/ RxReadFails \/ RxHandled
  BY <1>3, RxStepsKeep
<1>4. CASE \/ UartOpenUnbound \/ RxNoFile \/ ChipAnswers \/ ChipSends \/ UartProbe \/ UartRemove
           \/ UNCHANGED uartVars
  BY <1>4, OtherStepsKeep
<1> QED
  BY <1>1, <1>2, <1>3, <1>4 DEF UartNext

\* The invariant holds in every reachable state.
THEOREM UartInvariant == UartSpec => []UartIInv
<1> QED
  BY InitUart, NextUart, PTL DEF UartSpec

\* Whoever calls mt7697_uart_write at once, and however kernel_write cuts a frame into
\* pieces, the chip receives frames one after another; and once the file is closed the
\* receive work has ended and nobody writes to it, unless the close gave up.
THEOREM UartIsSound == UartSpec => []UartSound
<1>1. UartIInv => UartSound
  BY DEF UartIInv, UartSound, CloseWaitsForRx, RxHasFile
<1> QED
  BY <1>1, UartInvariant, PTL

-----------------------------------------------------------------------------
(* Session management *)


\* The records and the flags, apart.
CfgOK == cfg \in [itf : {"uart", "spi"}, bound : BOOLEAN, init : {"none", "queued", "done"},
                  hif : {"closed", "open", "closing", "orphan"},
                  opmode : Modes \cup {"unset"}, port : Modes, listed : BOOLEAN]
VifIs(v) == v \in [reg : BOOLEAN, up : BOOLEAN, iftype : Modes \cup {"unset"},
                   sme : {"disconnected", "connecting", "connected"}, connected : BOOLEAN,
                   pend : BOOLEAN, scan : BOOLEAN, ch : BOOLEAN, stas : {v.stas},
                   count : {v.count}]
VifOK == VifIs(vif)
FlagsOK == kscan \in BOOLEAN /\ cut \in BOOLEAN /\ stopped \in BOOLEAN

LEMMA TypeParts ==
    (SmeTypeOK <=> CfgOK /\ VifOK /\ FlagsOK) /\ (SmeTypeOK' <=> CfgOK' /\ VifOK' /\ FlagsOK')
  BY DEF SmeTypeOK, CfgOK, VifOK, VifIs, FlagsOK

\* What the steps set in an interface.
LEMMA VifSet ==
    ASSUME NEW v, VifIs(v), NEW x, NEW n
    PROVE  /\ VifIs([v EXCEPT !.stas = x]) /\ VifIs([v EXCEPT !.up = FALSE])
           /\ VifIs([v EXCEPT !.stas = x, !.count = n, !.sme = "disconnected",
                              !.connected = FALSE, !.pend = FALSE, !.iftype = "sta"])
           /\ VifIs([v EXCEPT !.stas = x, !.count = n, !.sme = "disconnected",
                              !.connected = FALSE, !.pend = FALSE, !.iftype = "sta",
                              !.scan = FALSE])
           /\ VifIs(NoVif)
<1>1. VifIs([v EXCEPT !.stas = x])
  BY DEF VifIs
<1>2. VifIs([v EXCEPT !.up = FALSE])
  BY DEF VifIs
<1>3. VifIs([v EXCEPT !.stas = x, !.count = n, !.sme = "disconnected",
                      !.connected = FALSE, !.pend = FALSE, !.iftype = "sta"])
  BY DEF VifIs, Modes
<1>4. VifIs([v EXCEPT !.stas = x, !.count = n, !.sme = "disconnected",
                      !.connected = FALSE, !.pend = FALSE, !.iftype = "sta", !.scan = FALSE])
  BY DEF VifIs, Modes
<1>5. VifIs(NoVif)
  BY DEF VifIs, NoVif, NewVif, Modes
<1> QED
  BY <1>1, <1>2, <1>3, <1>4, <1>5

LEMMA SmeInitial == SmeInit => SmeIInv
<1> SUFFICES ASSUME SmeInit PROVE SmeIInv
  OBVIOUS
<1>1. SmeTypeOK
  <2>1. CfgOK
    <3>2. CASE cfg = NoCfg("uart")
      BY <3>2 DEF CfgOK, NoCfg, Modes
    <3>3. CASE cfg = NoCfg("spi")
      BY <3>3 DEF CfgOK, NoCfg, Modes
    <3> QED
      BY <3>2, <3>3 DEF SmeInit
  <2>2. VifOK
    BY DEF SmeInit, VifOK, VifIs, NoVif, NewVif, Modes
  <2>3. FlagsOK
    BY DEF SmeInit, FlagsOK
  <2> QED
    BY <2>1, <2>2, <2>3, TypeParts
<1>2. AnswersInOrder /\ ModeAgrees
  BY DEF SmeInit, AnswersInOrder, ModeAgrees, NoCfg, NoVif, NewVif
<1>3. StopIsFinal
  BY DEF SmeInit, StopIsFinal, NoCfg, NoVif, NewVif
<1>4. NoLateReports /\ ReloadIsComplete
  BY DEF SmeInit, NoLateReports, ReloadIsComplete
<1> QED
  BY <1>1, <1>2, <1>3, <1>4 DEF SmeIInv

\* The kernel that has been brought down.
LEMMA DiesKeeps == ASSUME SmeIInv, NEW how, Dies(how) PROVE SmeIInv'
  BY DEF Dies, SmeIInv, SmeTypeOK, AnswersInOrder, StopIsFinal, ModeAgrees, NoLateReports,
         ReloadIsComplete, NoCfg, NoVif, NewVif, Modes

LEMMA SetUpKeeps ==
    ASSUME SmeIInv, ProbeOk \/ ProbeFails \/ InitHwStart \/ InitAfterRemove
    PROVE  SmeIInv'
<1>1. CASE ProbeOk
  BY <1>1 DEF ProbeOk, Rtnl, SmeIInv, SmeTypeOK, AnswersInOrder, StopIsFinal, ModeAgrees,
              NoLateReports, ReloadIsComplete, NoCfg, NoVif, NewVif, Modes
<1>2. CASE InitHwStart
  <2>1. SmeTypeOK'
    <3>0. CfgOK /\ VifOK /\ FlagsOK
      BY TypeParts DEF SmeIInv
    <3>1. CfgOK'
      BY <1>2, <3>0 DEF InitHwStart, WrCfgReq, CfgOK, Modes
    <3>2. VifOK'
      BY <1>2, <3>0 DEF InitHwStart, WrCfgReq, VifOK, VifIs, CfgOK, Modes
    <3>3. FlagsOK'
      BY <1>2, <3>0 DEF InitHwStart, WrCfgReq, FlagsOK
    <3> QED
      BY <3>1, <3>2, <3>3, TypeParts
  <2>2. AnswersInOrder' /\ ModeAgrees'
    BY <1>2 DEF InitHwStart, WrCfgReq, SmeIInv, SmeTypeOK, AnswersInOrder, StopIsFinal, ModeAgrees
  <2>3. StopIsFinal'
    BY <1>2 DEF InitHwStart, WrCfgReq, SmeIInv, SmeTypeOK, AnswersInOrder, StopIsFinal
  <2>4. NoLateReports' /\ ReloadIsComplete'
    BY <1>2 DEF InitHwStart, WrCfgReq, SmeIInv, NoLateReports, ReloadIsComplete
  <2> QED
    BY <2>1, <2>2, <2>3, <2>4 DEF SmeIInv
<1> QED
  BY <1>1, <1>2, DiesKeeps DEF ProbeFails, InitAfterRemove

LEMMA AnswersKeep ==
    ASSUME SmeIInv, ProcGetCfg \/ ProcMacAddr
    PROVE  SmeIInv'
<1>1. CASE ProcGetCfg
  <2>1. SmeTypeOK'
    <3>0. CfgOK /\ VifOK /\ FlagsOK
      BY TypeParts DEF SmeIInv
    <3>1. CfgOK'
      BY <1>1, <3>0 DEF ProcGetCfg, Receiving, WrMacAddrReq, CfgOK, Modes
    <3>2. VifOK'
      BY <1>1, <3>0 DEF ProcGetCfg, Receiving, WrMacAddrReq, VifOK, VifIs, CfgOK, Modes
    <3>3. FlagsOK'
      BY <1>1, <3>0 DEF ProcGetCfg, Receiving, WrMacAddrReq, FlagsOK
    <3> QED
      BY <3>1, <3>2, <3>3, TypeParts
  <2>2. AnswersInOrder' /\ ModeAgrees'
    BY <1>1, ZenonT(60) DEF ProcGetCfg, Receiving, WrMacAddrReq, SmeIInv, SmeTypeOK, AnswersInOrder, StopIsFinal, ModeAgrees
  <2>3. StopIsFinal'
    BY <1>1 DEF ProcGetCfg, Receiving, WrMacAddrReq, SmeIInv, SmeTypeOK, AnswersInOrder, StopIsFinal
  <2>4. NoLateReports' /\ ReloadIsComplete'
    BY <1>1 DEF ProcGetCfg, Receiving, WrMacAddrReq, SmeIInv, NoLateReports, ReloadIsComplete
  <2> QED
    BY <2>1, <2>2, <2>3, <2>4 DEF SmeIInv
<1>2. CASE ProcMacAddr
  <2>1. SmeTypeOK'
    <3>0. CfgOK /\ VifOK /\ FlagsOK
      BY TypeParts DEF SmeIInv
    <3>1. CfgOK'
      BY <1>2, <3>0 DEF ProcMacAddr, Receiving, NewVif, CfgOK, Modes
    <3>2. VifOK'
      <4>1. cfg.opmode \in Modes \cup {"unset"}
        BY <3>0 DEF CfgOK
      <4>2. CASE vif' = vif
        BY <3>0, <4>2 DEF VifOK, VifIs
      <4>3. CASE vif' = NewVif(cfg.opmode)
        BY <4>1, <4>3 DEF VifOK, VifIs, NewVif
      <4> QED
        BY <1>2, <4>2, <4>3 DEF ProcMacAddr
    <3>3. FlagsOK'
      BY <1>2, <3>0 DEF ProcMacAddr, Receiving, NewVif, FlagsOK
    <3> QED
      BY <3>1, <3>2, <3>3, TypeParts
  <2>2. AnswersInOrder' /\ ModeAgrees'
    BY <1>2 DEF ProcMacAddr, Receiving, NewVif, SmeIInv, SmeTypeOK, AnswersInOrder, StopIsFinal, ModeAgrees
  <2>3. StopIsFinal'
    BY <1>2 DEF ProcMacAddr, Receiving, NewVif, SmeIInv, SmeTypeOK, AnswersInOrder, StopIsFinal
  <2>4. NoLateReports' /\ ReloadIsComplete'
    BY <1>2 DEF ProcMacAddr, Receiving, NewVif, SmeIInv, NoLateReports, ReloadIsComplete
  <2> QED
    BY <2>1, <2>2, <2>3, <2>4 DEF SmeIInv
<1> QED
  BY <1>1, <1>2

LEMMA OpenKeeps ==
    ASSUME SmeIInv, NdoOpen \/ NdoOpenFails
    PROVE  SmeIInv'
<1>1. CASE NdoOpen
  BY <1>1, ZenonT(60) DEF NdoOpen, Rtnl, SmeIInv, SmeTypeOK, AnswersInOrder, StopIsFinal, ModeAgrees,
              NoLateReports, ReloadIsComplete
<1>2. CASE NdoOpenFails
  <2>1. SmeTypeOK'
    <3>0. CfgOK /\ VifOK /\ FlagsOK
      BY TypeParts DEF SmeIInv
    <3>1. CfgOK'
      BY <1>2, <3>0 DEF NdoOpenFails, Rtnl, CfgOK, Modes
    <3>2. VifOK'
      BY <1>2, <3>0 DEF NdoOpenFails, Rtnl, VifOK, VifIs, CfgOK, Modes
    <3>3. FlagsOK'
      BY <1>2, <3>0 DEF NdoOpenFails, Rtnl, FlagsOK
    <3> QED
      BY <3>1, <3>2, <3>3, TypeParts
  <2>2. AnswersInOrder' /\ ModeAgrees'
    BY <1>2 DEF NdoOpenFails, Rtnl, SmeIInv, SmeTypeOK, AnswersInOrder, StopIsFinal, ModeAgrees
  <2>3. StopIsFinal'
    BY <1>2 DEF NdoOpenFails, Rtnl, SmeIInv, SmeTypeOK, AnswersInOrder, StopIsFinal
  <2>4. NoLateReports' /\ ReloadIsComplete'
    BY <1>2 DEF NdoOpenFails, Rtnl, SmeIInv, NoLateReports, ReloadIsComplete
  <2> QED
    BY <2>1, <2>2, <2>3, <2>4 DEF SmeIInv
<1> QED
  BY <1>1, <1>2

\* A stop that is cut short.
LEMMA StopCutKeeps ==
    ASSUME SmeIInv, NEW who \in {"down", "del", "remove"}, Rtnl, vif.reg,
           CanWrite, StopCut(who) \/ StopCutLate(who)
    PROVE  SmeIInv'
<1>1. CASE StopCut(who)
  <2>1. SmeTypeOK'
    <3>0. CfgOK /\ VifOK /\ FlagsOK
      BY TypeParts DEF SmeIInv
    <3>1. CfgOK'
      BY <1>1, <3>0 DEF StopCut, CutVif, CutCfg, Rtnl, CanWrite, NoVif, NewVif, CfgOK, Modes
    <3>2. VifOK'
      <4>1. PICK x : vif' = CutVif(who, [vif EXCEPT !.stas = x])
        BY <1>1 DEF StopCut
      <4> DEFINE v == [vif EXCEPT !.stas = x]
      <4>2. VifIs(v)
        BY <3>0, VifSet DEF VifOK
      <4>3. VifIs(CutVif(who, v))
        <5> HIDE DEF v
        <5> QED
          BY <4>2, VifSet DEF CutVif
      <4> QED
        BY <4>1, <4>3 DEF VifOK
    <3>3. FlagsOK'
      BY <1>1, <3>0 DEF StopCut, CutVif, CutCfg, Rtnl, CanWrite, NoVif, NewVif, FlagsOK
    <3> QED
      BY <3>1, <3>2, <3>3, TypeParts
  <2>2. AnswersInOrder' /\ ModeAgrees'
    BY <1>1, ZenonT(60) DEF StopCut, CutVif, CutCfg, Rtnl, CanWrite, NoVif, NewVif, SmeIInv, SmeTypeOK,
         AnswersInOrder, StopIsFinal, ModeAgrees
  <2>3. StopIsFinal'
    BY <1>1 DEF StopCut, CutVif, CutCfg, Rtnl, CanWrite, NoVif, NewVif, SmeIInv, SmeTypeOK,
         AnswersInOrder, StopIsFinal
  <2>4. NoLateReports' /\ ReloadIsComplete'
    BY <1>1 DEF StopCut, CutVif, CutCfg, Rtnl, CanWrite, NoVif, NewVif, SmeIInv, SmeTypeOK,
         AnswersInOrder, StopIsFinal, NoLateReports, ReloadIsComplete
  <2> QED
    BY <2>1, <2>2, <2>3, <2>4 DEF SmeIInv
<1>2. CASE StopCutLate(who)
  <2>1. SmeTypeOK'
    <3>0. CfgOK /\ VifOK /\ FlagsOK
      BY TypeParts DEF SmeIInv
    <3>1. CfgOK'
      BY <1>2, <3>0 DEF StopCutLate, CutVif, CutCfg, Rtnl, CanWrite, NoVif, NewVif, CfgOK, Modes
    <3>2. VifOK'
      <4> DEFINE v(x, n) == [vif EXCEPT !.stas = x, !.count = n, !.sme = "disconnected",
                                        !.connected = FALSE, !.pend = FALSE, !.iftype = "sta"]
      <4>1. PICK x, n : vif' = CutVif(who, v(x, n))
        BY <1>2 DEF StopCutLate
      <4>2. VifIs(v(x, n))
        BY <3>0, VifSet DEF VifOK
      <4>3. VifIs(CutVif(who, v(x, n)))
        <5> HIDE DEF v
        <5> QED
          BY <4>2, VifSet DEF CutVif
      <4> QED
        BY <4>1, <4>3 DEF VifOK
    <3>3. FlagsOK'
      BY <1>2, <3>0 DEF StopCutLate, CutVif, CutCfg, Rtnl, CanWrite, NoVif, NewVif, FlagsOK
    <3> QED
      BY <3>1, <3>2, <3>3, TypeParts
  <2>2. AnswersInOrder' /\ ModeAgrees'
    BY <1>2 DEF StopCutLate, CutVif, CutCfg, Rtnl, CanWrite, NoVif, NewVif, SmeIInv, SmeTypeOK,
         AnswersInOrder, StopIsFinal, ModeAgrees
  <2>3. StopIsFinal'
    BY <1>2 DEF StopCutLate, CutVif, CutCfg, Rtnl, CanWrite, NoVif, NewVif, SmeIInv, SmeTypeOK,
         AnswersInOrder, StopIsFinal
  <2>4. NoLateReports' /\ ReloadIsComplete'
    BY <1>2 DEF StopCutLate, CutVif, CutCfg, Rtnl, CanWrite, NoVif, NewVif, SmeIInv, SmeTypeOK,
         AnswersInOrder, StopIsFinal, NoLateReports, ReloadIsComplete
  <2> QED
    BY <2>1, <2>2, <2>3, <2>4 DEF SmeIInv
<1> QED
  BY <1>1, <1>2

\* A stop that goes through, to the close of the transport.
LEMMA StopRequestsKeeps ==
    ASSUME SmeIInv, NEW who \in {"down", "del", "remove"}, Rtnl, vif.reg,
           CanWrite, StopRequests(who)
    PROVE  SmeIInv'
<1>1. CASE StopRequests(who)
  <2>1. SmeTypeOK'
    <3>0. CfgOK /\ VifOK /\ FlagsOK
      BY TypeParts DEF SmeIInv
    <3>1. CfgOK'
      BY <1>1, <3>0 DEF StopRequests, ScanReported, Rtnl, CanWrite, CfgOK, Modes
    <3>2. VifOK'
      <4> DEFINE v(x, n) == [vif EXCEPT !.stas = x, !.count = n, !.sme = "disconnected",
                                        !.connected = FALSE, !.pend = FALSE, !.iftype = "sta",
                                        !.scan = FALSE]
             x == IF vif.iftype = "ap" THEN << >> ELSE vif.stas
             n == IF vif.iftype = "ap" THEN 0 ELSE vif.count
      <4>1. vif' = v(x, n)
        BY <1>1 DEF StopRequests
      <4>2. VifIs(v(x, n))
        BY <3>0, VifSet DEF VifOK
      <4> QED
        BY <4>1, <4>2 DEF VifOK
    <3>3. FlagsOK'
      BY <1>1, <3>0 DEF StopRequests, ScanReported, Rtnl, CanWrite, FlagsOK
    <3> QED
      BY <3>1, <3>2, <3>3, TypeParts
  <2>2. AnswersInOrder' /\ ModeAgrees'
    BY <1>1 DEF StopRequests, ScanReported, Rtnl, CanWrite, SmeIInv, SmeTypeOK, AnswersInOrder,
         StopIsFinal, ModeAgrees
  <2>3. StopIsFinal'
    BY <1>1 DEF StopRequests, ScanReported, Rtnl, CanWrite, SmeIInv, SmeTypeOK, AnswersInOrder,
         StopIsFinal
  <2>4. NoLateReports' /\ ReloadIsComplete'
    BY <1>1 DEF StopRequests, ScanReported, Rtnl, CanWrite, SmeIInv, SmeTypeOK, AnswersInOrder,
         StopIsFinal, NoLateReports, ReloadIsComplete
  <2> QED
    BY <2>1, <2>2, <2>3, <2>4 DEF SmeIInv
<1> QED
  BY <1>1

\* The transport is closed.
LEMMA ClosedKeeps ==
    ASSUME SmeIInv,
           StopClosed
    PROVE  SmeIInv'
<1>1. CASE StopClosed
  <2>1. SmeTypeOK'
    <3>0. CfgOK /\ VifOK /\ FlagsOK
      BY TypeParts DEF SmeIInv
    <3>1. CfgOK'
      BY <1>1, <3>0 DEF StopClosed, NoVif, NewVif, CfgOK, Modes
    <3>2. VifOK'
      <4>1. vif' = NoVif \/ vif' = [vif EXCEPT !.up = FALSE]
        BY <1>1 DEF StopClosed
      <4> QED
        BY <3>0, <4>1, VifSet DEF VifOK
    <3>3. FlagsOK'
      BY <1>1, <3>0 DEF StopClosed, NoVif, NewVif, FlagsOK
    <3> QED
      BY <3>1, <3>2, <3>3, TypeParts
  <2>2. AnswersInOrder' /\ ModeAgrees'
    BY <1>1 DEF StopClosed, NoVif, NewVif, SmeIInv, SmeTypeOK, AnswersInOrder, StopIsFinal,
         ModeAgrees
  <2>3. StopIsFinal'
    BY <1>1 DEF StopClosed, NoVif, NewVif, SmeIInv, SmeTypeOK, AnswersInOrder, StopIsFinal
  <2>4. NoLateReports' /\ ReloadIsComplete'
    BY <1>1 DEF StopClosed, NoVif, NewVif, SmeIInv, SmeTypeOK, AnswersInOrder, StopIsFinal,
         NoLateReports, ReloadIsComplete
  <2> QED
    BY <2>1, <2>2, <2>3, <2>4 DEF SmeIInv
<1> QED
  BY <1>1

\* The mode is set to what it is.
LEMMA SameModeKeeps ==
    ASSUME SmeIInv, NEW m \in Modes, cfg.opmode = m, ChangeIface(m)
    PROVE  SmeIInv'
<1>1. SmeTypeOK'
  <2>0. CfgOK /\ VifOK /\ FlagsOK
    BY TypeParts DEF SmeIInv
  <2>1. CfgOK'
    BY <2>0 DEF ChangeIface, Rtnl, CanWrite, WrSetOpMode, CfgOK, Modes
  <2>2. VifOK'
    BY <2>0 DEF ChangeIface, Rtnl, CanWrite, WrSetOpMode, VifOK, VifIs, CfgOK, Modes
  <2>3. FlagsOK'
    BY <2>0 DEF ChangeIface, Rtnl, CanWrite, WrSetOpMode, FlagsOK
  <2> QED
    BY <2>1, <2>2, <2>3, TypeParts
<1>2. AnswersInOrder' /\ ModeAgrees'
  BY DEF ChangeIface, Rtnl, CanWrite, WrSetOpMode, SmeIInv, SmeTypeOK, AnswersInOrder,
       StopIsFinal, ModeAgrees
<1>3. StopIsFinal'
  BY DEF ChangeIface, Rtnl, CanWrite, WrSetOpMode, SmeIInv, SmeTypeOK, AnswersInOrder,
       StopIsFinal
<1>4. NoLateReports' /\ ReloadIsComplete'
  BY DEF ChangeIface, Rtnl, CanWrite, WrSetOpMode, SmeIInv, SmeTypeOK, AnswersInOrder,
       StopIsFinal, NoLateReports, ReloadIsComplete
<1> QED
  BY <1>1, <1>2, <1>3, <1>4 DEF SmeIInv

\* The mode is changed in all three places.
LEMMA ModeIsAgreed ==
    ASSUME SmeIInv, NEW m \in Modes,
           vif' = [vif EXCEPT !.iftype = m], cfg' = [cfg EXCEPT !.opmode = m, !.port = m],
           vif.reg, UNCHANGED <<asked, stopped>>
    PROVE  AnswersInOrder' /\ ModeAgrees'
<1>0. CfgOK /\ VifOK
  BY TypeParts DEF SmeIInv
<1>1. vif'.reg = vif.reg /\ vif'.up = vif.up /\ vif'.iftype = m
  BY <1>0 DEF VifOK, VifIs
<1>2. cfg'.bound = cfg.bound /\ cfg'.init = cfg.init /\ cfg'.opmode = m /\ cfg'.port = m
  BY <1>0 DEF CfgOK
<1>3. AnswersInOrder'
  BY <1>1, <1>2 DEF SmeIInv, AnswersInOrder
<1>4. ModeAgrees'
  BY <1>1, <1>2 DEF ModeAgrees
<1> QED
  BY <1>3, <1>4

\* The mode is changed.
LEMMA ModeKeeps ==
    ASSUME SmeIInv, NEW m \in Modes,
           Siwmode(m) \/ (Rtnl /\ CanWrite /\ ChangeIface(m))
    PROVE  SmeIInv'
<1>1. CASE Siwmode(m)
  <2>1. SmeTypeOK'
    <3>0. CfgOK /\ VifOK /\ FlagsOK
      BY TypeParts DEF SmeIInv
    <3>1. CfgOK'
      BY <1>1, <3>0 DEF Siwmode, Rtnl, CfgOK, Modes
    <3>2. VifOK'
      BY <1>1, <3>0 DEF Siwmode, Rtnl, VifOK, VifIs, CfgOK, Modes
    <3>3. FlagsOK'
      BY <1>1, <3>0 DEF Siwmode, Rtnl, FlagsOK
    <3> QED
      BY <3>1, <3>2, <3>3, TypeParts
  <2>0. /\ vif' = [vif EXCEPT !.iftype = m] /\ cfg' = [cfg EXCEPT !.opmode = m, !.port = m]
        /\ stopper = "no" /\ vif.reg /\ UNCHANGED <<asked, stopped>>
    BY <1>1 DEF Siwmode, Rtnl
  <2>2. AnswersInOrder' /\ ModeAgrees'
    BY <2>0, ModeIsAgreed
  <2>3. StopIsFinal'
    BY <1>1 DEF Siwmode, Rtnl, SmeIInv, SmeTypeOK, AnswersInOrder, StopIsFinal
  <2>4. NoLateReports' /\ ReloadIsComplete'
    BY <1>1 DEF Siwmode, Rtnl, SmeIInv, SmeTypeOK, AnswersInOrder, StopIsFinal, NoLateReports,
         ReloadIsComplete
  <2> QED
    BY <2>1, <2>2, <2>3, <2>4 DEF SmeIInv
<1>2. CASE cfg.opmode # m /\ Rtnl /\ CanWrite /\ ChangeIface(m)
  <2>1. SmeTypeOK'
    <3>0. CfgOK /\ VifOK /\ FlagsOK
      BY TypeParts DEF SmeIInv
    <3>1. CfgOK'
      BY <1>2, <3>0 DEF ChangeIface, Rtnl, CanWrite, WrSetOpMode, CfgOK, Modes
    <3>2. VifOK'
      BY <1>2, <3>0 DEF ChangeIface, Rtnl, CanWrite, WrSetOpMode, VifOK, VifIs, CfgOK, Modes
    <3>3. FlagsOK'
      BY <1>2, <3>0 DEF ChangeIface, Rtnl, CanWrite, WrSetOpMode, FlagsOK
    <3> QED
      BY <3>1, <3>2, <3>3, TypeParts
  <2>0. /\ vif' = [vif EXCEPT !.iftype = m] /\ cfg' = [cfg EXCEPT !.opmode = m, !.port = m]
        /\ stopper = "no" /\ vif.reg /\ UNCHANGED <<asked, stopped>>
    BY <1>2 DEF ChangeIface, Rtnl
  <2>2. AnswersInOrder' /\ ModeAgrees'
    BY <2>0, ModeIsAgreed
  <2>3. StopIsFinal'
    <3>1. /\ vif' = [vif EXCEPT !.iftype = m] /\ cfg' = [cfg EXCEPT !.opmode = m, !.port = m]
          /\ stopper = "no" /\ UNCHANGED <<kscan, stopper, cut, stopped>>
      BY <1>2 DEF ChangeIface, Rtnl
    <3>2. vif'.pend = vif.pend /\ vif'.scan = vif.scan /\ cfg'.hif = cfg.hif
      BY <3>1 DEF SmeIInv, SmeTypeOK
    <3> QED
      BY <3>1, <3>2 DEF SmeIInv, StopIsFinal
  <2>4. NoLateReports' /\ ReloadIsComplete'
    BY <1>2 DEF ChangeIface, Rtnl, CanWrite, WrSetOpMode, SmeIInv, SmeTypeOK, AnswersInOrder,
         StopIsFinal, NoLateReports, ReloadIsComplete
  <2> QED
    BY <2>1, <2>2, <2>3, <2>4 DEF SmeIInv
<1>3. CASE cfg.opmode = m /\ ChangeIface(m)
  BY <1>3, SameModeKeeps
<1> QED
  BY <1>1, <1>2, <1>3

LEMMA ScanKeeps ==
    ASSUME SmeIInv,
           (Rtnl /\ CanWrite /\ Scan) \/ ProcScanComplete
    PROVE  SmeIInv'
<1>1. CASE Rtnl /\ CanWrite /\ Scan
  <2>1. SmeTypeOK'
    <3>0. CfgOK /\ VifOK /\ FlagsOK
      BY TypeParts DEF SmeIInv
    <3>1. CfgOK'
      BY <1>1, <3>0 DEF Scan, Rtnl, CanWrite, Reported, CfgOK, Modes
    <3>2. VifOK'
      BY <1>1, <3>0 DEF Scan, Rtnl, CanWrite, Reported, VifOK, VifIs, CfgOK, Modes
    <3>3. FlagsOK'
      BY <1>1, <3>0 DEF Scan, Rtnl, CanWrite, Reported, FlagsOK
    <3> QED
      BY <3>1, <3>2, <3>3, TypeParts
  <2>2. AnswersInOrder' /\ ModeAgrees'
    BY <1>1 DEF Scan, Rtnl, CanWrite, Reported, SmeIInv, SmeTypeOK, AnswersInOrder, StopIsFinal,
         ModeAgrees
  <2>3. StopIsFinal'
    BY <1>1 DEF Scan, Rtnl, CanWrite, Reported, SmeIInv, SmeTypeOK, AnswersInOrder, StopIsFinal
  <2>4. NoLateReports' /\ ReloadIsComplete'
    BY <1>1 DEF Scan, Rtnl, CanWrite, Reported, SmeIInv, SmeTypeOK, AnswersInOrder, StopIsFinal,
         NoLateReports, ReloadIsComplete
  <2> QED
    BY <2>1, <2>2, <2>3, <2>4 DEF SmeIInv
<1>2. CASE ProcScanComplete
  <2>1. SmeTypeOK'
    <3>0. CfgOK /\ VifOK /\ FlagsOK
      BY TypeParts DEF SmeIInv
    <3>1. CfgOK'
      BY <1>2, <3>0 DEF ProcScanComplete, Receiving, Found, ScanReported, CfgOK, Modes
    <3>2. VifOK'
      BY <1>2, <3>0 DEF ProcScanComplete, Receiving, Found, ScanReported, VifOK, VifIs, CfgOK, Modes
    <3>3. FlagsOK'
      BY <1>2, <3>0 DEF ProcScanComplete, Receiving, Found, ScanReported, FlagsOK
    <3> QED
      BY <3>1, <3>2, <3>3, TypeParts
  <2>2. AnswersInOrder' /\ ModeAgrees'
    BY <1>2 DEF ProcScanComplete, Receiving, Found, ScanReported, SmeIInv, SmeTypeOK,
         AnswersInOrder, StopIsFinal, ModeAgrees
  <2>3. StopIsFinal'
    BY <1>2 DEF ProcScanComplete, Receiving, Found, ScanReported, SmeIInv, SmeTypeOK,
         AnswersInOrder, StopIsFinal
  <2>4. NoLateReports' /\ ReloadIsComplete'
    BY <1>2 DEF ProcScanComplete, Receiving, Found, ScanReported, SmeIInv, SmeTypeOK,
         AnswersInOrder, StopIsFinal, NoLateReports, ReloadIsComplete
  <2> QED
    BY <2>1, <2>2, <2>3, <2>4 DEF SmeIInv
<1> QED
  BY <1>1, <1>2

LEMMA WextKeeps ==
    ASSUME SmeIInv,
           Siwfreq \/ Siwencodeext \/ SiwessidClear
    PROVE  SmeIInv'
<1>1. CASE Siwfreq
  <2>1. SmeTypeOK'
    <3>0. CfgOK /\ VifOK /\ FlagsOK
      BY TypeParts DEF SmeIInv
    <3>1. CfgOK'
      BY <1>1, <3>0 DEF Siwfreq, CfgOK, Modes
    <3>2. VifOK'
      BY <1>1, <3>0 DEF Siwfreq, VifOK, VifIs, CfgOK, Modes
    <3>3. FlagsOK'
      BY <1>1, <3>0 DEF Siwfreq, FlagsOK
    <3> QED
      BY <3>1, <3>2, <3>3, TypeParts
  <2>2. AnswersInOrder' /\ ModeAgrees'
    BY <1>1 DEF Siwfreq, SmeIInv, SmeTypeOK, AnswersInOrder, StopIsFinal, ModeAgrees
  <2>3. StopIsFinal'
    BY <1>1 DEF Siwfreq, SmeIInv, SmeTypeOK, AnswersInOrder, StopIsFinal
  <2>4. NoLateReports' /\ ReloadIsComplete'
    BY <1>1 DEF Siwfreq, SmeIInv, SmeTypeOK, AnswersInOrder, StopIsFinal, NoLateReports,
         ReloadIsComplete
  <2> QED
    BY <2>1, <2>2, <2>3, <2>4 DEF SmeIInv
<1>2. CASE Siwencodeext
  <2>1. SmeTypeOK'
    <3>0. CfgOK /\ VifOK /\ FlagsOK
      BY TypeParts DEF SmeIInv
    <3>1. CfgOK'
      BY <1>2, <3>0 DEF Siwencodeext, CfgOK, Modes
    <3>2. VifOK'
      BY <1>2, <3>0 DEF Siwencodeext, VifOK, VifIs, CfgOK, Modes
    <3>3. FlagsOK'
      BY <1>2, <3>0 DEF Siwencodeext, FlagsOK
    <3> QED
      BY <3>1, <3>2, <3>3, TypeParts
  <2>2. AnswersInOrder' /\ ModeAgrees'
    BY <1>2 DEF Siwencodeext, SmeIInv, SmeTypeOK, AnswersInOrder, StopIsFinal, ModeAgrees
  <2>3. StopIsFinal'
    BY <1>2 DEF Siwencodeext, SmeIInv, SmeTypeOK, AnswersInOrder, StopIsFinal
  <2>4. NoLateReports' /\ ReloadIsComplete'
    BY <1>2 DEF Siwencodeext, SmeIInv, SmeTypeOK, AnswersInOrder, StopIsFinal, NoLateReports,
         ReloadIsComplete
  <2> QED
    BY <2>1, <2>2, <2>3, <2>4 DEF SmeIInv
<1>3. CASE SiwessidClear
  <2>1. SmeTypeOK'
    <3>0. CfgOK /\ VifOK /\ FlagsOK
      BY TypeParts DEF SmeIInv
    <3>1. CfgOK'
      BY <1>3, <3>0 DEF SiwessidClear, WrSetSsid, CfgOK, Modes
    <3>2. VifOK'
      BY <1>3, <3>0 DEF SiwessidClear, WrSetSsid, VifOK, VifIs, CfgOK, Modes
    <3>3. FlagsOK'
      BY <1>3, <3>0 DEF SiwessidClear, WrSetSsid, FlagsOK
    <3> QED
      BY <3>1, <3>2, <3>3, TypeParts
  <2>2. AnswersInOrder' /\ ModeAgrees'
    BY <1>3 DEF SiwessidClear, WrSetSsid, SmeIInv, SmeTypeOK, AnswersInOrder, StopIsFinal,
         ModeAgrees
  <2>3. StopIsFinal'
    BY <1>3 DEF SiwessidClear, WrSetSsid, SmeIInv, SmeTypeOK, AnswersInOrder, StopIsFinal
  <2>4. NoLateReports' /\ ReloadIsComplete'
    BY <1>3 DEF SiwessidClear, WrSetSsid, SmeIInv, SmeTypeOK, AnswersInOrder, StopIsFinal,
         NoLateReports, ReloadIsComplete
  <2> QED
    BY <2>1, <2>2, <2>3, <2>4 DEF SmeIInv
<1> QED
  BY <1>1, <1>2, <1>3

LEMMA StartApKeeps ==
    ASSUME SmeIInv,
           StartAp
    PROVE  SmeIInv'
<1>1. CASE StartAp
  <2>1. SmeTypeOK'
    <3>0. CfgOK /\ VifOK /\ FlagsOK
      BY TypeParts DEF SmeIInv
    <3>1. CfgOK'
      BY <1>1, <3>0 DEF StartAp, WrSetSsid, WrSetChannel, WrSetSecurityMode, WrReload, CanWrite,
           CfgOK, Modes
    <3>2. VifOK'
      BY <1>1, <3>0, ZenonT(60) DEF StartAp, WrSetSsid, WrSetChannel, WrSetSecurityMode, WrReload, CanWrite,
           VifOK, VifIs, CfgOK, Modes
    <3>3. FlagsOK'
      BY <1>1, <3>0 DEF StartAp, WrSetSsid, WrSetChannel, WrSetSecurityMode, WrReload, CanWrite,
           FlagsOK
    <3> QED
      BY <3>1, <3>2, <3>3, TypeParts
  <2>2. AnswersInOrder' /\ ModeAgrees'
    BY <1>1 DEF StartAp, WrSetSsid, WrSetChannel, WrSetSecurityMode, WrReload, CanWrite,
         SmeIInv, SmeTypeOK, AnswersInOrder, StopIsFinal, ModeAgrees
  <2>3. StopIsFinal'
    BY <1>1 DEF StartAp, WrSetSsid, WrSetChannel, WrSetSecurityMode, WrReload, CanWrite,
         SmeIInv, SmeTypeOK, AnswersInOrder, StopIsFinal
  <2>4. NoLateReports' /\ ReloadIsComplete'
    BY <1>1 DEF StartAp, WrSetSsid, WrSetChannel, WrSetSecurityMode, WrReload, CanWrite,
         SmeIInv, SmeTypeOK, AnswersInOrder, StopIsFinal, NoLateReports, ReloadIsComplete
  <2> QED
    BY <2>1, <2>2, <2>3, <2>4 DEF SmeIInv
<1> QED
  BY <1>1

LEMMA DisconnectKeeps ==
    ASSUME SmeIInv, CanWrite,
           Disconnect
    PROVE  SmeIInv'
<1>1. CASE Disconnect
  <2>1. SmeTypeOK'
    <3>0. CfgOK /\ VifOK /\ FlagsOK
      BY TypeParts DEF SmeIInv
    <3>1. CfgOK'
      BY <1>1, <3>0 DEF Disconnect, Reported, Rtnl, CanWrite, CfgOK, Modes
    <3>2. VifOK'
      BY <1>1, <3>0, ZenonT(60) DEF Disconnect, Reported, Rtnl, CanWrite, VifOK, VifIs, CfgOK, Modes
    <3>3. FlagsOK'
      BY <1>1, <3>0 DEF Disconnect, Reported, Rtnl, CanWrite, FlagsOK
    <3> QED
      BY <3>1, <3>2, <3>3, TypeParts
  <2>2. AnswersInOrder' /\ ModeAgrees'
    BY <1>1 DEF Disconnect, Reported, Rtnl, CanWrite, SmeIInv, SmeTypeOK, AnswersInOrder,
         StopIsFinal, ModeAgrees
  <2>3. StopIsFinal'
    BY <1>1 DEF Disconnect, Reported, Rtnl, CanWrite, SmeIInv, SmeTypeOK, AnswersInOrder,
         StopIsFinal
  <2>4. NoLateReports' /\ ReloadIsComplete'
    BY <1>1 DEF Disconnect, Reported, Rtnl, CanWrite, SmeIInv, SmeTypeOK, AnswersInOrder,
         StopIsFinal, NoLateReports, ReloadIsComplete
  <2> QED
    BY <2>1, <2>2, <2>3, <2>4 DEF SmeIInv
<1> QED
  BY <1>1

LEMMA RemoveKeeps ==
    ASSUME SmeIInv, Rtnl, ~ (cfg.listed /\ vif.up),
           DriverRemove
    PROVE  SmeIInv'
<1>1. CASE DriverRemove
  <2>1. SmeTypeOK'
    <3>0. CfgOK /\ VifOK /\ FlagsOK
      BY TypeParts DEF SmeIInv
    <3>1. CfgOK'
      BY <1>1, <3>0, ZenonT(60) DEF DriverRemove, Rtnl, NoVif, NewVif, CfgOK, Modes
    <3>2. VifOK'
      BY <1>1, <3>0, ZenonT(60) DEF DriverRemove, Rtnl, NoVif, NewVif, VifOK, VifIs, CfgOK, Modes
    <3>3. FlagsOK'
      BY <1>1, <3>0 DEF DriverRemove, Rtnl, NoVif, NewVif, FlagsOK
    <3> QED
      BY <3>1, <3>2, <3>3, TypeParts
  <2>2. AnswersInOrder' /\ ModeAgrees'
    BY <1>1 DEF DriverRemove, Rtnl, NoVif, NewVif, SmeIInv, SmeTypeOK, AnswersInOrder,
         StopIsFinal, ModeAgrees
  <2>3. StopIsFinal'
    <3>1. /\ vif' = NoVif /\ stopper = "no" /\ UNCHANGED <<kscan, stopper, cut, stopped>>
          /\ cfg' = [cfg EXCEPT !.bound = FALSE, !.listed = FALSE,
                                !.hif = IF cfg.itf = "spi" THEN "closed" ELSE @]
      BY <1>1 DEF DriverRemove, Rtnl
    <3>2. ~ vif'.pend /\ ~ vif'.scan
      BY <3>1 DEF NoVif, NewVif
    <3>3. cfg'.hif = "closed" \/ cfg'.hif = cfg.hif
      BY <3>1 DEF SmeIInv, SmeTypeOK
    <3> QED
      BY <3>1, <3>2, <3>3 DEF SmeIInv, StopIsFinal
  <2>4. NoLateReports' /\ ReloadIsComplete'
    BY <1>1 DEF DriverRemove, Rtnl, NoVif, NewVif, SmeIInv, SmeTypeOK, AnswersInOrder,
         StopIsFinal, NoLateReports, ReloadIsComplete
  <2> QED
    BY <2>1, <2>2, <2>3, <2>4 DEF SmeIInv
<1> QED
  BY <1>1

\* A station connects to a network: what is written before a failed look at its channel.
LEMMA ConnectEventKeeps ==
    ASSUME SmeIInv, NEW ch, Receiving, vif.pend, ConnectEvent(ch),
           UNCHANGED <<cfg, asked, told, kscan, stopper, dead, cut, stopped>>
    PROVE  SmeIInv'
<1> USE DEF ConnectEvent, Reported
<1>1. SmeTypeOK'
  <2>0. CfgOK /\ VifOK /\ FlagsOK
    BY TypeParts DEF SmeIInv
  <2>1. CfgOK'
    BY <2>0 DEF Receiving, CfgOK, Modes
  <2>2. VifOK'
    BY <2>0, ZenonT(60) DEF Receiving, VifOK, VifIs, CfgOK, Modes
  <2>3. FlagsOK'
    BY <2>0 DEF Receiving, FlagsOK
  <2> QED
    BY <2>1, <2>2, <2>3, TypeParts
<1>2. AnswersInOrder' /\ ModeAgrees'
  BY DEF Receiving, SmeIInv, SmeTypeOK, AnswersInOrder, StopIsFinal, ModeAgrees
<1>3. StopIsFinal'
  BY DEF Receiving, SmeIInv, SmeTypeOK, AnswersInOrder, StopIsFinal
<1>4. NoLateReports' /\ ReloadIsComplete'
  BY DEF Receiving, SmeIInv, SmeTypeOK, AnswersInOrder, StopIsFinal, NoLateReports,
       ReloadIsComplete
<1> QED
  BY <1>1, <1>2, <1>3, <1>4 DEF SmeIInv

\* A station is added to those of the access point, or dismissed.
LEMMA StationsKeep ==
    ASSUME SmeIInv, NEW x, NEW n, NEW b \in BOOLEAN, NEW q \in {vif.sme, "disconnected"}, NEW e \in {vif.pend, FALSE},
           vif' = [vif EXCEPT !.stas = x, !.count = n, !.connected = b, !.sme = q, !.pend = e],
           Receiving, cfg.opmode # "sta", wrongs' = wrongs \/ wrongs' = Reported("connect"),
           UNCHANGED <<cfg, asked, told, kscan, stopper, dead, cut, stopped>>
    PROVE  SmeIInv'
<1>1. SmeTypeOK'
  <2>0. CfgOK /\ VifOK /\ FlagsOK
    BY TypeParts DEF SmeIInv
  <2>1. CfgOK'
    BY <2>0 DEF Receiving, Reported, CfgOK, Modes
  <2>2. VifOK'
    BY <2>0 DEF Receiving, Reported, VifOK, VifIs, CfgOK, Modes
  <2>3. FlagsOK'
    BY <2>0 DEF Receiving, Reported, FlagsOK
  <2> QED
    BY <2>1, <2>2, <2>3, TypeParts
<1>2. AnswersInOrder' /\ ModeAgrees'
  BY DEF Receiving, Reported, SmeIInv, SmeTypeOK, AnswersInOrder, StopIsFinal,
       ModeAgrees
<1>3. StopIsFinal'
  BY DEF Receiving, Reported, SmeIInv, SmeTypeOK, AnswersInOrder, StopIsFinal
<1>4. NoLateReports' /\ ReloadIsComplete'
  BY DEF Receiving, Reported, SmeIInv, SmeTypeOK, AnswersInOrder, StopIsFinal,
       NoLateReports, ReloadIsComplete
<1> QED
  BY <1>1, <1>2, <1>3, <1>4 DEF SmeIInv

\* The access point adds a station.
LEMMA StationJoins ==
    ASSUME SmeIInv, NEW x, NEW n,
           vif' = [vif EXCEPT !.stas = x, !.count = n, !.connected = TRUE],
           Receiving, cfg.opmode # "sta", wrongs' = wrongs \/ wrongs' = Reported("connect"),
           UNCHANGED <<cfg, asked, told, kscan, stopper, dead, cut, stopped>>
    PROVE  SmeIInv'
<1>1. SmeTypeOK'
  <2>0. CfgOK /\ VifOK /\ FlagsOK
    BY TypeParts DEF SmeIInv
  <2>1. CfgOK'
    BY <2>0 DEF Receiving, Reported, CfgOK, Modes
  <2>2. VifOK'
    BY <2>0 DEF Receiving, Reported, VifOK, VifIs, CfgOK, Modes
  <2>3. FlagsOK'
    BY <2>0 DEF Receiving, Reported, FlagsOK
  <2> QED
    BY <2>1, <2>2, <2>3, TypeParts
<1>2. AnswersInOrder' /\ ModeAgrees'
  BY DEF Receiving, Reported, SmeIInv, SmeTypeOK, AnswersInOrder, StopIsFinal,
       ModeAgrees
<1>3. StopIsFinal'
  BY DEF Receiving, Reported, SmeIInv, SmeTypeOK, AnswersInOrder, StopIsFinal
<1>4. NoLateReports' /\ ReloadIsComplete'
  BY DEF Receiving, Reported, SmeIInv, SmeTypeOK, AnswersInOrder, StopIsFinal,
       NoLateReports, ReloadIsComplete
<1> QED
  BY <1>1, <1>2, <1>3, <1>4 DEF SmeIInv

LEMMA StationLeavesKeeps ==
    ASSUME SmeIInv, Receiving, CanWrite,
           vif' = [vif EXCEPT !.sme = "disconnected", !.connected = FALSE, !.pend = FALSE],
           wrongs' = wrongs \/ wrongs' = Reported("connect"),
           UNCHANGED <<cfg, asked, told, kscan, stopper, dead, cut, stopped>>
    PROVE  SmeIInv'
<1>1. SmeTypeOK'
  <2>0. CfgOK /\ VifOK /\ FlagsOK
    BY TypeParts DEF SmeIInv
  <2>1. CfgOK'
    BY <2>0 DEF Receiving, CanWrite, Reported, CfgOK, Modes
  <2>2. VifOK'
    BY <2>0 DEF Receiving, CanWrite, Reported, VifOK, VifIs, CfgOK, Modes
  <2>3. FlagsOK'
    BY <2>0 DEF Receiving, CanWrite, Reported, FlagsOK
  <2> QED
    BY <2>1, <2>2, <2>3, TypeParts
<1>2. AnswersInOrder' /\ ModeAgrees'
  BY DEF Receiving, CanWrite, Reported, SmeIInv, SmeTypeOK, AnswersInOrder, StopIsFinal,
       ModeAgrees
<1>3. StopIsFinal'
  BY DEF Receiving, CanWrite, Reported, SmeIInv, SmeTypeOK, AnswersInOrder, StopIsFinal
<1>4. NoLateReports' /\ ReloadIsComplete'
  BY DEF Receiving, CanWrite, Reported, SmeIInv, SmeTypeOK, AnswersInOrder, StopIsFinal,
       NoLateReports, ReloadIsComplete
<1> QED
  BY <1>1, <1>2, <1>3, <1>4 DEF SmeIInv

\* The requests of a call with a name contain every setting that the reload relies on.
Settings == {"mode", "ssid", "bssid", "ch", "sec"}
Asks(q, x) == \E j \in DOMAIN q : j <= Len(q) /\ q[j] = x

LEMMA AsksJoined ==
    ASSUME NEW q \in Seq(Settings), NEW r \in Seq(Settings), NEW x, Asks(q, x) \/ Asks(r, x)
    PROVE  q \o r \in Seq(Settings) /\ Asks(q \o r, x)
<1> DEFINE c == q \o r
<1>1. /\ c \in Seq(Settings) /\ Len(c) = Len(q) + Len(r)
      /\ \A i \in 1 .. Len(q) + Len(r) : c[i] = IF i <= Len(q) THEN q[i] ELSE r[i - Len(q)]
  BY ConcatProperties
<1>2. /\ Len(q) \in Nat /\ Len(r) \in Nat /\ DOMAIN q = 1 .. Len(q) /\ DOMAIN r = 1 .. Len(r)
      /\ DOMAIN c = 1 .. Len(c)
  BY <1>1, LenProperties
<1> HIDE DEF c
<1>3. CASE Asks(q, x)
  <2>1. PICK j \in 1 .. Len(q) : q[j] = x
    BY <1>2, <1>3 DEF Asks
  <2>2. j \in 1 .. Len(q) + Len(r) /\ j <= Len(q) /\ j <= Len(c)
    BY <1>1, <1>2
  <2> QED
    BY <1>1, <1>2, <2>1, <2>2 DEF Asks, c
<1>4. CASE Asks(r, x)
  <2>1. PICK j \in 1 .. Len(r) : r[j] = x
    BY <1>2, <1>4 DEF Asks
  <2>2. /\ Len(q) + j \in 1 .. Len(q) + Len(r) /\ ~ (Len(q) + j <= Len(q))
        /\ (Len(q) + j) - Len(q) = j /\ Len(q) + j <= Len(c)
    BY <1>1, <1>2
  <2>3. c[Len(q) + j] = x
    BY <1>1, <2>1, <2>2
  <2> QED
    BY <1>1, <1>2, <2>2, <2>3 DEF Asks, c
<1> QED
  BY <1>3, <1>4

LEMMA EssidAsks ==
    /\ Asks(EssidRequests, "mode") /\ Asks(EssidRequests, "ssid") /\ Asks(EssidRequests, "sec")
    /\ vif.ch => Asks(EssidRequests, "ch")
    /\ EssidRequests \in Seq(Settings)
<1> DEFINE a == <<"mode", "ssid">>
           b == IF cfg.opmode = "sta" THEN <<"bssid">> ELSE << >>
           c == IF vif.ch THEN <<"ch">> ELSE << >>
           d == <<"sec">>
<1>1. a \in Seq(Settings) /\ Asks(a, "mode") /\ Asks(a, "ssid")
  <2>1. a \in Seq(Settings) /\ Len(a) = 2 /\ DOMAIN a = 1 .. 2 /\ a[1] = "mode" /\ a[2] = "ssid"
    BY DEF Settings
  <2>2. 1 \in 1 .. 2 /\ 2 \in 1 .. 2 /\ 1 <= 2 /\ 2 <= 2
    OBVIOUS
  <2> HIDE DEF a
  <2> QED
    BY <2>1, <2>2 DEF Asks
<1>2. b \in Seq(Settings)
  <2>1. <<"bssid">> \in Seq(Settings) /\ << >> \in Seq(Settings)
    BY DEF Settings
  <2> QED
    BY <2>1
<1>3. c \in Seq(Settings) /\ (vif.ch => Asks(c, "ch"))
  <2>1. c \in Seq(Settings)
    <3>1. <<"ch">> \in Seq(Settings) /\ << >> \in Seq(Settings)
      BY DEF Settings
    <3> QED
      BY <3>1
  <2>2. ASSUME vif.ch PROVE Asks(c, "ch")
    <3>1. Len(c) = 1 /\ DOMAIN c = 1 .. 1 /\ c[1] = "ch"
      BY <2>2
    <3>2. 1 \in 1 .. 1 /\ 1 <= 1
      OBVIOUS
    <3> HIDE DEF c
    <3> QED
      BY <3>1, <3>2 DEF Asks
  <2> QED
    BY <2>1, <2>2
<1>4. d \in Seq(Settings) /\ Asks(d, "sec")
  <2>1. d \in Seq(Settings) /\ Len(d) = 1 /\ DOMAIN d = 1 .. 1 /\ d[1] = "sec"
    BY DEF Settings
  <2>2. 1 \in 1 .. 1 /\ 1 <= 1
    OBVIOUS
  <2> HIDE DEF d
  <2> QED
    BY <2>1, <2>2 DEF Asks
<1>5. EssidRequests = ((a \o b) \o c) \o d
  BY DEF EssidRequests
<1> HIDE DEF a, b, c, d
<1> DEFINE e == a \o b
           f == e \o c
<1>6. e \in Seq(Settings) /\ Asks(e, "mode") /\ Asks(e, "ssid")
  BY <1>1, <1>2, AsksJoined
<1> HIDE DEF e
<1>7. f \in Seq(Settings) /\ Asks(f, "mode") /\ Asks(f, "ssid") /\ (vif.ch => Asks(f, "ch"))
  BY <1>3, <1>6, AsksJoined
<1> HIDE DEF f
<1>8. /\ Asks(f \o d, "mode") /\ Asks(f \o d, "ssid") /\ Asks(f \o d, "sec")
      /\ vif.ch => Asks(f \o d, "ch")
      /\ f \o d \in Seq(Settings)
  BY <1>4, <1>7, AsksJoined
<1> QED
  BY <1>5, <1>8 DEF e, f

LEMMA EssidLen == Len(EssidRequests) \in Nat /\ DOMAIN EssidRequests = 1 .. Len(EssidRequests)
  BY EssidAsks, LenProperties

LEMMA SiwessidKeeps ==
    ASSUME SmeIInv, SiwessidSet
    PROVE  SmeIInv'
<1> DEFINE needed == {"mode", "ssid", "sec"} \cup (IF vif.ch THEN {"ch"} ELSE {})
           names(k) == {EssidRequests[i] : i \in {j \in DOMAIN EssidRequests : j <= k}}
<1>1. PICK k \in 0 .. Len(EssidRequests) + 1 :
        LET written == (told \ {"ssid"}) \cup names(k)
        IN  /\ told' = written
            /\ \/ /\ ~ EssidGoesOn(k) \/ vif.connected
                  /\ UNCHANGED <<vif, wrongs>>
               \/ /\ EssidGoesOn(k) /\ ~ vif.connected
                  /\ vif' = [vif EXCEPT !.pend = TRUE, !.sme = "connecting"]
                  /\ wrongs' = WrReload(written, needed) \/ UNCHANGED wrongs
  BY DEF SiwessidSet
<1>2. ASSUME EssidGoesOn(k) PROVE needed \subseteq names(k)
  <2>1. k \in Nat /\ k >= Len(EssidRequests) /\ Len(EssidRequests) \in Nat
    BY <1>2, EssidLen DEF EssidGoesOn
  <2>2. ASSUME NEW x, Asks(EssidRequests, x) PROVE x \in names(k)
    <3>1. PICK j \in DOMAIN EssidRequests : j <= Len(EssidRequests) /\ EssidRequests[j] = x
      BY <2>2 DEF Asks
    <3>2. j \in Int
      BY EssidLen
    <3>3. j <= k
      BY <2>1, <3>1, <3>2
    <3> QED
      BY <3>1, <3>3
  <2> HIDE DEF names
  <2> QED
    BY <2>2, EssidAsks
<1>3. wrongs' = wrongs
  BY <1>1, <1>2 DEF WrReload
<1>4. vif' = vif \/ vif' = [vif EXCEPT !.pend = TRUE, !.sme = "connecting"]
  BY <1>1
<1>5. Rtnl /\ CanWrite /\ UNCHANGED <<cfg, asked, kscan, stopper, dead, cut, stopped>>
  BY DEF SiwessidSet
<1>6. SmeTypeOK'
  <2>0. CfgOK /\ VifOK /\ FlagsOK
    BY TypeParts DEF SmeIInv
  <2>1. CfgOK'
    BY <1>5, <2>0 DEF CfgOK
  <2>2. VifOK'
    BY <1>4, <2>0 DEF VifOK, VifIs
  <2>3. FlagsOK'
    BY <1>5, <2>0 DEF FlagsOK
  <2> QED
    BY <2>1, <2>2, <2>3, TypeParts
<1>7. AnswersInOrder' /\ ModeAgrees'
  BY <1>4, <1>5, ZenonT(60) DEF SmeIInv, SmeTypeOK, AnswersInOrder, ModeAgrees
<1>8. StopIsFinal'
  BY <1>4, <1>5 DEF CanWrite, SmeIInv, SmeTypeOK, StopIsFinal
<1>9. NoLateReports' /\ ReloadIsComplete'
  BY <1>3, <1>5 DEF SmeIInv, NoLateReports, ReloadIsComplete
<1> QED
  BY <1>6, <1>7, <1>8, <1>9 DEF SmeIInv

\* mt7697_cfg80211_stop, whoever calls it and however it ends.
LEMMA StopKeeps ==
    ASSUME SmeIInv, NEW who \in {"down", "del", "remove"}, Rtnl, vif.reg, Cfg80211Stop(who)
    PROVE  SmeIInv'
<1>1. CASE CanWrite /\ (StopCut(who) \/ StopCutLate(who))
  BY <1>1, StopCutKeeps
<1>2. CASE CanWrite /\ StopRequests(who)
  BY <1>2, StopRequestsKeeps
<1>3. CASE Dies("oops")
  BY <1>3, DiesKeeps
<1> QED
  BY <1>1, <1>2, <1>3 DEF Cfg80211Stop

LEMMA ConnectIndKeeps ==
    ASSUME SmeIInv, NEW i, NEW a, NEW ch, ProcConnectInd(i, a, ch)
    PROVE  SmeIInv'
<1>0. Receiving /\ UNCHANGED <<cfg, asked, told, kscan, stopper, dead, cut, stopped>>
  BY DEF ProcConnectInd
<1>1. CASE vif.pend /\ ConnectEvent(ch)
  BY <1>0, <1>1, ConnectEventKeeps
<1>2. CASE cfg.opmode # "sta" /\ vif' = NewSta(a) /\ wrongs' = IF vif' = vif THEN wrongs ELSE Reported("connect")
  <2>1. CASE vif.count > StaMax
    <3>1. vif' = vif /\ wrongs' = wrongs
      BY <1>2, <2>1 DEF NewSta
    <3> QED
      BY <1>0, <3>1 DEF SmeIInv, SmeTypeOK, AnswersInOrder, StopIsFinal, ModeAgrees,
                        NoLateReports, ReloadIsComplete
  <2>2. CASE ~ (vif.count > StaMax)
    <3> DEFINE x == Append(vif.stas, a)
               n == vif.count + 1
    <3>1. vif' = [vif EXCEPT !.stas = x, !.count = n, !.connected = TRUE]
      BY <1>2, <2>2 DEF NewSta
    <3>2. wrongs' = wrongs \/ wrongs' = Reported("connect")
      BY <1>2
    <3>3. cfg.opmode # "sta"
      BY <1>2
    <3> HIDE DEF x, n
    <3> QED
      BY <1>0, <3>1, <3>2, <3>3, StationJoins
  <2> QED
    BY <2>1, <2>2
<1> QED
  BY <1>1, <1>2 DEF ProcConnectInd

LEMMA DisconnectIndKeeps ==
    ASSUME SmeIInv, NEW i, NEW a, ProcDisconnectInd(i, a)
    PROVE  SmeIInv'
<1>0. Receiving /\ UNCHANGED <<cfg, asked, told, kscan, stopper, dead, cut, stopped>>
  BY DEF ProcDisconnectInd
<1>1. CASE /\ CanWrite
           /\ vif' = [vif EXCEPT !.sme = "disconnected", !.connected = FALSE, !.pend = FALSE]
           /\ wrongs' = IF vif.sme = "disconnected" THEN wrongs ELSE Reported("connect")
  BY <1>0, <1>1, StationLeavesKeeps
<1>2. CASE /\ cfg.opmode # "sta" /\ UNCHANGED wrongs
           /\ vif' = [DelSta(a) EXCEPT !.sme = "disconnected", !.connected = FALSE, !.pend = FALSE]
  <2>1. PICK x, n : DelSta(a) = [vif EXCEPT !.stas = x, !.count = n]
    BY DEF DelSta
  <2>2. vif' = [vif EXCEPT !.stas = x, !.count = n, !.connected = FALSE, !.sme = "disconnected",
                           !.pend = FALSE]
    BY <1>2, <2>1 DEF SmeIInv, SmeTypeOK
  <2>3. "disconnected" \in {vif.sme, "disconnected"} /\ FALSE \in {vif.pend, FALSE} /\ FALSE \in BOOLEAN
    OBVIOUS
  <2> QED
    BY <1>0, <1>2, <2>2, <2>3, StationsKeep
<1> QED
  BY <1>1, <1>2 DEF ProcDisconnectInd

LEMMA SmeNextKeeps == SmeIInv /\ [SmeNext]_smeVars => SmeIInv'
<1> SUFFICES ASSUME SmeIInv, [SmeNext]_smeVars PROVE SmeIInv'
  OBVIOUS
<1>up. vif.up => vif.reg
  BY DEF SmeIInv, AnswersInOrder
<1>1. CASE UNCHANGED smeVars
  BY <1>1 DEF smeVars, SmeIInv, SmeTypeOK, AnswersInOrder, StopIsFinal, ModeAgrees,
              NoLateReports, ReloadIsComplete
<1>2. CASE ProbeOk \/ ProbeFails \/ InitHwStart \/ InitAfterRemove
  BY <1>2, SetUpKeeps
<1>3. CASE ProcGetCfg \/ ProcMacAddr
  BY <1>3, AnswersKeep
<1>4. CASE NdoOpen \/ NdoOpenFails
  BY <1>4, OpenKeeps
<1>5. CASE NdoStop
  BY <1>5, StopKeeps DEF NdoStop
<1>6. CASE DelIface
  BY <1>6, StopKeeps, DiesKeeps DEF DelIface
<1>7. CASE StopClosed
  BY <1>7, ClosedKeeps
<1>8. CASE DriverRemove
  <2>1. CASE cfg.listed /\ vif.up
    BY <1>8, <1>up, <2>1, StopKeeps DEF DriverRemove
  <2>2. CASE ~ (cfg.listed /\ vif.up)
    BY <1>8, <2>2, RemoveKeeps DEF DriverRemove
  <2> QED
    BY <2>1, <2>2
<1>9. CASE DelClosed \/ AddIface \/ ReceiveAfterFree \/ SiwessidClosed
  BY <1>9, DiesKeeps DEF DelClosed, AddIface, ReceiveAfterFree, SiwessidClosed
<1>10. ASSUME NEW m \in Modes, ChangeIface(m) \/ Siwmode(m) PROVE SmeIInv'
  <2>1. CASE Siwmode(m)
    BY <2>1, ModeKeeps
  <2>2. CASE ChangeIface(m) /\ CanWrite
    <3>1. Rtnl
      BY <2>2 DEF ChangeIface
    <3> QED
      BY <2>2, <3>1, ModeKeeps
  <2>3. CASE ChangeIface(m) /\ ~ CanWrite /\ cfg.opmode # m
    <3>1. Dies("oops")
      BY <2>3 DEF ChangeIface
    <3> QED
      BY <3>1, DiesKeeps
  <2>4. CASE ChangeIface(m) /\ ~ CanWrite /\ cfg.opmode = m
    BY <2>4, SameModeKeeps
  <2> QED
    BY <1>10, <2>1, <2>2, <2>3, <2>4
<1>11. CASE Scan
  <2>1. CASE CanWrite
    <3>1. Rtnl
      BY <1>11 DEF Scan
    <3> QED
      BY <1>11, <2>1, <3>1, ScanKeeps
  <2>2. CASE ~ CanWrite
    BY <1>11, <2>2, DiesKeeps DEF Scan
  <2> QED
    BY <2>1, <2>2
<1>12. CASE ProcScanComplete
  BY <1>12, ScanKeeps
<1>13. CASE ProcScanRsp
  <2>1. CASE Dies("oops")
    BY <2>1, DiesKeeps
  <2>2. CASE ~ Dies("oops")
    <3>1. ProcScanComplete
      BY <1>13, <2>2 DEF ProcScanRsp, ProcScanComplete
    <3> QED
      BY <3>1, ScanKeeps
  <2> QED
    BY <2>1, <2>2
<1>14. CASE Siwfreq \/ Siwencodeext \/ SiwessidClear
  BY <1>14, WextKeeps
<1>15. CASE SiwessidSet
  BY <1>15, SiwessidKeeps
<1>16. CASE Disconnect
  <2>1. CASE CanWrite
    BY <1>16, <2>1, DisconnectKeeps
  <2>2. CASE ~ CanWrite
    BY <1>16, <2>2, DiesKeeps DEF Disconnect
  <2> QED
    BY <2>1, <2>2
<1>17. CASE StartAp
  BY <1>17, StartApKeeps
<1>18. CASE \E i \in 0 .. 1, a \in Macs, ch \in Channels : ProcConnectInd(i, a, ch)
  BY <1>18, ConnectIndKeeps
<1>19. CASE \E i \in 0 .. 1, a \in Macs : ProcDisconnectInd(i, a)
  BY <1>19, DisconnectIndKeeps
<1>20. CASE \E a \in Macs : DelStaFails(a)
  BY <1>20, DiesKeeps DEF DelStaFails
<1> QED
  BY <1>1, <1>2, <1>3, <1>4, <1>5, <1>6, <1>7, <1>8, <1>9, <1>10, <1>11, <1>12, <1>13, <1>14,
     <1>15, <1>16, <1>17, <1>18, <1>19, <1>20 DEF SmeNext

\* SmeIInv is an invariant of the session management, for any stations and channels.
THEOREM SmeInvariant == SmeSpec => []SmeIInv
<1>1. SmeInit => SmeIInv
  BY SmeInitial
<1>2. SmeIInv /\ [SmeNext]_smeVars => SmeIInv'
  BY SmeNextKeeps
<1> QED
  BY <1>1, <1>2, PTL DEF SmeSpec

\* The operating mode, the port type and the interface type agree, whichever of the ways of
\* changing them were taken and whichever requests failed.
THEOREM ModesAgree == SmeSpec => []ModeAgrees
<1>1. SmeIInv => ModeAgrees
  BY DEF SmeIInv
<1> QED
  BY <1>1, SmeInvariant, PTL

\* Unless a stop was cut short, nothing is reported to cfg80211 between the stop of an
\* interface and its next opening, and no scan is reported twice.
THEOREM NothingReportedLate == SmeSpec => []NoLateReports
<1>1. SmeIInv => NoLateReports
  BY DEF SmeIInv
<1> QED
  BY <1>1, SmeInvariant, PTL

\* The firmware is made to act on its settings only when it has been told all of them.
THEOREM ReloadsAreComplete == SmeSpec => []ReloadIsComplete
<1>1. SmeIInv => ReloadIsComplete
  BY DEF SmeIInv
<1> QED
  BY <1>1, SmeInvariant, PTL
-----------------------------------------------------------------------------
(* Transmission *)

\* What taking one entry out of a sequence leaves.
LEMMA RemoveOne ==
    ASSUME NEW S, NEW l \in Seq(S), NEW p \in 1 .. Len(l)
    PROVE  /\ RemoveAt(l, p) \in Seq(S)
           /\ Len(RemoveAt(l, p)) = Len(l) - 1
           /\ \A k \in 1 .. Len(l) - 1 :
                RemoveAt(l, p)[k] = IF k < p THEN l[k] ELSE l[k + 1]
<1> DEFINE a == SubSeq(l, 1, p - 1)
           b == SubSeq(l, p + 1, Len(l))
<1>1. Len(l) \in Nat /\ \A i \in 1 .. Len(l) : l[i] \in S
  BY LenProperties, ElementOfSeq
<1>2. /\ a \in Seq(S) /\ Len(a) = p - 1
      /\ \A i \in 1 .. p - 1 : a[i] = l[i]
  <2>1. \A i \in 1 .. p - 1 : l[i] \in S
    BY <1>1
  <2> QED
    BY <1>1, <2>1, SubSeqProperties
<1>3. /\ b \in Seq(S) /\ Len(b) = Len(l) - p
      /\ \A i \in 1 .. Len(l) - p : b[i] = l[p + i]
  <2> DEFINE m == p + 1
             n == Len(l)
  <2>1. m \in Int /\ n \in Int /\ \A i \in m .. n : l[i] \in S
    BY <1>1
  <2>2. b = SubSeq(l, m, n)
    OBVIOUS
  <2> HIDE DEF m, n, b
  <2>3. /\ SubSeq(l, m, n) \in Seq(S)
        /\ Len(SubSeq(l, m, n)) = IF m <= n THEN n - m + 1 ELSE 0
        /\ \A i \in 1 .. n - m + 1 : SubSeq(l, m, n)[i] = l[m + i - 1]
    BY <2>1, SubSeqProperties
  <2>4. \A i \in 1 .. Len(l) - p : i \in 1 .. n - m + 1 /\ m + i - 1 = p + i
    BY <1>1 DEF m, n
  <2> QED
    BY <1>1, <2>2, <2>3, <2>4 DEF m, n
<1>4. RemoveAt(l, p) = a \o b
  BY DEF RemoveAt
<1> HIDE DEF a, b
<1>5. /\ a \o b \in Seq(S) /\ Len(a \o b) = Len(a) + Len(b)
      /\ \A i \in 1 .. Len(a) + Len(b) :
            (a \o b)[i] = IF i <= Len(a) THEN a[i] ELSE b[i - Len(a)]
  BY <1>2, <1>3, ConcatProperties
<1>6. \A k \in 1 .. Len(l) - 1 : (a \o b)[k] = IF k < p THEN l[k] ELSE l[k + 1]
  <2>1. \A k \in 1 .. Len(l) - 1 : k < p => k \in 1 .. p - 1
    BY <1>1
  <2>2. \A k \in 1 .. Len(l) - 1 : ~ k < p =>
            k - (p - 1) \in 1 .. Len(l) - p /\ p + (k - (p - 1)) = k + 1
    BY <1>1
  <2>3. \A k \in 1 .. Len(l) - 1 : k \in 1 .. Len(a) + Len(b) /\ (k <= Len(a) <=> k < p)
    BY <1>1, <1>2, <1>3
  <2>4. \A k \in 1 .. Len(l) - 1 : k < p => (a \o b)[k] = l[k]
    BY <1>2, <1>5, <2>1, <2>3
  <2>5. \A k \in 1 .. Len(l) - 1 : ~ k < p => (a \o b)[k] = l[k + 1]
    BY <1>2, <1>3, <1>5, <2>2, <2>3
  <2> QED
    BY <2>4, <2>5
<1> QED
  BY <1>1, <1>2, <1>3, <1>4, <1>5, <1>6

\* Unlinking an entry of the list closes the gap, and the entry is on it no more.
LEMMA UnlinkListed ==
    ASSUME list \in Seq(Slots), IsInjective(list), NEW s, Contains(list, s), Unlink(s)
    PROVE  \E p \in 1 .. Len(list) :
            /\ list[p] = s
            /\ list' \in Seq(Slots) /\ Len(list') = Len(list) - 1
            /\ \A k \in 1 .. Len(list) - 1 :
                list'[k] = IF k < p THEN list[k] ELSE list[k + 1]
            /\ ~ Contains(list', s)
<1> DEFINE p == Place(s)
<1>1. DOMAIN list = 1 .. Len(list) /\ Len(list) \in Nat
  BY LenProperties
<1>2. p \in 1 .. Len(list) /\ list[p] = s
  BY <1>1, Zenon DEF Contains, Place
<1>3. list' = RemoveAt(list, p)
  BY DEF Unlink
<1> HIDE DEF p
<1>4. /\ list' \in Seq(Slots) /\ Len(list') = Len(list) - 1
      /\ \A k \in 1 .. Len(list) - 1 :
          list'[k] = IF k < p THEN list[k] ELSE list[k + 1]
  BY <1>2, <1>3, RemoveOne
<1>5. \A k \in 1 .. Len(list) : list[k] = s => k = p
  BY <1>1, <1>2 DEF IsInjective
<1>6. ~ Contains(list', s)
  BY <1>1, <1>2, <1>4, <1>5 DEF Contains
<1> QED
  BY <1>2, <1>4, <1>6

\* What is needed of any unlinking: the entries that stay keep their order.
LEMMA UnlinkKeeps ==
    ASSUME list \in Seq(Slots), IsInjective(list), NEW s, Unlink(s)
    PROVE  /\ list' \in Seq(Slots) /\ IsInjective(list')
           /\ ~ Contains(list', s)
           /\ \A t : Contains(list', t) => Contains(list, t)
           /\ \A i, j \in DOMAIN list' : i < j =>
                \E u, v \in DOMAIN list : u < v /\ list'[i] = list[u] /\ list'[j] = list[v]
           /\ \A i \in DOMAIN list' : \E u \in DOMAIN list : list'[i] = list[u]
           /\ list' # <<>> => list'[1] \in {list[1], list[2]}
           /\ list # <<>> /\ list[1] # s => list' # <<>> /\ list'[1] = list[1]
<1>0. DOMAIN list = 1 .. Len(list) /\ Len(list) \in Nat
  BY LenProperties
<1>1. CASE ~ Contains(list, s)
  <2>1. list' = list
    BY <1>1 DEF Unlink
  <2>2. \A i, j \in DOMAIN list : i < j =>
                \E u, v \in DOMAIN list : u < v /\ list[i] = list[u] /\ list[j] = list[v]
    OBVIOUS
  <2> QED
    BY <1>1, <2>1, <2>2, Zenon
<1>2. CASE Contains(list, s)
  <2>1. PICK p \in 1 .. Len(list) :
            /\ list[p] = s
            /\ list' \in Seq(Slots) /\ Len(list') = Len(list) - 1
            /\ \A k \in 1 .. Len(list) - 1 :
                list'[k] = IF k < p THEN list[k] ELSE list[k + 1]
            /\ ~ Contains(list', s)
    BY <1>2, UnlinkListed
  <2>2. DOMAIN list' = 1 .. Len(list) - 1
    BY <2>1, LenProperties
  <2> DEFINE at(k) == IF k < p THEN k ELSE k + 1
  <2>3. \A k \in DOMAIN list' : at(k) \in DOMAIN list /\ list'[k] = list[at(k)]
    BY <1>0, <2>1, <2>2
  <2>4. \A i, j \in DOMAIN list' : i < j => at(i) < at(j)
    BY <1>0, <2>1, <2>2
  <2>5. \A i, j \in DOMAIN list' : at(i) = at(j) => i = j
    BY <1>0, <2>1, <2>2
  <2>6. list' # <<>> => list'[1] \in {list[1], list[2]}
    <3> SUFFICES ASSUME list' # <<>> PROVE list'[1] \in {list[1], list[2]}
      OBVIOUS
    <3>1. Len(list') # 0
      BY <2>1, EmptySeq
    <3> QED
      BY <1>0, <2>1, <2>2, <3>1
  <2>7. list[1] # s => list' # <<>> /\ list'[1] = list[1]
    <3> SUFFICES ASSUME list[1] # s PROVE list' # <<>> /\ list'[1] = list[1]
      OBVIOUS
    <3>1. p > 1 /\ 1 \in 1 .. Len(list) - 1
      BY <1>0, <2>1
    <3>2. Len(list') # 0
      BY <1>0, <2>1, <3>1
    <3> QED
      BY <1>0, <2>1, <3>1, <3>2
  <2> HIDE DEF at
  <2>8. IsInjective(list')
    BY <2>3, <2>5 DEF IsInjective
  <2>9. \A t : Contains(list', t) => Contains(list, t)
    BY <1>0, <2>1, <2>2, <2>3 DEF Contains
  <2>10. \A i, j \in DOMAIN list' : i < j =>
                \E u, v \in DOMAIN list : u < v /\ list'[i] = list[u] /\ list'[j] = list[v]
    BY <2>3, <2>4
  <2>11. \A i \in DOMAIN list' : \E u \in DOMAIN list : list'[i] = list[u]
    BY <2>3
  <2> QED
    BY <2>1, <2>6, <2>7, <2>8, <2>9, <2>10, <2>11
<1> QED
  BY <1>1, <1>2

-----------------------------------------------------------------------------

LEMMA ListFacts ==
    ASSUME TxTypeOK
    PROVE  /\ list \in Seq(Slots) /\ Len(list) \in Nat /\ DOMAIN list = 1 .. Len(list)
           /\ \A k \in DOMAIN list : list[k] \in Slots
           /\ list # <<>> => 1 \in DOMAIN list /\ Head(list) = list[1]
           /\ list = <<>> => Len(list) = 0
           /\ ~ Contains(list, End)
           /\ \A s : Contains(list, s) <=> \E k \in DOMAIN list : list[k] = s
<1>1. list \in Seq(Slots)
  BY DEF TxTypeOK
<1>2. Len(list) \in Nat /\ DOMAIN list = 1 .. Len(list)
  BY <1>1, LenProperties
<1>3. \A k \in DOMAIN list : list[k] \in Slots
  BY <1>1, <1>2, ElementOfSeq
<1>4. list # <<>> => 1 \in DOMAIN list /\ Head(list) = list[1]
  BY <1>1, <1>2, EmptySeq, HeadTailProperties
<1>5. list = <<>> => Len(list) = 0
  BY EmptySeq
<1>6. End \notin Slots
  BY TxAssumption DEF End, Slots
<1>7. \A s : Contains(list, s) <=> \E k \in DOMAIN list : list[k] = s
  BY <1>2 DEF Contains
<1> QED
  BY <1>1, <1>2, <1>3, <1>4, <1>5, <1>6, <1>7

\* The entry behind one on the list: the next place, or the list head.
LEMMA NextIs ==
    ASSUME TxTypeOK, IsInjective(list), NEW k \in DOMAIN list
    PROVE  NextOf(list[k]) = IF k = Len(list) THEN End ELSE list[k + 1]
<1>0. list \in Seq(Slots) /\ Len(list) \in Nat /\ DOMAIN list = 1 .. Len(list)
  BY ListFacts
<1>1. Contains(list, list[k])
  BY <1>0 DEF Contains
<1>2. Place(list[k]) = k
  BY DEF Place, IsInjective
<1>3. list[k] = Last(list) <=> k = Len(list)
  <2>1. Last(list) = list[Len(list)]
    BY DEF Last
  <2> QED
    BY <1>0, <2>1 DEF IsInjective
<1> QED
  BY <1>1, <1>2, <1>3 DEF NextOf

LEMMA NextTyped ==
    ASSUME TxTypeOK, IsInjective(list), NEW s
    PROVE  NextOf(s) \in Slots \cup {End}
<1>1. CASE Contains(list, s)
  <2>1. PICK k \in DOMAIN list : list[k] = s
    BY <1>1, ListFacts
  <2>2. k # Len(list) => k + 1 \in DOMAIN list
    BY ListFacts
  <2> QED
    BY <2>1, <2>2, NextIs, ListFacts
<1>2. CASE ~ Contains(list, s)
  BY <1>2 DEF NextOf
<1> QED
  BY <1>1, <1>2

\* Slots counted backwards from the index.
LEMMA BehindFacts ==
    ASSUME idx \in Slots
    PROVE  /\ \A d \in 0 .. PoolLen : Behind(d) \in Slots
           /\ \A c, d \in 1 .. PoolLen : Behind(c) = Behind(d) => c = d
           /\ \A s \in Slots : \E d \in 1 .. PoolLen : s = Behind(d)
           /\ \A d \in 1 .. PoolLen : Behind(d) = idx => d = PoolLen
           /\ Behind(0) = idx
<1> USE TxAssumption DEF Slots, Behind
<1>1. \A s \in Slots : s < idx => idx - s \in 1 .. PoolLen /\ s = Behind(idx - s)
  OBVIOUS
<1>2. \A s \in Slots : ~ s < idx =>
        idx - s + PoolLen \in 1 .. PoolLen /\ s = Behind(idx - s + PoolLen)
  OBVIOUS
<1>3. \A s \in Slots : \E d \in 1 .. PoolLen : s = Behind(d)
  BY <1>1, <1>2
<1>4. \A d \in 0 .. PoolLen : Behind(d) \in Slots
  OBVIOUS
<1>5. \A c, d \in 1 .. PoolLen : Behind(c) = Behind(d) => c = d
  OBVIOUS
<1>6. \A d \in 1 .. PoolLen : Behind(d) = idx => d = PoolLen
  OBVIOUS
<1>7. Behind(0) = idx
  OBVIOUS
<1> QED
  BY <1>3, <1>4, <1>5, <1>6, <1>7

LEMMA BehindMoves ==
    ASSUME idx \in Slots, idx' = NextIndex(idx)
    PROVE  /\ idx' \in Slots
           /\ \A d \in 0 .. PoolLen - 1 : Behind(d)' \in Slots /\ Behind(d + 1)' = Behind(d)
BY TxAssumption DEF Slots, Behind, NextIndex

-----------------------------------------------------------------------------
LEMMA InitTx == TxInit => TxIInv
<1> SUFFICES ASSUME TxInit PROVE TxIInv
  OBVIOUS
<1>0. list = <<>> /\ tried = <<>> /\ accepted = <<>> /\ DOMAIN list = {} /\ DOMAIN tried = {} /\ Len(list) = 0
  BY DEF TxInit
<1>1. TxTypeOK
  <2>1. list \in Seq(Slots)
    BY <1>0
  <2>2. pool \in [Slots -> 0 .. MaxPackets] /\ idx \in Slots
    BY TxAssumption DEF TxInit, Free, Slots
  <2>3. {xslot, txCur, nxt, scur, snxt} \subseteq Slots \cup {End}
    BY TxAssumption DEF TxInit, Slots
  <2> QED
    BY <2>1, <2>2, <2>3 DEF TxInit, TxTypeOK
<1>2. TxHistoryOK
  <2>1. accepted \in Seq(1 .. MaxPackets) /\ tried \in Seq(1 .. MaxPackets)
    BY <1>0
  <2>2. packets \in 0 .. MaxPackets /\ stops \in Nat
    BY TxAssumption DEF TxInit
  <2>3. broken \in BOOLEAN /\ up
    BY DEF TxInit
  <2> QED
    BY <1>0, <2>1, <2>2, <2>3, Zenon DEF TxHistoryOK
<1>3. InOrderOnce /\ ListedSlotsAreTaken
  BY <1>0 DEF InOrderOnce, ListedSlotsAreTaken, IsInjective
<1>4. \A s \in Slots : pool[s] = Free
  BY DEF TxInit
<1>5. NewestIsAside /\ ListIsAhead /\ WalkIsInFront
  BY <1>0, <1>4 DEF TxInit, NewestIsAside, ListIsAhead, WalkIsInFront
<1>6. TakenAreBehind
  BY <1>0, <1>4, TxAssumption DEF TxInit, TakenAreBehind, Linking, Clearing
<1> QED
  BY <1>1, <1>2, <1>3, <1>5, <1>6 DEF TxIInv

\* The packets after one more was appended.
LEMMA AppendHas ==
    ASSUME NEW S, NEW l \in Seq(S), NEW e \in S
    PROVE  /\ Append(l, e) \in Seq(S) /\ Len(Append(l, e)) = Len(l) + 1
           /\ DOMAIN l = 1 .. Len(l) /\ DOMAIN Append(l, e) = 1 .. Len(l) + 1 /\ Len(l) \in Nat
           /\ \A k \in 1 .. Len(l) : Append(l, e)[k] = l[k]
           /\ Append(l, e)[Len(l) + 1] = e
           /\ \A x : Contains(Append(l, e), x) <=> Contains(l, x) \/ x = e
<1>1. /\ Append(l, e) \in Seq(S) /\ Len(Append(l, e)) = Len(l) + 1
      /\ \A k \in 1 .. Len(l) : Append(l, e)[k] = l[k]
      /\ Append(l, e)[Len(l) + 1] = e
  BY AppendProperties
<1>2. DOMAIN l = 1 .. Len(l) /\ Len(l) \in Nat
  BY LenProperties
<1>3. DOMAIN Append(l, e) = 1 .. Len(l) + 1
  BY <1>1, LenProperties
<1>4. \A x : Contains(Append(l, e), x) <=> Contains(l, x) \/ x = e
  BY <1>1, <1>2 DEF Contains
<1> QED
  BY <1>1, <1>2, <1>3, <1>4

LEMMA DropKeepsTx == TxIInv /\ DataTxDrop => TxIInv'
<1> SUFFICES ASSUME TxIInv, DataTxDrop PROVE TxIInv'
  OBVIOUS
<1>1. /\ TxTypeOK /\ TxHistoryOK /\ InOrderOnce /\ ListedSlotsAreTaken
      /\ NewestIsAside /\ ListIsAhead /\ WalkIsInFront /\ TakenAreBehind
  BY DEF TxIInv, DataTxDrop
<1>2. TxTypeOK' /\ InOrderOnce' /\ ListedSlotsAreTaken' /\ ListIsAhead' /\ WalkIsInFront'
  BY <1>1 DEF DataTxDrop, TxTypeOK, InOrderOnce, ListedSlotsAreTaken, ListIsAhead, WalkIsInFront,
     OnList
<1>3. TakenAreBehind'
  BY <1>1 DEF DataTxDrop, TakenAreBehind, Behind, Linking, Clearing
<1>4. packets' \in 0 .. MaxPackets /\ \A i \in DOMAIN tried : tried[i] <= packets'
  <2>1. \A i \in DOMAIN tried : tried[i] \in 1 .. MaxPackets
    <3>1. tried \in Seq(1 .. MaxPackets)
      BY <1>1 DEF TxHistoryOK
    <3> QED
      BY <3>1, LenProperties, ElementOfSeq
  <2> QED
    BY <1>1, <2>1, TxAssumption DEF DataTxDrop, TxHistoryOK
<1>5. TxHistoryOK'
  BY <1>1, <1>4, Zenon DEF DataTxDrop, TxHistoryOK
<1>6. NewestIsAside'
  <2>1. \A s \in Slots : pool[s] # Free => pool[s] <= packets'
    BY <1>1, TxAssumption DEF DataTxDrop, NewestIsAside, TxTypeOK, TxHistoryOK
  <2> QED
    BY <1>1, <2>1 DEF DataTxDrop, NewestIsAside
<1> QED
  BY <1>2, <1>3, <1>5, <1>6 DEF TxIInv

LEMMA KickKeepsTx == TxIInv /\ (DataTxKick \/ NotifyTx) => TxIInv'
<1> SUFFICES ASSUME TxIInv, DataTxKick \/ NotifyTx PROVE TxIInv'
  OBVIOUS
<1>1. /\ TxTypeOK /\ TxHistoryOK /\ InOrderOnce /\ ListedSlotsAreTaken
      /\ NewestIsAside /\ ListIsAhead /\ WalkIsInFront /\ TakenAreBehind
  BY DEF TxIInv, DataTxKick, NotifyTx
<1>2. /\ packets' = packets /\ accepted' = accepted /\ pool' = pool /\ idx' = idx /\ list' = list
      /\ xslot' = xslot /\ txPc' = txPc /\ txCur' = txCur /\ nxt' = nxt /\ tried' = tried
      /\ up' = up /\ stops' = stops /\ scur' = scur /\ snxt' = snxt /\ broken' = broken
      /\ (xpc' = xpc \/ (xpc' = "idle" /\ xpc = "kick"))
  BY Zenon DEF DataTxKick, NotifyTx
<1>3. TxTypeOK' /\ TxHistoryOK' /\ InOrderOnce' /\ ListedSlotsAreTaken'
  BY <1>1, <1>2 DEF TxTypeOK, TxHistoryOK, InOrderOnce, ListedSlotsAreTaken
<1>4. NewestIsAside' /\ ListIsAhead' /\ WalkIsInFront'
  BY <1>1, <1>2 DEF NewestIsAside, ListIsAhead, WalkIsInFront
<1>5. TakenAreBehind'
  BY <1>1, <1>2 DEF TakenAreBehind, Behind, Linking, Clearing
<1> QED
  BY <1>3, <1>4, <1>5 DEF TxIInv

LEMMA StopKeepsTx == TxIInv /\ (StopBegin \/ Open) => TxIInv'
<1> SUFFICES ASSUME TxIInv, StopBegin \/ Open PROVE TxIInv'
  OBVIOUS
<1>1. /\ TxTypeOK /\ TxHistoryOK /\ InOrderOnce /\ ListedSlotsAreTaken
      /\ NewestIsAside /\ ListIsAhead /\ WalkIsInFront /\ TakenAreBehind
  BY DEF TxIInv, StopBegin, Open
<1>2. /\ packets' = packets /\ accepted' = accepted /\ pool' = pool /\ idx' = idx /\ list' = list
      /\ xslot' = xslot /\ txPc' = txPc /\ txCur' = txCur /\ nxt' = nxt /\ tried' = tried
      /\ broken' = broken /\ xpc' = xpc
      /\ \/ up' /\ stops' = stops /\ scur' = scur /\ snxt' = snxt
         \/ stops' = stops + 1 /\ scur' = FirstOf /\ snxt' = NextOf(FirstOf)
  BY DEF StopBegin, Open
<1>3. {scur', snxt'} \subseteq Slots \cup {End}
  <2>1. FirstOf \in Slots \cup {End}
    BY <1>1, ListFacts DEF FirstOf
  <2>2. NextOf(FirstOf) \in Slots \cup {End}
    BY <1>1, NextTyped DEF ListedSlotsAreTaken
  <2>3. {scur, snxt} \subseteq Slots \cup {End}
    BY <1>1 DEF TxTypeOK
  <2> QED
    BY <1>2, <2>1, <2>2, <2>3
<1>4. TxTypeOK' /\ InOrderOnce' /\ ListedSlotsAreTaken'
  BY <1>1, <1>2, <1>3 DEF TxTypeOK, InOrderOnce, ListedSlotsAreTaken
<1>5. TxHistoryOK'
  BY <1>1, <1>2 DEF TxHistoryOK
<1>6. NewestIsAside' /\ ListIsAhead' /\ WalkIsInFront'
  BY <1>1, <1>2 DEF NewestIsAside, ListIsAhead, WalkIsInFront
<1>7. TakenAreBehind'
  <2>1. CASE stops' = stops
    BY <1>1, <1>2, <2>1 DEF TakenAreBehind, Behind, Linking, Clearing
  <2>2. CASE stops' = stops + 1
    BY <1>1, <2>2 DEF TakenAreBehind, TxHistoryOK
  <2> QED
    BY <1>2, <2>1, <2>2
<1> QED
  BY <1>4, <1>5, <1>6, <1>7 DEF TxIInv

LEMMA StopEntryKeepsTx == TxIInv /\ StopEntry => TxIInv'
<1> SUFFICES ASSUME TxIInv, StopEntry PROVE TxIInv'
  OBVIOUS
<1>1. /\ TxTypeOK /\ TxHistoryOK /\ InOrderOnce /\ ListedSlotsAreTaken
      /\ NewestIsAside /\ ListIsAhead /\ WalkIsInFront /\ TakenAreBehind
  BY DEF TxIInv, StopEntry
<1>2. /\ packets' = packets /\ accepted' = accepted /\ pool' = pool /\ idx' = idx
      /\ xslot' = xslot /\ txPc' = txPc /\ txCur' = txCur /\ nxt' = nxt /\ tried' = tried
      /\ xpc' = xpc /\ stops' = stops /\ up' = up
      /\ scur' = snxt /\ snxt' = NextOf(snxt) /\ stops # 0 /\ Unlink(scur)
  BY <1>1 DEF StopEntry, TxHistoryOK
<1>3. /\ list \in Seq(Slots) /\ Len(list) \in Nat /\ DOMAIN list = 1 .. Len(list)
      /\ \A s : Contains(list, s) <=> \E k \in DOMAIN list : list[k] = s
  BY <1>1, ListFacts
<1>4. /\ list' \in Seq(Slots) /\ IsInjective(list') /\ ~ Contains(list', scur)
      /\ \A t : Contains(list', t) => Contains(list, t)
      /\ \A i, j \in DOMAIN list' : i < j =>
           \E u, v \in DOMAIN list : u < v /\ list'[i] = list[u] /\ list'[j] = list[v]
      /\ \A i \in DOMAIN list' : \E u \in DOMAIN list : list'[i] = list[u]
      /\ list' # <<>> => list'[1] \in {list[1], list[2]}
      /\ list # <<>> /\ list[1] # scur => list' # <<>> /\ list'[1] = list[1]
  BY <1>1, <1>2, <1>3, UnlinkKeeps DEF ListedSlotsAreTaken
<1>5. TxTypeOK'
  <2>1. NextOf(snxt) \in Slots \cup {End}
    BY <1>1, NextTyped DEF ListedSlotsAreTaken
  <2> QED
    BY <1>1, <1>2, <1>4, <2>1 DEF TxTypeOK
<1>6. TxHistoryOK' /\ InOrderOnce'
  <2>1. broken' \in BOOLEAN
    BY DEF StopEntry
  <2> QED
    BY <1>1, <1>2, <2>1 DEF TxHistoryOK, InOrderOnce
<1>7. ListedSlotsAreTaken'
  BY <1>1, <1>2, <1>4 DEF ListedSlotsAreTaken
<1>8. NewestIsAside'
  BY <1>1, <1>2, <1>4 DEF NewestIsAside
<1>9. ListIsAhead'
  BY <1>1, <1>2, <1>4 DEF ListIsAhead
<1>10. WalkIsInFront'
  <2>1. WalkIsInFront
    BY <1>1
  <2>2. ASSUME Contains(list', txCur), txPc \in {"write", "unlink"}
        PROVE  list'[1] = txCur /\ (Contains(list', nxt) => list'[2] = nxt)
    <3>1. Contains(list, txCur) /\ list[1] = txCur /\ scur # txCur
      BY <1>4, <2>1, <2>2 DEF WalkIsInFront
    <3>2. list # <<>>
      BY <1>3, <3>1, EmptySeq
    <3>3. list'[1] = list[1]
      BY <1>4, <3>1, <3>2
    <3>4. ASSUME Contains(list', nxt) PROVE list'[2] = nxt
      <4>1. Contains(list, nxt) /\ list[2] = nxt /\ nxt # scur
        BY <1>4, <2>1, <2>2, <3>1, <3>4 DEF WalkIsInFront
      <4>2. CASE ~ Contains(list, scur)
        BY <1>2, <4>1, <4>2 DEF Unlink
      <4>3. CASE Contains(list, scur)
        <5>1. PICK p \in 1 .. Len(list) :
                /\ list[p] = scur /\ Len(list') = Len(list) - 1
                /\ \A k \in 1 .. Len(list) - 1 :
                    list'[k] = IF k < p THEN list[k] ELSE list[k + 1]
          BY <1>1, <1>2, <1>3, <4>3, UnlinkListed DEF ListedSlotsAreTaken
        <5>2. p # 1 /\ p # 2
          BY <3>1, <4>1, <5>1
        <5> QED
          BY <1>3, <4>1, <5>1, <5>2
      <4> QED
        BY <4>2, <4>3
    <3> QED
      BY <3>1, <3>3, <3>4
  <2>3. ASSUME txPc = "clear"
        PROVE  ~ Contains(list', txCur) /\ (Contains(list', nxt) => list'[1] = nxt)
    <3>1. ~ Contains(list, txCur)
      BY <2>1, <2>3 DEF WalkIsInFront
    <3>2. ASSUME Contains(list', nxt) PROVE list'[1] = nxt
      <4>1. Contains(list, nxt) /\ list[1] = nxt /\ nxt # scur
        BY <1>4, <2>1, <2>3, <3>2 DEF WalkIsInFront
      <4>2. list # <<>>
        BY <1>3, <4>1, EmptySeq
      <4> QED
        BY <1>4, <4>1, <4>2
    <3> QED
      BY <1>4, <3>1, <3>2
  <2>4. ASSUME txPc = "write", NEW k \in DOMAIN list'
        PROVE  pool[txCur] < pool[list'[k]] \/ list'[k] = txCur
    BY <1>4, <2>1, <2>4 DEF WalkIsInFront
  <2> QED
    BY <1>2, <2>1, <2>2, <2>3, <2>4 DEF WalkIsInFront
<1>11. TakenAreBehind'
  BY <1>2 DEF TakenAreBehind
<1> QED
  BY <1>5, <1>6, <1>7, <1>8, <1>9, <1>10, <1>11 DEF TxIInv

LEMMA PlaceKeepsTx == TxIInv /\ DataTxPlace => TxIInv'
<1> SUFFICES ASSUME TxIInv, DataTxPlace PROVE TxIInv'
  OBVIOUS
<1>1. /\ TxTypeOK /\ TxHistoryOK /\ InOrderOnce /\ ListedSlotsAreTaken
      /\ NewestIsAside /\ ListIsAhead /\ WalkIsInFront /\ TakenAreBehind
  BY DEF TxIInv, DataTxPlace
<1> DEFINE new == packets + 1
<1>2. /\ packets' = new /\ accepted' = Append(accepted, new)
      /\ pool' = [pool EXCEPT ![idx] = new]
      /\ idx' = NextIndex(idx) /\ xslot' = idx /\ xpc' = "link" /\ xpc = "idle"
      /\ pool[idx] = Free /\ packets < MaxPackets
      /\ list' = list /\ txPc' = txPc /\ txCur' = txCur /\ nxt' = nxt /\ tried' = tried
      /\ up' = up /\ stops' = stops /\ scur' = scur /\ snxt' = snxt /\ broken' = broken
  BY DEF DataTxPlace
<1>3. /\ new \in 1 .. MaxPackets /\ new > packets /\ packets \in 0 .. MaxPackets
      /\ accepted \in Seq(1 .. MaxPackets) /\ tried \in Seq(1 .. MaxPackets)
  BY <1>1, <1>2, TxAssumption DEF TxHistoryOK
<1>4. /\ idx \in Slots /\ idx' \in Slots /\ pool \in [Slots -> 0 .. MaxPackets]
      /\ \A d \in 0 .. PoolLen - 1 : Behind(d)' \in Slots /\ Behind(d + 1)' = Behind(d)
  BY <1>1, <1>2, BehindMoves DEF TxTypeOK
<1> HIDE DEF new
<1>5. /\ pool' \in [Slots -> 0 .. MaxPackets] /\ pool'[idx] = new
      /\ \A s \in Slots \ {idx} : pool'[s] = pool[s]
  BY <1>2, <1>3, <1>4
<1>6. /\ list \in Seq(Slots) /\ Len(list) \in Nat /\ DOMAIN list = 1 .. Len(list)
      /\ \A k \in DOMAIN list : list[k] \in Slots
      /\ \A s : Contains(list, s) <=> \E k \in DOMAIN list : list[k] = s
  BY <1>1, ListFacts
<1>7. /\ ~ Contains(list, idx) /\ \A k \in DOMAIN list : pool'[list[k]] = pool[list[k]]
      /\ txPc # "idle" => txCur # idx /\ nxt # idx /\ pool'[txCur] = pool[txCur]
                          /\ (nxt # End => pool'[nxt] = pool[nxt])
  <2>1. End \notin Slots
    BY TxAssumption DEF End, Slots
  <2>2. \A k \in DOMAIN list : list[k] # idx
    BY <1>1, <1>2 DEF ListedSlotsAreTaken
  <2>3. txPc # "idle" => txCur \in Slots \ {idx} /\ (nxt # End => nxt \in Slots \ {idx})
    BY <1>1, <1>2 DEF WalkIsInFront
  <2> QED
    BY <1>4, <1>5, <1>6, <2>1, <2>2, <2>3
<1>8. /\ accepted' \in Seq(1 .. MaxPackets)
      /\ \A x : Contains(accepted', x) <=> Contains(accepted, x) \/ x = new
  <2>1. /\ Append(accepted, new) \in Seq(1 .. MaxPackets)
        /\ \A x : Contains(Append(accepted, new), x) <=> Contains(accepted, x) \/ x = new
    <3> DEFINE S == 1 .. MaxPackets
    <3>1. accepted \in Seq(S) /\ new \in S
      BY <1>3
    <3> HIDE DEF S
    <3>2. Append(accepted, new) \in Seq(S)
      BY <3>1, AppendHas
    <3>3. \A x : Contains(Append(accepted, new), x) <=> Contains(accepted, x) \/ x = new
      BY <3>1, AppendHas
    <3> QED
      BY <3>2, <3>3 DEF S
  <2> QED
    BY <1>2, <2>1, Zenon
<1>9. TxTypeOK'
  <2>1. {xslot', txCur', nxt', scur', snxt'} \subseteq Slots \cup {End}
    BY <1>1, <1>2, <1>4 DEF TxTypeOK
  <2> QED
    BY <1>1, <1>2, <1>4, <1>5, <2>1 DEF TxTypeOK
<1>10. \A i \in DOMAIN tried : tried[i] <= packets /\ tried[i] < new /\ tried[i] <= new
  <2>1. \A i \in DOMAIN tried : tried[i] \in 1 .. MaxPackets
    BY <1>3, LenProperties, ElementOfSeq
  <2> QED
    BY <1>1, <1>3, <2>1 DEF TxHistoryOK
<1>11. TxHistoryOK'
  <2>1. \A i \in DOMAIN tried : tried[i] <= new
    BY <1>10
  <2>2. new \in 0 .. MaxPackets
    BY <1>3
  <2> QED
    BY <1>1, <1>2, <1>8, <2>1, <2>2, Zenon DEF TxHistoryOK
<1>12. InOrderOnce'
  BY <1>1, <1>2, <1>8 DEF InOrderOnce
<1>13. ListedSlotsAreTaken'
  BY <1>1, <1>2, <1>7 DEF ListedSlotsAreTaken
<1>14. NewestIsAside'
  <2>1. \A s \in Slots : pool[s] <= packets /\ (pool[s] # Free => Contains(accepted, pool[s]))
    BY <1>1, <1>3, <1>4 DEF NewestIsAside, Free
  <2>2. \A s \in Slots \ {idx} : pool'[s] < new
    BY <1>3, <1>4, <1>5, <2>1
  <2>3. \A s \in Slots : pool'[s] <= new
    BY <1>3, <1>4, <1>5, <2>1
  <2>4. \A s \in Slots : pool'[s] # Free => Contains(accepted', pool'[s])
    BY <1>5, <1>8, <2>1
  <2>5. new > 0
    BY <1>3
  <2> QED
    BY <1>2, <1>4, <1>5, <1>7, <1>10, <2>2, <2>3, <2>4, <2>5 DEF NewestIsAside
<1>15. ListIsAhead'
  BY <1>1, <1>2, <1>7 DEF ListIsAhead
<1>16. WalkIsInFront'
  BY <1>1, <1>2, <1>7 DEF WalkIsInFront
<1>17. TakenAreBehind'
  <2> SUFFICES ASSUME stops = 0 PROVE TakenAreBehind'
    BY <1>2 DEF TakenAreBehind
  <2> SUFFICES ASSUME NEW n \in Nat, n = Len(list), NEW c \in {0, 1}, c = Clearing
               PROVE  TakenAreBehind'
    BY <1>6 DEF Clearing
  <2>1. Linking = 0 /\ Linking' = 1 /\ c \in {0, 1} /\ (c = 1 <=> txPc = "clear") /\ Clearing' = c
    BY <1>2 DEF Linking, Clearing
  <2>2. /\ n + c <= PoolLen /\ n \in Nat
        /\ \A k \in 1 .. n : list[k] = Behind(n + 1 - k)
        /\ c = 1 => txCur = Behind(n + 1)
        /\ \A s \in Slots : pool[s] # Free => \E d \in 1 .. n + c : s = Behind(d)
        /\ txPc \in {"write", "unlink"} => Contains(list, txCur)
    BY <1>1, <1>6, <2>1 DEF TakenAreBehind
  <2>3. n + c < PoolLen
    <3> SUFFICES ASSUME n + c = PoolLen PROVE FALSE
      BY <2>1, <2>2, TxAssumption
    <3>1. Behind(PoolLen) = idx
      BY <1>4, TxAssumption DEF Behind, Slots
    <3>2. CASE c = 0
      <4>1. 1 \in 1 .. n /\ list[1] = Behind(n)
        BY <2>2, <3>2, TxAssumption
      <4> QED
        BY <1>6, <1>7, <3>1, <3>2, <4>1
    <3>3. CASE c = 1
      <4>1. txCur = Behind(n + 1) /\ n + 1 = PoolLen
        BY <2>2, <3>3
      <4> QED
        BY <1>7, <2>1, <3>1, <3>3, <4>1
    <3> QED
      BY <2>1, <3>2, <3>3
  <2>4. \A d \in 0 .. n + c : Behind(d) = Behind(d + 1)' /\ d \in 0 .. PoolLen - 1
    BY <1>4, <2>1, <2>2, <2>3, TxAssumption
  <2>5. Behind(0) = idx
    BY <1>4, BehindFacts
  <2>6. \A k \in 1 .. n : list[k] = Behind(n + 1 + 1 - k)'
    <3> TAKE k \in 1 .. n
    <3> DEFINE d == n + 1 - k
    <3>1. d \in 0 .. n + c /\ d + 1 = n + 1 + 1 - k
      BY <2>1, <2>2
    <3>2. list[k] = Behind(d)
      BY <2>2
    <3> HIDE DEF d
    <3>3. Behind(d) = Behind(d + 1)'
      BY <2>4, <3>1
    <3> QED
      BY <3>1, <3>2, <3>3
  <2>7. idx = Behind(1)'
    <3>1. 0 \in 0 .. n + c /\ 0 + 1 = 1
      BY <2>1, <2>2
    <3> QED
      BY <2>4, <2>5, <3>1
  <2>8. c = 1 => txCur = Behind(n + 1 + 1)'
    <3> SUFFICES ASSUME c = 1 PROVE txCur = Behind(n + 1 + 1)'
      OBVIOUS
    <3> DEFINE d == n + 1
    <3>1. d \in 0 .. n + c
      BY <2>1, <2>2
    <3>2. txCur = Behind(d)
      BY <2>2
    <3>3. Behind(d) = Behind(d + 1)'
      BY <2>4, <3>1
    <3> QED
      BY <3>2, <3>3
  <2>9. \A s \in Slots : pool'[s] # Free => \E d \in 1 .. n + 1 + c : s = Behind(d)'
    <3> SUFFICES ASSUME NEW s \in Slots, pool'[s] # Free
                 PROVE  \E d \in 1 .. n + 1 + c : s = Behind(d)'
      OBVIOUS
    <3>1. CASE s = idx
      <4>1. 1 \in 1 .. n + 1 + c
        BY <2>1, <2>2
      <4> QED
        BY <2>7, <3>1, <4>1
    <3>2. CASE s # idx
      <4>1. PICK d \in 1 .. n + c : s = Behind(d)
        BY <1>5, <2>2, <3>2
      <4>2. d \in 0 .. n + c /\ d + 1 \in 1 .. n + 1 + c
        BY <2>1, <2>2
      <4> QED
        BY <2>4, <4>1, <4>2
    <3> QED
      BY <3>1, <3>2
  <2>10. n + 1 + c <= PoolLen
    BY <2>1, <2>2, <2>3, TxAssumption
  <2>11. n = Len(list')
    BY <1>2
  <2> QED
    BY <1>2, <1>6, <2>1, <2>2, <2>6, <2>7, <2>8, <2>9, <2>10, <2>11 DEF TakenAreBehind
<1> QED
  BY <1>9, <1>11, <1>12, <1>13, <1>14, <1>15, <1>16, <1>17 DEF TxIInv

LEMMA LinkKeepsTx == TxIInv /\ DataTxLink => TxIInv'
<1> SUFFICES ASSUME TxIInv, DataTxLink PROVE TxIInv'
  OBVIOUS
<1>1. /\ TxTypeOK /\ TxHistoryOK /\ InOrderOnce /\ ListedSlotsAreTaken
      /\ NewestIsAside /\ ListIsAhead /\ WalkIsInFront /\ TakenAreBehind
  BY DEF TxIInv, DataTxLink
<1>2. /\ list' = Append(list, xslot) /\ xpc = "link" /\ xpc' = "kick"
      /\ packets' = packets /\ accepted' = accepted /\ pool' = pool /\ idx' = idx
      /\ xslot' = xslot /\ txPc' = txPc /\ txCur' = txCur /\ nxt' = nxt /\ tried' = tried
      /\ up' = up /\ stops' = stops /\ scur' = scur /\ snxt' = snxt /\ broken' = broken
  BY DEF DataTxLink
<1>3. /\ xslot \in Slots /\ pool[xslot] = packets /\ packets > 0 /\ ~ Contains(list, xslot)
      /\ txPc # "idle" => xslot # txCur /\ xslot # nxt
      /\ \A s \in Slots \ {xslot} : pool[s] < packets
      /\ \A i \in DOMAIN tried : tried[i] < packets
  BY <1>1, <1>2 DEF NewestIsAside
<1>4. /\ list \in Seq(Slots) /\ Len(list) \in Nat /\ DOMAIN list = 1 .. Len(list)
      /\ \A k \in DOMAIN list : list[k] \in Slots /\ list[k] # xslot
      /\ \A s : Contains(list, s) <=> \E k \in DOMAIN list : list[k] = s
      /\ ~ Contains(list, End)
  BY <1>1, <1>3, ListFacts
<1> SUFFICES ASSUME NEW n \in Nat, n = Len(list) PROVE TxIInv'
  BY <1>4
<1>5. /\ list' \in Seq(Slots) /\ Len(list') = n + 1 /\ DOMAIN list' = 1 .. n + 1
      /\ \A k \in 1 .. n : list'[k] = list[k]
      /\ list'[n + 1] = xslot
      /\ \A x : Contains(list', x) <=> Contains(list, x) \/ x = xslot
  BY <1>2, <1>3, <1>4, AppendHas
<1>6. TxTypeOK' /\ TxHistoryOK' /\ InOrderOnce' /\ NewestIsAside'
  <2>1. TxTypeOK'
    BY <1>1, <1>2, <1>5 DEF TxTypeOK
  <2>2. TxHistoryOK' /\ InOrderOnce'
    BY <1>1, <1>2 DEF TxHistoryOK, InOrderOnce
  <2>3. NewestIsAside'
    BY <1>1, <1>2 DEF NewestIsAside
  <2> QED
    BY <2>1, <2>2, <2>3
<1>7. \A k \in DOMAIN list' : k \in 1 .. n \/ (k = n + 1 /\ list'[k] = xslot)
  BY <1>5
<1>8. ListedSlotsAreTaken'
  <2>1. IsInjective(list')
    BY <1>1, <1>4, <1>5, <1>7 DEF ListedSlotsAreTaken, IsInjective
  <2>2. \A k \in 1 .. n : pool[list[k]] # Free
    BY <1>1, <1>4 DEF ListedSlotsAreTaken
  <2>3. pool[xslot] # Free
    BY <1>1, <1>3 DEF Free, TxHistoryOK
  <2> QED
    BY <1>2, <1>5, <1>7, <2>1, <2>2, <2>3 DEF ListedSlotsAreTaken
<1>9. ListIsAhead'
  <2>1. ASSUME NEW i \in DOMAIN list', NEW j \in DOMAIN list', i < j
        PROVE  pool[list'[i]] < pool[list'[j]]
    <3>1. i \in 1 .. n
      BY <1>4, <1>5, <2>1
    <3>2. CASE j \in 1 .. n
      BY <1>1, <1>4, <1>5, <2>1, <3>1, <3>2 DEF ListIsAhead
    <3>3. CASE list'[j] = xslot
      BY <1>3, <1>4, <1>5, <3>1, <3>3
    <3> QED
      BY <1>7, <3>2, <3>3
  <2>2. ASSUME NEW k \in DOMAIN list', NEW i \in DOMAIN tried
        PROVE  tried[i] < pool[list'[k]] \/ (txPc = "unlink" /\ list'[k] = txCur)
    <3>1. CASE k \in 1 .. n
      BY <1>1, <1>4, <1>5, <3>1 DEF ListIsAhead
    <3>2. CASE list'[k] = xslot
      BY <1>3, <3>2
    <3> QED
      BY <1>7, <3>1, <3>2
  <2> QED
    BY <1>2, <2>1, <2>2 DEF ListIsAhead
<1>10. WalkIsInFront'
  <2>1. WalkIsInFront
    BY <1>1
  <2>2. ASSUME txPc \in {"write", "unlink"}, Contains(list', txCur)
        PROVE  list'[1] = txCur /\ (Contains(list', nxt) => list'[2] = nxt)
    <3>1. Contains(list, txCur) /\ list[1] = txCur /\ 1 \in 1 .. n
      BY <1>3, <1>4, <1>5, <2>1, <2>2 DEF WalkIsInFront
    <3>2. ASSUME Contains(list', nxt) PROVE list'[2] = nxt
      <4>1. Contains(list, nxt) /\ list[2] = nxt
        BY <1>3, <1>5, <2>1, <2>2, <3>1, <3>2 DEF WalkIsInFront
      <4>2. nxt # txCur
        BY <1>4, <2>1, <2>2, <4>1 DEF WalkIsInFront
      <4>3. PICK k \in DOMAIN list : list[k] = nxt
        BY <1>4, <4>1
      <4>4. k # 1 /\ 2 \in 1 .. n
        BY <1>4, <3>1, <4>2, <4>3
      <4> QED
        BY <1>5, <4>1, <4>4
    <3> QED
      BY <1>5, <3>1, <3>2
  <2>3. ASSUME txPc = "clear"
        PROVE  ~ Contains(list', txCur) /\ (Contains(list', nxt) => list'[1] = nxt)
    <3>1. ~ Contains(list, txCur) /\ (Contains(list, nxt) => list[1] = nxt)
      BY <2>1, <2>3 DEF WalkIsInFront
    <3>2. Contains(list, nxt) => 1 \in 1 .. n
      BY <1>4
    <3> QED
      BY <1>3, <1>5, <2>3, <3>1, <3>2
  <2>4. ASSUME txPc = "write", NEW k \in DOMAIN list'
        PROVE  pool[txCur] < pool[list'[k]] \/ list'[k] = txCur
    <3>1. CASE k \in 1 .. n
      BY <1>4, <1>5, <2>1, <2>4, <3>1 DEF WalkIsInFront
    <3>2. CASE list'[k] = xslot
      <4>1. txCur \in Slots \ {xslot}
        BY <1>3, <2>1, <2>4 DEF WalkIsInFront
      <4> QED
        BY <1>3, <3>2, <4>1
    <3> QED
      BY <1>7, <3>1, <3>2
  <2> QED
    BY <1>2, <2>1, <2>2, <2>3, <2>4 DEF WalkIsInFront
<1>11. TakenAreBehind'
  <2> SUFFICES ASSUME stops = 0, NEW c \in {0, 1}, c = Clearing PROVE TakenAreBehind'
    BY <1>2 DEF TakenAreBehind, Clearing
  <2>1. Linking = 1 /\ Linking' = 0 /\ Clearing' = c /\ \A d : Behind(d)' = Behind(d)
    BY <1>2 DEF Linking, Clearing, Behind
  <2>2. /\ n + 1 + c <= PoolLen
        /\ \A k \in 1 .. n : list[k] = Behind(n + 1 + 1 - k)
        /\ xslot = Behind(1)
        /\ txPc = "clear" => txCur = Behind(n + 1 + 1)
        /\ \A s \in Slots : pool[s] # Free => \E d \in 1 .. n + 1 + c : s = Behind(d)
        /\ txPc \in {"write", "unlink"} => Contains(list, txCur)
    BY <1>1, <1>2, <1>4, <2>1 DEF TakenAreBehind
  <2>3. \A k \in DOMAIN list' : list'[k] = Behind((n + 1) + 0 + 1 - k)
    <3>1. (n + 1) + 0 + 1 - (n + 1) = 1
      OBVIOUS
    <3> QED
      BY <1>5, <1>7, <2>2, <3>1
  <2>4. n + 1 + c = (n + 1) + 0 + c /\ n + 1 + 1 = (n + 1) + 0 + 1
    OBVIOUS
  <2>5. txPc \in {"write", "unlink"} => Contains(list', txCur)
    BY <1>5, <2>2
  <2> QED
    BY <1>2, <1>5, <2>1, <2>2, <2>3, <2>4, <2>5 DEF TakenAreBehind
<1> QED
  BY <1>6, <1>8, <1>9, <1>10, <1>11 DEF TxIInv

\* An entry the walk takes from the front of the list, and the one it notes with it.
LEMMA WalkBegins ==
    ASSUME TxTypeOK, ListedSlotsAreTaken, list # <<>>
    PROVE  /\ list[1] \in Slots /\ pool[list[1]] # Free /\ Contains(list, list[1])
           /\ NextOf(list[1]) # End =>
                /\ NextOf(list[1]) = list[2] /\ Contains(list, list[2])
                /\ list[2] \in Slots /\ pool[list[2]] # Free /\ list[2] # list[1]
<1>1. /\ list \in Seq(Slots) /\ Len(list) \in Nat /\ DOMAIN list = 1 .. Len(list)
      /\ \A k \in DOMAIN list : list[k] \in Slots
      /\ 1 \in DOMAIN list
      /\ \A s : Contains(list, s) <=> \E k \in DOMAIN list : list[k] = s
  BY ListFacts
<1>2. NextOf(list[1]) = IF 1 = Len(list) THEN End ELSE list[1 + 1]
  BY <1>1, NextIs DEF ListedSlotsAreTaken
<1>3. NextOf(list[1]) # End => 2 \in DOMAIN list /\ NextOf(list[1]) = list[2]
  BY <1>1, <1>2
<1> QED
  BY <1>1, <1>3 DEF ListedSlotsAreTaken, IsInjective

LEMMA WorkStartKeepsTx == TxIInv /\ WorkStart => TxIInv'
<1> SUFFICES ASSUME TxIInv, WorkStart PROVE TxIInv'
  OBVIOUS
<1>1. /\ TxTypeOK /\ TxHistoryOK /\ InOrderOnce /\ ListedSlotsAreTaken
      /\ NewestIsAside /\ ListIsAhead /\ WalkIsInFront /\ TakenAreBehind
  BY DEF TxIInv, WorkStart
<1>2. /\ packets' = packets /\ accepted' = accepted /\ pool' = pool /\ idx' = idx
      /\ list' = list /\ xpc' = xpc /\ xslot' = xslot /\ tried' = tried /\ up' = up
      /\ stops' = stops /\ scur' = scur /\ snxt' = snxt /\ broken' = broken
      /\ txPc = "idle" /\ txCur' = FirstOf /\ nxt' = NextOf(FirstOf)
      /\ txPc' = IF FirstOf = End THEN "idle" ELSE "write"
  BY DEF WorkStart
<1>3. /\ list \in Seq(Slots) /\ Len(list) \in Nat /\ DOMAIN list = 1 .. Len(list)
      /\ \A k \in DOMAIN list : list[k] \in Slots
      /\ list # <<>> => 1 \in DOMAIN list /\ Head(list) = list[1]
      /\ \A s : Contains(list, s) <=> \E k \in DOMAIN list : list[k] = s
      /\ ~ Contains(list, End)
  BY <1>1, ListFacts
<1>4. End \notin Slots
  BY TxAssumption DEF End, Slots
<1>5. CASE list = <<>>
  <2>1. txPc' = "idle" /\ txCur' = End
    BY <1>2, <1>5 DEF FirstOf
  <2>2. nxt' = End
    BY <1>2, <1>3, <2>1, Zenon DEF NextOf
  <2>3. TxTypeOK'
    BY <1>1, <1>2, <2>1, <2>2 DEF TxTypeOK
  <2>4. TxHistoryOK' /\ InOrderOnce' /\ ListedSlotsAreTaken'
    BY <1>1, <1>2 DEF TxHistoryOK, InOrderOnce, ListedSlotsAreTaken
  <2>5. NewestIsAside' /\ ListIsAhead' /\ WalkIsInFront'
    BY <1>1, <1>2, <2>1 DEF NewestIsAside, ListIsAhead, WalkIsInFront
  <2>6. TakenAreBehind'
    BY <1>1, <1>2, <2>1 DEF TakenAreBehind, Behind, Linking, Clearing
  <2> QED
    BY <2>3, <2>4, <2>5, <2>6 DEF TxIInv
<1>6. CASE list # <<>>
  <2>1. /\ list[1] \in Slots /\ pool[list[1]] # Free /\ Contains(list, list[1])
        /\ NextOf(list[1]) # End =>
             /\ NextOf(list[1]) = list[2] /\ Contains(list, list[2])
             /\ list[2] \in Slots /\ pool[list[2]] # Free /\ list[2] # list[1]
    BY <1>1, <1>6, WalkBegins
  <2>2. txCur' = list[1] /\ nxt' = NextOf(list[1]) /\ txPc' = "write"
    BY <1>2, <1>3, <1>4, <1>6, <2>1 DEF FirstOf
  <2>3. TxTypeOK'
    BY <1>1, <1>2, <2>1, <2>2 DEF TxTypeOK
  <2>4. TxHistoryOK' /\ InOrderOnce' /\ ListedSlotsAreTaken'
    BY <1>1, <1>2 DEF TxHistoryOK, InOrderOnce, ListedSlotsAreTaken
  <2>5. NewestIsAside'
    <3>1. xpc = "link" => xslot # list[1] /\ xslot # NextOf(list[1])
      BY <1>1, <1>4, <2>1 DEF NewestIsAside
    <3> QED
      BY <1>1, <1>2, <2>2, <3>1 DEF NewestIsAside
  <2>6. ListIsAhead'
    BY <1>1, <1>2, <2>2 DEF ListIsAhead
  <2>7. WalkIsInFront'
    <3>1. \A i \in DOMAIN tried : tried[i] < pool[list[1]]
      BY <1>1, <1>2, <1>3, <1>6 DEF ListIsAhead
    <3>2. \A k \in DOMAIN list : pool[list[1]] < pool[list[k]] \/ list[k] = list[1]
      BY <1>1, <1>3, <1>6 DEF ListIsAhead
    <3>3. Contains(list, NextOf(list[1])) => list[2] = NextOf(list[1])
      BY <1>3, <2>1
    <3> QED
      BY <1>2, <2>1, <2>2, <3>1, <3>2, <3>3 DEF WalkIsInFront
  <2>8. TakenAreBehind'
    BY <1>1, <1>2, <2>1, <2>2 DEF TakenAreBehind, Behind, Linking, Clearing
  <2> QED
    BY <2>3, <2>4, <2>5, <2>6, <2>7, <2>8 DEF TxIInv
<1> QED
  BY <1>5, <1>6

LEMMA WorkWriteKeepsTx == TxIInv /\ WorkWrite => TxIInv'
<1> SUFFICES ASSUME TxIInv, WorkWrite PROVE TxIInv'
  OBVIOUS
<1>1. /\ TxTypeOK /\ TxHistoryOK /\ InOrderOnce /\ ListedSlotsAreTaken
      /\ NewestIsAside /\ ListIsAhead /\ WalkIsInFront /\ TakenAreBehind
  BY DEF TxIInv, WorkWrite
<1>2. /\ packets' = packets /\ accepted' = accepted /\ pool' = pool /\ idx' = idx
      /\ list' = list /\ xpc' = xpc /\ xslot' = xslot /\ txCur' = txCur /\ nxt' = nxt /\ up' = up
      /\ stops' = stops /\ scur' = scur /\ snxt' = snxt /\ broken' = broken
      /\ txPc = "write" /\ tried' = Append(tried, pool[txCur]) /\ txPc' = "unlink"
  BY DEF WorkWrite
<1>3. /\ txCur \in Slots /\ pool[txCur] # Free
      /\ \A i \in DOMAIN tried : tried[i] < pool[txCur]
      /\ \A k \in DOMAIN list : pool[txCur] < pool[list[k]] \/ list[k] = txCur
  BY <1>1, <1>2 DEF WalkIsInFront
<1>4. tried \in Seq(1 .. MaxPackets) /\ pool[txCur] \in 1 .. MaxPackets
  BY <1>1, <1>3, TxAssumption DEF TxHistoryOK, TxTypeOK, Free
<1> SUFFICES ASSUME NEW m \in Nat, m = Len(tried), NEW p \in 1 .. MaxPackets, p = pool[txCur]
             PROVE  TxIInv'
  BY <1>4, LenProperties
<1>5. /\ tried' \in Seq(1 .. MaxPackets)
      /\ DOMAIN tried' = 1 .. m + 1 /\ DOMAIN tried = 1 .. m
      /\ \A k \in 1 .. m : tried'[k] = tried[k]
      /\ tried'[m + 1] = p
  <2> DEFINE S == 1 .. MaxPackets
  <2>1. tried \in Seq(S) /\ p \in S
    BY <1>4
  <2> HIDE DEF S
  <2>2. /\ Append(tried, p) \in Seq(S)
        /\ DOMAIN Append(tried, p) = 1 .. Len(tried) + 1 /\ DOMAIN tried = 1 .. Len(tried)
        /\ \A k \in 1 .. Len(tried) : Append(tried, p)[k] = tried[k]
        /\ Append(tried, p)[Len(tried) + 1] = p
    BY <2>1, AppendHas
  <2> QED
    BY <1>2, <2>2 DEF S
<1>6. \A i \in DOMAIN tried' : i \in 1 .. m \/ (i = m + 1 /\ tried'[i] = p)
  BY <1>5
<1>7. TxTypeOK' /\ ListedSlotsAreTaken'
  BY <1>1, <1>2 DEF TxTypeOK, ListedSlotsAreTaken
<1>8. TxHistoryOK'
  <2>1. p <= packets /\ \A i \in 1 .. m : tried[i] <= packets
    BY <1>1, <1>3, <1>5 DEF NewestIsAside, TxHistoryOK
  <2>2. \A i \in DOMAIN tried' : tried'[i] <= packets
    BY <1>5, <1>6, <2>1
  <2> QED
    BY <1>1, <1>2, <1>5, <2>2, Zenon DEF TxHistoryOK
<1>9. InOrderOnce'
  <2>1. Contains(accepted, p) /\ \A i \in 1 .. m : Contains(accepted, tried[i])
    BY <1>1, <1>3, <1>5 DEF NewestIsAside, InOrderOnce
  <2>2. \A i \in DOMAIN tried' : Contains(accepted, tried'[i])
    BY <1>5, <1>6, <2>1
  <2>3. ASSUME NEW i \in DOMAIN tried', i > 1 PROVE tried'[i - 1] < tried'[i]
    <3>1. i - 1 \in 1 .. m
      BY <1>5, <2>3
    <3>2. CASE i \in 1 .. m
      BY <1>1, <1>5, <2>3, <3>1, <3>2 DEF InOrderOnce
    <3>3. CASE tried'[i] = p
      BY <1>3, <1>5, <3>1, <3>3
    <3> QED
      BY <1>6, <3>2, <3>3
  <2> QED
    BY <1>2, <2>2, <2>3 DEF InOrderOnce
<1>10. NewestIsAside'
  <2>1. ASSUME xpc = "link", NEW i \in DOMAIN tried' PROVE tried'[i] < packets
    <3>1. p < packets /\ \A j \in 1 .. m : tried[j] < packets
      BY <1>1, <1>2, <1>3, <1>5, <2>1 DEF NewestIsAside
    <3> QED
      BY <1>5, <1>6, <3>1
  <2> QED
    BY <1>1, <1>2, <2>1 DEF NewestIsAside
<1>11. ListIsAhead'
  <2>1. ASSUME NEW k \in DOMAIN list, NEW i \in DOMAIN tried'
        PROVE  tried'[i] < pool[list[k]] \/ list[k] = txCur
    <3>1. CASE i \in 1 .. m
      BY <1>1, <1>2, <1>5, <3>1 DEF ListIsAhead
    <3>2. CASE tried'[i] = p
      BY <1>3, <3>2
    <3> QED
      BY <1>6, <3>1, <3>2
  <2> QED
    BY <1>1, <1>2, <2>1 DEF ListIsAhead
<1>12. WalkIsInFront'
  BY <1>1, <1>2 DEF WalkIsInFront
<1>13. TakenAreBehind'
  BY <1>1, <1>2 DEF TakenAreBehind, Behind, Linking, Clearing
<1> QED
  BY <1>7, <1>8, <1>9, <1>10, <1>11, <1>12, <1>13 DEF TxIInv

LEMMA WorkUnlinkKeepsTx == TxIInv /\ WorkUnlink => TxIInv'
<1> SUFFICES ASSUME TxIInv, WorkUnlink PROVE TxIInv'
  OBVIOUS
<1>1. /\ TxTypeOK /\ TxHistoryOK /\ InOrderOnce /\ ListedSlotsAreTaken
      /\ NewestIsAside /\ ListIsAhead /\ WalkIsInFront /\ TakenAreBehind
  BY DEF TxIInv, WorkUnlink
<1>2. /\ packets' = packets /\ accepted' = accepted /\ pool' = pool /\ idx' = idx
      /\ xpc' = xpc /\ xslot' = xslot /\ txCur' = txCur /\ nxt' = nxt /\ up' = up
      /\ stops' = stops /\ scur' = scur /\ snxt' = snxt /\ tried' = tried
      /\ txPc = "unlink" /\ txPc' = "clear" /\ Unlink(txCur) /\ broken' = ~ OnList(txCur)
  BY DEF WorkUnlink
<1>3. /\ list \in Seq(Slots) /\ Len(list) \in Nat /\ DOMAIN list = 1 .. Len(list)
      /\ \A s : Contains(list, s) <=> \E k \in DOMAIN list : list[k] = s
  BY <1>1, ListFacts
<1>4. /\ list' \in Seq(Slots) /\ IsInjective(list') /\ ~ Contains(list', txCur)
      /\ \A t : Contains(list', t) => Contains(list, t)
      /\ \A i \in DOMAIN list' : \E u \in DOMAIN list : list'[i] = list[u]
  BY <1>1, <1>2, <1>3, UnlinkKeeps DEF ListedSlotsAreTaken
<1>5. TxTypeOK' /\ TxHistoryOK' /\ InOrderOnce' /\ ListedSlotsAreTaken'
  <2>1. TxTypeOK'
    BY <1>1, <1>2, <1>4 DEF TxTypeOK
  <2>2. broken' \in BOOLEAN
    BY <1>2
  <2>3. TxHistoryOK' /\ InOrderOnce'
    BY <1>1, <1>2, <2>2 DEF TxHistoryOK, InOrderOnce
  <2>4. ListedSlotsAreTaken'
    BY <1>1, <1>2, <1>4 DEF ListedSlotsAreTaken
  <2> QED
    BY <2>1, <2>3, <2>4
<1> SUFFICES ASSUME ~ broken'
             PROVE  NewestIsAside' /\ ListIsAhead' /\ WalkIsInFront' /\ TakenAreBehind'
  BY <1>5 DEF TxIInv
<1>6. txCur \in Slots /\ Contains(list, txCur) /\ list[1] = txCur
  <2>1. txCur \in Slots /\ txCur # End
    BY <1>1, <1>2, TxAssumption DEF WalkIsInFront, End, Slots
  <2> QED
    BY <1>1, <1>2, <2>1 DEF WalkIsInFront, OnList
<1> SUFFICES ASSUME NEW n \in Nat, n = Len(list)
             PROVE  NewestIsAside' /\ ListIsAhead' /\ WalkIsInFront' /\ TakenAreBehind'
  BY <1>3
<1>7. /\ n >= 1 /\ Len(list') = n - 1 /\ DOMAIN list' = 1 .. n - 1
      /\ \A k \in 1 .. n - 1 : list'[k] = list[k + 1] /\ k + 1 \in DOMAIN list
  <2>1. PICK p \in 1 .. Len(list) :
            /\ list[p] = txCur
            /\ list' \in Seq(Slots) /\ Len(list') = Len(list) - 1
            /\ \A k \in 1 .. Len(list) - 1 :
                list'[k] = IF k < p THEN list[k] ELSE list[k + 1]
    BY <1>1, <1>2, <1>3, <1>6, UnlinkListed DEF ListedSlotsAreTaken
  <2>2. 1 \in DOMAIN list /\ p = 1
    BY <1>1, <1>3, <1>6, <2>1 DEF ListedSlotsAreTaken, IsInjective
  <2>3. DOMAIN list' = 1 .. n - 1
    BY <2>1, LenProperties
  <2>4. \A k \in 1 .. n - 1 : ~ k < 1 /\ k \in 1 .. Len(list) - 1 /\ k + 1 \in DOMAIN list
    BY <1>3
  <2>5. \A k \in 1 .. n - 1 : list'[k] = list[k + 1]
    BY <2>1, <2>2, <2>4
  <2>6. n >= 1
    BY <1>3, <2>2
  <2> QED
    BY <2>1, <2>3, <2>4, <2>5, <2>6
<1>8. NewestIsAside'
  BY <1>1, <1>2, <1>4 DEF NewestIsAside
<1>9. ListIsAhead'
  <2>1. \A k \in DOMAIN list' : list'[k] # txCur
    BY <1>4, <1>7 DEF Contains
  <2>2. \A i, j \in DOMAIN list' : i < j => pool[list'[i]] < pool[list'[j]]
    <3> TAKE i, j \in DOMAIN list'
    <3> HAVE i < j
    <3>0. i \in 1 .. n - 1 /\ j \in 1 .. n - 1
      BY <1>7
    <3>1. /\ list'[i] = list[i + 1] /\ list'[j] = list[j + 1]
          /\ i + 1 \in DOMAIN list /\ j + 1 \in DOMAIN list
      BY <1>7, <3>0
    <3>2. i + 1 < j + 1
      BY <3>0
    <3> QED
      BY <1>1, <3>1, <3>2 DEF ListIsAhead
  <2>3. \A k \in DOMAIN list', i \in DOMAIN tried : tried[i] < pool[list'[k]]
    BY <1>1, <1>4, <2>1 DEF ListIsAhead
  <2> QED
    BY <1>2, <2>2, <2>3 DEF ListIsAhead
<1>10. WalkIsInFront'
  <2>1. Contains(list', nxt) => list'[1] = nxt
    <3> SUFFICES ASSUME Contains(list', nxt) PROVE list'[1] = nxt
      OBVIOUS
    <3>1. list[2] = nxt
      BY <1>1, <1>2, <1>4, <1>6 DEF WalkIsInFront
    <3>2. 1 \in 1 .. n - 1
      BY <1>7 DEF Contains
    <3> QED
      BY <1>7, <3>1, <3>2
  <2> QED
    BY <1>1, <1>2, <1>4, <2>1 DEF WalkIsInFront
<1>11. TakenAreBehind'
  <2> SUFFICES ASSUME stops = 0, NEW e \in {0, 1}, e = Linking PROVE TakenAreBehind'
    BY <1>2 DEF TakenAreBehind, Linking
  <2>1. Linking' = e /\ Clearing = 0 /\ Clearing' = 1 /\ \A d : Behind(d)' = Behind(d)
    BY <1>2 DEF Linking, Clearing, Behind
  <2>2. /\ n + e + 0 <= PoolLen
        /\ \A k \in 1 .. n : list[k] = Behind(n + e + 1 - k)
        /\ xpc = "link" => xslot = Behind(1)
        /\ \A s \in Slots : pool[s] # Free => \E d \in 1 .. n + e + 0 : s = Behind(d)
    BY <1>1, <1>3, <2>1 DEF TakenAreBehind
  <2>3. n + e + 0 = (n - 1) + e + 1 /\ n + e + 1 - 1 = (n - 1) + e + 1 /\ 1 \in 1 .. n
    BY <1>7
  <2>4. txCur = Behind((n - 1) + e + 1)
    BY <1>6, <2>2, <2>3
  <2>5. \A k \in DOMAIN list' : list'[k] = Behind((n - 1) + e + 1 - k)
    <3> TAKE k \in DOMAIN list'
    <3>0. k \in 1 .. n - 1
      BY <1>7
    <3>1. k + 1 \in 1 .. n /\ n + e + 1 - (k + 1) = (n - 1) + e + 1 - k
      BY <3>0
    <3>2. list'[k] = list[k + 1]
      BY <1>7, <3>0
    <3> QED
      BY <2>2, <3>1, <3>2
  <2>6. Len(list') = n - 1 /\ Linking' = e /\ Clearing' = 1
    BY <1>7, <2>1
  <2>7. (Len(list) + Linking + Clearing <= PoolLen)'
    BY <2>2, <2>3, <2>6
  <2>8. (\A k \in DOMAIN list : list[k] = Behind(Len(list) + Linking + 1 - k))'
    <3> SUFFICES ASSUME NEW k \in DOMAIN list'
                 PROVE  list'[k] = Behind(Len(list) + Linking + 1 - k)'
      OBVIOUS
    <3>1. list'[k] = Behind((n - 1) + e + 1 - k)
      BY <2>5
    <3> QED
      BY <1>2, <2>6, <3>1 DEF Behind
  <2>9. (txPc = "clear" => txCur = Behind(Len(list) + Linking + 1))'
    <3>1. txCur' = Behind((n - 1) + e + 1)
      BY <1>2, <2>4
    <3> QED
      BY <1>2, <2>6, <3>1 DEF Behind
  <2>10. (xpc = "link" => xslot = Behind(1))'
    BY <1>2, <2>2 DEF Behind
  <2>11. (\A s \in Slots : pool[s] # Free =>
            \E d \in 1 .. Len(list) + Linking + Clearing : s = Behind(d))'
    <3> SUFFICES ASSUME NEW s \in Slots, pool'[s] # Free
                 PROVE  \E d \in 1 .. Len(list') + Linking' + Clearing' : s = Behind(d)'
      OBVIOUS
    <3>1. PICK d \in 1 .. n + e + 0 : s = Behind(d)
      BY <1>2, <2>2
    <3>2. d \in 1 .. Len(list') + Linking' + Clearing'
      BY <2>3, <2>6, <3>1
    <3>3. s = Behind(d)'
      BY <2>1, <3>1
    <3> QED
      BY <3>2, <3>3
  <2>12. (txPc \in {"write", "unlink"} => Contains(list, txCur))'
    BY <1>2
  <2> QED
    BY <2>7, <2>8, <2>9, <2>10, <2>11, <2>12 DEF TakenAreBehind
<1> QED
  BY <1>8, <1>9, <1>10, <1>11

LEMMA WorkClearKeepsTx == TxIInv /\ WorkClear => TxIInv'
<1> SUFFICES ASSUME TxIInv, WorkClear PROVE TxIInv'
  OBVIOUS
<1>1. /\ TxTypeOK /\ TxHistoryOK /\ InOrderOnce /\ ListedSlotsAreTaken
      /\ NewestIsAside /\ ListIsAhead /\ WalkIsInFront /\ TakenAreBehind
  BY DEF TxIInv, WorkClear
<1>2. /\ packets' = packets /\ accepted' = accepted /\ idx' = idx /\ list' = list
      /\ xpc' = xpc /\ xslot' = xslot /\ up' = up
      /\ stops' = stops /\ scur' = scur /\ snxt' = snxt /\ tried' = tried
      /\ pool' = [pool EXCEPT ![txCur] = Free]
      /\ txPc = "clear" /\ txCur' = nxt /\ nxt' = NextOf(nxt) /\ broken' = ~ OnList(nxt)
      /\ txPc' = IF nxt = End THEN "idle" ELSE "write"
  BY DEF WorkClear, SlotCleared
<1>3. /\ list \in Seq(Slots) /\ Len(list) \in Nat /\ DOMAIN list = 1 .. Len(list)
      /\ \A k \in DOMAIN list : list[k] \in Slots
      /\ \A s : Contains(list, s) <=> \E k \in DOMAIN list : list[k] = s
      /\ ~ Contains(list, End)
  BY <1>1, ListFacts
<1>4. /\ txCur \in Slots /\ pool[txCur] # Free /\ ~ Contains(list, txCur)
      /\ Contains(list, nxt) => list[1] = nxt
  BY <1>1, <1>2 DEF WalkIsInFront
<1>5. /\ pool' \in [Slots -> 0 .. MaxPackets] /\ pool'[txCur] = Free
      /\ \A s \in Slots \ {txCur} : pool'[s] = pool[s]
  BY <1>1, <1>2, <1>4, TxAssumption DEF TxTypeOK, Free
<1>6. \A k \in DOMAIN list : list[k] # txCur /\ pool'[list[k]] = pool[list[k]]
  BY <1>3, <1>4, <1>5
<1>7. TxTypeOK' /\ TxHistoryOK' /\ InOrderOnce' /\ ListedSlotsAreTaken'
  <2>1. nxt \in Slots \cup {End} /\ NextOf(nxt) \in Slots \cup {End}
    BY <1>1, NextTyped DEF TxTypeOK, ListedSlotsAreTaken
  <2>2. TxTypeOK'
    BY <1>1, <1>2, <1>5, <2>1 DEF TxTypeOK
  <2>3. broken' \in BOOLEAN
    BY <1>2
  <2>4. TxHistoryOK' /\ InOrderOnce'
    BY <1>1, <1>2, <2>3 DEF TxHistoryOK, InOrderOnce
  <2>5. ListedSlotsAreTaken'
    BY <1>1, <1>2, <1>6 DEF ListedSlotsAreTaken
  <2> QED
    BY <2>2, <2>4, <2>5
<1> SUFFICES ASSUME ~ broken'
             PROVE  NewestIsAside' /\ ListIsAhead' /\ WalkIsInFront' /\ TakenAreBehind'
  BY <1>7 DEF TxIInv
<1>8. nxt = End \/ Contains(list, nxt)
  BY <1>2 DEF OnList
<1>9. End \notin Slots
  BY TxAssumption DEF End, Slots
<1>10. /\ nxt # End => /\ list # <<>> /\ list[1] = nxt /\ txPc' = "write"
                       /\ list[1] \in Slots /\ pool[list[1]] # Free
                       /\ NextOf(list[1]) # End =>
                            /\ NextOf(list[1]) = list[2] /\ Contains(list, list[2])
                            /\ list[2] \in Slots /\ pool[list[2]] # Free /\ list[2] # list[1]
       /\ nxt = End => txPc' = "idle" /\ NextOf(nxt) = End
  <2>1. CASE nxt = End
    <3>1. NextOf(nxt) = End
      BY <1>3, <2>1, Zenon DEF NextOf
    <3> QED
      BY <1>2, <2>1, <3>1
  <2>2. CASE nxt # End
    <3>1. Contains(list, nxt) /\ list[1] = nxt
      BY <1>4, <1>8, <2>2
    <3>2. list # <<>>
      BY <1>3, <3>1, EmptySeq
    <3> QED
      BY <1>1, <1>2, <2>2, <3>1, <3>2, WalkBegins
  <2> QED
    BY <2>1, <2>2
<1>11. NewestIsAside'
  <2>1. \A s \in Slots : pool'[s] # Free => s # txCur /\ pool'[s] = pool[s]
    BY <1>5
  <2>2. ASSUME xpc = "link"
        PROVE  /\ xslot # txCur /\ pool'[xslot] = packets
               /\ \A s \in Slots \ {xslot} : pool'[s] < packets
    BY <1>1, <1>2, <1>5, <2>2 DEF NewestIsAside, Free
  <2>3. xpc = "link" /\ nxt # End => xslot # nxt /\ xslot # NextOf(nxt)
    BY <1>1, <1>2, <1>8, <1>9, <1>10 DEF NewestIsAside
  <2> QED
    BY <1>1, <1>2, <1>10, <2>1, <2>2, <2>3 DEF NewestIsAside
<1>12. ListIsAhead'
  BY <1>1, <1>2, <1>6 DEF ListIsAhead
<1>13. WalkIsInFront'
  <2>1. CASE nxt = End
    BY <1>2, <1>10, <2>1 DEF WalkIsInFront
  <2>2. CASE nxt # End
    <3>1. 1 \in DOMAIN list
      BY <1>3, <1>8, <2>2
    <3>2. pool'[list[1]] = pool[list[1]]
      BY <1>6, <3>1
    <3>3. \A i \in DOMAIN tried : tried[i] < pool[list[1]]
      BY <1>1, <1>2, <3>1 DEF ListIsAhead
    <3>4. \A k \in DOMAIN list : pool'[list[1]] < pool'[list[k]] \/ list[k] = list[1]
      <4>1. \A k \in DOMAIN list : k = 1 \/ 1 < k
        BY <1>3
      <4> QED
        BY <1>1, <1>6, <3>1, <4>1 DEF ListIsAhead
    <3>5. NextOf(nxt) # End => pool'[NextOf(nxt)] # Free
      BY <1>3, <1>6, <1>10, <2>2
    <3>6. Contains(list, NextOf(nxt)) => list[2] = NextOf(nxt)
      BY <1>3, <1>10, <2>2
    <3> QED
      BY <1>2, <1>10, <2>2, <3>2, <3>3, <3>4, <3>5, <3>6 DEF WalkIsInFront
  <2> QED
    BY <2>1, <2>2
<1>14. TakenAreBehind'
  <2> SUFFICES ASSUME stops = 0, NEW e \in {0, 1}, e = Linking, NEW n \in Nat, n = Len(list)
               PROVE  TakenAreBehind'
    BY <1>2, <1>3 DEF TakenAreBehind, Linking
  <2>1. Linking' = e /\ Clearing = 1 /\ Clearing' = 0 /\ \A d : Behind(d)' = Behind(d)
    BY <1>2 DEF Linking, Clearing, Behind
  <2>2. /\ n + e + 1 <= PoolLen
        /\ \A k \in DOMAIN list : list[k] = Behind(n + e + 1 - k)
        /\ xpc = "link" => xslot = Behind(1)
        /\ txCur = Behind(n + e + 1)
        /\ \A s \in Slots : pool[s] # Free => \E d \in 1 .. n + e + 1 : s = Behind(d)
    BY <1>1, <1>2, <2>1 DEF TakenAreBehind
  <2>3. \A s \in Slots : pool'[s] # Free => \E d \in 1 .. n + e + 0 : s = Behind(d)
    <3> SUFFICES ASSUME NEW s \in Slots, pool'[s] # Free
                 PROVE  \E d \in 1 .. n + e + 0 : s = Behind(d)
      OBVIOUS
    <3>1. s # txCur /\ pool[s] # Free
      BY <1>5
    <3>2. PICK d \in 1 .. n + e + 1 : s = Behind(d)
      BY <2>2, <3>1
    <3>3. d # n + e + 1
      BY <2>2, <3>1, <3>2
    <3> QED
      BY <3>2, <3>3
  <2>4. n + e + 0 <= PoolLen
    BY <2>2, TxAssumption
  <2>5. txPc' \in {"write", "unlink"} => Contains(list, nxt)
    BY <1>8, <1>10
  <2>6. txPc' # "clear"
    BY <1>2
  <2> QED
    BY <1>2, <2>1, <2>2, <2>3, <2>4, <2>5, <2>6 DEF TakenAreBehind
<1> QED
  BY <1>11, <1>12, <1>13, <1>14

LEMMA StutterKeepsTx == TxIInv /\ UNCHANGED txVars => TxIInv'
<1> SUFFICES ASSUME TxIInv, UNCHANGED txVars PROVE TxIInv'
  OBVIOUS
<1>1. TxTypeOK' = TxTypeOK /\ TxHistoryOK' = TxHistoryOK /\ InOrderOnce' = InOrderOnce
      /\ ListedSlotsAreTaken' = ListedSlotsAreTaken
  BY Zenon DEF txVars, TxTypeOK, TxHistoryOK, InOrderOnce, ListedSlotsAreTaken
<1>2. NewestIsAside' = NewestIsAside /\ ListIsAhead' = ListIsAhead
      /\ WalkIsInFront' = WalkIsInFront
  BY Zenon DEF txVars, NewestIsAside, ListIsAhead, WalkIsInFront
<1>3. TakenAreBehind' = TakenAreBehind /\ broken' = broken
  BY Zenon DEF txVars, TakenAreBehind, Behind, Linking, Clearing
<1> QED
  BY <1>1, <1>2, <1>3, Zenon DEF TxIInv

LEMMA NextKeepsTx == TxIInv /\ [TxNext]_txVars => TxIInv'
BY DropKeepsTx, PlaceKeepsTx, LinkKeepsTx, KickKeepsTx, WorkStartKeepsTx, WorkWriteKeepsTx,
   WorkUnlinkKeepsTx, WorkClearKeepsTx, StopKeepsTx, StopEntryKeepsTx, StutterKeepsTx, Zenon
   DEF TxNext, TxWork

\* data_tx says that the pool is full only when each of its slots holds a packet on its way.
LEMMA FullIsFull ==
    TxIInv /\ [TxNext]_txVars =>
        [full' /\ ~ full /\ stops = 0 =>
            \A s \in Slots : Contains(list, s) \/ (txPc # "idle" /\ s = txCur)]_txVars
<1> SUFFICES ASSUME TxIInv, TxNext, full', ~ full, stops = 0, NEW s \in Slots
             PROVE  Contains(list, s) \/ (txPc # "idle" /\ s = txCur)
  OBVIOUS
<1>1. DataTxDrop /\ pool[idx] # Free
  <2>1. full' # full
    OBVIOUS
  <2> QED
    BY <2>1 DEF TxNext, TxWork, DataTxDrop, DataTxPlace, DataTxLink, DataTxKick, NotifyTx,
       WorkStart, WorkWrite, WorkUnlink, WorkClear, StopBegin, StopEntry, Open
<1>2. /\ TxTypeOK /\ TakenAreBehind /\ xpc = "idle"
  BY <1>1 DEF TxIInv, DataTxDrop
<1> SUFFICES ASSUME NEW n \in Nat, n = Len(list), NEW c \in {0, 1}, c = Clearing
             PROVE  Contains(list, s) \/ (txPc # "idle" /\ s = txCur)
  BY <1>2, ListFacts DEF Clearing
<1>3. /\ n + 0 + c <= PoolLen
      /\ \A k \in 1 .. n : list[k] = Behind(n + 0 + 1 - k)
      /\ txPc = "clear" => txCur = Behind(n + 0 + 1)
      /\ \A t \in Slots : pool[t] # Free => \E d \in 1 .. n + 0 + c : t = Behind(d)
  <2>1. Linking = 0 /\ DOMAIN list = 1 .. n
    BY <1>2, ListFacts DEF Linking
  <2> QED
    BY <1>2, <2>1 DEF TakenAreBehind
<1>4. idx \in Slots
  BY <1>2 DEF TxTypeOK
<1>5. n + c = PoolLen
  <2>1. PICK d \in 1 .. n + 0 + c : idx = Behind(d)
    BY <1>1, <1>3, <1>4
  <2>2. d \in 1 .. PoolLen
    BY <1>3, <2>1, TxAssumption
  <2>3. d = PoolLen
    BY <1>4, <2>1, <2>2, BehindFacts
  <2> QED
    BY <1>3, <2>1, <2>3, TxAssumption
<1>6. PICK d \in 1 .. PoolLen : s = Behind(d)
  BY <1>4, BehindFacts
<1>7. CASE d <= n
  <2>1. n + 1 - d \in 1 .. n /\ n + 0 + 1 - (n + 1 - d) = d
    BY <1>6, <1>7, TxAssumption
  <2>2. list[n + 1 - d] = Behind(d)
    BY <1>3, <2>1
  <2> QED
    BY <1>6, <2>1, <2>2 DEF Contains
<1>8. CASE ~ d <= n
  <2>1. c = 1 /\ d = n + 0 + 1
    BY <1>5, <1>6, <1>8, TxAssumption
  <2>2. txPc = "clear"
    BY <2>1 DEF Clearing
  <2> QED
    BY <1>3, <1>6, <2>1, <2>2
<1> QED
  BY <1>7, <1>8

\* The inductive invariant of transmission: what data_tx is about to link, what is on the
\* list and what the work holds follow one another in the order of the packets.
THEOREM TxInvariant == TxSpec => []TxIInv
<1>1. TxInit => TxIInv
  BY InitTx
<1>2. TxIInv /\ [TxNext]_txVars => TxIInv'
  BY NextKeepsTx
<1> QED
  BY <1>1, <1>2, PTL DEF TxSpec

\* mt7697_data_tx, mt7697_tx_work and mt7697_tx_stop walk and change the list without one
\* lock: packets still go out in order and once, what is listed is in the pool, and data_tx
\* says "tx pool full" only when the pool is full.
THEOREM TransmitIsSound == TxSpec => TransmitSound
<1>1. TxIInv => TxTypeOK /\ InOrderOnce /\ ListedSlotsAreTaken
  BY DEF TxIInv
<1>2. TxIInv /\ [TxNext]_txVars =>
        [full' /\ ~ full /\ stops = 0 =>
            \A s \in Slots : Contains(list, s) \/ (txPc # "idle" /\ s = txCur)]_txVars
  BY FullIsFull
<1> QED
  BY <1>1, <1>2, TxInvariant, PTL DEF TxSpec, TransmitSound, FullMeansFull
=============================================================================
