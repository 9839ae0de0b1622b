-------------------------------- MODULE Uart --------------------------------
(***************************************************************************)
(* The serial transport of the MT7697 (mt7697serial/uart.c): one open tty, *)
(* a receive work that runs from open to the end of the session, callers   *)
(* that write frames under a mutex, and a close that asks the chip to shut *)
(* down and waits for the receive work to see the answer.                  *)
(*                                                                         *)
(* A write reaches the tty in pieces, for kernel_write may take less than  *)
(* it was given.  The chip answers a shutdown request and may send a       *)
(* message at any time; the line neither loses nor reorders (the tty's     *)
(* input queue is InMax messages).  The tty may fail or hang up, and the   *)
(* caller of close may be interrupted by a signal.                         *)
(***************************************************************************)
EXTENDS Naturals, Sequences

CONSTANTS
    Callers,    \* who writes: the driver's transmit work, its requests, its receive handler
    FrameLen,   \* pieces in a frame
    InMax,      \* bound: messages the tty has received and nobody has read
    UartFaults  \* whether the tty may fail and signals may come

\* "none" and "torn" stand for the chip having no part of a frame, or one cut short.
ASSUME UartAssumption ==
    /\ FrameLen \in Nat \ {0} /\ InMax \in Nat \ {0} /\ UartFaults \in BOOLEAN
    /\ "none" \notin Callers /\ "torn" \notin Callers

VARIABLES
    fd,         \* uart_info->fd_hndl: "null" or "open"
    handle,     \* the Wi-Fi driver has a handle, from its open to the end of its close
    closeFlag,  \* uart_info->close
    mutex,      \* who holds uart_info->mutex
    rx,         \* the receive work: "idle", "poll", "read" or "handle"
    rxQueued,   \* the receive work has been scheduled again while it runs
    closer,     \* mt7697_uart_close: "idle", "shut", "wait", "lock" or "file"
    writer,     \* each writer: "idle", "lock", or the pieces it has left
    inq,        \* messages in the tty
    mid,        \* the frame that the chip has received a part of
    shutdowns,  \* requests for a shutdown that the chip has not answered
    uartUp,     \* the driver is bound; FALSE once it is removed, "oops" when the kernel fell
    torn,       \* history: a write failed in the middle of a frame
    mixed,      \* history: a piece of one frame reached the chip inside another
    gaveUp      \* history: a close ended before the receive work did

uartVars == <<fd, handle, closeFlag, mutex, rx, rxQueued, closer, writer, inq, mid, shutdowns, uartUp,
              torn, mixed, gaveUp>>

Writers == Callers \cup {"closer"}
Oops ==
    /\ uartUp' = "oops"
    /\ UNCHANGED <<fd, handle, closeFlag, mutex, rx, rxQueued, closer, writer, inq, mid,
                   shutdowns, torn, mixed, gaveUp>>

-----------------------------------------------------------------------------
(* mt7697_uart_write *)

UartWrite(w) ==
    /\ uartUp = "bound" /\ handle /\ writer[w] = "idle" /\ w # "closer"
    /\ writer' = [writer EXCEPT ![w] = "lock"]
    /\ UNCHANGED <<fd, handle, closeFlag, mutex, rx, rxQueued, closer, inq, mid, shutdowns, uartUp, torn,
                   mixed, gaveUp>>

\* The file is looked at only once the mutex is held.
WriteLock(w) ==
    /\ uartUp = "bound" /\ writer[w] = "lock" /\ mutex = "none"
    /\ writer' = [writer EXCEPT ![w] = IF fd = "null" THEN "done" ELSE "busy"]
    /\ mutex' = w
    /\ UNCHANGED <<fd, handle, closeFlag, rx, rxQueued, closer, inq, mid, shutdowns, uartUp, torn, mixed,
                   gaveUp>>

\* kernel_write takes some of what is left.  A frame that the chip has whole is acted on.
UartPieces(w) == IF mid.who = w THEN mid.left ELSE FrameLen
WritePiece(w) ==
    /\ uartUp = "bound" /\ writer[w] = "busy" /\ fd = "open"
    /\ \E n \in 1 .. UartPieces(w) :
        /\ mid' = IF n = UartPieces(w) THEN [who |-> "none", left |-> 0]
                  ELSE [who |-> w, left |-> UartPieces(w) - n]
        /\ writer' = [writer EXCEPT ![w] = IF n = UartPieces(w) THEN "done" ELSE "busy"]
        /\ shutdowns' = IF n = UartPieces(w) /\ w = "closer" THEN 1 ELSE shutdowns
    /\ mixed' = (mixed \/ mid.who \notin {"none", w})
    /\ UNCHANGED <<fd, handle, closeFlag, mutex, rx, rxQueued, closer, inq, uartUp, torn, gaveUp>>

\* kernel_write returns an error or 0: the caller is told 0, the chip keeps what it has.
WriteFails(w) ==
    /\ UartFaults /\ uartUp = "bound" /\ writer[w] = "busy" /\ fd = "open"
    /\ writer' = [writer EXCEPT ![w] = "failed"]
    /\ torn' = (torn \/ mid.who = w)
    /\ mid' = IF mid.who = w THEN [who |-> "torn", left |-> 0] ELSE mid
    /\ UNCHANGED <<fd, handle, closeFlag, mutex, rx, rxQueued, closer, inq, shutdowns, uartUp, mixed,
                   gaveUp>>

\* The mutex is given back.  The closer (mt7697_uart_snd_shutdown_req) goes on to wait only
\* when its request was written whole; otherwise it gives up, and close stays set.
WriteReturns(w) ==
    /\ uartUp = "bound" /\ writer[w] \in {"done", "failed"}
    /\ writer' = [writer EXCEPT ![w] = "idle"]
    /\ mutex' = "none"
    /\ closer' = IF w # "closer" THEN closer
                 ELSE IF writer[w] = "done" /\ fd # "null" THEN "wait" ELSE "idle"
    /\ handle' = (handle /\ (w = "closer" => closer' = "wait"))
    /\ gaveUp' = (gaveUp \/ (w = "closer" /\ closer' = "idle"))
    /\ UNCHANGED <<fd, closeFlag, rx, rxQueued, inq, mid, shutdowns, uartUp, torn, mixed>>

-----------------------------------------------------------------------------
(* mt7697_uart_open and mt7697_uart_close; calls of the two do not overlap *)

\* The receive work may still be at work for an earlier session: it is queued again.  A
\* file that a failed close left open is overwritten.
UartOpen ==
    /\ uartUp = "bound" /\ closer = "idle" /\ ~ handle
    /\ fd' = "open" /\ handle' = TRUE /\ closeFlag' = FALSE
    /\ IF rx = "idle" THEN rx' = "poll" /\ UNCHANGED rxQueued
       ELSE rxQueued' = TRUE /\ UNCHANGED rx
    /\ UNCHANGED <<mutex, closer, writer, inq, mid, shutdowns, uartUp, torn, mixed, gaveUp>>

\* filp_open fails: the handle is NULL.
UartOpenFails ==
    /\ UartFaults /\ uartUp = "bound" /\ closer = "idle" /\ ~ handle
    /\ fd' = "null"
    /\ UNCHANGED <<handle, closeFlag, mutex, rx, rxQueued, closer, writer, inq, mid, shutdowns, uartUp,
                   torn, mixed, gaveUp>>

\* Without a bound device uart_info is read through all the same (uart.c:230).
UartOpenUnbound == uartUp = "absent" /\ Oops

\* Called by the Wi-Fi driver, and by mt7697_uart_remove when it has left the file open.
UartClose ==
    /\ uartUp = "bound" /\ closer = "idle" /\ fd = "open" /\ writer["closer"] = "idle"
    /\ closeFlag' = TRUE
    /\ closer' = "shut"
    /\ writer' = [writer EXCEPT !["closer"] = "lock"]
    /\ UNCHANGED <<fd, handle, mutex, rx, rxQueued, inq, mid, shutdowns, uartUp, torn, mixed, gaveUp>>

\* wait_event_interruptible
CloseWakes ==
    /\ uartUp = "bound" /\ closer = "wait" /\ ~ closeFlag
    /\ closer' = "lock"
    /\ UNCHANGED <<fd, handle, closeFlag, mutex, rx, rxQueued, writer, inq, mid, shutdowns, uartUp, torn,
                   mixed, gaveUp>>

CloseSignalled ==
    /\ UartFaults /\ uartUp = "bound" /\ closer = "wait"
    /\ closer' = "lock" /\ gaveUp' = TRUE
    /\ UNCHANGED <<fd, handle, closeFlag, mutex, rx, rxQueued, writer, inq, mid, shutdowns, uartUp, torn, mixed>>

\* The file is closed under the mutex (a tty has no flush, so filp_close returns 0).
\* Mutant: the file is closed without waiting for a writer that is in it.
CloseFileAnyway ==
    /\ uartUp = "bound" /\ closer = "lock"
    /\ fd' = "null" /\ handle' = FALSE /\ closer' = "idle"
    /\ inq' = <<>>
    /\ UNCHANGED <<closeFlag, mutex, rx, rxQueued, writer, mid, shutdowns, uartUp, torn, mixed, gaveUp>>

CloseFile ==
    /\ uartUp = "bound" /\ closer = "lock" /\ mutex = "none"
    /\ fd' = "null" /\ handle' = FALSE /\ closer' = "idle"
    /\ inq' = <<>>
    /\ UNCHANGED <<closeFlag, mutex, rx, rxQueued, writer, mid, shutdowns, uartUp, torn, mixed, gaveUp>>

-----------------------------------------------------------------------------
(* mt7697_uart_rx_work *)

\* Mutant: the work ends without letting the closer know.
RxEndsQuietly ==
    /\ rx' = IF rxQueued THEN "poll" ELSE "idle"
    /\ rxQueued' = FALSE
    /\ UNCHANGED closeFlag

\* The work ends: close is cleared and its waiter woken.  A work that was scheduled again
\* meanwhile starts anew.
RxEnds ==
    /\ closeFlag' = FALSE
    /\ rx' = IF rxQueued THEN "poll" ELSE "idle"
    /\ rxQueued' = FALSE

\* mt7697_uart_rx_poll: input, or an error, a hang-up or a signal that ends the work.
RxPoll ==
    /\ uartUp = "bound" /\ rx = "poll" /\ fd = "open"
    /\ \/ inq # <<>> /\ rx' = "read" /\ UNCHANGED <<closeFlag, rxQueued>>
       \/ UartFaults /\ RxEnds
    /\ UNCHANGED <<fd, handle, mutex, closer, writer, inq, mid, shutdowns, uartUp, torn, mixed, gaveUp>>

\* The header is read (mt7697_uart_read); a message for the transport itself ends the
\* work when a close is under way, whatever its type; the others go to rx_fcn.
RxRead ==
    /\ uartUp = "bound" /\ rx = "read" /\ fd = "open" /\ inq # <<>>
    /\ inq' = Tail(inq)
    /\ \/ Head(inq) = "uart" /\ closeFlag /\ RxEnds
       \/ Head(inq) = "uart" /\ ~ closeFlag /\ rx' = "poll" /\ UNCHANGED <<closeFlag, rxQueued>>
       \/ Head(inq) = "msg" /\ rx' = "handle" /\ UNCHANGED <<closeFlag, rxQueued>>
    /\ UNCHANGED <<fd, handle, mutex, closer, writer, mid, shutdowns, uartUp, torn, mixed, gaveUp>>

RxReadFails ==
    /\ uartUp = "bound" /\ rx = "read" /\ fd = "open" /\ (UartFaults \/ inq = <<>>)
    /\ RxEnds
    /\ UNCHANGED <<fd, handle, mutex, closer, writer, inq, mid, shutdowns, uartUp, torn, mixed, gaveUp>>

\* rx_fcn returns (it is mt7697_proc_80211cmd), and its result is only logged.
RxHandled ==
    /\ uartUp = "bound" /\ rx = "handle"
    /\ rx' = "poll"
    /\ UNCHANGED <<fd, handle, closeFlag, mutex, rxQueued, closer, writer, inq, mid, shutdowns, uartUp, torn,
                   mixed, gaveUp>>

\* The work looks for input through a handle that is NULL.
RxNoFile == uartUp = "bound" /\ rx \in {"poll", "read"} /\ fd = "null" /\ Oops

-----------------------------------------------------------------------------
(* The chip, and the driver's own life *)

ChipAnswers ==
    /\ fd = "open" /\ shutdowns > 0 /\ Len(inq) < InMax
    /\ shutdowns' = 0
    /\ inq' = Append(inq, "uart")
    /\ UNCHANGED <<fd, handle, closeFlag, mutex, rx, rxQueued, closer, writer, mid, uartUp, torn, mixed, gaveUp>>

ChipSends ==
    /\ fd = "open" /\ Len(inq) < InMax
    /\ inq' = Append(inq, "msg")
    /\ UNCHANGED <<fd, handle, closeFlag, mutex, rx, rxQueued, closer, writer, mid, shutdowns, uartUp, torn,
                   mixed, gaveUp>>

UartProbe ==
    /\ uartUp = "absent"
    /\ uartUp' = "bound" /\ fd' = "null" /\ handle' = FALSE /\ closeFlag' = FALSE /\ mutex' = "none" /\ rx' = "idle"
    /\ rxQueued' = FALSE /\ closer' = "idle" /\ writer' = [w \in Writers |-> "idle"]
    /\ UNCHANGED <<inq, mid, shutdowns, torn, mixed, gaveUp>>

\* mt7697_uart_remove frees uart_info after its own close, whatever that returned; a
\* receive work that still runs then works on freed memory.
UartRemove ==
    /\ uartUp = "bound" /\ ~ handle /\ closer = "idle" /\ \A w \in Writers : writer[w] = "idle"
    /\ fd = "null" \/ closeFlag       \* nothing to close, or its close has failed
    /\ uartUp' = IF rx = "idle" THEN "absent" ELSE "oops"
    /\ UNCHANGED <<fd, handle, closeFlag, mutex, rx, rxQueued, closer, writer, inq, mid, shutdowns, torn,
                   mixed, gaveUp>>

-----------------------------------------------------------------------------

UartInit ==
    /\ fd = "null" /\ handle = FALSE /\ closeFlag = FALSE /\ mutex = "none" /\ rx = "idle" /\ rxQueued = FALSE
    /\ closer = "idle" /\ writer = [w \in Writers |-> "idle"] /\ inq = <<>>
    /\ mid = [who |-> "none", left |-> 0] /\ shutdowns = 0 /\ uartUp = "absent"
    /\ torn = FALSE /\ mixed = FALSE /\ gaveUp = FALSE

UartNext ==
    \/ \E w \in Writers : \/ UartWrite(w) \/ WriteLock(w) \/ WritePiece(w) \/ WriteFails(w)
                          \/ WriteReturns(w)
    \/ UartOpen \/ UartOpenFails \/ UartOpenUnbound \/ UartClose \/ CloseWakes
    \/ CloseSignalled \/ CloseFile
    \/ RxPoll \/ RxRead \/ RxReadFails \/ RxHandled \/ RxNoFile
    \/ ChipAnswers \/ ChipSends \/ UartProbe \/ UartRemove

UartSpec == UartInit /\ [][UartNext]_uartVars

\* The kernel runs a work that is queued and lets a writer go on; a mutex is granted in
\* turn; the chip answers a shutdown request.
UartFairness ==
    /\ WF_uartVars(RxPoll) /\ WF_uartVars(RxRead) /\ WF_uartVars(RxHandled)
    /\ SF_uartVars(ChipAnswers)
    /\ WF_uartVars(CloseWakes) /\ SF_uartVars(CloseFile)
    /\ \A w \in Writers : SF_uartVars(WriteLock(w)) /\ WF_uartVars(WritePiece(w))
                            /\ WF_uartVars(WriteReturns(w))

UartFairSpec == UartSpec /\ UartFairness

-----------------------------------------------------------------------------

\* The chip receives whole frames, one after another, though several callers write at
\* once and kernel_write takes a frame in pieces; only a write that failed halfway ends
\* a frame early (mt7697_uart_write).
FramesWhole == mixed => torn

\* Once the file is closed the receive work has ended and nobody is in the middle of a
\* write to it, unless a close ended before the receive work did: at a signal, or because
\* its request could not be written (mt7697_uart_close, mt7697_uart_rx_work).
RxHasFile ==
    ~ gaveUp /\ uartUp = "bound" /\ fd = "null"
      => rx = "idle" /\ \A w \in Writers : writer[w] # "busy"

\* Both: the chip receives whole frames, and nobody uses a file that is closed.
UartSound == FramesWhole /\ RxHasFile

\* A close that waits while the receive work is there ends: the chip's answer, or an error
\* of the tty, ends the work, which lets the closer go on (the pair at uart.c:173, 261).
CloseReturns == (closer = "wait" /\ rx # "idle") ~> (closer = "idle" \/ uartUp = "oops")

-----------------------------------------------------------------------------
(* The inductive invariant behind UartSound.                               *)

UartTypeOK ==
    /\ fd \in {"null", "open"} /\ uartUp \in {"absent", "bound", "oops"}
    /\ {handle, closeFlag, rxQueued, torn, mixed, gaveUp} \subseteq BOOLEAN
    /\ rx \in {"idle", "poll", "read", "handle"}
    /\ closer \in {"idle", "shut", "wait", "lock"}
    /\ mutex \in Writers \cup {"none"}
    /\ writer \in [Writers -> {"idle", "lock", "busy", "done", "failed"}]
    /\ mid \in [who : Writers \cup {"none", "torn"}, left : 0 .. FrameLen]

\* A writer past its lock holds the mutex; the frame the chip has a part of is that of
\* the writer that holds it, or was cut short by a failure.
WriterHasMutex ==
    /\ \A w \in Writers : writer[w] \in {"busy", "done", "failed"} <=> mutex = w
    /\ mid.who \in Writers => writer[mid.who] = "busy" /\ mid.left \in 1 .. (FrameLen - 1)
    /\ mid.who = "torn" => torn
    /\ uartUp = "absent" => \A w \in Writers : writer[w] = "idle"

\* A close that has not given up waits for the receive work, with the file open; when it
\* is over, the file is closed and the work is not queued.
CloseWaitsForRx ==
    /\ writer["closer"] # "idle" <=> closer = "shut"
    /\ closer # "idle" => fd = "open"
    /\ ~ gaveUp =>
        /\ ~ rxQueued
        /\ closer \in {"shut", "wait"} /\ ~ closeFlag => rx = "idle"
        /\ closer = "lock" => rx = "idle"
        /\ closer = "idle" /\ ~ handle => fd = "null"
        /\ fd = "null" => rx = "idle" /\ \A w \in Writers : writer[w] # "busy"

UartIInv == UartTypeOK /\ FramesWhole /\ WriterHasMutex /\ CloseWaitsForRx
=============================================================================
