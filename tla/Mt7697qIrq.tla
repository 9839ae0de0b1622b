----------------------------- MODULE Mt7697qIrq -----------------------------
(***************************************************************************)
(* The slave-to-master direction of the MT7697 SPI queues: the interrupt,  *)
(* the work item that empties the mailbox (interrupt.c), and               *)
(* mt7697q_proc_data with mt7697q_read (queue.c), which cut the receive    *)
(* ring into messages for the queue owner's rx_fcn.                        *)
(*                                                                         *)
(* The repository opens one pair of queues (mt7697wifi): "tx" and "rx" are *)
(* its two mailbox bits.  Work items run one at a time (alloc_workqueue    *)
(* with max_active 1); the slave runs between any two SPI transfers.       *)
(*                                                                         *)
(* A response is a header of HdrWords words, whose first word gives its    *)
(* length, and a body.  Word <<m, j>> is word j of the m-th response.      *)
(***************************************************************************)
EXTENDS Mt7697qRing, Sequences

CONSTANTS
    Bodies,     \* numbers of body words of the slave's responses
    Pieces,     \* TRUE: the slave may publish a response piece by piece
    Faults,     \* TRUE: SPI transfers may fail and rx_fcn may refuse a body
    Starts,     \* offsets at which the empty ring may stand at first
    MaxMsgs     \* bound: responses in a behaviour

HdrWords == 2   \* LEN_TO_WORD(sizeof(struct mt7697_rsp_hdr))

\* The slave waits for room for a whole response, so one must fit the ring.
ASSUME IrqAssumption ==
    /\ Bodies \subseteq 0 .. (Capacity - HdrWords)
    /\ Pieces \in BOOLEAN /\ Faults \in BOOLEAN
    /\ Starts \subseteq Offsets
    /\ MaxMsgs \in Nat

VARIABLES
    mem, srd, swr,  \* the receive ring and its offsets in the slave's memory
    hrd, hwr,       \* the driver's copy of the offsets
    mbx,            \* the S2M mailbox
    edge,           \* an interrupt edge is latched
    depth,          \* disable_irq calls not yet undone
    queued,         \* irq_work is queued
    delayed,        \* irq_delayed_work is pending
    wpc,            \* the next step of the running work item
    got,            \* its s2m_mbox
    avail, req,     \* the locals of mt7697q_proc_data
    rsp,            \* qinfo->rsp: its length in words (0: none) and its words
    blen,           \* slave: body length of each response
    cur, left,      \* slave: the response being sent, its words not yet sent
    bell,           \* slave: doorbells to be rung: the bit, then the edge
    stream,         \* history: all words published
    hcnt,           \* history: words the driver consumed
    delivered,      \* history: responses handed to rx_fcn
    faulty,         \* history: a transfer failed or a body was refused
    deaf            \* history: the mailbox transfers of a work item failed

ring    == <<mem, srd, swr>>
host    == <<hrd, hwr>>
irqs    == <<edge, depth, queued, delayed>>
locals  == <<avail, req>>
slave   == <<blen, cur, left, bell, stream>>
history == <<hcnt, delivered, faulty, deaf>>
vars    == <<ring, host, mbx, irqs, wpc, got, locals, rsp, slave,
             history>>

Msgs      == 1 .. MaxMsgs
Bits      == {"tx", "rx"}
Word(m, j) == <<m, j>>
NoWord    == Word(0, 0)
Huge      == N + 1      \* an underflowed length: more words than any ring has

Init ==
    /\ mem = [s \in Offsets |-> NoWord]
    /\ srd \in Starts
    /\ swr = srd /\ hrd = srd /\ hwr = srd
    /\ mbx = {} /\ edge = FALSE /\ depth = 0
    /\ queued = FALSE /\ delayed = FALSE
    /\ wpc = "idle" /\ got = {} /\ avail = 0 /\ req = 0
    /\ rsp = [len |-> 0, word |-> NoWord]
    /\ blen = [m \in Msgs |-> 0] /\ cur = 0 /\ left = 0 /\ bell = {}
    /\ stream = << >>
    /\ hcnt = 0 /\ delivered = 0 /\ faulty = FALSE /\ deaf = FALSE

-----------------------------------------------------------------------------
(* The interrupt and the work items, interrupt.c *)

\* mt7697q_isr.
Isr ==
    /\ edge /\ depth = 0
    /\ edge' = FALSE /\ depth' = depth + 1 /\ queued' = TRUE
    /\ UNCHANGED <<ring, host, mbx, delayed, wpc, got, locals, rsp,
                   slave, history>>

\* The worker takes up irq_work, or irq_delayed_work once its timer expired.
StartWork ==
    /\ wpc = "idle"
    /\ \/ queued /\ queued' = FALSE /\ UNCHANGED delayed
       \/ delayed /\ delayed' = FALSE /\ UNCHANGED queued
    /\ wpc' = "rdmbx"
    /\ UNCHANGED <<ring, host, mbx, edge, depth, got, locals, rsp,
                   slave, history>>

\* A mailbox transfer fails: irq_run returns at once.
MbxFails ==
    /\ Faults
    /\ wpc' = "idle" /\ faulty' = TRUE /\ deaf' = TRUE
    /\ UNCHANGED <<depth, delayed, got, hcnt, delivered>>

\* mt7697q_get_s2m_mbx: the bits are read ...
RdS2mMbx ==
    /\ wpc = "rdmbx"
    /\ \/ /\ got' = mbx /\ wpc' = "clrmbx"
          /\ UNCHANGED <<depth, delayed, history>>
       \/ MbxFails
    /\ UNCHANGED <<ring, host, mbx, edge, queued, locals, rsp, slave>>

\* Mutant: the whole mailbox is cleared, not the bits that were read.
ClearAllMbx ==
    /\ wpc = "clrmbx"
    /\ mbx' = {}
    /\ IF got # {} THEN delayed' = TRUE /\ wpc' = "tx" /\ UNCHANGED depth
                   ELSE depth' = depth - 1 /\ wpc' = "idle" /\ UNCHANGED delayed
    /\ UNCHANGED <<ring, host, edge, queued, got, locals, rsp, slave,
                   history>>

\* Mutant: an empty mailbox ends the round with the interrupt still disabled.
EnableForgotten ==
    /\ wpc = "clrmbx"
    /\ mbx' = mbx \ got
    /\ IF got # {} THEN delayed' = TRUE /\ wpc' = "tx"
                   ELSE wpc' = "idle" /\ UNCHANGED delayed
    /\ UNCHANGED <<ring, host, edge, depth, queued, got, locals, rsp, slave,
                   history>>

\* ... and those bits are cleared.  If there were any, irq_run polls again
\* later, with the interrupt still disabled; if not, it enables the interrupt.
ClrS2mMbx ==
    /\ wpc = "clrmbx"
    /\ \/ /\ mbx' = mbx \ got
          /\ IF got # {}
             THEN delayed' = TRUE /\ wpc' = "tx" /\ UNCHANGED depth
             ELSE depth' = depth - 1 /\ wpc' = "idle" /\ UNCHANGED delayed
          /\ UNCHANGED <<got, history>>
       \/ MbxFails /\ mbx' \in {mbx, mbx \ got}
    /\ UNCHANGED <<ring, host, edge, queued, locals, rsp, slave>>

\* Channel 0 (master to slave): notify_tx_fcn may be called, which leaves the
\* receive direction alone.  Channel 1 is next.
IrqNotifyTx ==
    /\ wpc = "tx"
    /\ wpc' = IF "rx" \in got THEN "pull" ELSE "idle"
    /\ UNCHANGED <<ring, host, mbx, irqs, got, locals, rsp, slave, history>>

-----------------------------------------------------------------------------
(* mt7697q_proc_data and mt7697q_read, queue.c *)

\* Words still needed, from rsp.cmd.len: the header, or the body.
Needed(len) ==
    IF len = 0 THEN HdrWords
    ELSE IF len < HdrWords THEN Huge ELSE len - HdrWords

\* A transfer of proc_data fails: it returns and irq_run skips the rest.
ProcFails ==
    /\ Faults
    /\ wpc' = "idle" /\ faulty' = TRUE
    /\ UNCHANGED <<ring, host, locals, rsp, hcnt, delivered, deaf>>

ProcUnchanged == UNCHANGED <<mbx, irqs, got, slave>>

\* mt7697q_pull_wr_ptr at the start.
PullWrPtr ==
    /\ wpc = "pull"
    /\ \/ /\ hwr' = swr
          /\ avail' = NumWords(hrd, swr)
          /\ req' = Needed(rsp.len)
          /\ wpc' = IF avail' >= req' THEN "header" ELSE "idle"
          /\ UNCHANGED <<ring, hrd, rsp, history>>
       \/ ProcFails
    /\ ProcUnchanged

\* mt7697q_read of n words: the two runs, and where rd_offset ends.
ReadEnd(n) ==
    LET k1 == ReadRun1(hrd, hwr, n)
        o  == IF hrd > hwr THEN AfterRun(hrd, k1) ELSE hrd
        k2 == IF k1 < n THEN ReadRun2(o, hwr, n - k1) ELSE 0
    IN [offset |-> o + k2, words |-> k1 + k2]

\* mt7697q_read succeeds; the WARN_ON for an offset outside the ring is an error.
Consume(n) ==
    /\ ReadEnd(n).offset < N
    /\ hrd' = ReadEnd(n).offset
    /\ hcnt' = hcnt + ReadEnd(n).words

\* The length a header gives: its own if the words at rd_offset are the start
\* of a response, else whatever that word happens to hold.
Lengths(w) ==
    IF w[1] > 0 /\ w[2] = 0 THEN {HdrWords + blen[w[1]]}
    ELSE {0, 1} \cup {HdrWords + b : b \in Bodies}

\* The header is read into qinfo->rsp, unless one is there already.  A read
\* that fails half-way leaves rd_offset alone and may have filled rsp.
ReadHeader ==
    /\ wpc = "header"
    /\ \/ /\ rsp.len = 0
          /\ Consume(HdrWords)
          /\ \E l \in Lengths(mem[hrd]) : rsp' = [len |-> l, word |-> mem[hrd]]
          /\ avail' = avail - HdrWords
          /\ req' = IF rsp'.len = 0 THEN Huge ELSE Needed(rsp'.len)
          /\ wpc' = "more"
          /\ UNCHANGED <<ring, hwr, delivered, faulty, deaf>>
       \/ /\ rsp.len = 0 /\ Faults
          /\ rsp' \in {rsp} \cup {[len |-> l, word |-> mem[hrd]] : l \in Lengths(mem[hrd])}
          /\ wpc' = "idle" /\ faulty' = TRUE
          /\ UNCHANGED <<ring, host, locals, hcnt, delivered, deaf>>
       \/ /\ rsp.len # 0
          /\ wpc' = "more"
          /\ UNCHANGED <<ring, host, locals, rsp, history>>
    /\ ProcUnchanged

\* If the body is not all there, wr_offset is pulled again.
NeedMoreData ==
    /\ wpc = "more"
    /\ \/ avail >= req /\ wpc' = "deliver" /\ UNCHANGED <<host, locals, history>>
       \/ /\ avail < req
          /\ hwr' = swr /\ avail' = NumWords(hrd, swr)
          /\ wpc' = IF avail' >= req THEN "deliver" ELSE "idle"
          /\ UNCHANGED <<hrd, req, history>>
       \/ avail < req /\ ProcFails
    /\ UNCHANGED <<ring, rsp>>
    /\ ProcUnchanged

\* rx_fcn reads the body with mt7697q_read; or it refuses it, or its read
\* fails, and the body stays in the ring though avail counts it as gone.  A
\* queue response of an unknown type ends proc_data with qinfo->rsp still set.
Deliver ==
    /\ wpc = "deliver"
    /\ \/ /\ \/ /\ Consume(req)
                /\ delivered' = delivered + 1
                /\ UNCHANGED faulty
             \/ /\ Faults /\ req > 0
                /\ faulty' = TRUE
                /\ UNCHANGED <<hrd, hcnt, delivered>>
          /\ avail' = avail - req /\ req' = HdrWords
          /\ rsp' = [rsp EXCEPT !.len = 0]
          /\ wpc' = IF avail' < req' THEN "again" ELSE "push"
          /\ UNCHANGED <<ring, hwr, deaf>>
       \/ ProcFails
    /\ ProcUnchanged

\* wr_offset is pulled before rd_offset is pushed: a response published while
\* the last one was being handled is taken in the same round.
PullAgain ==
    /\ wpc = "again"
    /\ \/ /\ hwr' = swr /\ avail' = NumWords(hrd, swr)
          /\ wpc' = "push"
          /\ UNCHANGED <<ring, hrd, req, rsp, history>>
       \/ ProcFails
    /\ ProcUnchanged

\* Mutant: everything pulled is given back to the slave, read or not.
PushesWrPtr ==
    /\ wpc = "push"
    /\ srd' = hwr
    /\ wpc' = IF avail >= req THEN "header" ELSE "idle"
    /\ UNCHANGED <<mem, swr, host, locals, rsp, history>>
    /\ ProcUnchanged

\* mt7697q_push_rd_ptr, then the loop's condition.
PushRdPtr ==
    /\ wpc = "push"
    /\ \/ /\ srd' = hrd
          /\ wpc' = IF avail >= req THEN "header" ELSE "idle"
          /\ UNCHANGED <<mem, swr, host, locals, rsp, history>>
       \/ /\ Faults
          /\ srd' \in {srd, hrd}
          /\ wpc' = "idle" /\ faulty' = TRUE
          /\ UNCHANGED <<mem, swr, host, locals, rsp, hcnt, delivered, deaf>>
    /\ ProcUnchanged

-----------------------------------------------------------------------------
(* The slave's firmware (external) *)

\* k words of response m, from its word p on, are put in the ring and wr_offset
\* is moved past them.
Publish(m, p, k) ==
    /\ k <= FreeWords(srd, swr)
    /\ mem' = [s \in Offsets |->
                 IF BufDiff(swr, s) < k THEN Word(m, p + BufDiff(swr, s))
                 ELSE mem[s]]
    /\ swr' = Advance(swr, k)
    /\ stream' = stream \o [i \in 1 .. k |-> Word(m, p + i - 1)]
    /\ bell' = bell \cup {"rx"}
    /\ UNCHANGED <<srd, host, mbx, irqs, wpc, got, locals, rsp, history>>

\* A new response of b body words; if in pieces, its first k words.
SlaveStarts(b, k) ==
    /\ left = 0 /\ cur < MaxMsgs
    /\ k <= HdrWords + b /\ (Pieces \/ k = HdrWords + b)
    /\ cur' = cur + 1 /\ left' = HdrWords + b - k
    /\ blen' = [blen EXCEPT ![cur + 1] = b]
    /\ Publish(cur + 1, 0, k)

SlaveContinues(k) ==
    /\ k <= left
    /\ left' = left - k
    /\ Publish(cur, HdrWords + blen[cur] - left, k)
    /\ UNCHANGED <<blen, cur>>

\* The slave took words from the other ring and says so.
SlaveDrained ==
    /\ "tx" \notin bell \cup mbx
    /\ bell' = bell \cup {"tx"}
    /\ UNCHANGED <<ring, host, mbx, irqs, wpc, got, locals, rsp, blen,
                   cur, left, stream, history>>

\* Its doorbell: the mailbox bit first, then the edge.
SlaveSetsBit(c) ==
    /\ c \in bell
    /\ mbx' = mbx \cup {c}
    /\ bell' = (bell \ {c}) \cup {"irq"}
    /\ UNCHANGED <<ring, host, irqs, wpc, got, locals, rsp, blen, cur,
                   left, stream, history>>

SlaveInterrupts ==
    /\ "irq" \in bell
    /\ edge' = TRUE /\ bell' = bell \ {"irq"}
    /\ UNCHANGED <<ring, host, mbx, depth, queued, delayed, wpc, got, locals,
                   rsp, blen, cur, left, stream, history>>

-----------------------------------------------------------------------------
Work == StartWork \/ RdS2mMbx \/ ClrS2mMbx \/ IrqNotifyTx \/ PullWrPtr
        \/ ReadHeader \/ NeedMoreData \/ Deliver \/ PullAgain \/ PushRdPtr

Doorbell == (\E c \in Bits : SlaveSetsBit(c)) \/ SlaveInterrupts

Next ==
    \/ Isr \/ Work
    \/ \E b \in Bodies, k \in 1 .. Capacity : SlaveStarts(b, k)
    \/ \E k \in 1 .. Capacity : SlaveContinues(k)
    \/ SlaveDrained \/ Doorbell

Spec == Init /\ [][Next]_vars

\* The interrupt is delivered, the worker runs, the slave rings its doorbell.
FairSpec ==
    /\ Spec
    /\ WF_vars(Isr) /\ WF_vars(Work)
    /\ \A c \in Bits : WF_vars(SlaveSetsBit(c))
    /\ WF_vars(SlaveInterrupts)

-----------------------------------------------------------------------------
TypeOK ==
    /\ mem \in [Offsets -> (0 .. MaxMsgs) \X Nat]
    /\ {srd, swr, hrd, hwr} \subseteq Offsets
    /\ mbx \subseteq Bits /\ got \subseteq Bits
    /\ bell \subseteq Bits \cup {"irq"}
    /\ depth \in Nat /\ avail \in Nat /\ req \in Nat /\ hcnt \in Nat
    /\ {edge, queued, delayed, faulty, deaf} \subseteq BOOLEAN
    /\ wpc \in {"idle", "rdmbx", "clrmbx", "tx", "pull", "header", "more",
                "deliver", "again", "push"}
    /\ rsp \in [len : Nat, word : (0 .. MaxMsgs) \X Nat]
    /\ blen \in [Msgs -> Bodies \cup {0}] /\ cur \in 0 .. MaxMsgs /\ left \in Nat
    /\ stream \in Seq(Msgs \X Nat)
    /\ delivered \in Nat

\* From the driver's rd_offset to the slave's wr_offset the ring holds the words
\* of the stream that come next.
RingMatchesStream ==
    /\ NumWords(srd, hrd) + NumWords(hrd, swr) = NumWords(srd, swr)
    /\ NumWords(hrd, hwr) <= NumWords(hrd, swr)
    /\ hcnt + NumWords(hrd, swr) = Len(stream)
    /\ \A i \in 0 .. (NumWords(hrd, swr) - 1) :
          mem[Advance(hrd, i)] = stream[hcnt + i + 1]

\* Whatever fails, the driver reads only words the slave has published and
\* never passes wr_offset (the comment at queue.c:722), and the slave does not
\* overwrite what the driver has not read: from rd_offset on, the ring holds
\* the words of the stream that come next.  avail never exceeds what is there,
\* so mt7697q_read is never short.
ReadsPublished ==
    /\ RingMatchesStream
    /\ wpc \in {"header", "more", "deliver"} => avail <= NumWords(hrd, hwr)

\* As long as no transfer failed and rx_fcn took every body, the stream is cut
\* where the slave cut it: qinfo->rsp always is the header of the response
\* after the last one delivered, and all words before it were consumed.
InFrame ==
    ~ faulty =>
        /\ rsp.len > 0 => /\ rsp.word = Word(delivered + 1, 0)
                          /\ rsp.len = HdrWords + blen[delivered + 1]
        /\ hcnt < Len(stream) =>
              stream[hcnt + 1] = IF rsp.len = 0 THEN Word(delivered + 1, 0)
                                 ELSE IF rsp.len = HdrWords THEN Word(delivered + 2, 0)
                                 ELSE Word(delivered + 1, HdrWords)

Working == queued \/ delayed \/ wpc # "idle"

\* disable_irq_nosync and enable_irq are balanced: the interrupt is disabled
\* exactly while a work item is pending or running, and only one is.  The one
\* exception is a failed mailbox transfer, after which it stays disabled.
IrqBalanced ==
    /\ depth \in {0, 1}
    /\ ~ deaf => (depth = 1 <=> Working)
    /\ ~ (queued /\ (delayed \/ wpc # "idle"))
    /\ delayed => wpc # "clrmbx"

\* The receive direction with failing transfers: the driver keeps to the published
\* words, and the disables and enables of its interrupt stay balanced.
IrqSound == TypeOK /\ ReadsPublished /\ IrqBalanced

\* The receive bit is on its way, or a round that will look at the ring again.
Announced ==
    "rx" \in bell \cup mbx \/ wpc \in {"pull", "header", "more", "deliver", "again"}
    \/ (wpc \in {"clrmbx", "tx"} /\ "rx" \in got) \/ (wpc = "push" /\ avail >= req)

\* No doorbell is lost in the races between the slave, the interrupt and the
\* poll: published words the driver does not know of, or that make up a whole
\* header or body it has not taken, are still announced, by a bit somewhere on
\* its way; and a bit in the mailbox is followed by an interrupt or a poll.
NoLostDoorbell ==
    ~ faulty =>
        /\ (hwr # swr \/ NumWords(hrd, swr) >= Needed(rsp.len)) => Announced
        /\ mbx # {} => edge \/ "irq" \in bell \/ Working

\* The receive direction without faults: the stream is cut where the slave cut it,
\* and whatever is there to be taken is announced.
StreamSound == InFrame /\ NoLostDoorbell

\* Every response the slave has published completely reaches rx_fcn: again and again
\* none is outstanding (no faults).
PublishedIsDelivered ==
    []<>(\A m \in Msgs : (cur > m \/ (cur = m /\ left = 0)) => delivered >= m)
-----------------------------------------------------------------------------
(* The inductive invariants behind IrqSound and StreamSound.               *)

\* A failed mailbox transfer leaves nothing behind that could run; the poll is
\* rearmed only after the mailbox has been cleared.
OneWorkItem ==
    /\ deaf => faulty /\ depth = 1 /\ ~ Working
    /\ wpc # "idle" => (delayed <=> wpc \notin {"rdmbx", "clrmbx"})

\* The locals of mt7697q_proc_data at each of its steps.
LocalsMatchRing ==
    /\ wpc \in {"header", "more", "deliver", "again", "push"} => avail <= NumWords(hrd, hwr)
    /\ wpc = "header" => avail >= req /\ req = Needed(rsp.len)
    /\ wpc = "deliver" => avail >= req
    /\ wpc \in {"again", "push"} => req = HdrWords /\ rsp.len = 0

\* What the slave has still to send is part of its current response.
SendingInRange == left > 0 => cur \in Msgs /\ left <= HdrWords + blen[cur]

IrqIInv == IrqSound /\ OneWorkItem /\ LocalsMatchRing /\ SendingInRange

\* In the first n words of s, response m starts at position first: as far as s goes, its
\* words stand there in their order and the next response follows them.
ResponseAt(s, n, len, first, m) ==
    /\ \A j \in 0 .. ((HdrWords + len[m]) - 1) : first + j <= n => s[first + j] = Word(m, j)
    /\ first + (HdrWords + len[m]) <= n => s[first + (HdrWords + len[m])] = Word(m + 1, 0)

\* The first n words of s are responses, one after the other from the first on; the last
\* one is response c, of which l words are missing.
Responses(s, n, len, c, l) ==
    /\ \A i \in 1 .. n :
        LET m == s[i][1]
            first == i - s[i][2]
        IN /\ m \in 1 .. c /\ first >= 1 /\ s[i][2] < HdrWords + len[m]
           /\ ResponseAt(s, n, len, first, m)
    /\ n = 0 => c = 0 /\ l = 0
    /\ n > 0 => /\ c > 0
                /\ s[1] = Word(1, 0)
                /\ s[n] = Word(c, (HdrWords + len[c]) - l - 1)

StreamIsResponses == Responses(stream, Len(stream), blen, cur, left)

\* The driver stands behind the last word of the response it delivered last or, with a
\* header in qinfo->rsp, behind that header.
CutBetweenResponses ==
    ~ faulty =>
        /\ rsp.len = 0 =>
            IF hcnt = 0 THEN delivered = 0
            ELSE /\ delivered \in Msgs
                 /\ stream[hcnt] = Word(delivered, (HdrWords + blen[delivered]) - 1)
        /\ rsp.len # 0 =>
            /\ hcnt >= HdrWords /\ delivered + 1 \in Msgs
            /\ stream[hcnt] = Word(delivered + 1, HdrWords - 1)
            /\ rsp = [len |-> HdrWords + blen[delivered + 1], word |-> Word(delivered + 1, 0)]
        /\ wpc \in {"more", "deliver"} => rsp.len # 0 /\ req = Needed(rsp.len)

\* A bit set since the mailbox was read is followed by an edge, which waits for the
\* interrupt to be enabled.
EdgeIsKept ==
    ~ faulty /\ wpc = "clrmbx" /\ mbx \ got # {} => edge \/ "irq" \in bell

StreamIInv == StreamIsResponses /\ CutBetweenResponses /\ EdgeIsKept /\ NoLostDoorbell
=============================================================================
