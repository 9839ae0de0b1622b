---------------------------- MODULE DeviceProofs ----------------------------
(***************************************************************************)
(* Proofs about the devices of a board: a running IIO buffer holds samples *)
(* of its own scan mask, a trigger counts exactly the consumers that have  *)
(* yet to notify it, the event file holds no event of an earlier user, and *)
(* the motion sensor's other register bank is never left switched in.      *)
(***************************************************************************)
EXTENDS Iio, Opt300x, Lsm6ds3, FiniteSetTheorems, FunctionTheorems, NaturalsInduction,
        SequenceTheorems, WellFoundedInduction, TLAPS

-----------------------------------------------------------------------------
(* The buffer of a device *)

GoodBuffer(b) == BufferOK(b) /\ BufferIsCurrent(b)

LEMMA FreshBuffer == GoodBuffer(SetUp) /\ GoodBuffer(Removed)
<1>1. <<>> \in Seq(SUBSET Channels)
  OBVIOUS
<1>2. GoodBuffer(SetUp)
  BY <1>1 DEF GoodBuffer, BufferOK, BufferIsCurrent, SetUp
<1>3. GoodBuffer(Removed)
  BY <1>1 DEF GoodBuffer, BufferOK, BufferIsCurrent, SetUp, Removed
<1> QED
  BY <1>2, <1>3

\* The buffer's own fields stay, and it does not begin to run.
SameBuffer(b, c) ==
    /\ BufferOK(c)
    /\ c.mask = b.mask /\ c.bytes = b.bytes /\ c.update = b.update /\ c.esize = b.esize
    /\ c.size = b.size /\ c.fifo = b.fifo /\ (c.active => b.active)

LEMMA SameBufferGood == ASSUME NEW b, NEW c, GoodBuffer(b), SameBuffer(b, c) PROVE GoodBuffer(c)
  BY DEF GoodBuffer, SameBuffer, BufferIsCurrent

LEMMA StoreGood ==
    ASSUME NEW b, GoodBuffer(b), b.active PROVE GoodBuffer(store_to_kfifo(b, b.mask))
<1> DEFINE c == [b EXCEPT !.fifo = Append(@, b.mask)]
<1>1. CASE Len(b.fifo) < b.size
  <2>1. BufferOK(c)
    <3>1. ASSUME NEW s \in Seq(SUBSET Channels) PROVE BufferOK([b EXCEPT !.fifo = s])
      BY DEF GoodBuffer, BufferOK
    <3>2. Append(b.fifo, b.mask) \in Seq(SUBSET Channels)
      BY DEF GoodBuffer, BufferOK
    <3> QED
      BY <3>1, <3>2
  <2>2. c.fifo = Append(b.fifo, b.mask) /\ b.fifo \in Seq(SUBSET Channels) /\ c.mask = b.mask
    BY DEF GoodBuffer, BufferOK
  <2>3. \A k \in DOMAIN c.fifo : c.fifo[k] = c.mask
    BY <2>2 DEF GoodBuffer, BufferIsCurrent
  <2>4. b.size # 0
    BY <1>1, <2>2
  <2>5. BufferIsCurrent(c)
    BY <2>1, <2>3, <2>4 DEF GoodBuffer, BufferIsCurrent, BufferOK
  <2> QED
    BY <1>1, <2>1, <2>5 DEF GoodBuffer, store_to_kfifo
<1>2. CASE ~ (Len(b.fifo) < b.size)
  BY <1>2 DEF store_to_kfifo
<1> QED
  BY <1>1, <1>2

\* The mask and the length change only while the buffer is off.
LEMMA MaskGood ==
    ASSUME NEW b, GoodBuffer(b), ~b.active, NEW m \in SUBSET Channels
    PROVE  GoodBuffer([b EXCEPT !.mask = m])
  BY DEF GoodBuffer, BufferOK, BufferIsCurrent

LEMMA LengthGood ==
    ASSUME NEW b, GoodBuffer(b), ~b.active, NEW n, NEW u \in BOOLEAN, b.update => u
    PROVE  GoodBuffer([b EXCEPT !.length = n, !.update = u])
  BY DEF GoodBuffer, BufferOK, BufferIsCurrent

\* iio_buffer_store_enable: the fifo is emptied, and of the size of the mask.
LEMMA EnableGood ==
    ASSUME NEW b, GoodBuffer(b), NEW fails \in BOOLEAN
    PROVE  LET sized == set_bytes_per_datum(b)
               c == request_update_kfifo(sized, fails)
           IN  /\ BufferOK(c) /\ c.fifo = <<>> /\ ~c.update /\ c.bytes = compute_scan_bytes(c.mask)
               /\ c.size = 0 \/ c.esize = c.bytes
<1> DEFINE n == compute_scan_bytes(b.mask)
           u == (b.update \/ n # b.bytes)
           sized == [b EXCEPT !.bytes = n, !.update = u]
           c == request_update_kfifo(sized, fails)
<1>0. n = compute_scan_bytes(b.mask)
  OBVIOUS
<1>1. set_bytes_per_datum(b) = sized
  BY DEF set_bytes_per_datum
<1>2. u \in BOOLEAN /\ (~u => ~b.update /\ n = b.bytes)
  OBVIOUS
<1> HIDE DEF n, u
<1>3. /\ BufferOK(sized) /\ sized.bytes = n /\ sized.mask = b.mask /\ sized.update = u
      /\ sized.size = b.size /\ sized.esize = b.esize
  BY <1>2 DEF GoodBuffer, BufferOK
<1>4. ~u => b.size = 0 \/ b.esize = n
  BY <1>2 DEF GoodBuffer, BufferIsCurrent, BufferOK
<1> HIDE DEF sized
<1>5. <<>> \in Seq(SUBSET Channels)
  OBVIOUS
<1>6. CASE ~u
  <2>1. c = [sized EXCEPT !.fifo = <<>>]
    BY <1>3, <1>6 DEF request_update_kfifo
  <2>2. BufferOK(c)
    BY <1>3, <1>5, <2>1 DEF BufferOK
  <2>3. c.fifo = <<>> /\ c.update = u /\ c.bytes = n /\ c.mask = b.mask /\ c.size = b.size /\ c.esize = b.esize
    BY <1>3, <2>1 DEF BufferOK
  <2> QED
    BY <1>0, <1>1, <1>4, <1>6, <2>2, <2>3
<1>7. ASSUME u, NEW s, NEW e, c = [sized EXCEPT !.update = FALSE, !.fifo = <<>>, !.size = s, !.esize = e],
             s = 0 \/ e = n
      PROVE  /\ BufferOK(c) /\ c.fifo = <<>> /\ ~c.update /\ c.bytes = compute_scan_bytes(c.mask)
             /\ c.size = 0 \/ c.esize = c.bytes
  <2>1. BufferOK(c)
    BY <1>3, <1>5, <1>7 DEF BufferOK
  <2>2. c.fifo = <<>> /\ c.update = FALSE /\ c.bytes = n /\ c.mask = b.mask /\ c.size = s /\ c.esize = e
    BY <1>3, <1>7 DEF BufferOK
  <2> QED
    BY <1>0, <1>7, <2>1, <2>2
<1>8. CASE u
  <2>1. \/ c = [sized EXCEPT !.update = FALSE, !.fifo = <<>>, !.size = 0, !.esize = 0]
        \/ c = [sized EXCEPT !.update = FALSE, !.fifo = <<>>, !.size = RoundUp(sized.length), !.esize = n]
    BY <1>3, <1>8 DEF request_update_kfifo
  <2> HIDE DEF c
  <2> QED
    BY <1>1, <1>7, <1>8, <2>1 DEF c
<1> QED
  BY <1>1, <1>6, <1>8

\* Only one device changes, into a good one.
LEMMA OneBuffer ==
    ASSUME BufferIInv, NEW d, NEW c, d \in Devs => GoodBuffer(c), dev' = [dev EXCEPT ![d] = c]
    PROVE  BufferIInv'
<1>1. dev' = [e \in Devs |-> IF e = d THEN c ELSE dev[e]]
  BY DEF BufferIInv
<1>2. ASSUME NEW e \in Devs PROVE GoodBuffer(dev'[e])
  BY <1>1 DEF BufferIInv, GoodBuffer
<1> QED
  BY <1>1, <1>2 DEF BufferIInv, GoodBuffer

LEMMA BufferOf == ASSUME BufferIInv, NEW d \in Devs PROVE GoodBuffer(dev[d])
  BY DEF BufferIInv, GoodBuffer

LEMMA HandlerKeepsBuffer == ASSUME BufferIInv, NEW th, trigger_handler(th) PROVE BufferIInv'
<1>1. CASE dev' = dev
  BY <1>1 DEF BufferIInv
<1>2. CASE dev[th.dev].active /\ dev' = [dev EXCEPT ![th.dev] = store_to_kfifo(@, dev[th.dev].mask)]
  <2> DEFINE b == dev[th.dev]
             c == store_to_kfifo(b, b.mask)
  <2>1. dev' = [dev EXCEPT ![th.dev] = c]
    BY <1>2
  <2>2. th.dev \in Devs => GoodBuffer(c)
    BY <1>2, BufferOf, StoreGood
  <2> HIDE DEF c
  <2> QED
    BY <2>1, <2>2, OneBuffer
<1> QED
  BY <1>1, <1>2 DEF trigger_handler

LEMMA AttributesKeepBuffer ==
    ASSUME BufferIInv, NEW d \in Devs,
           \/ \E bit \in Channels, state \in BOOLEAN : scan_el_store(d, bit, state)
           \/ \E n \in Lengths : write_length(d, n)
           \/ \E t \in Trigs \cup {None} : write_current_checks(d, t)
           \/ write_current_sets(d)
    PROVE  BufferIInv'
<1> DEFINE b == dev[d]
<1>0. GoodBuffer(b)
  BY BufferOf
<1>1. ASSUME NEW bit \in Channels, NEW state \in BOOLEAN, scan_el_store(d, bit, state) PROVE BufferIInv'
  <2> DEFINE m == IF state THEN scan_mask_set(b.mask, bit) ELSE scan_mask_clear(b.mask, bit)
             c == [b EXCEPT !.mask = m]
  <2>1. m \in SUBSET Channels /\ ~b.active
    BY <1>0, <1>1 DEF scan_el_store, scan_mask_set, scan_mask_clear, GoodBuffer, BufferOK
  <2>2. dev' = [dev EXCEPT ![d] = c]
    BY <1>1 DEF scan_el_store
  <2>3. GoodBuffer(c)
    BY <1>0, <2>1, MaskGood
  <2> HIDE DEF c
  <2> QED
    BY <2>2, <2>3, OneBuffer
<1>2. ASSUME NEW n \in Lengths, write_length(d, n) PROVE BufferIInv'
  <2> DEFINE l == IF n < 2 THEN 2 ELSE n
             u == (b.update \/ l # b.length)
             c == [b EXCEPT !.length = l, !.update = u]
  <2>1. dev' = [dev EXCEPT ![d].length = l, ![d].update = @ \/ l # dev[d].length] /\ ~b.active
    BY <1>2 DEF write_length
  <2> HIDE DEF l
  <2>2. dev' = [dev EXCEPT ![d] = c]
    BY <1>0, <2>1 DEF BufferIInv, GoodBuffer, BufferOK
  <2>3. GoodBuffer(c)
    BY <1>0, <2>1, LengthGood
  <2> HIDE DEF c
  <2> QED
    BY <2>2, <2>3, OneBuffer
<1>3. ASSUME NEW w, NEW t, NEW r, dev' = [dev EXCEPT ![d] = [b EXCEPT !.writing = w, !.new = t, !.trig = r]]
      PROVE  BufferIInv'
  <2> DEFINE c == [b EXCEPT !.writing = w, !.new = t, !.trig = r]
  <2>1. SameBuffer(b, c)
    BY <1>0 DEF SameBuffer, GoodBuffer, BufferOK
  <2>2. GoodBuffer(c)
    BY <1>0, <2>1, SameBufferGood
  <2> HIDE DEF c
  <2> QED
    BY <1>3, <2>2, OneBuffer DEF c
<1>4. ASSUME NEW t, write_current_checks(d, t) PROVE BufferIInv'
  <2> DEFINE r == b.trig
             w == TRUE
  <2>1. dev' = [dev EXCEPT ![d] = [b EXCEPT !.writing = w, !.new = t, !.trig = r]]
    BY <1>0, <1>4 DEF write_current_checks, GoodBuffer, BufferOK
  <2> HIDE DEF r, w
  <2> QED
    BY <1>3, <2>1
<1>5. ASSUME write_current_sets(d) PROVE BufferIInv'
  <2> DEFINE r == b.new
             w == FALSE
             t == None
  <2>1. dev' = [dev EXCEPT ![d] = [b EXCEPT !.writing = w, !.new = t, !.trig = r]]
    BY <1>0, <1>5 DEF write_current_sets, GoodBuffer, BufferOK
  <2> HIDE DEF r, w, t
  <2> QED
    BY <1>3, <2>1
<1> QED
  BY <1>1, <1>2, <1>4, <1>5

LEMMA EnableKeepsBuffer == ASSUME BufferIInv, NEW d \in Devs, store_enable(d) PROVE BufferIInv'
<1>1. PICK fails \in {FALSE} \cup {"alloc" \in Faults} :
         LET sized == set_bytes_per_datum(dev[d])
             b == request_update_kfifo(sized, fails)
             refused == sized.update /\ (sized.bytes = 0 \/ fails)
         IN  dev' = [dev EXCEPT ![d] =
                       IF refused \/ b.trig = None THEN b
                       ELSE [b EXCEPT !.active = TRUE, !.mode = "triggered", !.op = "attach",
                                      !.alone = (trg[b.trig].pool = {})]]
  BY DEF store_enable
<1> DEFINE b == request_update_kfifo(set_bytes_per_datum(dev[d]), fails)
<1>2. /\ BufferOK(b) /\ b.fifo = <<>> /\ ~b.update /\ b.bytes = compute_scan_bytes(b.mask)
      /\ b.size = 0 \/ b.esize = b.bytes
  <2>1. FALSE \in BOOLEAN /\ ("alloc" \in Faults) \in BOOLEAN
    OBVIOUS
  <2>2. fails \in BOOLEAN
    BY <1>1, <2>1, Zenon
  <2> QED
    BY <2>2, BufferOf, EnableGood
<1>3. PICK a : dev' = [dev EXCEPT ![d] = b] \/
               dev' = [dev EXCEPT ![d] = [b EXCEPT !.active = TRUE, !.mode = "triggered", !.op = "attach",
                                                   !.alone = a]]
  BY <1>1
<1> HIDE DEF b
<1>4. GoodBuffer(b)
  BY <1>2 DEF GoodBuffer, BufferIsCurrent
<1> DEFINE c == [b EXCEPT !.active = TRUE, !.mode = "triggered", !.op = "attach", !.alone = a]
<1>5. BufferOK(c) /\ c.fifo = <<>> /\ ~c.update /\ c.bytes = b.bytes /\ c.mask = b.mask /\ c.size = b.size
      /\ c.esize = b.esize
  BY <1>2 DEF BufferOK
<1>6. GoodBuffer(c)
  BY <1>2, <1>5 DEF GoodBuffer, BufferIsCurrent
<1> HIDE DEF c
<1>7. CASE dev' = [dev EXCEPT ![d] = b]
  BY <1>4, <1>7, OneBuffer
<1>8. CASE dev' = [dev EXCEPT ![d] = c]
  BY <1>6, <1>8, OneBuffer
<1> QED
  BY <1>3, <1>7, <1>8 DEF c

\* The steps that switch a buffer on and off leave what it holds alone.
LEMMA SwitchKeepsBuffer ==
    ASSUME BufferIInv, NEW d \in Devs, NEW c, dev' = [dev EXCEPT ![d] = c],
           SameBuffer(dev[d], c) \/ c = Removed
    PROVE  BufferIInv'
<1>1. GoodBuffer(c)
  BY BufferOf, SameBufferGood, FreshBuffer
<1> QED
  BY <1>1, OneBuffer

LEMMA AttachKeepsBuffer == ASSUME BufferIInv, NEW d \in Devs, attach_poll_func(d) PROVE BufferIInv'
<1> DEFINE b == dev[d]
           t == b.trig
           i == Min(Irqs \ trg[t].pool)
           off == [b EXCEPT !.op = "idle", !.alone = FALSE, !.active = FALSE, !.mode = "direct"]
           on == [b EXCEPT !.op = "idle", !.alone = FALSE, !.irq = i, !.at = t]
           left == [off EXCEPT !.irq = i, !.at = t]
<1>0. BufferOK(b) /\ dev = [e \in Devs |-> dev[e]]
  BY BufferOf DEF GoodBuffer, BufferIInv
<1>1. SameBuffer(b, off) /\ SameBuffer(b, on) /\ SameBuffer(b, left)
  <2> HIDE DEF i, t
  <2> QED
    BY <1>0 DEF SameBuffer, BufferOK
<1>2. \/ dev' = [dev EXCEPT ![d] = off]
      \/ dev' = [dev EXCEPT ![d] = on]
      \/ dev' = [dev EXCEPT ![d] = left]
  <2>1. \/ dev' = [dev EXCEPT ![d].op = "idle", ![d].alone = FALSE, ![d].active = FALSE, ![d].mode = "direct"]
        \/ dev' = [dev EXCEPT ![d].op = "idle", ![d].alone = FALSE, ![d].irq = i, ![d].at = t]
        \/ dev' = [[dev EXCEPT ![d].op = "idle", ![d].alone = FALSE, ![d].active = FALSE, ![d].mode = "direct"]
                     EXCEPT ![d].irq = i, ![d].at = t]
    BY DEF attach_poll_func
  <2> HIDE DEF i, t
  <2> QED
    BY <1>0, <2>1
<1> HIDE DEF off, on, left
<1> QED
  BY <1>1, <1>2, SwitchKeepsBuffer

LEMMA DetachKeepsBuffer ==
    ASSUME BufferIInv, NEW d \in Devs,
           store_disable(d) \/ iio_device_unregister(d) \/ detach_poll_func(d) \/ FreeIrqReturns(d)
    PROVE  BufferIInv'
<1> DEFINE b == dev[d]
<1>0. BufferOK(b) /\ dev = [e \in Devs |-> dev[e]]
  BY BufferOf DEF GoodBuffer, BufferIInv
<1>1. ASSUME NEW o, NEW a, NEW l, dev' = [dev EXCEPT ![d].op = o, ![d].leaves = l, ![d].alone = a]
      PROVE  BufferIInv'
  <2> DEFINE c == [b EXCEPT !.op = o, !.leaves = l, !.alone = a]
  <2>1. SameBuffer(b, c)
    BY <1>0 DEF SameBuffer, BufferOK
  <2>2. dev' = [dev EXCEPT ![d] = c]
    BY <1>0, <1>1
  <2> HIDE DEF c
  <2> QED
    BY <2>1, <2>2, SwitchKeepsBuffer
<1>2. Disabled(b) = Removed \/ SameBuffer(b, Disabled(b))
  <2>1. CASE b.leaves
    BY <2>1 DEF Disabled
  <2>2. CASE ~b.leaves
    <3> DEFINE c == [b EXCEPT !.op = "idle", !.active = FALSE, !.mode = "direct", !.at = None, !.irq = 0]
    <3>1. SameBuffer(b, c)
      BY <1>0 DEF SameBuffer, BufferOK
    <3> HIDE DEF c
    <3> QED
      BY <2>2, <3>1 DEF Disabled, c
  <2> QED
    BY <2>1, <2>2
<1>3. CASE store_disable(d)
  BY <1>1, <1>3 DEF store_disable
<1>4. CASE iio_device_unregister(d)
  <2>1. CASE dev' = [dev EXCEPT ![d] = Removed]
    BY <2>1, SwitchKeepsBuffer
  <2>2. CASE dev' # [dev EXCEPT ![d] = Removed]
    BY <1>1, <1>4, <2>2 DEF iio_device_unregister
  <2> QED
    BY <2>1, <2>2
<1>5. CASE detach_poll_func(d)
  <2> DEFINE c == [b EXCEPT !.op = "free", !.alone = FALSE]
             e == [b EXCEPT !.op = "idle"]
  <2>1. SameBuffer(b, c) /\ SameBuffer(b, e)
    BY <1>0 DEF SameBuffer, BufferOK
  <2>2. \/ dev' = [dev EXCEPT ![d] = c]
        \/ dev' = [dev EXCEPT ![d] = e]
        \/ dev' = [dev EXCEPT ![d] = Disabled(b)]
    BY <1>0, <1>5 DEF detach_poll_func
  <2> HIDE DEF c, e
  <2> QED
    BY <1>2, <2>1, <2>2, SwitchKeepsBuffer
<1>6. CASE FreeIrqReturns(d)
  <2>1. dev' = [dev EXCEPT ![d] = Disabled(b)]
    BY <1>6 DEF FreeIrqReturns
  <2> QED
    BY <1>2, <2>1, SwitchKeepsBuffer
<1> QED
  BY <1>3, <1>4, <1>5, <1>6

LEMMA ReadKeepsBuffer == ASSUME BufferIInv, NEW d \in Devs, NEW n \in 1 .. 2, read_first_n(d, n) PROVE BufferIInv'
<1> DEFINE b == dev[d]
           s == SubSeq(b.fifo, n + 1, Len(b.fifo))
           c == [b EXCEPT !.fifo = s]
<1>0. BufferOK(b) /\ BufferIsCurrent(b)
  BY BufferOf DEF GoodBuffer
<1>1. b.fifo \in Seq(SUBSET Channels) /\ n \in 1 .. Len(b.fifo)
  BY <1>0 DEF read_first_n, BufferOK
<1>2. /\ s \in Seq(SUBSET Channels)
      /\ \A k \in DOMAIN s : s[k] = b.fifo[k + n] /\ k + n \in DOMAIN b.fifo
  BY <1>1, SubSeqProperties
<1>3. dev' = [dev EXCEPT ![d] = c]
  BY DEF read_first_n
<1> HIDE DEF s
<1>4. BufferOK(c)
  BY <1>0, <1>2 DEF BufferOK
<1>5. c.fifo = s /\ c.mask = b.mask /\ c.size = b.size /\ c.update = b.update /\ c.esize = b.esize
      /\ c.bytes = b.bytes /\ c.active = b.active
  BY <1>0 DEF BufferOK
<1>6. b.size # 0
  BY <1>0, <1>1 DEF BufferIsCurrent
<1>7. b.active => \A k \in DOMAIN s : s[k] = b.mask
  BY <1>0, <1>2 DEF BufferIsCurrent
<1>8. GoodBuffer(c)
  BY <1>0, <1>4, <1>5, <1>6, <1>7 DEF GoodBuffer, BufferIsCurrent
<1> HIDE DEF c
<1> QED
  BY <1>3, <1>8, OneBuffer

LEMMA IioNextKeepsBuffer == BufferIInv /\ [IioNext]_iioVars => BufferIInv'
<1> SUFFICES ASSUME BufferIInv, [IioNext]_iioVars PROVE BufferIInv'
  OBVIOUS
<1>1. CASE UNCHANGED dev
  BY <1>1 DEF BufferIInv
<1>2. ASSUME NEW d \in Devs,
             \/ \E bit \in Channels, state \in BOOLEAN : scan_el_store(d, bit, state)
             \/ \E n \in Lengths : write_length(d, n)
             \/ \E t \in Trigs \cup {None} : write_current_checks(d, t)
             \/ write_current_sets(d)
      PROVE  BufferIInv'
  BY <1>2, AttributesKeepBuffer
<1>3. ASSUME NEW d \in Devs, store_enable(d) \/ attach_poll_func(d)
      PROVE  BufferIInv'
  BY <1>3, EnableKeepsBuffer, AttachKeepsBuffer
<1>4. ASSUME NEW d \in Devs,
             store_disable(d) \/ iio_device_unregister(d) \/ detach_poll_func(d) \/ FreeIrqReturns(d)
      PROVE  BufferIInv'
  BY <1>4, DetachKeepsBuffer
<1>5. ASSUME NEW d \in Devs, \E n \in 1 .. 2 : read_first_n(d, n)
      PROVE  BufferIInv'
  BY <1>5, ReadKeepsBuffer
<1>6. ASSUME NEW th, trigger_handler(th) PROVE BufferIInv'
  BY <1>6, HandlerKeepsBuffer
<1>7. ASSUME NEW th, notify_done(th) \/ ThreadEnds(th) PROVE UNCHANGED dev
  BY <1>7 DEF notify_done, ThreadEnds
<1>8. ASSUME NEW t, iio_trigger_poll(t) PROVE UNCHANGED dev
  BY <1>8 DEF iio_trigger_poll
<1>9. CASE UNCHANGED iioVars
  BY <1>1, <1>9 DEF iioVars
<1>10. CASE IioNext
  BY <1>1, <1>2, <1>3, <1>4, <1>5, <1>6, <1>7, <1>8, <1>10 DEF IioNext
<1> QED
  BY <1>9, <1>10

\* The invariant of the buffers holds in every reachable state, for any number of devices,
\* triggers and channels, whatever fails, and with the race on current_trigger.
THEOREM BufferInvariant == IioSpec => []BufferIInv
<1>1. IioInit => BufferIInv
  BY FreshBuffer DEF IioInit, BufferIInv, GoodBuffer
<1> QED
  BY <1>1, IioNextKeepsBuffer, PTL DEF IioSpec

\* A running buffer (iio_buffer_store_enable, iio_request_update_kfifo, iio_store_to_kfifo)
\* holds samples of the scan mask it is enabled with and of their size, always.
THEOREM SamplesMatchMask == IioSpec => []DataMatchesMask
<1>1. BufferIInv => DataMatchesMask
  BY DEF BufferIInv, BufferIsCurrent, DataMatchesMask
<1> QED
  BY <1>1, BufferInvariant, PTL

-----------------------------------------------------------------------------
(* Counting the threads that have yet to notify a trigger *)

Waits(T, t) == {th \in T : th.trig = t /\ th.pc \in {"push", "notify"}}
ThreadType == [trig : Trigs, irq : Irqs, dev : Devs, pc : {"push", "notify", "end"}]

LEMMA WaitsFinite ==
    ASSUME NEW T, IsFiniteSet(T), NEW t
    PROVE  IsFiniteSet(Waits(T, t)) /\ Cardinality(Waits(T, t)) \in Nat
<1>1. Waits(T, t) \in SUBSET T
  BY DEF Waits
<1> QED
  BY <1>1, FS_Subset, FS_CardinalityType

\* A thread that has pushed its datum still waits.
LEMMA PushedWaits ==
    ASSUME NEW T \in SUBSET ThreadType, IsFiniteSet(T), NEW th \in T, th.pc = "push",
           NEW v, v = [th EXCEPT !.pc = "notify"], v \notin T, NEW t
    PROVE  Cardinality(Waits((T \ {th}) \cup {v}, t)) = Cardinality(Waits(T, t))
<1> DEFINE Before == Waits(T, t)
           After == Waits((T \ {th}) \cup {v}, t)
<1>1. v.pc = "notify" /\ v.trig = th.trig
  BY DEF ThreadType
<1>2. CASE th.trig # t
  <2>1. After = Before
    BY <1>1, <1>2 DEF Waits
  <2> QED
    BY <2>1
<1>3. CASE th.trig = t
  <2>1. After = (Before \ {th}) \cup {v} /\ th \in Before /\ v \notin Before \ {th}
    BY <1>1, <1>3 DEF Waits
  <2>2. IsFiniteSet(Before) /\ Cardinality(Before) \in Nat
    BY WaitsFinite
  <2> HIDE DEF Before, After
  <2> DEFINE U == Before \ {th}
  <2>3. IsFiniteSet(U) /\ Cardinality(U) = Cardinality(Before) - 1
    BY <2>1, <2>2, FS_RemoveElement
  <2>4. v \notin U /\ After = U \cup {v}
    BY <2>1
  <2> HIDE DEF U
  <2>5. Cardinality(After) = Cardinality(U) + 1
    BY <2>3, <2>4, FS_AddElement
  <2> QED
    BY <2>2, <2>3, <2>5 DEF After, Before
<1> QED
  BY <1>2, <1>3

\* One that has notified does not.
LEMMA NotifiedLeaves ==
    ASSUME NEW T \in SUBSET ThreadType, IsFiniteSet(T), NEW th \in T, th.pc = "notify",
           NEW v, v = [th EXCEPT !.pc = "end"], NEW t
    PROVE  Cardinality(Waits((T \ {th}) \cup {v}, t)) =
               IF t = th.trig THEN Cardinality(Waits(T, t)) - 1 ELSE Cardinality(Waits(T, t))
<1> DEFINE Before == Waits(T, t)
           After == Waits((T \ {th}) \cup {v}, t)
<1>1. v.pc = "end"
  BY DEF ThreadType
<1>2. CASE th.trig # t
  <2>1. After = Before
    BY <1>1, <1>2 DEF Waits
  <2> QED
    BY <1>2, <2>1
<1>3. CASE th.trig = t
  <2>1. After = Before \ {th} /\ th \in Before
    BY <1>1, <1>3 DEF Waits
  <2>2. IsFiniteSet(Before)
    BY WaitsFinite
  <2> HIDE DEF Before, After
  <2>3. Cardinality(After) = Cardinality(Before) - 1
    BY <2>1, <2>2, FS_RemoveElement
  <2> QED
    BY <1>3, <2>3 DEF After, Before
<1> QED
  BY <1>2, <1>3

Woken(t, h, E) == {[trig |-> t, irq |-> i, dev |-> h[i], pc |-> "push"] : i \in E}

\* iio_trigger_poll wakes one thread for each sub-interrupt that is enabled.
LEMMA WokenWait ==
    ASSUME NEW T, IsFiniteSet(T), NEW t, Cardinality(Waits(T, t)) = 0,
           NEW h, NEW E, IsFiniteSet(E)
    PROVE  /\ IsFiniteSet(T \cup Woken(t, h, E))
           /\ Cardinality(Waits(T \cup Woken(t, h, E), t)) = Cardinality(E)
           /\ \A r : r # t => Waits(T \cup Woken(t, h, E), r) = Waits(T, r)
<1> DEFINE R(i) == [trig |-> t, irq |-> i, dev |-> h[i], pc |-> "push"]
           new == {R(i) : i \in E}
           f == [i \in E |-> R(i)]
<1>1. Waits(T, t) = {}
  BY WaitsFinite, FS_EmptySet
<1>2. f \in [E -> new] /\ (\A a, b \in E : f[a] = f[b] => a = b) /\ (\A n \in new : \E a \in E : f[a] = n)
  OBVIOUS
<1>3. f \in Bijection(E, new)
  <2> HIDE DEF f, new
  <2> QED
    BY <1>2, Fun_IsBij
<1>4. ExistsBijection(E, new)
  <2> HIDE DEF f, new
  <2> QED
    BY <1>3, Fun_ExistsBij
<1>5. IsFiniteSet(new) /\ Cardinality(new) = Cardinality(E)
  <2> HIDE DEF f, new
  <2> QED
    BY <1>4, FS_Bijection
<1>6. Waits(T \cup new, t) = new
  BY <1>1 DEF Waits
<1>7. \A r : r # t => Waits(T \cup new, r) = Waits(T, r)
  BY DEF Waits
<1>8. IsFiniteSet(T \cup new)
  <2> HIDE DEF f, new
  <2> QED
    BY <1>5, FS_Union
<1>9. new = Woken(t, h, E)
  BY DEF Woken
<1> HIDE DEF new
<1> QED
  BY <1>5, <1>6, <1>7, <1>8, <1>9

\* A set of places has a least one.
LEMMA LeastPlace ==
    ASSUME NEW S \in SUBSET Nat, S # {}
    PROVE  (CHOOSE i \in S : \A j \in S : i <= j) \in S
<1> DEFINE R == {ss \in Nat \X Nat : ss[1] < ss[2]}
<1>1. OpToRel(<, Nat) = R
  BY DEF OpToRel
<1>2. IsWellFoundedOn(R, Nat)
  BY <1>1, NatLessThanWellFounded
<1>3. PICK x \in S : \A y \in S : ~ (<<y, x>> \in R)
  <2> HIDE DEF R
  <2> QED
    BY <1>2, WFMin
<1>4. ASSUME NEW y \in S PROVE x <= y
  <2>1. x \in Nat /\ y \in Nat
    OBVIOUS
  <2>2. <<y, x>> \notin R
    BY <1>3
  <2> QED
    BY <2>1, <2>2
<1> QED
  BY <1>4

\* The sub-interrupt that iio_trigger_get_irq finds is one of the trigger's.
LEMMA LeastIrq == ASSUME NEW S \in SUBSET Irqs, S # {} PROVE Min(S) \in S
<1>1. S \in SUBSET Nat
  BY IioAssumption
<1> QED
  BY <1>1, LeastPlace DEF Min

-----------------------------------------------------------------------------
(* The steps of a device, the triggers and the threads left alone *)

SettledDevice(b) == ConsumerOK(b) /\ ConsumerIsSettled(b)

LEMMA FreshDevice == SettledDevice(SetUp) /\ SettledDevice(Removed)
<1>1. SettledDevice(SetUp)
  BY DEF SettledDevice, ConsumerOK, ConsumerIsSettled, SetUp
<1>2. SettledDevice(Removed)
  BY DEF SettledDevice, ConsumerOK, ConsumerIsSettled, SetUp, Removed
<1> QED
  BY <1>1, <1>2

\* Whoever counts on the sub-interrupt of b may go on to count on that of c.
KeepsHold(b, c, threaded) ==
    /\ b.active /\ b.op \in {"idle", "detach"} =>
          c.active /\ c.op \in {"idle", "detach"} /\ c.at = b.at /\ c.irq = b.irq
    /\ threaded => c.active /\ c.op \in {"idle", "detach", "free"} /\ c.at = b.at /\ c.irq = b.irq

Threaded(d) == \E th \in threads : th.dev = d

LEMMA DeviceStep ==
    ASSUME TriggerIInv, NEW d \in Devs, NEW c, SettledDevice(c), KeepsHold(dev[d], c, Threaded(d)),
           dev' = [dev EXCEPT ![d] = c], UNCHANGED <<trg, threads>>
    PROVE  TriggerIInv'
<1>0. /\ TriggerTypeOK
      /\ dev' = [e \in Devs |-> IF e = d THEN c ELSE dev[e]]
  BY DEF TriggerIInv, TriggerTypeOK
<1>1. \A e \in Devs : ConsumerOK(dev'[e]) /\ ConsumerIsSettled(dev'[e])
  BY <1>0 DEF SettledDevice, TriggerIInv, TriggerTypeOK
<1>2. TriggerTypeOK'
  BY <1>0, <1>1 DEF TriggerTypeOK
<1>3. HandlersAreHeld'
  <2> SUFFICES ASSUME NEW t \in Trigs, NEW i \in Irqs, trg[t].handler[i] # None
               PROVE  LET b == dev'[trg[t].handler[i]]
                      IN  i \in trg[t].pool /\ b.active /\ b.op \in {"idle", "detach"} /\ b.at = t /\ b.irq = i
    BY DEF HandlersAreHeld
  <2>1. trg[t].handler[i] \in Devs
    BY <1>0 DEF TriggerTypeOK
  <2>2. LET b == dev[trg[t].handler[i]]
        IN  i \in trg[t].pool /\ b.active /\ b.op \in {"idle", "detach"} /\ b.at = t /\ b.irq = i
    BY DEF TriggerIInv, HandlersAreHeld
  <2> QED
    BY <1>0, <2>1, <2>2 DEF KeepsHold
<1>4. ThreadsAreOwned'
  <2> SUFFICES ASSUME NEW th \in threads
               PROVE  LET b == dev'[th.dev]
                      IN  b.active /\ b.op \in {"idle", "detach", "free"} /\ b.at = th.trig /\ b.irq = th.irq
    BY DEF ThreadsAreOwned, TriggerIInv
  <2>1. th.dev \in Devs
    BY <1>0 DEF TriggerTypeOK
  <2>2. LET b == dev[th.dev]
        IN  b.active /\ b.op \in {"idle", "detach", "free"} /\ b.at = th.trig /\ b.irq = th.irq
    BY DEF TriggerIInv, ThreadsAreOwned
  <2>3. th.dev = d => Threaded(d)
    BY DEF Threaded
  <2> QED
    BY <1>0, <2>1, <2>2, <2>3 DEF KeepsHold
<1>5. TriggerNotStuck'
  BY DEF TriggerIInv, TriggerNotStuck
<1> QED
  BY <1>1, <1>2, <1>3, <1>4, <1>5 DEF TriggerIInv

LEMMA DeviceOf ==
    ASSUME TriggerIInv, NEW d \in Devs
    PROVE  SettledDevice(dev[d]) /\ (Threaded(d) => dev[d].active /\ dev[d].op \in {"idle", "detach", "free"})
  BY DEF TriggerIInv, TriggerTypeOK, SettledDevice, ThreadsAreOwned, Threaded

\* A step that does not touch what the triggers know of a device
SameConsumer(b, c) ==
    /\ ConsumerOK(c)
    /\ c.active = b.active /\ c.mode = b.mode /\ c.trig = b.trig /\ c.op = b.op /\ c.at = b.at
    /\ c.irq = b.irq /\ c.writing = b.writing

LEMMA SameStep ==
    ASSUME TriggerIInv, NEW d \in Devs, NEW c, SameConsumer(dev[d], c),
           dev' = [dev EXCEPT ![d] = c], UNCHANGED <<trg, threads>>
    PROVE  TriggerIInv'
<1>1. SettledDevice(c)
  BY DeviceOf DEF SettledDevice, SameConsumer, ConsumerIsSettled
<1>2. KeepsHold(dev[d], c, Threaded(d))
  BY DeviceOf DEF KeepsHold, SameConsumer
<1> QED
  BY <1>1, <1>2, DeviceStep

LEMMA DataStepsKeepTriggers ==
    ASSUME TriggerIInv, NEW d \in Devs,
           \/ \E bit \in Channels, state \in BOOLEAN : scan_el_store(d, bit, state)
           \/ \E n \in Lengths : write_length(d, n)
           \/ \E n \in 1 .. 2 : read_first_n(d, n)
    PROVE  TriggerIInv'
<1> DEFINE b == dev[d]
<1>0. ConsumerOK(b) /\ UNCHANGED <<trg, threads>> /\ dev = [e \in Devs |-> dev[e]]
  BY DeviceOf DEF SettledDevice, scan_el_store, write_length, read_first_n, TriggerIInv, TriggerTypeOK
<1>1. ASSUME NEW m, NEW l, NEW u, NEW f,
             dev' = [dev EXCEPT ![d] = [b EXCEPT !.mask = m, !.length = l, !.update = u, !.fifo = f]]
      PROVE  TriggerIInv'
  <2> DEFINE c == [b EXCEPT !.mask = m, !.length = l, !.update = u, !.fifo = f]
  <2>1. SameConsumer(b, c)
    BY <1>0 DEF SameConsumer, ConsumerOK
  <2> HIDE DEF c
  <2> QED
    BY <1>0, <1>1, <2>1, SameStep DEF c
<1>2. \E m, l, u, f : dev' = [dev EXCEPT ![d] = [b EXCEPT !.mask = m, !.length = l, !.update = u, !.fifo = f]]
  <2>1. CASE \E bit \in Channels, state \in BOOLEAN : scan_el_store(d, bit, state)
    <3>1. PICK m : dev' = [dev EXCEPT ![d].mask = m]
      BY <2>1 DEF scan_el_store
    <3>2. dev' = [dev EXCEPT ![d] = [b EXCEPT !.mask = m, !.length = b.length, !.update = b.update, !.fifo = b.fifo]]
      BY <1>0, <3>1 DEF ConsumerOK
    <3> QED
      BY <3>2
  <2>2. CASE \E n \in Lengths : write_length(d, n)
    <3>1. PICK l, u : dev' = [dev EXCEPT ![d].length = l, ![d].update = u]
      BY <2>2 DEF write_length
    <3>2. dev' = [dev EXCEPT ![d] = [b EXCEPT !.mask = b.mask, !.length = l, !.update = u, !.fifo = b.fifo]]
      BY <1>0, <3>1 DEF ConsumerOK
    <3> QED
      BY <3>2
  <2>3. CASE \E n \in 1 .. 2 : read_first_n(d, n)
    <3>1. PICK f : dev' = [dev EXCEPT ![d].fifo = f]
      BY <2>3 DEF read_first_n
    <3>2. dev' = [dev EXCEPT ![d] = [b EXCEPT !.mask = b.mask, !.length = b.length, !.update = b.update, !.fifo = f]]
      BY <1>0, <3>1 DEF ConsumerOK
    <3> QED
      BY <3>2
  <2> QED
    BY <2>1, <2>2, <2>3
<1> QED
  BY <1>1, <1>2

\* Without the race, current_trigger is written only while the buffer is off.
LEMMA CurrentKeepsTriggers ==
    ASSUME TriggerIInv, ~Race, NEW d \in Devs,
           (\E t \in Trigs \cup {None} : write_current_checks(d, t)) \/ write_current_sets(d)
    PROVE  TriggerIInv'
<1> DEFINE b == dev[d]
<1>0. /\ ConsumerOK(b) /\ ConsumerIsSettled(b) /\ UNCHANGED <<trg, threads>>
      /\ Threaded(d) => b.active
  BY DeviceOf DEF SettledDevice, write_current_checks, write_current_sets
<1>1. ASSUME NEW c, SettledDevice(c), ~b.active, dev' = [dev EXCEPT ![d] = c] PROVE TriggerIInv'
  <2>1. KeepsHold(b, c, Threaded(d))
    BY <1>0, <1>1 DEF KeepsHold
  <2> QED
    BY <1>0, <1>1, <2>1, DeviceStep
<1>2. ASSUME NEW t \in Trigs \cup {None}, write_current_checks(d, t) PROVE TriggerIInv'
  <2> DEFINE c == [b EXCEPT !.writing = TRUE, !.new = t]
  <2>1. ~b.active
    BY <1>0, <1>2 DEF write_current_checks, ConsumerIsSettled
  <2>2. SettledDevice(c)
    BY <1>0, <2>1 DEF SettledDevice, ConsumerOK, ConsumerIsSettled
  <2>3. dev' = [dev EXCEPT ![d] = c]
    BY <1>2 DEF write_current_checks
  <2> HIDE DEF c
  <2> QED
    BY <1>1, <2>1, <2>2, <2>3
<1>3. ASSUME write_current_sets(d) PROVE TriggerIInv'
  <2> DEFINE c == [b EXCEPT !.writing = FALSE, !.new = None, !.trig = b.new]
  <2>1. ~b.active
    BY <1>0, <1>3 DEF write_current_sets, ConsumerIsSettled
  <2>2. SettledDevice(c)
    BY <1>0, <2>1 DEF SettledDevice, ConsumerOK, ConsumerIsSettled
  <2>3. dev' = [dev EXCEPT ![d] = c]
    BY <1>3 DEF write_current_sets
  <2> HIDE DEF c
  <2> QED
    BY <1>1, <2>1, <2>2, <2>3
<1> QED
  BY <1>2, <1>3

LEMMA EnableKeepsTriggers == ASSUME TriggerIInv, ~Race, NEW d \in Devs, store_enable(d) PROVE TriggerIInv'
<1> DEFINE o == dev[d]
<1>0. /\ ConsumerOK(o) /\ ConsumerIsSettled(o) /\ UNCHANGED <<trg, threads>>
      /\ Threaded(d) => o.active
  BY DeviceOf DEF SettledDevice, store_enable
<1>1. ~o.active /\ ~o.writing /\ o.op = "idle"
  BY DEF store_enable, Unlocked
<1>2. PICK fails \in {FALSE} \cup {"alloc" \in Faults} :
         LET sized == set_bytes_per_datum(dev[d])
             b == request_update_kfifo(sized, fails)
             refused == sized.update /\ (sized.bytes = 0 \/ fails)
         IN  dev' = [dev EXCEPT ![d] =
                       IF refused \/ b.trig = None THEN b
                       ELSE [b EXCEPT !.active = TRUE, !.mode = "triggered", !.op = "attach",
                                      !.alone = (trg[b.trig].pool = {})]]
  BY DEF store_enable
<1> DEFINE s == set_bytes_per_datum(dev[d])
           b == request_update_kfifo(s, fails)
<1>3. SameConsumer(o, s)
  <2>1. ASSUME NEW n, NEW u PROVE SameConsumer(o, [o EXCEPT !.bytes = n, !.update = u])
    BY <1>0 DEF SameConsumer, ConsumerOK
  <2> QED
    BY <2>1 DEF set_bytes_per_datum
<1>4. SameConsumer(o, b)
  <2>0. ConsumerOK(s)
    BY <1>3 DEF SameConsumer
  <2> HIDE DEF s
  <2>1. ASSUME NEW u, NEW f, NEW z, NEW e
        PROVE  SameConsumer(s, [s EXCEPT !.update = u, !.fifo = f, !.size = z, !.esize = e])
    BY <2>0 DEF SameConsumer, ConsumerOK
  <2>2. ASSUME NEW f PROVE SameConsumer(s, [s EXCEPT !.fifo = f])
    BY <2>0 DEF SameConsumer, ConsumerOK
  <2>3. SameConsumer(s, b)
    BY <2>1, <2>2 DEF request_update_kfifo
  <2> HIDE DEF b
  <2> QED
    BY <1>3, <2>3 DEF SameConsumer
<1>5. PICK a : dev' = [dev EXCEPT ![d] = b] \/
               (b.trig # None /\ dev' = [dev EXCEPT ![d] =
                   [b EXCEPT !.active = TRUE, !.mode = "triggered", !.op = "attach", !.alone = a]])
  BY <1>2
<1> HIDE DEF s, b
<1>6. CASE dev' = [dev EXCEPT ![d] = b]
  BY <1>0, <1>4, <1>6, SameStep
<1>7. CASE b.trig # None /\ dev' = [dev EXCEPT ![d] =
              [b EXCEPT !.active = TRUE, !.mode = "triggered", !.op = "attach", !.alone = a]]
  <2> DEFINE c == [b EXCEPT !.active = TRUE, !.mode = "triggered", !.op = "attach", !.alone = a]
  <2>1. ConsumerOK(b) /\ ~b.writing
    BY <1>1, <1>4 DEF SameConsumer
  <2>2. SettledDevice(c)
    BY <1>7, <2>1 DEF SettledDevice, ConsumerOK, ConsumerIsSettled
  <2>3. KeepsHold(o, c, Threaded(d))
    BY <1>0, <1>1 DEF KeepsHold
  <2>4. dev' = [dev EXCEPT ![d] = c]
    BY <1>7
  <2> HIDE DEF c
  <2> QED
    BY <1>0, <2>2, <2>3, <2>4, DeviceStep
<1> QED
  BY <1>5, <1>6, <1>7

\* The buffer is switched off: the look at the pool, and the end of it.
LEMMA DisableKeepsTriggers ==
    ASSUME TriggerIInv, NEW d \in Devs, store_disable(d) \/ iio_device_unregister(d) \/ FreeIrqReturns(d)
    PROVE  TriggerIInv'
<1> DEFINE b == dev[d]
<1>0. /\ ConsumerOK(b) /\ ConsumerIsSettled(b) /\ UNCHANGED <<trg, threads>>
      /\ Threaded(d) => b.active
  BY DeviceOf DEF SettledDevice, store_disable, iio_device_unregister, FreeIrqReturns
<1>1. ASSUME NEW l, NEW a, b.active, b.op = "idle",
             dev' = [dev EXCEPT ![d].op = "detach", ![d].leaves = l, ![d].alone = a]
      PROVE  TriggerIInv'
  <2> DEFINE c == [b EXCEPT !.op = "detach", !.leaves = l, !.alone = a]
  <2>1. SettledDevice(c)
    BY <1>0, <1>1 DEF SettledDevice, ConsumerOK, ConsumerIsSettled
  <2>2. KeepsHold(b, c, Threaded(d))
    BY <1>0, <1>1 DEF KeepsHold, ConsumerOK
  <2>3. dev' = [dev EXCEPT ![d] = c]
    BY <1>0, <1>1 DEF TriggerIInv, TriggerTypeOK
  <2> HIDE DEF c
  <2> QED
    BY <1>0, <2>1, <2>2, <2>3, DeviceStep
<1>2. CASE store_disable(d)
  BY <1>1, <1>2 DEF store_disable, Unlocked
<1>3. CASE iio_device_unregister(d)
  <2>1. CASE ~b.active
    <3>1. dev' = [dev EXCEPT ![d] = Removed]
      BY <1>3, <2>1 DEF iio_device_unregister
    <3>2. KeepsHold(b, Removed, Threaded(d))
      BY <1>0, <2>1 DEF KeepsHold
    <3> QED
      BY <1>0, <3>1, <3>2, FreshDevice, DeviceStep
  <2>2. CASE b.active
    BY <1>1, <1>3, <2>2 DEF iio_device_unregister, Unlocked
  <2> QED
    BY <2>1, <2>2
<1>4. CASE FreeIrqReturns(d)
  <2>1. ~Threaded(d)
    BY <1>4 DEF FreeIrqReturns, Threaded, TriggerIInv, ThreadsAreOwned
  <2>2. KeepsHold(b, Disabled(b), Threaded(d))
    BY <1>4, <2>1 DEF KeepsHold, FreeIrqReturns
  <2>3. SettledDevice(Disabled(b))
    <3>1. CASE b.leaves
      BY <3>1, FreshDevice DEF Disabled
    <3>2. CASE ~b.leaves
      <4> DEFINE c == [b EXCEPT !.op = "idle", !.active = FALSE, !.mode = "direct", !.at = None, !.irq = 0]
      <4>1. SettledDevice(c)
        BY <1>0 DEF SettledDevice, ConsumerOK, ConsumerIsSettled
      <4> HIDE DEF c
      <4> QED
        BY <3>2, <4>1 DEF Disabled, c
    <3> QED
      BY <3>1, <3>2
  <2>4. dev' = [dev EXCEPT ![d] = Disabled(b)]
    BY <1>4 DEF FreeIrqReturns
  <2> QED
    BY <1>0, <2>2, <2>3, <2>4, DeviceStep
<1> QED
  BY <1>2, <1>3, <1>4

-----------------------------------------------------------------------------
(* A sub-interrupt is taken and given back *)

TrgType == [pool : SUBSET Irqs, handler : [Irqs -> Devs \cup {None}], on : BOOLEAN, use : Int]

\* A step that changes one device and one trigger and not how many are waited for
LEMMA TriggerStep ==
    ASSUME TriggerIInv, NEW d \in Devs, NEW c, SettledDevice(c), dev' = [dev EXCEPT ![d] = c],
           NEW t \in Trigs, NEW u \in TrgType, u.use = trg[t].use, trg' = [trg EXCEPT ![t] = u],
           Threaded(d) => c.active /\ c.op \in {"idle", "detach", "free"} /\ c.at = dev[d].at /\ c.irq = dev[d].irq,
           \A r \in Trigs, i \in Irqs : trg'[r].handler[i] # None =>
               LET e == dev'[trg'[r].handler[i]]
               IN  i \in trg'[r].pool /\ e.active /\ e.op \in {"idle", "detach"} /\ e.at = r /\ e.irq = i,
           UNCHANGED threads
    PROVE  TriggerIInv'
<1>0. /\ TriggerTypeOK
      /\ dev' = [e \in Devs |-> IF e = d THEN c ELSE dev[e]]
  BY DEF TriggerIInv, TriggerTypeOK
<1>1. \A e \in Devs : ConsumerOK(dev'[e]) /\ ConsumerIsSettled(dev'[e])
  BY <1>0 DEF SettledDevice, TriggerIInv, TriggerTypeOK
<1>2. trg' \in [Trigs -> TrgType]
  BY <1>0 DEF TriggerTypeOK, TrgType
<1>3. TriggerTypeOK'
  BY <1>0, <1>1, <1>2 DEF TriggerTypeOK, TrgType
<1>4. HandlersAreHeld'
  BY DEF HandlersAreHeld
<1>5. ThreadsAreOwned'
  <2> SUFFICES ASSUME NEW th \in threads
               PROVE  LET b == dev'[th.dev]
                      IN  b.active /\ b.op \in {"idle", "detach", "free"} /\ b.at = th.trig /\ b.irq = th.irq
    BY DEF ThreadsAreOwned, TriggerIInv
  <2>1. th.dev \in Devs
    BY <1>0 DEF TriggerTypeOK
  <2>2. LET b == dev[th.dev]
        IN  b.active /\ b.op \in {"idle", "detach", "free"} /\ b.at = th.trig /\ b.irq = th.irq
    BY DEF TriggerIInv, ThreadsAreOwned
  <2>3. th.dev = d => Threaded(d)
    BY DEF Threaded
  <2> QED
    BY <1>0, <2>1, <2>2, <2>3
<1>6. TriggerNotStuck'
  <2>1. \A r \in Trigs : trg'[r].use = trg[r].use
    BY <1>0 DEF TriggerTypeOK
  <2> QED
    BY <2>1 DEF TriggerIInv, TriggerNotStuck
<1> QED
  BY <1>1, <1>3, <1>4, <1>5, <1>6 DEF TriggerIInv

LEMMA AttachKeepsTriggers ==
    ASSUME TriggerIInv, "state" \notin Faults, NEW d \in Devs, attach_poll_func(d)
    PROVE  TriggerIInv'
<1> DEFINE b == dev[d]
           t == b.trig
           i == Min(Irqs \ trg[t].pool)
<1>0. /\ ConsumerOK(b) /\ ConsumerIsSettled(b) /\ UNCHANGED threads /\ b.op = "attach" /\ t \in Trigs
      /\ ~Threaded(d)
      /\ dev = [e \in Devs |-> dev[e]] /\ trg \in [Trigs -> TrgType]
  BY DeviceOf DEF SettledDevice, attach_poll_func, ConsumerOK, TriggerIInv, TriggerTypeOK, TrgType
<1>1. CASE /\ dev' = [dev EXCEPT ![d].op = "idle", ![d].alone = FALSE, ![d].active = FALSE, ![d].mode = "direct"]
           /\ UNCHANGED trg
  <2> DEFINE c == [b EXCEPT !.op = "idle", !.alone = FALSE, !.active = FALSE, !.mode = "direct"]
  <2>1. SettledDevice(c)
    BY <1>0 DEF SettledDevice, ConsumerOK, ConsumerIsSettled
  <2>2. KeepsHold(b, c, Threaded(d))
    BY <1>0 DEF KeepsHold
  <2>3. dev' = [dev EXCEPT ![d] = c]
    BY <1>0, <1>1
  <2> HIDE DEF c
  <2> QED
    BY <1>0, <1>1, <2>1, <2>2, <2>3, DeviceStep
<1>2. CASE /\ trg[t].pool # Irqs
           /\ dev' = [dev EXCEPT ![d].op = "idle", ![d].alone = FALSE, ![d].irq = i, ![d].at = t]
           /\ trg' = LET taken == [trg EXCEPT ![t].pool = @ \cup {i}, ![t].handler[i] = d]
                     IN  IF b.alone THEN [taken EXCEPT ![t].on = TRUE] ELSE taken
  <2> DEFINE c == [b EXCEPT !.op = "idle", !.alone = FALSE, !.irq = i, !.at = t]
             v == trg[t]
             on == IF b.alone THEN TRUE ELSE v.on
             u == [pool |-> v.pool \cup {i}, handler |-> [v.handler EXCEPT ![i] = d], on |-> on, use |-> v.use]
  <2>0. v \in TrgType
    BY <1>0
  <2>1. i \in Irqs \ v.pool
    <3>1. Irqs \ v.pool \in SUBSET Irqs /\ Irqs \ v.pool # {}
      BY <1>2, <2>0 DEF TrgType
    <3> QED
      BY <3>1, LeastIrq
  <2>2. on \in BOOLEAN
    BY <2>0 DEF TrgType
  <2>3. trg' = [trg EXCEPT ![t] = u]
    <3> DEFINE taken == [trg EXCEPT ![t].pool = @ \cup {i}, ![t].handler[i] = d]
               w == [v EXCEPT !.pool = @ \cup {i}, !.handler = [v.handler EXCEPT ![i] = d]]
    <3>1. trg' = IF b.alone THEN [taken EXCEPT ![t].on = TRUE] ELSE taken
      BY <1>2
    <3> HIDE DEF i
    <3>2. taken = [trg EXCEPT ![t] = w]
      BY <1>0, <2>0 DEF TrgType
    <3>3. w \in [pool : {w.pool}, handler : {w.handler}, on : {v.on}, use : {v.use}]
      BY <2>0 DEF TrgType
    <3>4. w.pool = v.pool \cup {i} /\ w.handler = [v.handler EXCEPT ![i] = d]
      BY <2>0 DEF TrgType
    <3> HIDE DEF w, taken, t
    <3>5. trg' = IF b.alone THEN [trg EXCEPT ![t] = [w EXCEPT !.on = TRUE]] ELSE [trg EXCEPT ![t] = w]
      BY <1>0, <3>1, <3>2
    <3>6. CASE b.alone
      <4> DEFINE x == [w EXCEPT !.on = TRUE]
      <4>0. x \in [pool : {w.pool}, handler : {w.handler}, on : {TRUE}, use : {v.use}]
        BY <3>3
      <4> HIDE DEF x
      <4>1. x = u
        BY <3>4, <3>6, <4>0
      <4> QED
        BY <3>5, <3>6, <4>1 DEF x
    <3>7. CASE ~b.alone
      <4>1. w = u
        BY <3>3, <3>4, <3>7
      <4> QED
        BY <3>5, <3>7, <4>1
    <3> QED
      BY <3>6, <3>7
  <2> HIDE DEF i, on
  <2>4. u \in TrgType
    BY <2>0, <2>1, <2>2 DEF TrgType
  <2>5. SettledDevice(c)
    BY <1>0, <2>1 DEF SettledDevice, ConsumerOK, ConsumerIsSettled
  <2>6. dev' = [dev EXCEPT ![d] = c]
    BY <1>0, <1>2
  <2>7. /\ c.active /\ c.op = "idle" /\ c.at = t /\ c.irq = i
    BY <1>0 DEF ConsumerOK, ConsumerIsSettled
  <2> HIDE DEF c, u
  <2>8. ASSUME NEW r \in Trigs, NEW j \in Irqs, trg'[r].handler[j] # None
        PROVE  LET e == dev'[trg'[r].handler[j]]
               IN  j \in trg'[r].pool /\ e.active /\ e.op \in {"idle", "detach"} /\ e.at = r /\ e.irq = j
    <3>1. CASE r = t /\ j = i
      <4>1. trg'[r] = u
        BY <1>0, <2>3, <3>1
      <4>2. u.handler[j] = d /\ j \in u.pool
        BY <2>0, <2>1, <3>1 DEF u, TrgType
      <4>3. dev'[d] = c
        BY <1>0, <2>6
      <4> QED
        BY <2>7, <3>1, <4>1, <4>2, <4>3
    <3>2. CASE ~ (r = t /\ j = i)
      <4>1. trg'[r].handler[j] = trg[r].handler[j] /\ trg[r].pool \subseteq trg'[r].pool
        BY <1>0, <2>0, <2>1, <2>3, <3>2 DEF u, TrgType
      <4>2. LET e == dev[trg[r].handler[j]]
            IN  j \in trg[r].pool /\ e.active /\ e.op \in {"idle", "detach"} /\ e.at = r /\ e.irq = j
        BY <2>8, <4>1 DEF TriggerIInv, HandlersAreHeld
      <4>3. trg[r].handler[j] \in Devs
        BY <1>0, <2>8, <4>1 DEF TrgType
      <4>4. trg[r].handler[j] # d
        BY <1>0, <4>2
      <4>5. dev'[trg[r].handler[j]] = dev[trg[r].handler[j]]
        BY <1>0, <2>6, <4>3, <4>4
      <4> QED
        BY <4>1, <4>2, <4>5
    <3> QED
      BY <3>1, <3>2
  <2>9. u.use = trg[t].use
    BY DEF u
  <2> HIDE DEF v, t
  <2> QED
    BY <1>0, <2>3, <2>4, <2>5, <2>6, <2>8, <2>9, TriggerStep
<1> QED
  BY <1>1, <1>2 DEF attach_poll_func

LEMMA DetachKeepsTriggers ==
    ASSUME TriggerIInv, "state" \notin Faults, NEW d \in Devs, detach_poll_func(d)
    PROVE  TriggerIInv'
<1> DEFINE b == dev[d]
           t == b.trig
           i == b.irq
           v == trg[t]
           on == IF b.alone THEN FALSE ELSE v.on
           c == [b EXCEPT !.op = "free", !.alone = FALSE]
           u == [pool |-> v.pool \ {i}, handler |-> [v.handler EXCEPT ![i] = None], on |-> on, use |-> v.use]
<1>0. /\ ConsumerOK(b) /\ ConsumerIsSettled(b) /\ UNCHANGED threads /\ b.op = "detach" /\ t \in Trigs
      /\ dev = [e \in Devs |-> dev[e]] /\ trg \in [Trigs -> TrgType]
  BY DeviceOf DEF SettledDevice, detach_poll_func, ConsumerOK, TriggerIInv, TriggerTypeOK, TrgType
<1>1. b.active /\ b.at = t /\ i \in Irqs
  BY <1>0 DEF ConsumerIsSettled
<1>2. v \in TrgType /\ on \in BOOLEAN
  BY <1>0 DEF TrgType
<1>3. dev' = [dev EXCEPT ![d] = c]
  BY <1>0 DEF detach_poll_func
<1>4. trg' = [trg EXCEPT ![t] = u]
  <2> DEFINE freed == [trg EXCEPT ![b.at].handler[b.irq] = None, ![t].pool = IF t = b.at THEN @ \ {b.irq} ELSE @]
             w == [v EXCEPT !.pool = @ \ {i}, !.handler = [v.handler EXCEPT ![i] = None]]
  <2>1. trg' = IF b.alone THEN [freed EXCEPT ![t].on = FALSE] ELSE freed
    BY DEF detach_poll_func
  <2>2. freed = [trg EXCEPT ![t] = w]
    BY <1>0, <1>1, <1>2 DEF TrgType
  <2>3. w \in [pool : {v.pool \ {i}}, handler : {[v.handler EXCEPT ![i] = None]}, on : {v.on}, use : {v.use}]
    BY <1>2 DEF TrgType
  <2> HIDE DEF freed, w, t
  <2>4. trg' = IF b.alone THEN [trg EXCEPT ![t] = [w EXCEPT !.on = FALSE]] ELSE [trg EXCEPT ![t] = w]
    BY <1>0, <2>1, <2>2
  <2>5. CASE b.alone
    <3> DEFINE x == [w EXCEPT !.on = FALSE]
    <3>1. x \in [pool : {v.pool \ {i}}, handler : {[v.handler EXCEPT ![i] = None]}, on : {FALSE}, use : {v.use}]
      BY <2>3
    <3> HIDE DEF x
    <3>2. x = u
      BY <2>5, <3>1
    <3> QED
      BY <2>4, <2>5, <3>2 DEF x
  <2>6. CASE ~b.alone
    <3>1. w = u
      BY <2>3, <2>6
    <3> QED
      BY <2>4, <2>6, <3>1
  <2> QED
    BY <2>5, <2>6
<1> HIDE DEF on
<1>5. u \in TrgType /\ u.use = trg[t].use
  BY <1>2 DEF TrgType
<1>6. SettledDevice(c) /\ c.active /\ c.op = "free" /\ c.at = b.at /\ c.irq = b.irq
  BY <1>0, <1>1 DEF SettledDevice, ConsumerOK, ConsumerIsSettled
<1> HIDE DEF c, u
<1>7. ASSUME NEW r \in Trigs, NEW j \in Irqs, trg'[r].handler[j] # None
      PROVE  LET e == dev'[trg'[r].handler[j]]
             IN  j \in trg'[r].pool /\ e.active /\ e.op \in {"idle", "detach"} /\ e.at = r /\ e.irq = j
  <2>1. ~ (r = t /\ j = i)
    <3>1. SUFFICES ASSUME r = t, j = i PROVE FALSE
      OBVIOUS
    <3>2. trg'[r] = u /\ u.handler[j] = None
      BY <1>0, <1>1, <1>2, <1>4, <3>1 DEF u, TrgType
    <3> QED
      BY <1>7, <3>2
  <2>2. trg'[r].handler[j] = trg[r].handler[j] /\ (j \in trg[r].pool => j \in trg'[r].pool)
    BY <1>0, <1>1, <1>2, <1>4, <2>1 DEF u, TrgType
  <2>3. LET e == dev[trg[r].handler[j]]
        IN  j \in trg[r].pool /\ e.active /\ e.op \in {"idle", "detach"} /\ e.at = r /\ e.irq = j
    BY <1>7, <2>2 DEF TriggerIInv, HandlersAreHeld
  <2>4. trg[r].handler[j] \in Devs
    BY <1>0, <1>7, <2>2 DEF TrgType
  <2>5. trg[r].handler[j] # d
    BY <1>1, <2>1, <2>3
  <2>6. dev'[trg[r].handler[j]] = dev[trg[r].handler[j]]
    BY <1>0, <1>3, <2>4, <2>5
  <2> QED
    BY <2>2, <2>3, <2>6
<1> HIDE DEF v, t, i
<1> QED
  BY <1>0, <1>3, <1>4, <1>5, <1>6, <1>7, TriggerStep

-----------------------------------------------------------------------------
(* The trigger fires and its threads run *)

\* A step of one thread of those that run, with what is counted for it
LEMMA ThreadStep ==
    ASSUME TriggerIInv, NEW T \in SUBSET ThreadType, IsFiniteSet(T), threads' = T,
           \A v \in T : \E th \in threads : th.trig = v.trig /\ th.irq = v.irq /\ th.dev = v.dev,
           \A v, w \in T : v.dev = w.dev => v = w,
           trg' \in [Trigs -> TrgType],
           \A t \in Trigs : trg'[t].use = Cardinality(Waits(T, t)) /\ trg'[t].pool = trg[t].pool
                                /\ trg'[t].handler = trg[t].handler,
           UNCHANGED dev
    PROVE  TriggerIInv'
<1>1. TriggerTypeOK'
  BY DEF TriggerIInv, TriggerTypeOK, TrgType, ThreadType
<1>2. HandlersAreHeld'
  BY DEF TriggerIInv, HandlersAreHeld
<1>3. ThreadsAreOwned'
  BY DEF TriggerIInv, ThreadsAreOwned
<1>4. TriggerNotStuck'
  BY DEF TriggerNotStuck, Waits
<1>5. \A d \in Devs : ConsumerIsSettled(dev'[d])
  BY DEF TriggerIInv
<1> QED
  BY <1>1, <1>2, <1>3, <1>4, <1>5 DEF TriggerIInv

LEMMA ThreadFacts ==
    ASSUME TriggerIInv
    PROVE  /\ threads \in SUBSET ThreadType /\ IsFiniteSet(threads) /\ trg \in [Trigs -> TrgType]
           /\ \A t \in Trigs : trg[t].use = Cardinality(Waits(threads, t))
           /\ \A v, w \in threads : v.dev = w.dev => v = w
  BY DEF TriggerIInv, TriggerTypeOK, TrgType, ThreadType, TriggerNotStuck, Waits, ThreadsAreOwned

LEMMA NotifyKeepsTriggers == ASSUME TriggerIInv, NEW th, notify_done(th) PROVE TriggerIInv'
<1>0. th \in threads /\ th.pc = "notify" /\ UNCHANGED dev /\ th \in ThreadType
  BY ThreadFacts DEF notify_done
<1> DEFINE t == th.trig
           v == [th EXCEPT !.pc = "end"]
           T == (threads \ {th}) \cup {v}
<1>1. dev[th.dev].trig = t /\ t \in Trigs /\ t # None
  <2>1. th.dev \in Devs /\ t \in Trigs
    BY <1>0 DEF ThreadType
  <2>2. ConsumerIsSettled(dev[th.dev]) /\ dev[th.dev].active /\ dev[th.dev].at = t
        /\ dev[th.dev].op \in {"idle", "detach", "free"}
    BY <1>0, <2>1 DEF TriggerIInv, ThreadsAreOwned
  <2> QED
    BY <2>1, <2>2, IioAssumption DEF ConsumerIsSettled
<1>2. trg' = [trg EXCEPT ![t].use = @ - 1] /\ threads' = T
  BY <1>1 DEF notify_done
<1>3. v \in ThreadType /\ v.trig = th.trig /\ v.irq = th.irq /\ v.dev = th.dev
  BY <1>0 DEF ThreadType
<1>4. T \in SUBSET ThreadType
  BY <1>3, ThreadFacts
<1>5. IsFiniteSet(T)
  BY ThreadFacts, FS_RemoveElement, FS_AddElement
<1>6. \A w \in T : \E x \in threads : x.trig = w.trig /\ x.irq = w.irq /\ x.dev = w.dev
  BY <1>0, <1>3
<1>7. \A w, x \in T : w.dev = x.dev => w = x
  BY <1>0, <1>3, ThreadFacts
<1>8. ASSUME NEW r \in Trigs
      PROVE  trg'[r].use = Cardinality(Waits(T, r)) /\ trg'[r].pool = trg[r].pool
                 /\ trg'[r].handler = trg[r].handler
  <2>1. Cardinality(Waits(T, r)) = IF r = t THEN Cardinality(Waits(threads, r)) - 1
                                   ELSE Cardinality(Waits(threads, r))
    <3>1. threads \in SUBSET ThreadType /\ IsFiniteSet(threads) /\ v = [th EXCEPT !.pc = "end"]
      BY ThreadFacts
    <3> HIDE DEF v
    <3> QED
      BY <1>0, <3>1, NotifiedLeaves
  <2>2. trg[r].use = Cardinality(Waits(threads, r)) /\ trg \in [Trigs -> TrgType]
    BY ThreadFacts
  <2> HIDE DEF T, v
  <2> QED
    BY <1>2, <2>1, <2>2 DEF TrgType
<1>9. trg' \in [Trigs -> TrgType]
  <2>1. trg \in [Trigs -> TrgType]
    BY ThreadFacts
  <2> QED
    BY <1>1, <1>2, <2>1 DEF TrgType
<1> HIDE DEF T
<1> QED
  BY <1>0, <1>2, <1>4, <1>5, <1>6, <1>7, <1>8, <1>9, ThreadStep

LEMMA EndKeepsTriggers == ASSUME TriggerIInv, NEW th, ThreadEnds(th) PROVE TriggerIInv'
<1> DEFINE T == threads \ {th}
<1>0. th \in threads /\ th.pc = "end" /\ UNCHANGED <<dev, trg>> /\ threads' = T
  BY DEF ThreadEnds
<1>1. T \in SUBSET ThreadType /\ IsFiniteSet(T) /\ trg' \in [Trigs -> TrgType]
  BY <1>0, ThreadFacts, FS_RemoveElement
<1>2. /\ \A w \in T : \E x \in threads : x.trig = w.trig /\ x.irq = w.irq /\ x.dev = w.dev
      /\ \A w, x \in T : w.dev = x.dev => w = x
  BY ThreadFacts
<1>3. ASSUME NEW r \in Trigs PROVE Waits(T, r) = Waits(threads, r)
  BY <1>0 DEF Waits
<1>4. ASSUME NEW r \in Trigs
      PROVE  trg'[r].use = Cardinality(Waits(T, r)) /\ trg'[r].pool = trg[r].pool
                 /\ trg'[r].handler = trg[r].handler
  BY <1>0, <1>3, ThreadFacts
<1> HIDE DEF T
<1> QED
  BY <1>0, <1>1, <1>2, <1>4, ThreadStep

LEMMA HandlerKeepsTriggers == ASSUME TriggerIInv, NEW th, trigger_handler(th) PROVE TriggerIInv'
<1>0. th \in threads /\ th.pc = "push" /\ UNCHANGED trg /\ th \in ThreadType
  BY ThreadFacts DEF trigger_handler
<1> DEFINE v == [th EXCEPT !.pc = "notify"]
           T == (threads \ {th}) \cup {v}
<1>1. threads' = T
  BY DEF trigger_handler
<1>2. v \in ThreadType /\ v.trig = th.trig /\ v.irq = th.irq /\ v.dev = th.dev /\ v.pc = "notify"
  BY <1>0 DEF ThreadType
<1>3. v \notin threads
  BY <1>0, <1>2, ThreadFacts
<1>4. T \in SUBSET ThreadType
  BY <1>2, ThreadFacts
<1>5. IsFiniteSet(T)
  BY ThreadFacts, FS_RemoveElement, FS_AddElement
<1>6. \A w \in T : \E x \in threads : x.trig = w.trig /\ x.irq = w.irq /\ x.dev = w.dev
  BY <1>0, <1>2
<1>7. \A w, x \in T : w.dev = x.dev => w = x
  BY <1>0, <1>2, ThreadFacts
<1>8. ASSUME NEW r \in Trigs
      PROVE  trg[r].use = Cardinality(Waits(T, r))
  <2>1. Cardinality(Waits(T, r)) = Cardinality(Waits(threads, r))
    <3>1. threads \in SUBSET ThreadType /\ IsFiniteSet(threads) /\ v = [th EXCEPT !.pc = "notify"]
      BY ThreadFacts
    <3> HIDE DEF v
    <3> QED
      BY <1>0, <1>3, <3>1, PushedWaits
  <2>2. trg[r].use = Cardinality(Waits(threads, r))
    BY ThreadFacts
  <2> HIDE DEF T, v
  <2> QED
    BY <2>1, <2>2
<1>9. th.dev \in Devs /\ dev = [e \in Devs |-> dev[e]]
  BY <1>0 DEF ThreadType, TriggerIInv, TriggerTypeOK
<1> DEFINE b == dev[th.dev]
<1>10. PICK c : dev' = [dev EXCEPT ![th.dev] = c] /\ SameConsumer(b, c)
  <2>1. ConsumerOK(b)
    BY <1>9 DEF TriggerIInv, TriggerTypeOK
  <2>2. SameConsumer(b, b)
    BY <2>1 DEF SameConsumer
  <2>3. ASSUME NEW f PROVE SameConsumer(b, [b EXCEPT !.fifo = f])
    BY <2>1 DEF SameConsumer, ConsumerOK
  <2>4. SameConsumer(b, store_to_kfifo(b, b.mask))
    BY <2>2, <2>3 DEF store_to_kfifo
  <2>5. CASE dev' = dev
    <3>1. dev' = [dev EXCEPT ![th.dev] = b]
      BY <1>9, <2>5
    <3> QED
      BY <2>2, <3>1
  <2>6. CASE dev' = [dev EXCEPT ![th.dev] = store_to_kfifo(@, dev[th.dev].mask)]
    BY <2>4, <2>6
  <2> QED
    BY <2>5, <2>6 DEF trigger_handler
<1> HIDE DEF T, v
<1>11. \A e \in Devs : SameConsumer(dev[e], dev'[e])
  BY <1>9, <1>10 DEF SameConsumer, TriggerIInv, TriggerTypeOK
<1>12. dev' = [e \in Devs |-> dev'[e]]
  BY <1>9, <1>10
<1>13. TriggerTypeOK'
  BY <1>0, <1>1, <1>4, <1>5, <1>11, <1>12 DEF TriggerIInv, TriggerTypeOK, SameConsumer, ThreadType
<1>14. HandlersAreHeld'
  <2> SUFFICES ASSUME NEW t \in Trigs, NEW i \in Irqs, trg[t].handler[i] # None
               PROVE  LET e == dev'[trg[t].handler[i]]
                      IN  i \in trg[t].pool /\ e.active /\ e.op \in {"idle", "detach"} /\ e.at = t /\ e.irq = i
    BY <1>0 DEF HandlersAreHeld
  <2>1. trg[t].handler[i] \in Devs
    BY DEF TriggerIInv, TriggerTypeOK
  <2>2. LET e == dev[trg[t].handler[i]]
        IN  i \in trg[t].pool /\ e.active /\ e.op \in {"idle", "detach"} /\ e.at = t /\ e.irq = i
    BY DEF TriggerIInv, HandlersAreHeld
  <2> QED
    BY <1>11, <2>1, <2>2 DEF SameConsumer
<1>15. ThreadsAreOwned'
  <2>1. ASSUME NEW w \in T
        PROVE  LET e == dev'[w.dev]
               IN  e.active /\ e.op \in {"idle", "detach", "free"} /\ e.at = w.trig /\ e.irq = w.irq
    <3>1. PICK x \in threads : x.trig = w.trig /\ x.irq = w.irq /\ x.dev = w.dev
      BY <1>6
    <3>2. x.dev \in Devs
      BY ThreadFacts DEF ThreadType
    <3> QED
      BY <1>11, <3>1, <3>2 DEF SameConsumer, TriggerIInv, ThreadsAreOwned
  <2> QED
    BY <1>1, <1>7, <2>1 DEF ThreadsAreOwned
<1>16. TriggerNotStuck'
  BY <1>0, <1>1, <1>8 DEF TriggerNotStuck, Waits
<1>17. \A e \in Devs : ConsumerIsSettled(dev'[e])
  BY <1>11 DEF SameConsumer, TriggerIInv, ConsumerIsSettled
<1> QED
  BY <1>13, <1>14, <1>15, <1>16, <1>17 DEF TriggerIInv

LEMMA PollKeepsTriggers == ASSUME TriggerIInv, NEW t \in Trigs, iio_trigger_poll(t) PROVE TriggerIInv'
<1> DEFINE h == trg[t].handler
           E == {i \in Irqs : /\ h[i] # None
                              /\ ~\E th \in threads : th.trig = t /\ th.irq = i /\ th.dev = h[i]}
           new == {[trig |-> t, irq |-> i, dev |-> h[i], pc |-> "push"] : i \in E}
<1>0. UNCHANGED dev
  BY DEF iio_trigger_poll
<1>1. CASE UNCHANGED <<trg, threads>>
  BY <1>0, <1>1 DEF TriggerIInv, TriggerTypeOK, HandlersAreHeld, ThreadsAreOwned, TriggerNotStuck
<1>2. CASE /\ trg[t].use = 0 /\ threads' = threads \cup new
           /\ trg' = [trg EXCEPT ![t].use = Cardinality(E)]
  <2>1. IsFiniteSet(E) /\ Cardinality(E) \in Nat
    <3>1. E \in SUBSET Irqs
      OBVIOUS
    <3> HIDE DEF E
    <3> QED
      BY <3>1, IioAssumption, FS_Subset, FS_CardinalityType
  <2>2. /\ IsFiniteSet(threads \cup new)
        /\ Cardinality(Waits(threads \cup new, t)) = Cardinality(E)
        /\ \A r : r # t => Waits(threads \cup new, r) = Waits(threads, r)
    <3>1. IsFiniteSet(threads) /\ Cardinality(Waits(threads, t)) = 0
      BY <1>2, ThreadFacts
    <3>2. new = Woken(t, h, E)
      BY DEF Woken
    <3> HIDE DEF E, h, new
    <3> QED
      BY <2>1, <3>1, <3>2, WokenWait
  <2>3. trg \in [Trigs -> TrgType]
    BY ThreadFacts
  <2>4. h \in [Irqs -> Devs \cup {None}]
    BY <2>3 DEF TrgType
  <2>5. ASSUME NEW i \in E
        PROVE  /\ i \in Irqs /\ h[i] \in Devs
               /\ dev[h[i]].active /\ dev[h[i]].op \in {"idle", "detach"} /\ dev[h[i]].at = t /\ dev[h[i]].irq = i
               /\ ~Threaded(h[i])
    <3>1. i \in Irqs /\ h[i] \in Devs /\ h[i] # None
      BY <2>4
    <3>2. dev[h[i]].active /\ dev[h[i]].op \in {"idle", "detach"} /\ dev[h[i]].at = t /\ dev[h[i]].irq = i
      BY <3>1 DEF TriggerIInv, HandlersAreHeld
    <3>3. ~Threaded(h[i])
      <4>1. SUFFICES ASSUME NEW th \in threads, th.dev = h[i] PROVE FALSE
        BY DEF Threaded
      <4>2. dev[h[i]].at = th.trig /\ dev[h[i]].irq = th.irq
        BY <4>1 DEF TriggerIInv, ThreadsAreOwned
      <4> QED
        BY <3>2, <4>1, <4>2
    <3> QED
      BY <3>1, <3>2, <3>3
  <2> HIDE DEF E, h
  <2>6. threads \cup new \in SUBSET ThreadType
    BY <2>5, ThreadFacts DEF ThreadType
  <2>7. trg' \in [Trigs -> TrgType]
    BY <1>2, <2>1, <2>3 DEF TrgType
  <2>8. TriggerTypeOK'
    BY <1>0, <1>2, <2>2, <2>6, <2>7 DEF TriggerIInv, TriggerTypeOK, TrgType, ThreadType
  <2>9. \A r \in Trigs : trg'[r].handler = trg[r].handler /\ trg'[r].pool = trg[r].pool
    BY <1>2, <2>3 DEF TrgType
  <2>10. HandlersAreHeld'
    BY <1>0, <2>9 DEF TriggerIInv, HandlersAreHeld
  <2>11. ThreadsAreOwned'
    <3>1. ASSUME NEW w \in threads \cup new
          PROVE  LET e == dev[w.dev]
                 IN  e.active /\ e.op \in {"idle", "detach", "free"} /\ e.at = w.trig /\ e.irq = w.irq
      BY <2>5 DEF TriggerIInv, ThreadsAreOwned
    <3>2. ASSUME NEW w \in threads \cup new, NEW x \in threads \cup new, w.dev = x.dev PROVE w = x
      <4>1. CASE w \in threads /\ x \in threads
        BY <3>2, <4>1, ThreadFacts
      <4>2. CASE w \in new /\ x \in new
        BY <2>5, <3>2, <4>2
      <4>3. CASE (w \in threads /\ x \in new) \/ (w \in new /\ x \in threads)
        BY <2>5, <3>2, <4>3 DEF Threaded
      <4> QED
        BY <4>1, <4>2, <4>3
    <3> QED
      BY <1>0, <1>2, <3>1, <3>2 DEF ThreadsAreOwned
  <2>12. TriggerNotStuck'
    <3>1. ASSUME NEW r \in Trigs PROVE trg'[r].use = Cardinality(Waits(threads', r))
      <4>1. trg[r].use = Cardinality(Waits(threads, r))
        BY ThreadFacts
      <4>2. CASE r = t
        BY <1>2, <2>2, <2>3, <4>2 DEF TrgType
      <4>3. CASE r # t
        BY <1>2, <2>2, <2>3, <4>1, <4>3 DEF TrgType
      <4> QED
        BY <4>2, <4>3
    <3> QED
      BY <3>1 DEF TriggerNotStuck, Waits
  <2>13. \A d \in Devs : ConsumerIsSettled(dev'[d])
    BY <1>0 DEF TriggerIInv
  <2> QED
    BY <2>8, <2>10, <2>11, <2>12, <2>13 DEF TriggerIInv
<1> QED
  BY <1>1, <1>2 DEF iio_trigger_poll

LEMMA IioNextKeepsTriggers ==
    ASSUME ~Race, "state" \notin Faults
    PROVE  TriggerIInv /\ [IioNext]_iioVars => TriggerIInv'
<1> SUFFICES ASSUME TriggerIInv, [IioNext]_iioVars PROVE TriggerIInv'
  OBVIOUS
<1>1. ASSUME NEW d \in Devs,
             \/ \E bit \in Channels, state \in BOOLEAN : scan_el_store(d, bit, state)
             \/ \E n \in Lengths : write_length(d, n)
             \/ \E n \in 1 .. 2 : read_first_n(d, n)
      PROVE  TriggerIInv'
  BY <1>1, DataStepsKeepTriggers
<1>2. ASSUME NEW d \in Devs, (\E t \in Trigs \cup {None} : write_current_checks(d, t)) \/ write_current_sets(d)
      PROVE  TriggerIInv'
  BY <1>2, CurrentKeepsTriggers
<1>3. ASSUME NEW d \in Devs, store_enable(d) \/ attach_poll_func(d) \/ detach_poll_func(d)
      PROVE  TriggerIInv'
  BY <1>3, EnableKeepsTriggers, AttachKeepsTriggers, DetachKeepsTriggers
<1>4. ASSUME NEW d \in Devs, store_disable(d) \/ iio_device_unregister(d) \/ FreeIrqReturns(d)
      PROVE  TriggerIInv'
  BY <1>4, DisableKeepsTriggers
<1>5. ASSUME NEW th, trigger_handler(th) \/ notify_done(th) \/ ThreadEnds(th) PROVE TriggerIInv'
  BY <1>5, HandlerKeepsTriggers, NotifyKeepsTriggers, EndKeepsTriggers
<1>6. ASSUME NEW t \in Trigs, iio_trigger_poll(t) PROVE TriggerIInv'
  BY <1>6, PollKeepsTriggers
<1>7. CASE UNCHANGED iioVars
  BY <1>7 DEF iioVars, TriggerIInv, TriggerTypeOK, HandlersAreHeld, ThreadsAreOwned, TriggerNotStuck
<1>8. CASE IioNext
  BY <1>1, <1>2, <1>3, <1>4, <1>5, <1>6, <1>8 DEF IioNext
<1> QED
  BY <1>7, <1>8

LEMMA TriggersInitial == IioInit => TriggerIInv
<1> SUFFICES ASSUME IioInit PROVE TriggerIInv
  OBVIOUS
<1>1. \A d \in Devs : ConsumerOK(dev[d]) /\ ConsumerIsSettled(dev[d])
  BY FreshDevice DEF IioInit, SettledDevice
<1>2. TriggerTypeOK
  BY <1>1, FS_EmptySet DEF IioInit, TriggerTypeOK
<1>3. HandlersAreHeld /\ ThreadsAreOwned
  BY DEF IioInit, HandlersAreHeld, ThreadsAreOwned
<1>4. TriggerNotStuck
  <2>1. ASSUME NEW t \in Trigs
        PROVE  {th \in threads : th.trig = t /\ th.pc \in {"push", "notify"}} = {} /\ trg[t].use = 0
    BY DEF IioInit
  <2> QED
    BY <2>1, FS_EmptySet DEF TriggerNotStuck
<1> QED
  BY <1>1, <1>2, <1>3, <1>4 DEF TriggerIInv

\* The invariant of the triggers, where current_trigger is not written while the buffer is
\* enabled and triggers start and stop when they are told.
THEOREM TriggerInvariant ==
    ASSUME ~Race, "state" \notin Faults
    PROVE  IioSpec => []TriggerIInv
<1>1. IioInit => TriggerIInv
  BY TriggersInitial
<1>2. TriggerIInv /\ [IioNext]_iioVars => TriggerIInv'
  BY IioNextKeepsTriggers
<1> QED
  BY <1>1, <1>2, PTL DEF IioSpec

\* Then a trigger (iio_trigger_poll, iio_trigger_notify_done, iio_trigger_attach_poll_func and
\* iio_trigger_detach_poll_func) counts exactly the threads that have yet to notify it,
\* for any number of devices, triggers and sub-interrupts.
THEOREM TriggersAreCounted ==
    ASSUME ~Race, "state" \notin Faults
    PROVE  IioSpec => []TriggerNotStuck
<1>1. TriggerIInv => TriggerNotStuck
  BY DEF TriggerIInv
<1>2. IioSpec => []TriggerIInv
  BY TriggerInvariant
<1> QED
  BY <1>1, <1>2, PTL
-----------------------------------------------------------------------------
(* Opt300x: the event file                                                   *)

\* A step that leaves the event file and the count of its closes alone.
LEMMA EventsStay ==
    ASSUME EventsIInv, UNCHANGED <<ev, ends>>
    PROVE  EventsIInv'
  BY DEF EventsIInv, EventsAreCurrent

\* iio_push_event: what is appended carries the number of the closes so far.
LEMMA PushedEvents ==
    ASSUME EventsIInv, ev' = push_event(ev), UNCHANGED ends
    PROVE  EventsIInv'
<1>1. CASE ev' = ev
  BY <1>1, EventsStay
<1>2. CASE ev' = [ev EXCEPT !.fifo = Append(@, ends)]
  <2>1. ev' = [busy |-> ev.busy, fd |-> ev.fd, fifo |-> Append(ev.fifo, ends)]
    BY <1>2 DEF EventsIInv
  <2>2. Append(ev.fifo, ends) \in Seq(Nat)
    BY DEF EventsIInv
  <2>3. \A k \in DOMAIN Append(ev.fifo, ends) : Append(ev.fifo, ends)[k] = ends
    BY DEF EventsIInv, EventsAreCurrent
  <2> QED
    BY <2>1, <2>2, <2>3 DEF EventsIInv, EventsAreCurrent
<1> QED
  BY <1>1, <1>2 DEF push_event

\* Every step keeps the invariant of the event file.
LEMMA EventsStep ==
    ASSUME EventsIInv, [OptNext]_optVars
    PROVE  EventsIInv'
<1>1. CASE UNCHANGED <<ev, ends>>
  BY <1>1, EventsStay
<1>2. CASE irq_reads_config
  BY <1>2, EventsStay, PushedEvents DEF irq_reads_config
<1>3. CASE event_getfd
  BY <1>3 DEF event_getfd, EventsIInv, EventsAreCurrent
<1>4. CASE event_getfd_ends
  BY <1>4 DEF event_getfd_ends, EventsIInv, EventsAreCurrent
<1>5. ASSUME NEW n \in 1 .. FifoLen, event_chrdev_read(n)
      PROVE  EventsIInv'
  <2>1. n \in 1 .. Len(ev.fifo)
    BY <1>5 DEF event_chrdev_read
  <2>2. /\ ev' = [busy |-> ev.busy, fd |-> ev.fd, fifo |-> SubSeq(ev.fifo, n + 1, Len(ev.fifo))]
        /\ ends' = ends
    BY <1>5 DEF event_chrdev_read, EventsIInv
  <2>3. SubSeq(ev.fifo, n + 1, Len(ev.fifo)) \in Seq(Nat)
    BY <2>1 DEF EventsIInv
  <2>4. \A k \in DOMAIN SubSeq(ev.fifo, n + 1, Len(ev.fifo)) :
          SubSeq(ev.fifo, n + 1, Len(ev.fifo))[k] = ends
    BY <2>1, SMTT(30) DEF EventsIInv, EventsAreCurrent
  <2> QED
    BY <2>2, <2>3, <2>4 DEF EventsIInv, EventsAreCurrent
<1>6. CASE event_chrdev_release
  BY <1>6 DEF event_chrdev_release, EventsIInv, EventsAreCurrent
<1>7. CASE UNCHANGED optVars
  BY <1>1, <1>7 DEF optVars
<1> QED
  BY <1>1, <1>2, <1>3, <1>4, <1>5, <1>6, <1>7
  DEF OptNext, read_raw, ReadingBegins, ReadingStarts, ReadingWaits, ReadingRestores,
      write_event_config, write_event_value, ConversionEnds, irq_enters, irq_reads_result,
      irq_leaves

\* Whoever opens the event file finds no event from before it was last closed
\* (iio_event_chrdev_release clears them), for any size of the fifo, any limits and any
\* failures of the bus.
THEOREM EventsStayCurrent == OptSpec => []EventsAreCurrent
<1>1. OptInit => EventsIInv
  BY DEF OptInit, EventsIInv, EventsAreCurrent
<1>2. EventsIInv => EventsAreCurrent
  BY DEF EventsIInv
<1> QED
  BY <1>1, <1>2, EventsStep, PTL DEF OptSpec

-----------------------------------------------------------------------------
(* Lsm6ds3: lists of steps                                                   *)

LEMMA ListIsSeq ==
    ASSUME NEW s, IsList(s)
    PROVE  /\ s \in Seq({s[i] : i \in DOMAIN s})
           /\ Len(s) \in Nat /\ DOMAIN s = 1 .. Len(s)
<1>1. Len(s) \in Nat /\ DOMAIN s = 1 .. Len(s)
  BY DEF IsList
<1>2. s \in [1 .. Len(s) -> {s[i] : i \in DOMAIN s}]
  BY <1>1 DEF IsList
<1> QED
  BY <1>1, <1>2, SeqDef

LEMMA SeqIsList == ASSUME NEW S, NEW s \in Seq(S) PROVE IsList(s)
  BY LenProperties DEF IsList

\* Every element of a concatenation is one of a part.
LEMMA ConcatList ==
    ASSUME NEW s, NEW u, IsList(s), IsList(u)
    PROVE  /\ IsList(s \o u)
           /\ \A k \in DOMAIN (s \o u) : \/ \E i \in DOMAIN s : (s \o u)[k] = s[i]
                                         \/ \E j \in DOMAIN u : (s \o u)[k] = u[j]
<1> DEFINE S == {s[i] : i \in DOMAIN s}
           U == {u[i] : i \in DOMAIN u}
<1>1. s \in Seq(S) /\ Len(s) \in Nat /\ DOMAIN s = 1 .. Len(s)
  BY ListIsSeq
<1>2. u \in Seq(U) /\ Len(u) \in Nat /\ DOMAIN u = 1 .. Len(u)
  BY ListIsSeq
<1> HIDE DEF S, U
<1>3. s \in Seq(S \cup U) /\ u \in Seq(S \cup U)
  BY <1>1, <1>2, SeqMonotonic
<1>4. /\ s \o u \in Seq(S \cup U)
      /\ Len(s \o u) = Len(s) + Len(u)
      /\ \A i \in 1 .. Len(s) + Len(u) : (s \o u)[i] = IF i <= Len(s) THEN s[i] ELSE u[i - Len(s)]
  BY <1>3, ConcatProperties
<1>5. DOMAIN (s \o u) = 1 .. Len(s) + Len(u)
  BY <1>4, LenProperties
<1>6. IsList(s \o u)
  BY <1>4, SeqIsList
<1>7. ASSUME NEW k \in DOMAIN (s \o u)
      PROVE  \/ \E i \in DOMAIN s : (s \o u)[k] = s[i]
             \/ \E j \in DOMAIN u : (s \o u)[k] = u[j]
  <2>1. CASE k <= Len(s)
    BY <2>1, <1>1, <1>2, <1>4, <1>5, <1>7
  <2>2. CASE ~ (k <= Len(s))
    <3>1. k - Len(s) \in DOMAIN u /\ (s \o u)[k] = u[k - Len(s)]
      BY <2>2, <1>1, <1>2, <1>4, <1>5, <1>7
    <3> QED
      BY <3>1
  <2> QED
    BY <2>1, <2>2
<1> QED
  BY <1>6, <1>7

\* So is every element of what is left from some place on.
LEMMA RestList ==
    ASSUME NEW s, IsList(s), NEW m \in 1 .. Len(s)
    PROVE  /\ IsList(SubSeq(s, m, Len(s)))
           /\ \A k \in DOMAIN SubSeq(s, m, Len(s)) : \E i \in DOMAIN s : SubSeq(s, m, Len(s))[k] = s[i]
<1> DEFINE S == {s[i] : i \in DOMAIN s}
           r == SubSeq(s, m, Len(s))
<1>1. s \in Seq(S) /\ Len(s) \in Nat /\ DOMAIN s = 1 .. Len(s)
  BY ListIsSeq
<1>2. \A i \in m .. Len(s) : s[i] \in S
  BY <1>1
<1>3. m \in Int /\ Len(s) \in Int
  BY <1>1
<1>4. /\ r \in Seq(S)
      /\ Len(r) = IF m <= Len(s) THEN Len(s) - m + 1 ELSE 0
      /\ \A i \in 1 .. Len(s) - m + 1 : r[i] = s[m + i - 1]
  <2> HIDE DEF S
  <2> QED
    BY <1>2, <1>3, SubSeqProperties
<1> HIDE DEF r, S
<1>5. IsList(r)
  BY <1>4, SeqIsList
<1>6. DOMAIN r = 1 .. Len(r)
  BY <1>4, LenProperties
<1>7. ASSUME NEW k \in DOMAIN r PROVE \E i \in DOMAIN s : r[k] = s[i]
  <2>1. k \in 1 .. Len(s) - m + 1
    BY <1>1, <1>4, <1>6
  <2>2. m + k - 1 \in DOMAIN s
    BY <2>1, <1>1
  <2> QED
    BY <2>1, <2>2, <1>4
<1> QED
  BY <1>5, <1>7 DEF r

LEMMA TailList ==
    ASSUME NEW s, IsList(s), s # <<>>
    PROVE  /\ IsList(Tail(s))
           /\ \E i \in DOMAIN s : Head(s) = s[i]
           /\ \A k \in DOMAIN Tail(s) : \E i \in DOMAIN s : Tail(s)[k] = s[i]
<1> DEFINE S == {s[i] : i \in DOMAIN s}
<1>1. s \in Seq(S) /\ Len(s) \in Nat /\ DOMAIN s = 1 .. Len(s)
  BY ListIsSeq
<1>2. /\ Head(s) \in S /\ Tail(s) \in Seq(S) /\ Len(Tail(s)) = Len(s) - 1
      /\ \A i \in 1 .. Len(Tail(s)) : Tail(s)[i] = s[i + 1]
  <2> HIDE DEF S
  <2> QED
    BY <1>1, HeadTailProperties
<1>3. DOMAIN Tail(s) = 1 .. Len(Tail(s))
  <2> HIDE DEF S
  <2> QED
    BY <1>2, LenProperties
<1>4. IsList(Tail(s))
  <2> HIDE DEF S
  <2> QED
    BY <1>2, SeqIsList
<1>5. ASSUME NEW k \in DOMAIN Tail(s) PROVE \E i \in DOMAIN s : Tail(s)[k] = s[i]
  <2>1. k + 1 \in DOMAIN s /\ Tail(s)[k] = s[k + 1]
    BY <1>1, <1>2, <1>3
  <2> QED
    BY <2>1
<1> QED
  BY <1>2, <1>4, <1>5

LEMMA DirectTuples ==
    /\ Direct(<<>>)
    /\ \A a : DirectStep(a) => Direct(<<a>>)
    /\ \A a, b : DirectStep(a) /\ DirectStep(b) => Direct(<<a, b>>)
    /\ \A a, b, c : DirectStep(a) /\ DirectStep(b) /\ DirectStep(c) => Direct(<<a, b, c>>)
    /\ \A a, b, c, d : DirectStep(a) /\ DirectStep(b) /\ DirectStep(c) /\ DirectStep(d)
                         => Direct(<<a, b, c, d>>)
<1>1. Direct(<<>>)
  BY DEF Direct, IsList
<1>2. ASSUME NEW a, DirectStep(a) PROVE Direct(<<a>>)
  BY <1>2 DEF Direct, IsList
<1>3. ASSUME NEW a, NEW b, DirectStep(a), DirectStep(b) PROVE Direct(<<a, b>>)
  BY <1>3 DEF Direct, IsList
<1>4. ASSUME NEW a, NEW b, NEW c, DirectStep(a), DirectStep(b), DirectStep(c)
      PROVE  Direct(<<a, b, c>>)
  BY <1>4 DEF Direct, IsList
<1>5. ASSUME NEW a, NEW b, NEW c, NEW d, DirectStep(a), DirectStep(b), DirectStep(c), DirectStep(d)
      PROVE  Direct(<<a, b, c, d>>)
  BY <1>5 DEF Direct, IsList
<1> QED
  BY <1>1, <1>2, <1>3, <1>4, <1>5

LEMMA DirectConcat == ASSUME NEW s, NEW u, Direct(s), Direct(u) PROVE Direct(s \o u)
  BY ConcatList DEF Direct

LEMMA DirectIsPlain == ASSUME NEW s, Direct(s) PROVE Plain(s)
  BY DEF Direct, Plain, PlainStep

LEMMA PlainConcat == ASSUME NEW s, NEW u, Plain(s), Plain(u) PROVE Plain(s \o u)
  BY ConcatList DEF Plain

LEMMA PlainTail ==
    ASSUME NEW s, Plain(s), s # <<>>
    PROVE  PlainStep(Head(s)) /\ Plain(Tail(s))
  BY TailList DEF Plain

-----------------------------------------------------------------------------
(* Lsm6ds3: the operations leave the bank alone                              *)

\* The kinds of step that only note or ask something.
Quiet == {"func", "acc", "pedometer", "signPedo", "drdy", "accelOff", "timer", "ready", "enabled",
          "odr", "gain"}

LEMMA QuietSteps ==
    /\ \A k \in Quiet : \A x, v : DirectStep(L(k, x, v))
    /\ \A reg, fields : reg # "access" => DirectStep(W(reg, fields))
    /\ DirectStep([k |-> "reset"])
<1>1. ASSUME NEW k \in Quiet, NEW x, NEW v PROVE DirectStep(L(k, x, v))
  BY DEF Quiet, DirectStep, L
<1>2. ASSUME NEW reg, NEW fields, reg # "access" PROVE DirectStep(W(reg, fields))
  BY <1>2 DEF DirectStep, W
<1>3. DirectStep([k |-> "reset"])
  BY DEF DirectStep
<1> QED
  BY <1>1, <1>2, <1>3

LEMMA RegisterSteps ==
    /\ \A x, v : DirectStep(WOdr(x, v))
    /\ \A v : DirectStep(WPedo(v))
    /\ DirectStep(AccelOff)
<1>1. ASSUME NEW x PROVE OdrReg(x) # "access"
  BY DEF OdrReg
<1> QED
  BY <1>1, QuietSteps DEF WOdr, WPedo, AccelOff

LEMMA DependenciesDirect == ASSUME NEW x, NEW v PROVE Direct(Dependencies(x, v))
<1>1. /\ DirectStep(L("func", x, v)) /\ DirectStep(L("acc", x, v)) /\ DirectStep(L("drdy", x, v))
  BY QuietSteps DEF Quiet
<1> QED
  BY <1>1, DirectTuples DEF Dependencies

\* _lsm6ds3_enable_sensors
LEMMA EnableDirect == ASSUME NEW x PROVE Direct(enable_sensors(x))
<1> DEFINE first ==
      CASE x \in {"accel", "gyro"} -> <<WOdr(x, OdrValue(sdata[x].c_odr)), L("timer", x, TRUE)>>
        [] x = "sign_m" -> <<W("ctrl10", [sign |-> 1]), L("signPedo", x, 1), WPedo(1), L("ready", x, TRUE)>>
        [] x = "tilt" -> <<W("tap", [tilt |-> 1])>>
        [] OTHER -> <<L("pedometer", x, 1)>>
<1>1. /\ DirectStep(L("timer", x, TRUE)) /\ DirectStep(L("signPedo", x, 1))
      /\ DirectStep(L("ready", x, TRUE)) /\ DirectStep(L("pedometer", x, 1))
  BY QuietSteps DEF Quiet
<1>2. DirectStep(W("ctrl10", [sign |-> 1])) /\ DirectStep(W("tap", [tilt |-> 1]))
  BY QuietSteps
<1>3. Direct(<<WOdr(x, OdrValue(sdata[x].c_odr)), L("timer", x, TRUE)>>)
  BY <1>1, RegisterSteps, DirectTuples
<1>4. Direct(<<W("ctrl10", [sign |-> 1]), L("signPedo", x, 1), WPedo(1), L("ready", x, TRUE)>>)
  BY <1>1, <1>2, RegisterSteps, DirectTuples
<1>5. Direct(<<W("tap", [tilt |-> 1])>>) /\ Direct(<<L("pedometer", x, 1)>>)
  BY <1>1, <1>2, DirectTuples
<1>6. Direct(first)
  BY <1>3, <1>4, <1>5
<1>7. enable_sensors(x) = first \o Dependencies(x, 1)
  BY DEF enable_sensors
<1> HIDE DEF first
<1> QED
  BY <1>6, <1>7, DirectConcat, DependenciesDirect

\* _lsm6ds3_disable_sensors
LEMMA DisableDirect == ASSUME NEW x PROVE Direct(disable_sensors(x))
<1> DEFINE first ==
      CASE x = "accel" -> <<L("accelOff", x, 0), L("timer", x, FALSE)>>
        [] x = "gyro" -> <<WOdr(x, 0), L("timer", x, FALSE)>>
        [] x = "sign_m" -> <<W("ctrl10", [sign |-> 0]), L("pedometer", x, 0), L("ready", x, FALSE)>>
        [] x = "tilt" -> <<W("tap", [tilt |-> 0])>>
        [] OTHER -> <<L("pedometer", x, 0)>>
<1>1. /\ DirectStep(L("accelOff", x, 0)) /\ DirectStep(L("timer", x, FALSE))
      /\ DirectStep(L("ready", x, FALSE)) /\ DirectStep(L("pedometer", x, 0))
  BY QuietSteps DEF Quiet
<1>2. DirectStep(W("ctrl10", [sign |-> 0])) /\ DirectStep(W("tap", [tilt |-> 0]))
  BY QuietSteps
<1>3. Direct(<<L("accelOff", x, 0), L("timer", x, FALSE)>>) /\ Direct(<<WOdr(x, 0), L("timer", x, FALSE)>>)
  BY <1>1, RegisterSteps, DirectTuples
<1>4. Direct(<<W("ctrl10", [sign |-> 0]), L("pedometer", x, 0), L("ready", x, FALSE)>>)
  BY <1>1, <1>2, DirectTuples
<1>5. Direct(<<W("tap", [tilt |-> 0])>>) /\ Direct(<<L("pedometer", x, 0)>>)
  BY <1>1, <1>2, DirectTuples
<1>6. Direct(first)
  BY <1>3, <1>4, <1>5
<1>7. disable_sensors(x) = first \o Dependencies(x, 0)
  BY DEF disable_sensors
<1> HIDE DEF first
<1> QED
  BY <1>6, <1>7, DirectConcat, DependenciesDirect

LEMMA ResetDirect == ASSUME NEW func PROVE Direct(reset_steps_value(func))
<1>1. /\ DirectStep(W("ctrl10", [reset |-> 1, func |-> 1]))
      /\ DirectStep(W("ctrl10", [reset |-> 0, func |-> func]))
  BY QuietSteps
<1> QED
  BY <1>1, DirectTuples DEF reset_steps_value

\* The outcome of a condition.
LEMMA ResolveDirect ==
    ASSUME NEW l, PlainStep(l), l.k \in Conditions
    PROVE  Plain(Resolve(l))
<1> SUFFICES Direct(Resolve(l))
  BY DirectIsPlain
<1>1. CASE l.k = "func"
  <2>1. DirectStep(W("ctrl10", [func |-> l.v]))
    BY QuietSteps
  <2>2. Direct(FuncDependency(l.v))
    BY <2>1, DirectTuples DEF FuncDependency
  <2> QED
    BY <1>1, <2>2 DEF Resolve
<1>2. CASE l.k = "acc"
  <2>1. \A v : Direct(<<WOdr("accel", v)>>)
    BY RegisterSteps, DirectTuples
  <2>2. Direct(AccelDependency(l.v))
    BY <2>1, DirectTuples DEF AccelDependency
  <2> QED
    BY <1>2, <2>2 DEF Resolve
<1>p. \A v : Direct(enable_pedometer(v))
  <2>1. \A v : DirectStep(W("fifo2", [pedoE |-> v]))
    BY QuietSteps
  <2> QED
    BY <2>1, RegisterSteps, DirectTuples DEF enable_pedometer
<1>3. CASE l.k = "pedometer"
  BY <1>3, <1>p DEF Resolve
<1>4. CASE l.k = "signPedo"
  <2>1. Direct(<<WPedo(0), WPedo(1)>>)
    BY RegisterSteps, DirectTuples
  <2>2. Direct(SignPedometer)
    BY <2>1, <1>p DEF SignPedometer
  <2> QED
    BY <1>4, <2>2 DEF Resolve
<1>5. CASE l.k = "drdy"
  <2>1. Direct(<<W("md1", [tiltIrq |-> l.v])>>) /\ Direct(<<W("int1", [stepIrq |-> l.v])>>)
    BY QuietSteps, DirectTuples
  <2>2. Direct(set_drdy_irq(l.s, l.v))
    BY <2>1, DirectTuples DEF set_drdy_irq
  <2> QED
    BY <1>5, <2>2 DEF Resolve
<1>6. CASE l.k = "accelOff"
  BY <1>6, RegisterSteps, DirectTuples DEF Resolve
<1>7. CASE l.k = "ifEnabled"
  <2>1. Direct(l.v)
    BY <1>7 DEF PlainStep, DirectStep
  <2> QED
    BY <1>7, <2>1, DirectTuples DEF Resolve
<1> QED
  BY <1>1, <1>2, <1>3, <1>4, <1>5, <1>6, <1>7 DEF Conditions

\* After an error an operation ends, or goes on with the next sensor.
LEMMA ErrorPlain ==
    ASSUME NEW l, NEW rest, DirectStep(l), Plain(rest)
    PROVE  Plain(OnError(l, rest))
<1> DEFINE places == {i \in DOMAIN rest : rest[i].k = "ifEnabled"}
           m == CHOOSE i \in places : \A j \in places : i <= j
<1>1. OnError(l, rest) = IF places = {} THEN <<>> ELSE SubSeq(rest, m, Len(rest))
  BY DEF OnError, DirectStep
<1>2. CASE places = {}
  BY <1>1, <1>2, DirectTuples, DirectIsPlain
<1>3. CASE places # {}
  <2>1. Len(rest) \in Nat /\ DOMAIN rest = 1 .. Len(rest)
    BY ListIsSeq DEF Plain
  <2>2. places \in SUBSET Nat
    BY <2>1
  <2>3. m \in places
    <3> HIDE DEF places
    <3> QED
      BY <1>3, <2>2, LeastPlace
  <2>4. m \in 1 .. Len(rest)
    BY <2>1, <2>3
  <2> HIDE DEF m
  <2>5. Plain(SubSeq(rest, m, Len(rest)))
    BY <2>4, RestList DEF Plain
  <2> QED
    BY <1>1, <1>3, <2>5
<1> QED
  BY <1>2, <1>3

-----------------------------------------------------------------------------
(* Lsm6ds3: the steps of a thread that does not hold the bank lock           *)

\* What a thread other than the holder goes on with is plain, and the bank stays.
LEMMA PlainGoesOn ==
    ASSUME BankIInv, NEW t \in Threads, t # bankLock, NEW todo, NEW old, Plain(todo),
           thread' = [thread EXCEPT ![t] = [todo |-> todo, old |-> old]],
           bankLock' = bankLock, "access" \in DOMAIN lsm', lsm'["access"] = lsm["access"]
    PROVE  BankIInv'
<1>1. thread' = [u \in Threads |-> IF u = t THEN [todo |-> todo, old |-> old] ELSE thread[u]]
  BY DEF BankIInv
<1>2. \A u \in Threads : thread[u] = [todo |-> thread[u].todo, old |-> thread[u].old]
  BY DEF BankIInv
<1>3. thread' = [u \in Threads |-> [todo |-> thread'[u].todo, old |-> thread'[u].old]]
  BY <1>1, <1>2
<1>4. ASSUME NEW u \in Threads
      PROVE  IF u = bankLock' THEN InBank(thread'[u].todo, lsm'["access"].bank)
                              ELSE Plain(thread'[u].todo)
  <2>1. CASE u = t
    BY <2>1, <1>1
  <2>2. CASE u # t
    BY <2>2, <1>1 DEF BankIInv
  <2> QED
    BY <2>1, <2>2
<1>5. OrdinaryBankWhenFree'
  BY DEF BankIInv, OrdinaryBankWhenFree
<1> QED
  BY <1>3, <1>4, <1>5 DEF BankIInv

LEMMA ThreadIsPlain ==
    ASSUME BankIInv, NEW t \in Threads, t # bankLock, ~Idle(t)
    PROVE  PlainStep(Head1(t)) /\ Plain(Rest(t))
<1>1. Plain(thread[t].todo) /\ thread[t].todo # <<>>
  BY DEF BankIInv, Idle
<1> QED
  BY <1>1, PlainTail DEF Head1, Rest

\* The holder's next step is one of the bank's, so it is neither idle nor at a condition.
LEMMA HolderIsInBank ==
    ASSUME BankIInv, bankLock \in Threads
    PROVE  /\ ~Idle(bankLock)
           /\ Head1(bankLock).k \in {"w", "raw", "unlock"}
<1> DEFINE todo == thread[bankLock].todo
<1>1. InBank(todo, lsm["access"].bank)
  BY DEF BankIInv
<1> HIDE DEF todo
<1>2. todo # <<>> /\ Head(todo).k \in {"w", "raw", "unlock"}
  BY <1>1 DEF InBank, set_max_delivery_rate_steps, Duration, Bank, Unlock, W
<1> QED
  BY <1>2 DEF todo, Idle, Head1

\* Threads that are idle start a plain operation.
LEMMA PlainStarts ==
    ASSUME BankIInv, NEW t \in Threads, Idle(t), NEW todo, Plain(todo), Starts(t, todo),
           bankLock' = bankLock, lsm' = lsm
    PROVE  BankIInv'
<1>1. t # bankLock
  BY HolderIsInBank
<1>2. "access" \in DOMAIN lsm
  BY DEF BankIInv
<1> QED
  BY <1>1, <1>2, PlainGoesOn DEF Starts

LEMMA ConditionKeepsBank == ASSUME BankIInv, NEW t \in Threads, Condition(t) PROVE BankIInv'
<1>1. ~Idle(t) /\ Head1(t).k \in Conditions
  BY DEF Condition
<1>2. t # bankLock
  BY <1>1, HolderIsInBank DEF Conditions
<1>3. PlainStep(Head1(t)) /\ Plain(Rest(t))
  BY <1>1, <1>2, ThreadIsPlain
<1>4. Plain(Resolve(Head1(t)))
  BY <1>1, <1>3, ResolveDirect
<1>5. Plain(Resolve(Head1(t)) \o Rest(t))
  BY <1>3, <1>4, PlainConcat
<1>6. /\ thread' = [thread EXCEPT ![t] = [todo |-> Resolve(Head1(t)) \o Rest(t), old |-> NoOld]]
      /\ bankLock' = bankLock /\ lsm' = lsm
  BY DEF Condition, Continues, Starts
<1>7. "access" \in DOMAIN lsm
  BY DEF BankIInv
<1> QED
  BY <1>2, <1>5, <1>6, <1>7, PlainGoesOn

LEMMA ReadFuncKeepsBank ==
    ASSUME BankIInv, NEW t \in Threads, NEW ok \in BOOLEAN, ReadFunc(t, ok)
    PROVE  BankIInv'
<1> DEFINE todo == IF ok THEN reset_steps_value(lsm["ctrl10"].func) ELSE <<>>
<1>1. ~Idle(t) /\ Head1(t).k = "reset"
  BY DEF ReadFunc
<1>2. t # bankLock
  BY <1>1, HolderIsInBank
<1>3. Plain(todo)
  BY ResetDirect, DirectTuples, DirectIsPlain
<1>4. /\ thread' = [thread EXCEPT ![t] = [todo |-> todo, old |-> NoOld]]
      /\ bankLock' = bankLock /\ lsm' = lsm
  BY DEF ReadFunc, Continues, Starts
<1> HIDE DEF todo
<1>5. "access" \in DOMAIN lsm
  BY DEF BankIInv
<1> QED
  BY <1>2, <1>3, <1>4, <1>5, PlainGoesOn

\* A register update of such a thread is of another register.
LEMMA PlainUpdate ==
    ASSUME BankIInv, NEW t \in Threads, t # bankLock, NEW ok \in BOOLEAN,
           ReadRegister(t, ok) \/ WriteRegister(t, ok)
    PROVE  BankIInv'
<1>1. ~Idle(t) /\ Head1(t).k = "w" /\ bankLock' = bankLock
  BY DEF ReadRegister, WriteRegister
<1>2. PlainStep(Head1(t)) /\ Plain(Rest(t))
  BY <1>1, ThreadIsPlain
<1>3. DirectStep(Head1(t)) /\ Head1(t).reg # "access"
  BY <1>1, <1>2 DEF PlainStep, DirectStep
<1>4. Plain(OnError(Head1(t), Rest(t)))
  BY <1>2, <1>3, ErrorPlain
<1>5. "access" \in DOMAIN lsm' /\ lsm'["access"] = lsm["access"]
  <2>1. \/ lsm' = lsm
        \/ lsm' = [lsm EXCEPT ![Head1(t).reg] = SetFields(thread[t].old, Head1(t).fields)]
    BY DEF ReadRegister, WriteRegister
  <2> QED
    BY <2>1, <1>3 DEF BankIInv
<1>6. Plain(thread[t].todo) /\ thread[t] = [todo |-> thread[t].todo, old |-> thread[t].old]
  BY DEF BankIInv
<1>7. \/ thread' = [thread EXCEPT ![t] = [todo |-> OnError(Head1(t), Rest(t)), old |-> NoOld]]
      \/ thread' = [thread EXCEPT ![t] = [todo |-> Rest(t), old |-> NoOld]]
      \/ thread' = [thread EXCEPT ![t].old = lsm[Head1(t).reg]]
  BY DEF ReadRegister, WriteRegister, Continues, Starts
<1>8. [thread EXCEPT ![t].old = lsm[Head1(t).reg]]
        = [thread EXCEPT ![t] = [todo |-> thread[t].todo, old |-> lsm[Head1(t).reg]]]
  <2> DEFINE now == lsm[Head1(t).reg]
             w == thread[t]
  <2> HIDE DEF now
  <2>1. [w EXCEPT !.old = now] = [todo |-> w.todo, old |-> now]
    <3> HIDE DEF w
    <3>1. w = [todo |-> w.todo, old |-> w.old]
      BY <1>6 DEF w
    <3> QED
      BY <3>1
  <2>2. [thread EXCEPT ![t].old = now] = [thread EXCEPT ![t] = [w EXCEPT !.old = now]]
    BY Zenon
  <2>3. [thread EXCEPT ![t].old = now] = [thread EXCEPT ![t] = [todo |-> w.todo, old |-> now]]
    BY <2>1, <2>2
  <2> QED
    BY <2>3 DEF now
<1> QED
  BY <1>1, <1>2, <1>4, <1>5, <1>6, <1>7, <1>8, PlainGoesOn

-----------------------------------------------------------------------------
(* Lsm6ds3: the steps of the thread that holds the bank lock                 *)

\* An update of the bank register takes the holder one place further, and an error makes
\* it switch the bank back.
LEMMA BankUpdates ==
    ASSUME NEW todo, NEW bank, InBank(todo, bank), Head(todo).k = "w"
    PROVE  /\ Head(todo).reg = "access"
           /\ Head(todo).fields = [bank |-> Head(todo).fields.bank]
           /\ InBank(OnError(Head(todo), Tail(todo)), bank)
           /\ InBank(Tail(todo), Head(todo).fields.bank)
<1>1. CASE bank = 0 /\ \E v \in Durations : todo = set_max_delivery_rate_steps(v)
  <2>1. PICK v \in Durations : todo = set_max_delivery_rate_steps(v)
    BY <1>1
  <2>2. /\ Head(todo) = Bank(1)
        /\ Tail(todo) = <<Duration(v), Bank(0), Unlock, L("odr", "step_c", v)>>
    BY <2>1 DEF set_max_delivery_rate_steps
  <2>3. Bank(1).k = "w" /\ Bank(1).reg = "access" /\ Bank(1).fields = [bank |-> 1]
    BY DEF Bank, W
  <2>4. OnError(Head(todo), Tail(todo)) = <<Unlock>>
    BY <2>2, <2>3 DEF OnError
  <2> QED
    BY <1>1, <2>2, <2>3, <2>4 DEF InBank
<1>2. CASE todo = <<Bank(0), Unlock>> \/ \E v \in Durations : todo = <<Bank(0), Unlock, L("odr", "step_c", v)>>
  <2>1. Bank(0).k = "w" /\ Bank(0).reg = "access" /\ Bank(0).fields = [bank |-> 0]
    BY DEF Bank, W
  <2>2. Head(todo) = Bank(0)
    BY <1>2
  <2>3. OnError(Head(todo), Tail(todo)) = <<Bank(0), Unlock>>
    BY <2>1, <2>2, SMTT(30) DEF OnError
  <2>4. Tail(todo) = <<Unlock>> \/ \E v \in Durations : Tail(todo) = <<Unlock, L("odr", "step_c", v)>>
    <3>1. ASSUME todo = <<Bank(0), Unlock>> PROVE Tail(todo) = <<Unlock>>
      BY <3>1
    <3>2. ASSUME NEW v \in Durations, todo = <<Bank(0), Unlock, L("odr", "step_c", v)>>
          PROVE  Tail(todo) = <<Unlock, L("odr", "step_c", v)>>
      BY <3>2
    <3> QED
      BY <1>2, <3>1, <3>2
  <2> QED
    BY <2>1, <2>2, <2>3, <2>4 DEF InBank
<1>3. CASE \E v \in Durations : todo = <<Duration(v), Bank(0), Unlock, L("odr", "step_c", v)>>
  BY <1>3 DEF Duration
<1>4. CASE todo = <<Unlock>> \/ \E v \in Durations : todo = <<Unlock, L("odr", "step_c", v)>>
  BY <1>4 DEF Unlock
<1> QED
  BY <1>1, <1>2, <1>3, <1>4 DEF InBank

\* A write sets the bank that the step asks for; where the register has it already, it has it.
LEMMA BankWritten ==
    ASSUME NEW fields, NEW old, fields = [bank |-> fields.bank]
    PROVE  SetFields(old, fields).bank = fields.bank
<1>1. "bank" \in DOMAIN fields
  <2> DEFINE v == fields.bank
  <2> HIDE DEF v
  <2>1. fields = [bank |-> v]
    BY DEF v
  <2> QED
    BY <2>1
<1> QED
  BY <1>1 DEF SetFields

LEMMA FreeIsNoThread == Free \notin Threads
  BY LsmAssumption DEF Free, Threads, Irq, Pm

LEMMA HolderGoesOn ==
    ASSUME BankIInv, bankLock \in Threads, NEW todo, NEW old,
           thread' = [thread EXCEPT ![bankLock] = [todo |-> todo, old |-> old]],
           bankLock' = bankLock, "access" \in DOMAIN lsm', InBank(todo, lsm'["access"].bank)
    PROVE  BankIInv'
<1>1. thread' = [u \in Threads |-> IF u = bankLock THEN [todo |-> todo, old |-> old] ELSE thread[u]]
  BY DEF BankIInv
<1>2. \A u \in Threads : thread[u] = [todo |-> thread[u].todo, old |-> thread[u].old]
  BY DEF BankIInv
<1>3. thread' = [u \in Threads |-> [todo |-> thread'[u].todo, old |-> thread'[u].old]]
  BY <1>1, <1>2
<1>4. ASSUME NEW u \in Threads
      PROVE  IF u = bankLock' THEN InBank(thread'[u].todo, lsm'["access"].bank)
                              ELSE Plain(thread'[u].todo)
  <2>1. CASE u = bankLock
    BY <2>1, <1>1
  <2>2. CASE u # bankLock
    BY <2>2, <1>1 DEF BankIInv
  <2> QED
    BY <2>1, <2>2
<1>5. OrdinaryBankWhenFree'
  BY FreeIsNoThread DEF OrdinaryBankWhenFree
<1> QED
  BY <1>3, <1>4, <1>5 DEF BankIInv

LEMMA HolderUpdate ==
    ASSUME BankIInv, bankLock \in Threads, NEW ok \in BOOLEAN,
           ReadRegister(bankLock, ok) \/ WriteRegister(bankLock, ok)
    PROVE  BankIInv'
<1> DEFINE todo == thread[bankLock].todo
           bank == lsm["access"].bank
           l == Head(todo)
<1>1. InBank(todo, bank) /\ "access" \in DOMAIN lsm
  BY DEF BankIInv
<1>2. l.k = "w" /\ bankLock' = bankLock
  BY DEF ReadRegister, WriteRegister, Head1
<1>3. /\ l.reg = "access" /\ l.fields = [bank |-> l.fields.bank]
      /\ InBank(OnError(l, Tail(todo)), bank) /\ InBank(Tail(todo), l.fields.bank)
  <2> HIDE DEF todo, bank
  <2> QED
    BY <1>1, <1>2, BankUpdates
<1>4. thread[bankLock] = [todo |-> todo, old |-> thread[bankLock].old]
  BY DEF BankIInv
<1> HIDE DEF l
<1>5. CASE thread' = [thread EXCEPT ![bankLock] = [todo |-> OnError(l, Tail(todo)), old |-> NoOld]] /\ lsm' = lsm
  BY <1>1, <1>2, <1>3, <1>5, HolderGoesOn
<1>6. CASE /\ thread' = [thread EXCEPT ![bankLock] = [todo |-> Tail(todo), old |-> NoOld]]
           /\ lsm' = lsm /\ SetFields(lsm["access"], l.fields) = lsm["access"]
  <2>1. bank = l.fields.bank
    BY <1>3, <1>6, BankWritten
  <2> QED
    BY <2>1, <1>1, <1>2, <1>3, <1>6, HolderGoesOn
<1>7. CASE thread' = [thread EXCEPT ![bankLock].old = lsm["access"]] /\ lsm' = lsm
  <2> DEFINE now == lsm["access"]
             w == thread[bankLock]
  <2> HIDE DEF now
  <2>1. [w EXCEPT !.old = now] = [todo |-> todo, old |-> now]
    <3> HIDE DEF w, todo
    <3>1. w = [todo |-> todo, old |-> w.old]
      BY <1>4 DEF w
    <3> QED
      BY <3>1
  <2>2. [thread EXCEPT ![bankLock].old = now] = [thread EXCEPT ![bankLock] = [w EXCEPT !.old = now]]
    BY Zenon
  <2>3. thread' = [thread EXCEPT ![bankLock] = [todo |-> todo, old |-> now]]
    BY <1>7, <2>1, <2>2 DEF now
  <2> HIDE DEF todo
  <2> QED
    BY <2>3, <1>1, <1>2, <1>7, HolderGoesOn
<1>8. CASE /\ thread' = [thread EXCEPT ![bankLock] = [todo |-> Tail(todo), old |-> NoOld]]
           /\ lsm' = [lsm EXCEPT !["access"] = SetFields(thread[bankLock].old, l.fields)]
  <2>1. lsm'["access"] = SetFields(thread[bankLock].old, l.fields) /\ "access" \in DOMAIN lsm'
    BY <1>1, <1>8
  <2>2. lsm'["access"].bank = l.fields.bank
    BY <2>1, <1>3, BankWritten
  <2> QED
    BY <2>1, <2>2, <1>2, <1>3, <1>8, HolderGoesOn
<1>9. CASE ReadRegister(bankLock, ok)
  <2>1. Head1(bankLock) = l /\ Rest(bankLock) = Tail(todo)
    BY DEF Head1, Rest, l
  <2> QED
    BY <2>1, <1>3, <1>5, <1>6, <1>7, <1>9 DEF ReadRegister, Continues, Starts
<1>10. CASE WriteRegister(bankLock, ok)
  <2>1. Head1(bankLock) = l /\ Rest(bankLock) = Tail(todo)
    BY DEF Head1, Rest, l
  <2> QED
    BY <2>1, <1>3, <1>5, <1>8, <1>10 DEF WriteRegister, Continues, Starts
<1> QED
  BY <1>9, <1>10

LEMMA DurationKeepsBank ==
    ASSUME BankIInv, NEW t \in Threads, NEW ok \in BOOLEAN, WriteDuration(t, ok)
    PROVE  BankIInv'
<1> DEFINE todo == thread[t].todo
           bank == lsm["access"].bank
<1>1. ~Idle(t) /\ Head(todo).k = "raw" /\ bankLock' = bankLock
  BY DEF WriteDuration, Head1
<1>2. t = bankLock
  <2>1. SUFFICES ASSUME t # bankLock PROVE FALSE
    OBVIOUS
  <2>2. PlainStep(Head(todo))
    BY <1>1, <2>1, ThreadIsPlain DEF Head1
  <2> QED
    BY <1>1, <2>2 DEF PlainStep, DirectStep
<1>3. InBank(todo, bank) /\ "access" \in DOMAIN lsm
  BY <1>2 DEF BankIInv
<1> HIDE DEF todo
<1>4. PICK v \in Durations : todo = <<Duration(v), Bank(0), Unlock, L("odr", "step_c", v)>>
  <2>1. ASSUME NEW v \in Durations, todo = set_max_delivery_rate_steps(v) PROVE FALSE
    BY <1>1, <2>1 DEF set_max_delivery_rate_steps, Bank, W
  <2>2. ASSUME todo = <<Bank(0), Unlock>> \/ \E v \in Durations : todo = <<Bank(0), Unlock, L("odr", "step_c", v)>>
        PROVE  FALSE
    BY <1>1, <2>2 DEF Bank, W
  <2>3. ASSUME todo = <<Unlock>> \/ \E v \in Durations : todo = <<Unlock, L("odr", "step_c", v)>>
        PROVE  FALSE
    BY <1>1, <2>3 DEF Unlock
  <2> QED
    BY <1>3, <2>1, <2>2, <2>3 DEF InBank
<1>5. Tail(todo) = <<Bank(0), Unlock, L("odr", "step_c", v)>>
  BY <1>4
<1>6. OnError(Head(todo), Tail(todo)) = <<Bank(0), Unlock>>
  BY <1>1 DEF OnError
<1>7. InBank(Tail(todo), lsm'["access"].bank) /\ InBank(OnError(Head(todo), Tail(todo)), lsm'["access"].bank)
  BY <1>5, <1>6 DEF InBank
<1>8. "access" \in DOMAIN lsm'
  BY <1>3 DEF WriteDuration
<1>9. \/ thread' = [thread EXCEPT ![bankLock] = [todo |-> Tail(todo), old |-> NoOld]]
      \/ thread' = [thread EXCEPT ![bankLock] = [todo |-> OnError(Head(todo), Tail(todo)), old |-> NoOld]]
  BY <1>2 DEF WriteDuration, Continues, Starts, Head1, Rest, todo
<1>10. bankLock \in Threads
  BY <1>2
<1> QED
  BY <1>1, <1>7, <1>8, <1>9, <1>10, HolderGoesOn

\* The lock is given back over the ordinary bank, and what is left is plain.
LEMMA UnlockKeepsBank ==
    ASSUME BankIInv, NEW t \in Threads, Notes(t), Head1(t).k = "unlock"
    PROVE  BankIInv'
<1> DEFINE todo == thread[t].todo
           bank == lsm["access"].bank
<1>1. ~Idle(t) /\ Head(todo).k = "unlock" /\ bankLock' = Free /\ lsm' = lsm
  BY DEF Notes, Head1
<1>2. t = bankLock
  <2>1. SUFFICES ASSUME t # bankLock PROVE FALSE
    OBVIOUS
  <2>2. PlainStep(Head(todo))
    BY <1>1, <2>1, ThreadIsPlain DEF Head1
  <2> QED
    BY <1>1, <2>2 DEF PlainStep, DirectStep
<1>3. InBank(todo, bank) /\ "access" \in DOMAIN lsm
  BY <1>2 DEF BankIInv
<1> HIDE DEF todo
<1>4. bank = 0 /\ (todo = <<Unlock>> \/ \E v \in Durations : todo = <<Unlock, L("odr", "step_c", v)>>)
  <2>1. ASSUME NEW v \in Durations, todo = set_max_delivery_rate_steps(v) PROVE FALSE
    BY <1>1, <2>1 DEF set_max_delivery_rate_steps, Bank, W
  <2>2. ASSUME todo = <<Bank(0), Unlock>> \/ \E v \in Durations : todo = <<Bank(0), Unlock, L("odr", "step_c", v)>>
        PROVE  FALSE
    BY <1>1, <2>2 DEF Bank, W
  <2>3. ASSUME NEW v \in Durations, todo = <<Duration(v), Bank(0), Unlock, L("odr", "step_c", v)>>
        PROVE  FALSE
    BY <1>1, <2>3 DEF Duration
  <2> QED
    BY <1>3, <2>1, <2>2, <2>3 DEF InBank
<1>5. Plain(Tail(todo))
  <2>1. CASE todo = <<Unlock>>
    <3>1. Tail(todo) = <<>>
      BY <2>1
    <3> QED
      BY <3>1, DirectTuples, DirectIsPlain
  <2>2. ASSUME NEW v \in Durations, todo = <<Unlock, L("odr", "step_c", v)>>
        PROVE  Plain(Tail(todo))
    <3>1. Tail(todo) = <<L("odr", "step_c", v)>>
      BY <2>2
    <3>2. DirectStep(L("odr", "step_c", v))
      BY QuietSteps DEF Quiet
    <3> QED
      BY <3>1, <3>2, DirectTuples, DirectIsPlain
  <2> QED
    BY <1>4, <2>1, <2>2
<1>6. thread' = [thread EXCEPT ![t] = [todo |-> Tail(todo), old |-> NoOld]]
  BY DEF Notes, Continues, Starts, Rest, todo
<1>7. thread' = [u \in Threads |-> IF u = t THEN [todo |-> Tail(todo), old |-> NoOld] ELSE thread[u]]
  BY <1>6 DEF BankIInv
<1>8. \A u \in Threads : thread[u] = [todo |-> thread[u].todo, old |-> thread[u].old]
  BY DEF BankIInv
<1>9. thread' = [u \in Threads |-> [todo |-> thread'[u].todo, old |-> thread'[u].old]]
  BY <1>7, <1>8
<1>10. \A u \in Threads : u # bankLock' /\ Plain(thread'[u].todo)
  BY <1>1, <1>2, <1>5, <1>7, FreeIsNoThread DEF BankIInv
<1>11. OrdinaryBankWhenFree'
  BY <1>1, <1>4 DEF OrdinaryBankWhenFree
<1>12. bankLock' \in Threads \cup {Free} /\ "access" \in DOMAIN lsm'
  BY <1>1, <1>3
<1> QED
  BY <1>9, <1>10, <1>11, <1>12 DEF BankIInv

LEMMA NotesKeepBank == ASSUME BankIInv, NEW t \in Threads, Notes(t) PROVE BankIInv'
<1>1. CASE Head1(t).k = "unlock"
  BY <1>1, UnlockKeepsBank
<1>2. CASE Head1(t).k # "unlock"
  <2>1. /\ ~Idle(t) /\ Head1(t).k \in {"enabled", "timer", "odr", "gain", "ready"}
        /\ bankLock' = bankLock /\ lsm' = lsm
        /\ thread' = [thread EXCEPT ![t] = [todo |-> Rest(t), old |-> NoOld]]
    BY <1>2 DEF Notes, Continues, Starts
  <2>2. t # bankLock
    BY <2>1, HolderIsInBank
  <2>3. Plain(Rest(t))
    BY <2>1, <2>2, ThreadIsPlain
  <2>4. "access" \in DOMAIN lsm
    BY DEF BankIInv
  <2> QED
    BY <2>1, <2>2, <2>3, <2>4, PlainGoesOn
<1> QED
  BY <1>1, <1>2

\* lsm6ds3_set_max_delivery_rate takes the lock over the ordinary bank.
LEMMA DeliveryRateKeepsBank ==
    ASSUME BankIInv, NEW t \in Threads, NEW v \in Durations, set_max_delivery_rate(t, v)
    PROVE  BankIInv'
<1> DEFINE todo == set_max_delivery_rate_steps(v)
<1>1. /\ bankLock = Free /\ bankLock' = t /\ lsm' = lsm
      /\ thread' = [thread EXCEPT ![t] = [todo |-> todo, old |-> NoOld]]
  BY DEF set_max_delivery_rate, Starts
<1>2. lsm["access"].bank = 0 /\ "access" \in DOMAIN lsm
  BY <1>1 DEF BankIInv, OrdinaryBankWhenFree
<1>3. InBank(todo, lsm["access"].bank)
  BY <1>2 DEF InBank
<1> HIDE DEF todo
<1>4. thread' = [u \in Threads |-> IF u = t THEN [todo |-> todo, old |-> NoOld] ELSE thread[u]]
  BY <1>1 DEF BankIInv
<1>5. \A u \in Threads : thread[u] = [todo |-> thread[u].todo, old |-> thread[u].old]
  BY DEF BankIInv
<1>6. thread' = [u \in Threads |-> [todo |-> thread'[u].todo, old |-> thread'[u].old]]
  BY <1>4, <1>5
<1>7. ASSUME NEW u \in Threads
      PROVE  IF u = bankLock' THEN InBank(thread'[u].todo, lsm'["access"].bank)
                              ELSE Plain(thread'[u].todo)
  <2>1. CASE u = t
    BY <2>1, <1>1, <1>3, <1>4
  <2>2. CASE u # t
    <3>1. Plain(thread[u].todo)
      BY <1>1, FreeIsNoThread DEF BankIInv
    <3> QED
      BY <2>2, <3>1, <1>1, <1>4
  <2> QED
    BY <2>1, <2>2
<1>8. OrdinaryBankWhenFree'
  BY <1>1, FreeIsNoThread DEF OrdinaryBankWhenFree
<1> QED
  BY <1>1, <1>2, <1>6, <1>7, <1>8 DEF BankIInv

-----------------------------------------------------------------------------
(* Lsm6ds3: the operations and the invariant                                 *)

LEMMA UsersAreThreads == Users \subseteq Threads /\ Irq \in Threads /\ Pm \in Threads
  BY DEF Threads

LEMMA AttributesKeepBank ==
    ASSUME BankIInv, NEW t \in Users, NEW x,
           \/ \E enable \in BOOLEAN : set_enable(t, x, enable)
           \/ \E odr \in Rates : set_odr(t, x, odr)
           \/ \E gain \in {2} : set_cur_scale(t, x, gain)
           \/ reset_steps(t)
    PROVE  BankIInv'
<1>1. t \in Threads
  BY UsersAreThreads
<1>2. ASSUME NEW enable \in BOOLEAN, set_enable(t, x, enable) PROVE BankIInv'
  <2> DEFINE first == IF enable THEN enable_sensors(x) ELSE disable_sensors(x)
             todo == first \o <<L("enabled", x, enable)>>
  <2>1. Direct(first)
    BY EnableDirect, DisableDirect
  <2>2. Direct(<<L("enabled", x, enable)>>)
    BY QuietSteps, DirectTuples DEF Quiet
  <2>3. Idle(t) /\ Starts(t, todo) /\ bankLock' = bankLock /\ lsm' = lsm
    BY <1>2 DEF set_enable
  <2> HIDE DEF first
  <2>4. Plain(todo)
    BY <2>1, <2>2, DirectConcat, DirectIsPlain
  <2> HIDE DEF todo
  <2> QED
    BY <1>1, <2>3, <2>4, PlainStarts
<1>3. ASSUME NEW odr \in Rates, set_odr(t, x, odr) PROVE BankIInv'
  <2> DEFINE fit == {i \in DOMAIN odr_avl : odr_avl[i] >= odr}
             hz == odr_avl[CHOOSE i \in fit : \A j \in fit : i <= j]
             first == IF Enabled(x) THEN <<WOdr(x, OdrValue(hz))>> ELSE <<>>
             todo == first \o <<L("odr", x, hz)>>
  <2>1. Idle(t) /\ Starts(t, todo) /\ bankLock' = bankLock /\ lsm' = lsm
    BY <1>3 DEF set_odr
  <2> HIDE DEF hz
  <2>2. Direct(first)
    BY RegisterSteps, DirectTuples
  <2>3. Direct(<<L("odr", x, hz)>>)
    BY QuietSteps, DirectTuples DEF Quiet
  <2> HIDE DEF first
  <2>4. Plain(todo)
    BY <2>2, <2>3, DirectConcat, DirectIsPlain
  <2> HIDE DEF todo
  <2> QED
    BY <1>1, <2>1, <2>4, PlainStarts
<1>4. ASSUME NEW gain, set_cur_scale(t, x, gain) PROVE BankIInv'
  <2> DEFINE todo == <<W(OdrReg(x), [fs |-> gain]), L("gain", x, gain)>>
  <2>1. Idle(t) /\ Starts(t, todo) /\ bankLock' = bankLock /\ lsm' = lsm
    BY <1>4 DEF set_cur_scale
  <2>2. OdrReg(x) # "access"
    BY DEF OdrReg
  <2>3. DirectStep(W(OdrReg(x), [fs |-> gain])) /\ DirectStep(L("gain", x, gain))
    BY <2>2, QuietSteps DEF Quiet
  <2>4. Plain(todo)
    BY <2>3, DirectTuples, DirectIsPlain
  <2> HIDE DEF todo
  <2> QED
    BY <1>1, <2>1, <2>4, PlainStarts
<1>5. CASE reset_steps(t)
  <2>1. Idle(t) /\ Starts(t, <<[k |-> "reset"]>>) /\ bankLock' = bankLock /\ lsm' = lsm
    BY <1>5 DEF reset_steps
  <2>2. Plain(<<[k |-> "reset"]>>)
    BY QuietSteps, DirectTuples, DirectIsPlain
  <2> QED
    BY <1>1, <2>1, <2>2, PlainStarts
<1> QED
  BY <1>2, <1>3, <1>4, <1>5

LEMMA InterruptKeepsBank == ASSUME BankIInv, irq_management PROVE BankIInv'
<1> DEFINE todo == IF Enabled("sign_m")
                   THEN disable_sensors("sign_m") \o <<L("enabled", "sign_m", FALSE)>> ELSE <<>>
<1>1. Idle(Irq) /\ Starts(Irq, todo) /\ bankLock' = bankLock /\ lsm' = lsm
  BY DEF irq_management
<1>2. Direct(<<L("enabled", "sign_m", FALSE)>>)
  BY QuietSteps, DirectTuples DEF Quiet
<1>3. Direct(disable_sensors("sign_m") \o <<L("enabled", "sign_m", FALSE)>>)
  BY <1>2, DisableDirect, DirectConcat
<1>4. Plain(todo)
  BY <1>3, DirectTuples, DirectIsPlain
<1> HIDE DEF todo
<1> QED
  BY <1>1, <1>4, UsersAreThreads, PlainStarts

\* lsm6ds3_common_suspend and _resume keep direct operations for the sensors that are enabled.
LEMMA PowerKeepsBank == ASSUME BankIInv, common_suspend \/ common_resume PROVE BankIInv'
<1>1. ASSUME NEW x, NEW y, Direct(x), Direct(y)
      PROVE  Plain(<<L("ifEnabled", "accel", x), L("ifEnabled", "gyro", y)>>)
  <2>1. PlainStep(L("ifEnabled", "accel", x)) /\ PlainStep(L("ifEnabled", "gyro", y))
    BY <1>1 DEF PlainStep, L
  <2> QED
    BY <2>1 DEF Plain, IsList
<1>2. CASE common_suspend
  <2> DEFINE todo == <<L("ifEnabled", "accel", disable_sensors("accel")),
                       L("ifEnabled", "gyro", disable_sensors("gyro"))>>
  <2>1. Idle(Pm) /\ Starts(Pm, todo) /\ bankLock' = bankLock /\ lsm' = lsm
    BY <1>2, UsersAreThreads DEF common_suspend
  <2>2. Plain(todo)
    BY <1>1, DisableDirect
  <2> HIDE DEF todo
  <2> QED
    BY <2>1, <2>2, UsersAreThreads, PlainStarts
<1>3. CASE common_resume
  <2> DEFINE todo == <<L("ifEnabled", "accel", enable_sensors("accel")),
                       L("ifEnabled", "gyro", enable_sensors("gyro"))>>
  <2>1. Idle(Pm) /\ Starts(Pm, todo) /\ bankLock' = bankLock /\ lsm' = lsm
    BY <1>3 DEF common_resume
  <2>2. Plain(todo)
    BY <1>1, EnableDirect
  <2> HIDE DEF todo
  <2> QED
    BY <2>1, <2>2, UsersAreThreads, PlainStarts
<1> QED
  BY <1>2, <1>3

LEMMA BankStep == ASSUME BankIInv, [LsmNext]_lsmVars PROVE BankIInv'
<1>1. CASE UNCHANGED lsmVars
  BY <1>1 DEF lsmVars, BankIInv, OrdinaryBankWhenFree
<1>2. ASSUME NEW t \in Threads, NEW ok \in BOOLEAN, ReadRegister(t, ok) \/ WriteRegister(t, ok)
      PROVE  BankIInv'
  <2>1. CASE t = bankLock
    BY <1>2, <2>1, HolderUpdate
  <2>2. CASE t # bankLock
    BY <1>2, <2>2, PlainUpdate
  <2> QED
    BY <2>1, <2>2
<1>3. ASSUME NEW t \in Threads,
             \/ Condition(t) \/ Notes(t)
             \/ \E ok \in BOOLEAN : ReadRegister(t, ok) \/ WriteRegister(t, ok) \/ WriteDuration(t, ok)
                                     \/ ReadFunc(t, ok)
      PROVE  BankIInv'
  BY <1>2, <1>3, ConditionKeepsBank, NotesKeepBank, DurationKeepsBank, ReadFuncKeepsBank
<1>4. ASSUME NEW t \in Users, NEW v \in Durations, set_max_delivery_rate(t, v)
      PROVE  BankIInv'
  BY <1>4, UsersAreThreads, DeliveryRateKeepsBank
<1> QED
  BY <1>1, <1>3, <1>4, AttributesKeepBank, InterruptKeepsBank, PowerKeepsBank DEF LsmNext

\* The bank lock is held by the one thread that is in lsm6ds3_set_max_delivery_rate, and
\* every other operation leaves the bank alone, whatever fails.
THEOREM BankInvariant == LsmSpec => []BankIInv
<1>1. LsmInit => BankIInv
  <2> SUFFICES ASSUME LsmInit PROVE BankIInv
    OBVIOUS
  <2>1. Plain(<<>>)
    BY DirectTuples, DirectIsPlain
  <2>2. "access" \in DOMAIN lsm /\ lsm["access"].bank = 0
    BY DEF LsmInit
  <2>3. bankLock = Free /\ thread = [t \in Threads |-> [todo |-> <<>>, old |-> NoOld]]
    BY DEF LsmInit
  <2> QED
    BY <2>1, <2>2, <2>3, FreeIsNoThread DEF BankIInv, OrdinaryBankWhenFree
<1> QED
  BY <1>1, BankStep, PTL DEF LsmSpec

\* bank_registers_lock is never released over the step counter's bank
\* (lsm6ds3_set_max_delivery_rate), for any sensors, threads, rates and failures.
THEOREM BankIsOrdinary == LsmSpec => []OrdinaryBankWhenFree
<1>1. BankIInv => OrdinaryBankWhenFree
  BY DEF BankIInv
<1> QED
  BY <1>1, BankInvariant, PTL
=============================================================================
