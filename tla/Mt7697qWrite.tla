---------------------------- MODULE Mt7697qWrite ----------------------------
(***************************************************************************)
(* The master-to-slave direction of an MT7697 SPI queue: mt7697q_write and *)
(* the pointer, mailbox and interrupt transfers it makes (queue.c, io.c),  *)
(* against a slave that runs concurrently on its own processor.            *)
(*                                                                         *)
(* mt7697q_write holds qinfo->mutex from start to end, so at most one      *)
(* write is under way; it is a sequence of SPI transfers, and the slave    *)
(* may move between any two of them.  There is one step for each transfer. *)
(* A transfer that fails makes the whole write return an error, and leaves *)
(* the slave's memory as the transfer had reached it.                      *)
(*                                                                         *)
(* A word is named by the write call it belongs to and its place in that   *)
(* call's buffer.  The counters and the log are history: log[p] is the     *)
(* p-th word the driver committed by advancing wr_offset.                  *)
(***************************************************************************)
EXTENDS Mt7697qRing

CONSTANTS
    MsgSizes,   \* numbers of words the callers pass to mt7697q_write
    SpiFails,   \* whether an SPI transfer may fail
    MaxCalls,   \* bound: calls of mt7697q_write in a behaviour
    MaxWords    \* bound: words committed in a behaviour

ASSUME WriteAssumption ==
    /\ MsgSizes \subseteq Nat \ {0}
    /\ SpiFails \in BOOLEAN
    /\ MaxCalls \in Nat
    /\ MaxWords \in Nat

VARIABLES
    mem,        \* the ring's words, in the slave's memory
    srd, swr,   \* rd_offset and wr_offset in the slave's memory
    hrd, hwr,   \* the driver's copy of them, qs->data
    blocked,    \* qinfo->blocked_writer
    mbx, irq,   \* the queue's bit of the M2S mailbox; the slave's interrupt
    awake,      \* the slave's firmware is draining this queue
    pc,         \* the next transfer of the write under way
    call,       \* number of the current (or last) write call
    num,        \* words of it not copied yet
    done,       \* words_written
    woff,       \* its local write_offset
    size,       \* history: words asked for by each call
    ret,        \* history: what each call returned
    log,        \* history: the words committed, in order
    hcnt,       \* history: words committed (wr_offset moved past them)
    scnt,       \* history: words published (the slave's wr_offset moved)
    rcnt        \* history: words the slave has taken

ring   == <<mem, srd, swr>>
host   == <<hrd, hwr, blocked>>
bell   == <<mbx, irq, awake>>
local  == <<pc, num, done, woff>>
counts == <<hcnt, scnt, rcnt>>
vars   == <<ring, host, bell, local, call, size, ret, log, counts>>

Calls    == 1 .. MaxCalls
Word(c, j) == <<c, j>>
Results  == {"none", "ok", "again", "error"}

\* The driver has just initialised the queue: mt7697q_read_state copied the
\* slave's offsets, which are equal (the queue is empty).
Init ==
    /\ mem = [s \in Offsets |-> Word(0, 0)]
    /\ srd \in Offsets
    /\ swr = srd /\ hrd = srd /\ hwr = srd
    /\ blocked = FALSE
    /\ mbx = FALSE /\ irq = FALSE /\ awake = FALSE
    /\ pc = "idle" /\ num = 0 /\ done = 0 /\ woff = srd
    /\ call = 0
    /\ size = [c \in Calls |-> 0]
    /\ ret = [c \in Calls |-> "none"]
    /\ log = [p \in 0 .. (MaxWords - 1) |-> Word(0, 0)]
    /\ hcnt = 0 /\ scnt = 0 /\ rcnt = 0

-----------------------------------------------------------------------------
(* mt7697q_write *)

\* The call ends with result r and the mutex is released.
Return(r) ==
    /\ pc' = "idle"
    /\ ret' = [ret EXCEPT ![call] = r]

\* The mutex is taken and the free space computed from the driver's copy.
Enter(n) ==
    /\ pc = "idle"
    /\ call < MaxCalls /\ hcnt + n <= MaxWords
    /\ call' = call + 1
    /\ size' = [size EXCEPT ![call + 1] = n]
    /\ num' = n /\ done' = 0 /\ woff' = hwr
    /\ pc' = IF FreeWords(hrd, hwr) < n THEN "pull" ELSE "run1"
    /\ UNCHANGED <<ring, host, bell, ret, log, counts>>

\* Mutant: a full queue is taken for one the slave has drained.
PullAssumesDrained ==
    /\ pc = "pull"
    /\ hrd' = hwr /\ blocked' = TRUE
    /\ Return("again")
    /\ UNCHANGED <<ring, hwr, bell, num, done, woff, call, size, log, counts>>

\* mt7697q_pull_rd_ptr.  The free space is not computed again afterwards, so
\* the call is refused even if the pull made room; the next one will see it.
PullRdPtr ==
    /\ pc = "pull"
    /\ \/ /\ hrd' = srd
          /\ blocked' = TRUE
          /\ Return("again")
       \/ /\ SpiFails
          /\ Return("error")
          /\ UNCHANGED <<hrd, blocked>>
    /\ UNCHANGED <<ring, hwr, bell, num, done, woff, call, size, log, counts>>

\* Mutant: both runs start from the beginning of the caller's buffer.
CopySameSource(o, k) ==
    [s \in Offsets |-> IF s \in o .. (o + k - 1) THEN Word(call, s - o) ELSE mem[s]]

\* mt7697io_wr of k words of the buffer at offset o of the ring.
Copy(o, k) ==
    [s \in Offsets |->
        IF s \in o .. (o + k - 1) THEN Word(call, done + (s - o)) ELSE mem[s]]

\* The first run, up to the end of the ring.
CopyRun1 ==
    LET k == WriteRun1(hrd, woff, num) IN
    /\ pc = "run1"
    /\ \/ /\ mem' = Copy(woff, k)
          /\ done' = done + k /\ num' = num - k
          /\ woff' = AfterRun(woff, k)
          /\ pc' = "run2"
          /\ UNCHANGED ret
       \/ /\ SpiFails /\ woff >= hrd
          /\ \E j \in 0 .. k : mem' = Copy(woff, j)
          /\ Return("error")
          /\ UNCHANGED <<done, num, woff>>
    /\ UNCHANGED <<srd, swr, host, bell, call, size, log, counts>>

\* The second run, from the start of the ring to the reader.
CopyRun2 ==
    LET k == WriteRun2(hrd, woff, num) IN
    /\ pc = "run2"
    /\ \/ /\ mem' = Copy(woff, k)
          /\ done' = done + k /\ num' = num - k
          /\ woff' = woff + k
          /\ pc' = "commit"
          /\ UNCHANGED ret
       \/ /\ SpiFails /\ woff < hrd /\ num > 0
          /\ \E j \in 0 .. k : mem' = Copy(woff, j)
          /\ Return("error")
          /\ UNCHANGED <<done, num, woff>>
    /\ UNCHANGED <<srd, swr, host, bell, call, size, log, counts>>

\* Mutant: wr_offset moves by the words written and never wraps.
CommitNoWrap ==
    /\ pc = "commit"
    /\ hwr' = hwr + done
    /\ log' = [p \in DOMAIN log |->
                  IF p \in hcnt .. (hcnt + done - 1)
                  THEN Word(call, p - hcnt) ELSE log[p]]
    /\ hcnt' = hcnt + done
    /\ pc' = "push"
    /\ UNCHANGED <<ring, hrd, blocked, bell, num, done, woff, call, size, ret,
                   scnt, rcnt>>

\* The driver's wr_offset moves past what was copied, unless the WARN_ON finds
\* the offset outside the ring.
Commit ==
    /\ pc = "commit"
    /\ IF woff >= N
       THEN /\ Return("error")
            /\ UNCHANGED <<hwr, log, hcnt>>
       ELSE /\ hwr' = woff
            /\ log' = [p \in DOMAIN log |->
                          IF p \in hcnt .. (hcnt + done - 1)
                          THEN Word(call, p - hcnt) ELSE log[p]]
            /\ hcnt' = hcnt + done
            /\ pc' = "push"
            /\ UNCHANGED ret
    /\ UNCHANGED <<ring, hrd, blocked, bell, num, done, woff, call, size,
                   scnt, rcnt>>

\* Mutant: a failed transfer of wr_offset goes unnoticed.
PushIgnoresError ==
    /\ pc = "push"
    /\ \/ swr' = hwr /\ scnt' = hcnt
       \/ SpiFails /\ UNCHANGED <<swr, scnt>>
    /\ pc' = "mbx"
    /\ UNCHANGED <<mem, srd, host, bell, num, done, woff, call, size, ret, log,
                   hcnt, rcnt>>

\* mt7697q_push_wr_ptr: the slave's wr_offset, the mailbox bit, the interrupt.
\* A transfer that reports a failure may have reached the slave all the same.
PushWrPtr ==
    /\ pc = "push"
    /\ \/ /\ swr' = hwr /\ scnt' = hcnt
          /\ pc' = "mbx"
          /\ UNCHANGED ret
       \/ /\ SpiFails
          /\ \/ swr' = hwr /\ scnt' = hcnt
             \/ UNCHANGED <<swr, scnt>>
          /\ Return("error")
    /\ UNCHANGED <<mem, srd, host, bell, num, done, woff, call, size, log,
                   hcnt, rcnt>>

WrM2sMbx ==
    /\ pc = "mbx"
    /\ \/ /\ mbx' = TRUE
          /\ pc' = "trigger"
          /\ UNCHANGED ret
       \/ /\ SpiFails
          /\ mbx' \in {mbx, TRUE}
          /\ Return("error")
    /\ UNCHANGED <<ring, host, irq, awake, num, done, woff, call, size, log,
                   counts>>

\* Mutant: the mailbox is written but the slave never interrupted.
TriggerForgotten ==
    /\ pc = "trigger"
    /\ irq' = irq
    /\ Return("ok")
    /\ UNCHANGED <<ring, host, mbx, awake, num, done, woff, call, size, log,
                   counts>>

TriggerIntr ==
    /\ pc = "trigger"
    /\ \/ /\ irq' = TRUE
          /\ Return("ok")
       \/ /\ SpiFails
          /\ irq' \in {irq, TRUE}
          /\ Return("error")
    /\ UNCHANGED <<ring, host, mbx, awake, num, done, woff, call, size, log,
                   counts>>

\* mt7697q_unblock_writer, called from the queue owner's notify_tx handler
\* when irq_run finds blocked_writer set.
UnblockWriter ==
    /\ blocked
    /\ blocked' = FALSE
    /\ UNCHANGED <<ring, hrd, hwr, bell, local, call, size, ret, log, counts>>

-----------------------------------------------------------------------------
(* The slave's firmware (external): its interrupt handler looks at the     *)
(* mailbox, and a task takes words from rd_offset until the queue is empty.*)

SlaveIsr ==
    /\ irq
    /\ irq' = FALSE /\ mbx' = FALSE
    /\ awake' = (awake \/ mbx)
    /\ UNCHANGED <<ring, host, local, call, size, ret, log, counts>>

SlaveTake ==
    /\ awake /\ srd # swr
    /\ srd' = Advance(srd, 1)
    /\ rcnt' = rcnt + 1
    /\ UNCHANGED <<mem, swr, host, bell, local, call, size, ret, log, hcnt,
                   scnt>>

SlaveIdle ==
    /\ awake /\ srd = swr
    /\ awake' = FALSE
    /\ UNCHANGED <<ring, host, mbx, irq, local, call, size, ret, log, counts>>

-----------------------------------------------------------------------------
WriteStep == PullRdPtr \/ CopyRun1 \/ CopyRun2 \/ Commit \/ PushWrPtr
             \/ WrM2sMbx \/ TriggerIntr

SlaveStep == SlaveIsr \/ SlaveTake \/ SlaveIdle

Next == (\E n \in MsgSizes : Enter(n)) \/ WriteStep \/ UnblockWriter \/ SlaveStep

Spec == Init /\ [][Next]_vars

\* A thread inside mt7697q_write runs to its end, and the slave is running.
FairSpec == Spec /\ WF_vars(WriteStep) /\ WF_vars(SlaveStep)

-----------------------------------------------------------------------------
TypeOK ==
    /\ mem \in [Offsets -> (0 .. MaxCalls) \X Nat]
    /\ srd \in Offsets /\ swr \in Offsets /\ hrd \in Offsets /\ hwr \in Offsets
    /\ blocked \in BOOLEAN /\ mbx \in BOOLEAN /\ irq \in BOOLEAN
    /\ awake \in BOOLEAN
    /\ pc \in {"idle", "pull", "run1", "run2", "commit", "push", "mbx", "trigger"}
    /\ num \in Nat /\ done \in Nat /\ woff \in 0 .. N
    /\ call \in 0 .. MaxCalls
    /\ size \in [Calls -> Nat]
    /\ ret \in [Calls -> Results]
    /\ log \in [0 .. (MaxWords - 1) -> (0 .. MaxCalls) \X Nat]
    /\ hcnt \in 0 .. MaxWords /\ scnt \in 0 .. MaxWords /\ rcnt \in 0 .. MaxWords

\* The ring works as a queue across the two processors: the words the slave
\* can take, from its rd_offset to its wr_offset, are exactly the words that
\* were committed and not taken yet, in commit order.  A copy that ran into
\* unread words, a wr_offset pushed before its words, or a free-space count
\* off by one would all show here.
SlaveReadsCommitted ==
    /\ NumWords(srd, swr) = scnt - rcnt
    /\ \A i \in 0 .. (scnt - rcnt - 1) : mem[Advance(srd, i)] = log[rcnt + i]

\* What the driver believes about free space is never too optimistic, however
\* far the slave has moved since rd_offset was last pulled.
CachedRdIsSafe == NumWords(srd, hwr) <= NumWords(hrd, hwr)

\* The offsets stay in the ring (the WARN_ONs of mt7697q_write), and the free space that
\* the driver computes from its copy of them is really free.
RingSound == TypeOK /\ CachedRdIsSafe

\* mt7697q_write is all or nothing: a committed word is part of one unbroken
\* run of all the words of its call, and the offset the slave sees is never
\* inside a message.
WholeMessages ==
    /\ \A p \in 0 .. (hcnt - 1) :
        LET c == log[p][1]
            first == p - log[p][2]
        IN /\ first >= 0 /\ first + size[c] <= hcnt
           /\ \A j \in 0 .. (size[c] - 1) : log[first + j] = Word(c, j)
    /\ scnt > 0 => log[scnt - 1][2] = size[log[scnt - 1][1]] - 1

\* What a call returned is what happened: after success its words are visible
\* to the slave, after -EAGAIN none of them ever will be, and no call is in
\* the stream twice.
ResultIsHonest ==
    /\ \A c \in Calls :
        /\ ret[c] = "ok" => \E p \in 0 .. (scnt - 1) : log[p][1] = c
        /\ ret[c] = "again" => \A p \in 0 .. (hcnt - 1) : log[p][1] # c
    /\ \A p, q \in 0 .. (hcnt - 1) : log[p] = log[q] => p = q

\* The words the slave can take, as it would read them.
Visible == [i \in 1 .. NumWords(srd, swr) |-> mem[Advance(srd, i - 1)]]

Fifo == INSTANCE WordFifo WITH q <- Visible, Cap <- Capacity

\* The ring in shared memory, written by one processor and read by the other
\* with nothing but two offsets between them, is a bounded FIFO: no transfer of
\* the driver, failed or not, changes a word the slave can already see, makes
\* room that is not there, or shows words anywhere but at the end.
ImplementsFifo == Fifo!FifoSpec

\* No committed word is ever forgotten by the slave: the mailbox bit and the
\* interrupt that follow wr_offset wake it, and again and again it has taken all
\* there is (SPI transfers not failing).
CommittedIsTaken == []<>(rcnt = hcnt)
-----------------------------------------------------------------------------
(* The inductive invariant behind the properties above.                    *)

\* The history counters are in order and fit the ring.
CountsInOrder ==
    rcnt <= scnt /\ scnt <= hcnt /\ hcnt - rcnt <= Capacity

\* Both write offsets stand where the counters say, seen from the reader.
OffsetsMatchCounts ==
    swr = Advance(srd, scnt - rcnt) /\ hwr = Advance(srd, hcnt - rcnt)

\* Everything committed and not taken is in place, published or not.
ContentMatchesLog ==
    \A i \in 0 .. (hcnt - rcnt - 1) : mem[Advance(srd, i)] = log[rcnt + i]

\* The write under way stays inside the space it found free, what it copied is
\* in place behind wr_offset, and the second run can always finish the job.
CopyInProgress ==
    /\ pc # "idle" => call \in Calls
    /\ pc \in {"run1", "run2", "commit"} =>
        /\ num + done <= FreeWords(hrd, hwr)
        /\ hcnt + (num + done) <= MaxWords
        /\ woff = Advance(hwr, done)
        /\ \A j \in 0 .. (done - 1) : mem[Advance(hwr, j)] = Word(call, j)
    /\ pc = "run1" => done = 0
    /\ pc = "run2" => (num > 0 => woff < hrd /\ num <= hrd - woff - 1)
    /\ pc = "commit" => num = 0

WriteIInv ==
    /\ TypeOK
    /\ CountsInOrder
    /\ OffsetsMatchCounts
    /\ CachedRdIsSafe
    /\ ContentMatchesLog
    /\ CopyInProgress

\* Every committed word belongs to a call made, with all its words around it.
\* Counts never stand inside a message, and no word is there twice.
LogIsWhole ==
    /\ \A p \in 0 .. (hcnt - 1) :
        LET c == log[p][1]
            first == p - log[p][2]
        IN /\ c \in 1 .. call
           /\ first >= 0 /\ first + size[c] <= hcnt
           /\ \A j \in 0 .. (size[c] - 1) : log[first + j] = Word(c, j)
    /\ \A cnt \in {hcnt, scnt} :
        cnt > 0 => log[cnt - 1][2] = size[log[cnt - 1][1]] - 1
    /\ \A p, q \in 0 .. (hcnt - 1) : log[p] = log[q] => p = q

\* A call is in the log from its commit on, in the slave's sight from its push
\* on, and has no result before it returns.
CallMatchesLog ==
    /\ pc \in {"run1", "run2", "commit"} => num + done = size[call] /\ size[call] > 0
    /\ pc \in {"pull", "run1", "run2", "commit"} =>
        \A p \in 0 .. (hcnt - 1) : log[p][1] # call
    /\ pc = "push" => \E p \in 0 .. (hcnt - 1) : log[p][1] = call
    /\ pc \in {"mbx", "trigger"} => \E p \in 0 .. (scnt - 1) : log[p][1] = call
    /\ \A c \in Calls : c > call \/ (c = call /\ pc # "idle") => ret[c] = "none"

\* The results returned so far fit the log.
ResultsMatchLog ==
    \A c \in Calls :
        /\ ret[c] = "ok" => \E p \in 0 .. (scnt - 1) : log[p][1] = c
        /\ ret[c] = "again" => \A p \in 0 .. (hcnt - 1) : log[p][1] # c

HistoryIInv == LogIsWhole /\ CallMatchesLog /\ ResultsMatchLog
=============================================================================
