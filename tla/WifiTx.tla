------------------------------- MODULE WifiTx -------------------------------
(***************************************************************************)
(* Transmission in the MT7697 Wi-Fi driver (mt7697wifi/txrx.c): packets    *)
(* from the network stack go into a pool of slots, the slots onto a list,  *)
(* and a work item takes them from the list to the hardware interface.     *)
(*                                                                         *)
(* Concurrent are: mt7697_data_tx (one at a time, the stack's transmit     *)
(* lock), mt7697_tx_work (one at a time, a work item), mt7697_tx_stop (when *)
(* the interface goes down, after the last data_tx) and mt7697_notify_tx   *)
(* (from the queue driver's work).  The list is changed under its lock,    *)
(* but walked without it.                                                  *)
(*                                                                         *)
(* Whether the hardware interface takes a packet or refuses it makes no    *)
(* difference here: tx_work counts an error and goes on in the same way.   *)
(***************************************************************************)
EXTENDS Integers, Sequences, SequencesExt

CONSTANTS
    PoolLen,        \* MT7697_TX_PKT_POOL_LEN
    MaxPackets,     \* bound on the number of packets
    MaxStops        \* bound on how often the interface goes down

ASSUME TxAssumption == PoolLen \in Nat \ {0} /\ MaxPackets \in Nat /\ MaxStops \in Nat

Slots == 0 .. PoolLen - 1
Free == 0                       \* tx_skb->skb is NULL
End == PoolLen                  \* the list head, where a walk ends

VARIABLES
    packets,        \* packets handed to data_tx so far; they are numbered
    accepted,       \* history: the packets data_tx accepted
    pool,           \* tx_skb_pool: the packet in each slot
    idx,            \* tx_skb_pool_idx
    list,           \* tx_skb_list, as the slots on it
    xpc, xslot,     \* data_tx: "idle", "link" or "kick", and its slot
    txQueued,       \* tx_work is queued
    txPc, txCur, nxt, \* tx_work: its next step, its entry and the next one
    tried,          \* history: the packets given to the hardware interface
    full,           \* data_tx has just said "tx pool full"
    up, stops,      \* the interface is up; how often it has gone down
    scur, snxt,     \* tx_stop: its entry and the next one
    broken          \* an entry not on the list was unlinked or followed

txVars == <<packets, accepted, pool, idx, list, xpc, xslot, txQueued, txPc, txCur, nxt,
            tried, full, up, stops, scur, snxt, broken>>

\* Where the entry s is on the list.
Place(s) == CHOOSE k \in DOMAIN list : list[k] = s

\* The entry behind s on the list; with no s there, what is read is poison.
OnList(s) == s = End \/ Contains(list, s)
NextOf(s) ==
    IF ~ Contains(list, s) \/ s = Last(list) THEN End
    ELSE list[Place(s) + 1]
FirstOf == IF list = <<>> THEN End ELSE Head(list)
Unlink(s) == list' = IF Contains(list, s) THEN RemoveAt(list, Place(s)) ELSE list

-----------------------------------------------------------------------------
(* mt7697_data_tx *)

NextIndex(i) == IF i + 1 >= PoolLen THEN 0 ELSE i + 1

\* No headroom, or the slot at the index is taken: the packet is dropped.
DataTxDrop ==
    /\ up /\ ~ broken /\ xpc = "idle" /\ packets < MaxPackets
    /\ packets' = packets + 1
    /\ full' \in {FALSE} \cup (IF pool[idx] # Free THEN {TRUE} ELSE {})
    /\ UNCHANGED <<accepted, pool, idx, list, xpc, xslot, txQueued, txPc, txCur, nxt, tried, up,
                   stops, scur, snxt, broken>>

\* Mutant: the slot is taken whether or not it is free.
DataTxOverwrites ==
    /\ up /\ ~ broken /\ xpc = "idle" /\ packets < MaxPackets
    /\ packets' = packets + 1 /\ accepted' = Append(accepted, packets')
    /\ pool' = [pool EXCEPT ![idx] = packets']
    /\ idx' = NextIndex(idx)
    /\ xslot' = idx /\ xpc' = "link" /\ full' = FALSE
    /\ UNCHANGED <<list, txQueued, txPc, txCur, nxt, tried, up, stops, scur, snxt, broken>>

DataTxPlace ==
    /\ up /\ ~ broken /\ xpc = "idle" /\ packets < MaxPackets
    /\ pool[idx] = Free
    /\ packets' = packets + 1 /\ accepted' = Append(accepted, packets')
    /\ pool' = [pool EXCEPT ![idx] = packets']
    /\ idx' = NextIndex(idx)
    /\ xslot' = idx /\ xpc' = "link" /\ full' = FALSE
    /\ UNCHANGED <<list, txQueued, txPc, txCur, nxt, tried, up, stops, scur, snxt, broken>>

DataTxLink ==
    /\ xpc = "link" /\ ~ broken
    /\ list' = Append(list, xslot) /\ xpc' = "kick"
    /\ UNCHANGED <<packets, accepted, pool, idx, xslot, txQueued, txPc, txCur, nxt, tried, full,
                   up, stops, scur, snxt, broken>>

\* Mutant: the work is queued only when it is not at work already.
DataTxKickIdle ==
    /\ xpc = "kick" /\ ~ broken
    /\ txQueued' = (txQueued \/ txPc = "idle") /\ xpc' = "idle"
    /\ UNCHANGED <<packets, accepted, pool, idx, list, xslot, txPc, txCur, nxt, tried, full, up,
                   stops, scur, snxt, broken>>

DataTxKick ==
    /\ xpc = "kick" /\ ~ broken
    /\ txQueued' = TRUE /\ xpc' = "idle"
    /\ UNCHANGED <<packets, accepted, pool, idx, list, xslot, txPc, txCur, nxt, tried, full, up,
                   stops, scur, snxt, broken>>

\* mt7697_notify_tx takes the list head for the first packet: the length it compares
\* with the free room is some word of another structure, so it may queue the work or not.
NotifyTx ==
    /\ list # <<>> /\ ~ broken
    /\ txQueued' \in {txQueued, TRUE}
    /\ UNCHANGED <<packets, accepted, pool, idx, list, xpc, xslot, txPc, txCur, nxt, tried, full,
                   up, stops, scur, snxt, broken>>

-----------------------------------------------------------------------------
(* mt7697_tx_work *)

\* The walk begins: its first entry, and the one after it, are read.
WorkStart ==
    /\ txPc = "idle" /\ txQueued /\ ~ broken
    /\ txQueued' = FALSE
    /\ txCur' = FirstOf /\ nxt' = NextOf(FirstOf)
    /\ txPc' = IF FirstOf = End THEN "idle" ELSE "write"
    /\ UNCHANGED <<packets, accepted, pool, idx, list, xpc, xslot, tried, full, up, stops,
                   scur, snxt, broken>>

WorkWrite ==
    /\ txPc = "write" /\ ~ broken
    /\ tried' = Append(tried, pool[txCur])
    /\ txPc' = "unlink"
    /\ UNCHANGED <<packets, accepted, pool, idx, list, xpc, xslot, txQueued, txCur, nxt, full, up,
                   stops, scur, snxt, broken>>

WorkUnlink ==
    /\ txPc = "unlink" /\ ~ broken
    /\ Unlink(txCur) /\ broken' = ~ OnList(txCur)
    /\ txPc' = "clear"
    /\ UNCHANGED <<packets, accepted, pool, idx, xpc, xslot, txQueued, txCur, nxt, tried, full, up,
                   stops, scur, snxt>>

SlotCleared(s) == [pool EXCEPT ![s] = Free]

\* The slot is given back, and the walk goes on to the entry it had noted before.
WorkClear ==
    /\ txPc = "clear" /\ ~ broken
    /\ pool' = SlotCleared(txCur)
    /\ broken' = ~ OnList(nxt)
    /\ txCur' = nxt /\ nxt' = NextOf(nxt)
    /\ txPc' = IF nxt = End THEN "idle" ELSE "write"
    /\ UNCHANGED <<packets, accepted, idx, list, xpc, xslot, txQueued, tried, full, up, stops,
                   scur, snxt>>

-----------------------------------------------------------------------------
(* mt7697_stop, as far as mt7697_tx_stop: the entries are unlinked, their   *)
(* packets stay in the pool; mt7697_open does nothing about it.             *)

StopBegin ==
    /\ up /\ ~ broken /\ xpc = "idle" /\ stops < MaxStops
    /\ up' = FALSE /\ stops' = stops + 1
    /\ scur' = FirstOf /\ snxt' = NextOf(FirstOf)
    /\ UNCHANGED <<packets, accepted, pool, idx, list, xpc, xslot, txQueued, txPc, txCur, nxt,
                   tried, full, broken>>

\* The packet's device is read, then the entry unlinked: both fail if tx_work was faster.
StopEntry ==
    /\ ~ up /\ scur # End /\ ~ broken
    /\ Unlink(scur)
    /\ broken' = (~ OnList(scur) \/ pool[scur] = Free \/ ~ OnList(snxt))
    /\ scur' = snxt /\ snxt' = NextOf(snxt)
    /\ UNCHANGED <<packets, accepted, pool, idx, xpc, xslot, txQueued, txPc, txCur, nxt, tried,
                   full, up, stops>>

Open ==
    /\ ~ up /\ scur = End /\ ~ broken
    /\ up' = TRUE
    /\ UNCHANGED <<packets, accepted, pool, idx, list, xpc, xslot, txQueued, txPc, txCur, nxt,
                   tried, full, stops, scur, snxt, broken>>

-----------------------------------------------------------------------------
TxInit ==
    /\ packets = 0 /\ accepted = <<>> /\ pool = [s \in Slots |-> Free] /\ idx = 0
    /\ list = <<>> /\ xpc = "idle" /\ xslot = 0 /\ txQueued = FALSE
    /\ txPc = "idle" /\ txCur = End /\ nxt = End /\ tried = <<>> /\ full = FALSE
    /\ up = TRUE /\ stops = 0 /\ scur = End /\ snxt = End /\ broken = FALSE

TxWork == WorkStart \/ WorkWrite \/ WorkUnlink \/ WorkClear

TxNext ==
    \/ DataTxDrop \/ DataTxPlace \/ DataTxLink \/ DataTxKick \/ NotifyTx
    \/ TxWork \/ StopBegin \/ StopEntry \/ Open

TxSpec == TxInit /\ [][TxNext]_txVars

\* A data_tx that has begun goes on, and the kernel runs queued work.
TxFairSpec == TxSpec /\ WF_txVars(DataTxLink \/ DataTxKick) /\ WF_txVars(TxWork)

-----------------------------------------------------------------------------
(* Properties *)

\* The state has its type.
TxTypeOK ==
    /\ pool \in [Slots -> 0 .. MaxPackets] /\ idx \in Slots
    /\ list \in Seq(Slots)
    /\ xpc \in {"idle", "link", "kick"} /\ txPc \in {"idle", "write", "unlink", "clear"}
    /\ {xslot, txCur, nxt, scur, snxt} \subseteq Slots \cup {End}

\* Packets reach the hardware interface in the order in which data_tx accepted them, and
\* each at most once, however data_tx, the walk of tx_work and tx_stop interleave.
InOrderOnce ==
    \A i \in DOMAIN tried :
        /\ Contains(accepted, tried[i])
        /\ i > 1 => tried[i - 1] < tried[i]

\* A slot is on the list at most once, and has its packet as long as it is there: a slot
\* is given back only after it was unlinked.
ListedSlotsAreTaken ==
    /\ IsInjective(list)
    /\ \A k \in DOMAIN list : pool[list[k]] # Free

\* "tx pool full" is said when the pool is full: each slot has a packet that is on the
\* list or in the hands of tx_work.  (Only until the interface goes down for the first
\* time: tx_stop leaves packets in slots that nothing clears any more.)
FullMeansFull ==
    [][full' /\ ~ full /\ stops = 0 =>
        \A s \in Slots : Contains(list, s) \/ (txPc # "idle" /\ s = txCur)]_txVars

\* The transmit list and its pool: packets go out in order and once, a slot that is
\* listed is taken, and the pool is full when it says so.
TransmitSound == [](TxTypeOK /\ InOrderOnce /\ ListedSlotsAreTaken) /\ FullMeansFull

-----------------------------------------------------------------------------
(* The inductive invariant of WifiProofs.  Nothing moves once a step has met an entry that
   is not on the list, so all of it but its first part speaks of the time before. *)

\* Packets are numbered as they come, and the histories are of such numbers.
TxHistoryOK ==
    /\ packets \in 0 .. MaxPackets /\ broken \in BOOLEAN
    /\ stops \in Nat /\ (~ up => stops # 0)
    /\ accepted \in Seq(1 .. MaxPackets) /\ tried \in Seq(1 .. MaxPackets)
    /\ \A i \in DOMAIN tried : tried[i] <= packets

\* What is in the pool was accepted; what data_tx is about to link is newer than the rest,
\* and in a slot that neither the list nor the walk knows.
NewestIsAside ==
    /\ \A s \in Slots : pool[s] # Free => pool[s] <= packets /\ Contains(accepted, pool[s])
    /\ xpc = "link" =>
        /\ xslot \in Slots /\ pool[xslot] = packets /\ packets > 0
        /\ ~ Contains(list, xslot)
        /\ txPc # "idle" => xslot # txCur /\ xslot # nxt
        /\ \A s \in Slots \ {xslot} : pool[s] < packets
        /\ \A i \in DOMAIN tried : tried[i] < packets

\* The list is in the order of its packets, which come after all that were tried; only
\* the entry the work has yet to unlink was.
ListIsAhead ==
    /\ \A i, j \in DOMAIN list : i < j => pool[list[i]] < pool[list[j]]
    /\ \A k \in DOMAIN list, i \in DOMAIN tried :
        tried[i] < pool[list[k]] \/ (txPc = "unlink" /\ list[k] = txCur)

\* The entries the work holds keep their slots, on the list or not; as far as they are on
\* the list they are its first ones.
WalkIsInFront ==
    /\ txPc # "idle" =>
        /\ txCur \in Slots /\ pool[txCur] # Free
        /\ nxt # End => nxt \in Slots /\ pool[nxt] # Free /\ nxt # txCur
    /\ txPc \in {"write", "unlink"} /\ Contains(list, txCur) =>
        /\ list[1] = txCur
        /\ Contains(list, nxt) => list[2] = nxt
    /\ txPc = "clear" =>
        /\ ~ Contains(list, txCur)
        /\ Contains(list, nxt) => list[1] = nxt
    /\ txPc = "write" =>
        /\ \A i \in DOMAIN tried : tried[i] < pool[txCur]
        /\ \A k \in DOMAIN list : pool[txCur] < pool[list[k]] \/ list[k] = txCur

\* Until the first stop, the slots taken are those just behind the index: the one the work
\* is about to give back, those on the list in its order, the one about to be linked.
Behind(d) == IF d <= idx THEN idx - d ELSE idx - d + PoolLen
Linking == IF xpc = "link" THEN 1 ELSE 0
Clearing == IF txPc = "clear" THEN 1 ELSE 0
TakenAreBehind ==
    stops = 0 =>
        /\ Len(list) + Linking + Clearing <= PoolLen
        /\ \A k \in DOMAIN list : list[k] = Behind(Len(list) + Linking + 1 - k)
        /\ xpc = "link" => xslot = Behind(1)
        /\ txPc = "clear" => txCur = Behind(Len(list) + Linking + 1)
        /\ \A s \in Slots : pool[s] # Free =>
            \E d \in 1 .. Len(list) + Linking + Clearing : s = Behind(d)
        /\ txPc \in {"write", "unlink"} => Contains(list, txCur)

TxIInv ==
    /\ TxTypeOK /\ TxHistoryOK /\ InOrderOnce /\ ListedSlotsAreTaken
    /\ ~ broken => NewestIsAside /\ ListIsAhead /\ WalkIsInFront /\ TakenAreBehind

\* Every packet accepted gets to the hardware interface, unless the interface goes down:
\* a packet that is linked while the walk is at its last entry is not forgotten, since
\* the work is queued again, and again and again none is outstanding.
EveryPacketIsTried ==
    []<>(stops > 0 \/ \A p \in 1 .. MaxPackets : Contains(accepted, p) => Contains(tried, p))
=============================================================================
