------------------------------- MODULE CanRaw -------------------------------
(***************************************************************************)
(* Receive filters of CAN sockets: the lists of af_can.c and a raw socket  *)
(* (raw.c) that subscribes to them, for one CAN device that comes and goes.*)
(*                                                                         *)
(* A canid_t is the set of its bits: "s" stands for the standard           *)
(* identifier bits, "e" for those that only an extended identifier has,    *)
(* and EFF, RTR, ERR, INV are the flags.  `x & mask' is x \cap mask.       *)
(*                                                                         *)
(* The socket's operations hold the socket lock and are taken whole.  A    *)
(* device that goes is first taken off the list of devices, so that        *)
(* dev_get_by_index does not find it, and then its notifiers are called;   *)
(* Window says whether a system call may come in between.                  *)
(***************************************************************************)
EXTENDS Integers, Sequences, FiniteSets, Bags

CONSTANTS
    FilterLists,    \* sequences of filters [can_id, mask] that a user may set
    ErrMasks,       \* error masks that a user may set; {} is none
    Window,         \* a system call may come while the device goes
    MaxSocks        \* bound: sockets created

\* One bit of an identifier says INV in the can_id of a filter and ERR in its mask.
Filter == [can_id : SUBSET {"s", "e", "EFF", "RTR", "INV"},
           mask : SUBSET {"s", "e", "EFF", "RTR", "ERR"}]

ASSUME RawAssumption ==
    /\ FilterLists \subseteq Seq(Filter) /\ ErrMasks \subseteq SUBSET {"s", "e"}
    /\ Window \in BOOLEAN /\ MaxSocks \in Nat

VARIABLES
    device,     \* "gone", "present" or "unlisted"
    rcv,        \* receive lists, of all devices and of the device: "any" and "can0"
    ml_priv,    \* the lists of the device are allocated
    onZero,     \* remove_on_zero_entries
    ro,         \* raw_sock
    missing,    \* can_rx_unregister has not found an entry
    socks       \* sockets created so far

rawVars == <<device, rcv, ml_priv, onZero, ro, missing, socks>>

Closed == [open |-> FALSE, bound |-> FALSE, ifindex |-> "any", filter |-> <<>>, err_mask |-> {}]
MASK_ALL == [can_id |-> {}, mask |-> {}]

-----------------------------------------------------------------------------
(* af_can.c *)

SFF_MASK == {"s"}
EFF_MASK == {"s", "e"}
EFF_RTR_FLAGS == {"EFF", "RTR"}

\* The list for a filter, with the mask checked and the identifier reduced.
find_rcv_list(f) ==
    LET mask == IF "EFF" \in f.mask /\ "EFF" \notin f.can_id
                THEN f.mask \cap (SFF_MASK \cup EFF_RTR_FLAGS) ELSE f.mask
        id == f.can_id \cap mask
        single == EFF_RTR_FLAGS \subseteq mask /\ "RTR" \notin id
        list == CASE "INV" \in f.can_id -> "INV"
                  [] "INV" \notin f.can_id /\ mask = {} -> "ALL"
                  [] single /\ "INV" \notin f.can_id /\ "EFF" \in id
                       /\ mask = EFF_MASK \cup EFF_RTR_FLAGS -> "EFF"
                  [] single /\ "INV" \notin f.can_id /\ "EFF" \notin id
                       /\ mask = SFF_MASK \cup EFF_RTR_FLAGS -> "SFF"
                  [] OTHER -> "FIL"
    IN  IF "ERR" \in f.mask
        THEN [list |-> "ERR", can_id |-> f.can_id, mask |-> f.mask \ {"ERR"}]
        ELSE [list |-> list, can_id |-> id, mask |-> mask]

\* can_rcv_filter: does an entry get a frame?  Error frames reach only their own list;
\* the lists of single identifiers are not looked at for a remote request.
Gets(entry, can_id) ==
    IF "ERR" \in can_id THEN entry.list = "ERR" /\ can_id \cap entry.mask # {}
    ELSE \/ entry.list = "ALL"
         \/ entry.list = "FIL" /\ can_id \cap entry.mask = entry.can_id
         \/ entry.list = "INV" /\ can_id \cap entry.mask # entry.can_id
         \/ /\ "RTR" \notin can_id
            /\ IF "EFF" \in can_id THEN entry.list = "EFF" /\ entry.can_id = can_id
               ELSE entry.list = "SFF" /\ entry.can_id = can_id \cap SFF_MASK

\* can_receive on the device: how often is the socket given the frame?
Got(list, can_id) == UNION {{e} \X (1 .. list[e]) : e \in {x \in DOMAIN list : Gets(x, can_id)}}
can_receive(can_id) == Cardinality(Got(rcv["any"], can_id)) + Cardinality(Got(rcv["can0"], can_id))

\* can_rx_register and can_rx_unregister of some entries one by one, on lists
\* [rcv, ml_priv, onZero, missing].  The order of a list is of no account: equal entries
\* are the same to the socket.
can_rx_register(l, d, es) == [l EXCEPT !.rcv[d] = @ (+) es]

can_rx_unregister(l, d, es) ==
    LET rest == l.rcv[d] (-) es
        free == d = "can0" /\ l.onZero /\ rest = EmptyBag /\ l.rcv[d] # EmptyBag
    IN  [l EXCEPT !.rcv[d] = rest, !.ml_priv = @ /\ ~ free, !.onZero = @ /\ ~ free,
                  !.missing = @ \/ ~ es \sqsubseteq l.rcv[d]]

Lists == [rcv |-> rcv, ml_priv |-> ml_priv, onZero |-> onZero, missing |-> missing]
SetLists(l) == rcv' = l.rcv /\ ml_priv' = l.ml_priv /\ onZero' = l.onZero /\ missing' = l.missing

\* can_notifier: without memory for its lists the device has none.
NetdevRegister ==
    /\ device = "gone"
    /\ device' = "present"
    /\ rcv' = [rcv EXCEPT !["can0"] = EmptyBag]
    /\ ml_priv' \in BOOLEAN /\ onZero' = FALSE
    /\ UNCHANGED <<ro, missing, socks>>

-----------------------------------------------------------------------------
(* raw.c *)

ErrFilter(err_mask) == IF err_mask = {} THEN <<>>
                       ELSE <<[can_id |-> {}, mask |-> err_mask \cup {"ERR"}]>>

\* The entries of a list of filters, each as often as a filter has it
Entries(fs) == [e \in {find_rcv_list(fs[i]) : i \in DOMAIN fs} |->
                  Cardinality({i \in DOMAIN fs : find_rcv_list(fs[i]) = e})]

\* raw_enable_filters and raw_enable_errfilter; a failure has been undone.
raw_enable(l, d, fs) == can_rx_register(l, d, Entries(fs))
raw_disable(l, d, fs) == can_rx_unregister(l, d, Entries(fs))
AllFilters(r) == r.filter \o ErrFilter(r.err_mask)

\* Registration fails for want of memory, or on a device without lists.
MayRegister(d) == d = "any" \/ ml_priv

Syscall == ro.open /\ (device # "unlisted" \/ Window)
Found(d) == d = "any" \/ device = "present"

\* can_create with raw_init
raw_init ==
    /\ ~ ro.open /\ socks < MaxSocks
    /\ socks' = socks + 1
    /\ ro' = [Closed EXCEPT !.open = TRUE, !.filter = <<MASK_ALL>>]
    /\ UNCHANGED <<device, rcv, ml_priv, onZero, missing>>

\* Mutant: the filters of the old device stay registered.
RawBindKeepsOld(d) ==
    /\ Syscall /\ ~ (ro.bound /\ ro.ifindex = d) /\ Found(d)
    /\ AllFilters(ro) # <<>> => MayRegister(d)
    /\ SetLists(raw_enable(Lists, d, AllFilters(ro)))
    /\ ro' = [ro EXCEPT !.bound = TRUE, !.ifindex = d]
    /\ UNCHANGED <<device, socks>>
\* raw_bind: the filters are enabled on the new device and then disabled on the old one.
raw_bind(d) ==
    /\ Syscall /\ ~ (ro.bound /\ ro.ifindex = d) /\ Found(d)
    /\ AllFilters(ro) # <<>> => MayRegister(d)
    /\ LET on == raw_enable(Lists, d, AllFilters(ro))
       IN  SetLists(IF ro.bound /\ Found(ro.ifindex)
                    THEN raw_disable(on, ro.ifindex, AllFilters(ro)) ELSE on)
    /\ ro' = [ro EXCEPT !.bound = TRUE, !.ifindex = d]
    /\ UNCHANGED <<device, socks>>

\* raw_setsockopt looks the device up and takes one that is not found (NULL) for the list
\* of all devices.
OptDev == IF ro.bound /\ ro.ifindex # "any" /\ Found(ro.ifindex) THEN ro.ifindex ELSE "any"

Replaced(old, new) ==
    IF ro.bound THEN raw_disable(raw_enable(Lists, OptDev, new), OptDev, old) ELSE Lists

raw_setsockopt_filter(fs) ==
    /\ Syscall /\ (ro.bound /\ fs # <<>> => MayRegister(OptDev))
    /\ SetLists(Replaced(ro.filter, fs))
    /\ ro' = [ro EXCEPT !.filter = fs]
    /\ UNCHANGED <<device, socks>>

raw_setsockopt_err_filter(m) ==
    /\ Syscall /\ (ro.bound /\ m # {} => MayRegister(OptDev))
    /\ SetLists(Replaced(ErrFilter(ro.err_mask), ErrFilter(m)))
    /\ ro' = [ro EXCEPT !.err_mask = m]
    /\ UNCHANGED <<device, socks>>

\* raw_release; while the device goes it is not found and nothing is unregistered.
raw_release ==
    /\ Syscall
    /\ SetLists(IF ro.bound /\ Found(ro.ifindex) THEN raw_disable(Lists, ro.ifindex, AllFilters(ro))
                ELSE Lists)
    /\ ro' = Closed
    /\ UNCHANGED <<device, socks>>

\* The device goes: it is unlisted, and can_notifier and raw_notifier are called in turn.
\* The error mask stays with the socket.
NetdevUnlisted ==
    /\ device = "present" /\ device' = "unlisted"
    /\ UNCHANGED <<rcv, ml_priv, onZero, ro, missing, socks>>

raw_notifier ==
    /\ device = "unlisted" /\ device' = "gone"
    /\ LET core == IF rcv["can0"] = EmptyBag THEN [Lists EXCEPT !.ml_priv = FALSE]
                   ELSE [Lists EXCEPT !.onZero = TRUE]
           mine == ro.open /\ ro.ifindex = "can0"
       IN  /\ SetLists(IF mine /\ ro.bound THEN raw_disable(core, "can0", AllFilters(ro)) ELSE core)
           /\ ro' = IF mine THEN [ro EXCEPT !.bound = FALSE, !.ifindex = "any", !.filter = <<>>] ELSE ro
    /\ UNCHANGED socks

-----------------------------------------------------------------------------

RawInit ==
    /\ device = "gone" /\ rcv = [d \in {"any", "can0"} |-> EmptyBag] /\ ml_priv = FALSE
    /\ onZero = FALSE /\ ro = Closed /\ missing = FALSE /\ socks = 0

RawNext ==
    \/ NetdevRegister \/ NetdevUnlisted \/ raw_notifier
    \/ raw_init \/ raw_release
    \/ \E d \in {"any", "can0"} : raw_bind(d)
    \/ \E fs \in FilterLists : raw_setsockopt_filter(fs)
    \/ \E m \in ErrMasks : raw_setsockopt_err_filter(m)

RawSpec == RawInit /\ [][RawNext]_rawVars

-----------------------------------------------------------------------------

\* Frames that a CAN device can receive
Frames ==
    {f \in SUBSET {"s", "e", "EFF", "RTR"} : "EFF" \notin f => "e" \notin f}
        \cup {{"ERR", "s"}, {"ERR", "e"}}

\* What the comment of can_rx_register says that a filter lets through
Matches(f, can_id) ==
    IF "ERR" \in f.mask \/ "ERR" \in can_id
    THEN "ERR" \in f.mask /\ "ERR" \in can_id /\ can_id \cap (f.mask \ {"ERR"}) # {}
    ELSE (can_id \cap f.mask = f.can_id \cap f.mask) # ("INV" \in f.can_id)

\* The socket is given a frame of the device once for each of its filters that match, as
\* can_rx_register documents it, while it is bound to that device or to all of them, and
\* never otherwise: whatever binds, options, failures and departures of the device there
\* were, the lists hold exactly the filters in force.
DeliversAsDocumented ==
    device = "present" => \A can_id \in Frames :
        can_receive(can_id) =
            IF ro.open /\ ro.bound
            THEN Cardinality({i \in DOMAIN AllFilters(ro) : Matches(AllFilters(ro)[i], can_id)})
            ELSE 0

\* "This should exist, since no receiver may be unregistered that hasn't been registered
\* before." (af_can.c, can_rx_unregister)
UnregisterFinds == ~ missing

-----------------------------------------------------------------------------
(* What DeliversAsDocumented needs to be inductive, with no system call in between *)

\* find_rcv_list leaves the bits of an extended identifier out of the mask of a filter for
\* standard frames, so one that asks for such bits, which matches nothing, matches as if it
\* did not.
Answerable(f) ==
    "ERR" \notin f.mask /\ "EFF" \in f.mask /\ "EFF" \notin f.can_id => "e" \notin f.mask \cap f.can_id

BoundTo(d) == ro.open /\ ro.bound /\ ro.ifindex = d

RawSock ==
    [open : BOOLEAN, bound : BOOLEAN, ifindex : {"any", "can0"},
     filter : FilterLists \cup {<<>>, <<MASK_ALL>>}, err_mask : ErrMasks \cup {{}}]

RawTypeOK ==
    /\ device \in {"gone", "present", "unlisted"} /\ ml_priv \in BOOLEAN /\ onZero \in BOOLEAN
    /\ ro \in RawSock

\* The lists have an entry for each filter of the socket where it is bound, and no other.
ListsAreFilters ==
    rcv = [d \in {"any", "can0"} |-> IF BoundTo(d) THEN Entries(AllFilters(ro)) ELSE EmptyBag]

RawIInv ==
    /\ RawTypeOK /\ ListsAreFilters /\ ~ missing
    /\ ro.bound => ro.open /\ (ro.ifindex = "can0" => device # "gone")

=============================================================================
