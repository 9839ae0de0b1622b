------------------------------ MODULE WifiSme ------------------------------
(***************************************************************************)
(* Session management of the MT7697 Wi-Fi driver: the interface, its scans *)
(* and connections, and the stations of an access point (mt7697wifi:       *)
(* main.c, cfg80211.c, ioctl.c, wmi.c).                                    *)
(*                                                                         *)
(* Three parties act.  The kernel calls the driver: cfg80211 operations,   *)
(* wireless extensions and open/stop, all of them under the RTNL lock.     *)
(* The firmware sends responses and indications, which one work item of    *)
(* the transport hands to mt7697_proc_80211cmd one after another; it may   *)
(* send an indication at any time.  Work items set the driver up.  A       *)
(* handler is taken whole, except that mt7697_cfg80211_stop waits in the   *)
(* transport's close, with the RTNL lock held, while the receive work is   *)
(* still at work.  Every write to the transport may fail.                  *)
(*                                                                         *)
(* Left out are handlers that only log, the statistics, the multicast      *)
(* flags, the semaphore that only mt7697_cfg80211_disconnect takes (RTNL   *)
(* serialises it), and what is unreachable: DESTROY_IN_PROGRESS is never   *)
(* set, disconnect_timer never started, and an IBSS interface never made.  *)
(***************************************************************************)
EXTENDS Naturals, Sequences, SequencesExt

CONSTANTS
    Macs,           \* addresses of stations
    StaMax,         \* vif->sta_max, MT7697_MAX_STA
    Channels        \* channel numbers that the firmware reports

ASSUME SmeAssumption == StaMax \in Nat \ {0} /\ Channels \subseteq Nat

VARIABLES
    cfg,    \* mt7697_cfg80211_info
    vif,    \* mt7697_vif, the only interface there is
    asked,  \* the queries the firmware has not answered yet
    told,   \* the settings that the firmware has as the driver means them
    kscan,  \* the kernel has a scan request outstanding
    stopper,\* who holds RTNL in mt7697_cfg80211_stop: "no", "down", "del" or "remove"
    dead,   \* "no", or how the kernel was brought down: "oops" or "deadlock"
    cut,    \* history: a stop was cut short by a failed write
    stopped,\* history: the interface has been stopped and not opened since
    wrongs  \* history: reports and requests that should not have been made

smeVars == <<cfg, vif, asked, told, kscan, stopper, dead, cut, stopped, wrongs>>

Modes == {"sta", "ap"}
NoCfg(itf) == [itf |-> itf, bound |-> FALSE, init |-> "none", hif |-> "closed",
               opmode |-> "unset", port |-> "sta", listed |-> FALSE]

\* What alloc_etherdev and mt7697_interface_add leave in a new interface.
NewVif(type) ==
    [reg |-> TRUE, up |-> FALSE, iftype |-> type, sme |-> "disconnected",
     connected |-> FALSE, pend |-> FALSE, scan |-> FALSE, ch |-> FALSE, stas |-> <<>>,
     count |-> 0]
NoVif == [NewVif("sta") EXCEPT !.reg = FALSE]

\* mt7697_get_vif_by_idx: only index 0 is ever found, and only on the list.
Found(i) == i = 0 /\ cfg.listed

\* The channels of mt7697_2ghz_channels and mt7697_5ghz_a_channels, and the bands that
\* mt7697_cfg80211_connect_event and mt7697_proc_scan_ind choose.
Channels2G == 1 .. 14
Channels5G == {36, 40, 44, 48, 52, 56, 60, 64, 100, 104, 108, 112, 116, 120, 124, 128,
               132, 136, 140, 149, 153, 157, 161, 165}
BandOf(ch) == IF ch \in 1 .. 14 THEN "2G" ELSE IF ch \in 34 .. 216 THEN "5G" ELSE "none"
\* mt7697_add_bss_if_needed: the network is in the kernel's table or is put there, unless
\* its channel is none of wiphy's or there is no memory.
AddBssIfNeeded(ch) ==
    IF (BandOf(ch) = "2G" /\ ch \in Channels2G) \/ (BandOf(ch) = "5G" /\ ch \in Channels5G)
    THEN BOOLEAN ELSE {FALSE}

\* A call of the kernel into the driver: RTNL is free and nothing is broken.
Rtnl == dead = "no" /\ stopper = "no"
Receiving == dead = "no" /\ cfg.bound /\ cfg.hif \in {"open", "closing"}
\* A write through a handle that close has set to NULL brings the kernel down.
CanWrite == cfg.hif = "open"
\* Nothing that was in its memory matters any more.
Dies(how) ==
    /\ dead' = how
    /\ cfg' = NoCfg(cfg.itf) /\ vif' = NoVif /\ asked' = {} /\ told' = {} /\ kscan' = FALSE
    /\ stopper' = "no" /\ cut' = FALSE /\ stopped' = FALSE /\ wrongs' = {}

\* A report to cfg80211: none may come after the interface was stopped.
Reported(what) == IF stopped THEN wrongs \cup {what} ELSE wrongs
\* cfg80211_scan_done is for the request that is outstanding.
ScanReported == IF stopped \/ ~ kscan THEN wrongs \cup {"scan"} ELSE wrongs

\* The queries whose answers matter.
WrCfgReq == {"cfg"}
WrMacAddrReq == {"mac"}

-----------------------------------------------------------------------------
(* Set-up and removal: mt7697_probe, mt7697_init_hw_start, mt7697_remove *)

ProbeOk ==
    /\ Rtnl /\ ~ cfg.bound /\ cfg.init # "queued"
    /\ cfg' = [NoCfg(cfg.itf) EXCEPT !.bound = TRUE, !.init = "queued"]
    /\ vif' = NoVif /\ asked' = {} /\ told' = {} /\ kscan' = FALSE /\ cut' = FALSE /\ stopped' = FALSE
    /\ wrongs' = {}
    /\ UNCHANGED <<stopper, dead>>

\* A probe that fails frees wiphy, a local variable that was never set.
ProbeFails == Rtnl /\ ~ cfg.bound /\ cfg.init # "queued" /\ Dies("oops")

\* The transport is opened, and the firmware asked for its configuration.
InitHwStart ==
    /\ dead = "no" /\ cfg.bound /\ cfg.init = "queued"
    /\ \E opened, written \in BOOLEAN :
        /\ cfg' = [cfg EXCEPT !.init = "done",
                              !.hif = IF opened THEN "open" ELSE "closed"]
        /\ asked' = IF opened /\ written THEN WrCfgReq ELSE {}
    /\ UNCHANGED <<vif, told, kscan, stopper, dead, cut, stopped, wrongs>>

\* mt7697_remove does not wait for the init work, which then works on freed memory.
InitAfterRemove == dead = "no" /\ ~ cfg.bound /\ cfg.init = "queued" /\ Dies("oops")

-----------------------------------------------------------------------------
(* Responses to the driver's queries *)

\* mt7697_proc_get_cfg: the port type is set before the rest of the configuration is
\* looked at; a good one is stored, and three further queries are written: the listen
\* interval and the wireless mode, whose answers only note a number, and the address.
ProcGetCfg ==
    /\ Receiving /\ "cfg" \in asked
    /\ \/ /\ \E m \in Modes \cup {cfg.port} : cfg' = [cfg EXCEPT !.port = m]
          /\ asked' = asked \ {"cfg"}
       \/ \E m \in Modes, k \in 0 .. 3 :
            /\ cfg' = [cfg EXCEPT !.port = m, !.opmode = m]
            /\ asked' = (asked \ {"cfg"}) \cup (IF k = 3 THEN WrMacAddrReq ELSE {})
    /\ UNCHANGED <<vif, told, kscan, stopper, dead, cut, stopped, wrongs>>

\* mt7697_proc_mac_addr makes the interface, under RTNL, unless something fails.
ProcMacAddr ==
    /\ Receiving /\ stopper = "no" /\ "mac" \in asked
    /\ asked' = asked \ {"mac"}
    /\ \/ UNCHANGED <<cfg, vif>>
       \/ /\ ~ cfg.listed
          /\ cfg' = [cfg EXCEPT !.listed = TRUE]
          /\ vif' = NewVif(cfg.opmode)
    /\ UNCHANGED <<told, kscan, stopper, dead, cut, stopped, wrongs>>
-----------------------------------------------------------------------------
(* Requests to the firmware.  A setting that was written is one the firmware has;   *)
(* one that the driver changes afterwards is not.                                   *)

WrSetOpMode(t) == t \cup {"mode"}
WrSetSsid(t) == t \cup {"ssid"}
WrSetChannel(t) == t \cup {"ch"}
WrSetSecurityMode(t) == t \cup {"sec"}
\* mt7697_wr_reload_settings_req makes the firmware act on what it has been told.
WrReload(t, needed) == IF needed \subseteq t THEN wrongs ELSE wrongs \cup {"reload"}

-----------------------------------------------------------------------------
(* Interface operations: mt7697_open, mt7697_stop, add/del/change_iface *)

NdoOpen ==
    /\ Rtnl /\ vif.reg /\ ~ vif.up
    /\ \/ cfg.hif = "open" /\ UNCHANGED cfg
       \/ cfg.hif # "open" /\ cfg' = [cfg EXCEPT !.hif = "open"]
    /\ vif' = [vif EXCEPT !.up = TRUE]
    /\ stopped' = FALSE
    /\ UNCHANGED <<asked, told, kscan, stopper, dead, cut, wrongs>>

\* When the transport cannot be opened mt7697_open returns 0 all the same.
NdoOpenFails ==
    /\ Rtnl /\ vif.reg /\ ~ vif.up /\ cfg.hif # "open"
    /\ vif' = [vif EXCEPT !.up = TRUE]
    /\ UNCHANGED <<cfg, asked, told, kscan, stopper, dead, cut, stopped, wrongs>>

\* What the caller of a stop that was cut short makes of it: an interface going down is
\* down all the same, removal goes on, and only del_iface gives up.
CutVif(who, v) == CASE who = "down" -> [v EXCEPT !.up = FALSE]
                    [] who = "del" -> v
                    [] who = "remove" -> NoVif
CutCfg(who, c) == [c EXCEPT !.listed = @ /\ who = "down", !.bound = @ /\ who # "remove"]

\* mt7697_cfg80211_stop fails at a disconnect request: it leaves everything as it was,
\* except for the stations it has already dismissed.
StopCut(who) ==
    /\ \E n \in 0 .. Len(vif.stas) :
        vif' = CutVif(who, [vif EXCEPT !.stas = IF vif.iftype = "ap"
                                                THEN SubSeq(@, n + 1, Len(@)) ELSE @])
    /\ cfg' = CutCfg(who, cfg)
    /\ cut' = TRUE /\ kscan' = (kscan /\ who = "del")
    /\ UNCHANGED <<asked, told, stopper, dead, stopped, wrongs>>

\* It gets as far as the mode request, whose failure leaves the transport open.
StopCutLate(who) ==
    /\ vif' = CutVif(who, [vif EXCEPT !.stas = IF vif.iftype = "ap" THEN <<>> ELSE @,
                                      !.count = IF vif.iftype = "ap" THEN 0 ELSE @,
                                      !.sme = "disconnected", !.connected = FALSE,
                                      !.pend = FALSE, !.iftype = "sta"])
    /\ cfg' = CutCfg(who, [cfg EXCEPT !.opmode = "sta", !.port = "sta"])
    /\ told' = told \ {"mode"}
    /\ cut' = TRUE /\ kscan' = (kscan /\ who = "del")
    /\ UNCHANGED <<asked, stopper, dead, stopped, wrongs>>

\* All requests are written: the session is over, an outstanding scan is reported, and
\* the transport's close is called.
\* Mutant: the pending connection is not given up.
StopRequestsKeepsPend(who) ==
    /\ vif' = [vif EXCEPT !.stas = IF vif.iftype = "ap" THEN <<>> ELSE @,
                          !.count = IF vif.iftype = "ap" THEN 0 ELSE @,
                          !.sme = "disconnected", !.connected = FALSE,
                          !.iftype = "sta", !.scan = FALSE]
    /\ cfg' = [cfg EXCEPT !.opmode = "sta", !.port = "sta", !.hif = "closing",
                          !.listed = @ /\ who = "down"]
    /\ told' = (told \ {"ssid", "sec"}) \cup {"mode"}
    /\ wrongs' = IF vif.scan THEN ScanReported ELSE wrongs
    /\ kscan' = (kscan /\ ~ vif.scan)
    /\ stopper' = who /\ stopped' = TRUE
    /\ UNCHANGED <<asked, cut, dead>>

StopRequests(who) ==
    /\ vif' = [vif EXCEPT !.stas = IF vif.iftype = "ap" THEN <<>> ELSE @,
                          !.count = IF vif.iftype = "ap" THEN 0 ELSE @,
                          !.sme = "disconnected", !.connected = FALSE, !.pend = FALSE,
                          !.iftype = "sta", !.scan = FALSE]
    /\ cfg' = [cfg EXCEPT !.opmode = "sta", !.port = "sta", !.hif = "closing",
                          !.listed = @ /\ who = "down"]
    /\ told' = (told \ {"ssid", "sec"}) \cup {"mode"}
    /\ wrongs' = IF vif.scan THEN ScanReported ELSE wrongs
    /\ kscan' = (kscan /\ ~ vif.scan)
    /\ stopper' = who /\ stopped' = TRUE
    /\ UNCHANGED <<asked, cut, dead>>

Cfg80211Stop(who) ==
    \/ CanWrite /\ (StopCut(who) \/ StopCutLate(who))
    \/ CanWrite /\ cfg.itf = "uart" /\ StopRequests(who)
    \/ CanWrite /\ cfg.itf = "spi" /\ Dies("oops")    \* it has no close: NULL is called
    \/ ~ CanWrite /\ Dies("oops")

NdoStop == Rtnl /\ vif.reg /\ vif.up /\ Cfg80211Stop("down")
DelIface ==
    /\ Rtnl /\ vif.reg
    /\ \/ cfg.listed /\ Cfg80211Stop("del")
       \/ ~ cfg.listed /\ Dies("oops")       \* list_del of an entry that is not on the list

\* close returns: the handles are dropped, whether or not it succeeded.  Only a failed
\* close leaves the receive work running.  del_iface (DelClosed) then calls
\* unregister_netdev, which takes the RTNL lock that the caller already holds.
StopClosed ==
    /\ dead = "no" /\ stopper \in {"down", "remove"}
    /\ \E h \in {"closed", "orphan"} :
        cfg' = [cfg EXCEPT !.hif = h, !.bound = @ /\ stopper # "remove"]
    /\ vif' = IF stopper = "remove" THEN NoVif ELSE [vif EXCEPT !.up = FALSE]
    /\ stopper' = "no" /\ kscan' = FALSE
    /\ UNCHANGED <<asked, told, dead, cut, stopped, wrongs>>

DelClosed == dead = "no" /\ stopper = "del" /\ Dies("deadlock")

\* mt7697_remove: unregister_netdev stops the interface when it is up.
DriverRemove ==
    /\ Rtnl /\ cfg.bound
    /\ \/ cfg.listed /\ vif.up /\ Cfg80211Stop("remove")
       \/ ~ (cfg.listed /\ vif.up) /\ cfg' = [cfg EXCEPT !.bound = FALSE, !.listed = FALSE,
                                                        !.hif = IF cfg.itf = "spi" THEN "closed" ELSE @]
          /\ vif' = NoVif
          /\ UNCHANGED <<asked, told, kscan, stopper, dead, cut, stopped, wrongs>>

\* With an interface on the list add_iface returns it.  With none it adds one while it
\* holds vif_list_lock, which mt7697_interface_add takes again and nobody gives back.
AddIface == Rtnl /\ cfg.bound /\ ~ cfg.listed /\ Dies("deadlock")
\* The receive work goes on when the driver is gone, or has dropped its handles.
ReceiveAfterFree ==
    /\ dead = "no" /\ (cfg.hif = "orphan" \/ (cfg.hif = "open" /\ ~ cfg.bound))
    /\ Dies("oops")

\* mt7697_cfg80211_change_iface: the mode is changed before the firmware is told.
\* Mutant: a failed request leaves the interface type as it was.
ChangeIfaceReverts(m) ==
    /\ Rtnl /\ vif.reg /\ cfg.opmode # m
    /\ \E written \in BOOLEAN :
        /\ vif' = [vif EXCEPT !.iftype = IF written THEN m ELSE @]
        /\ told' = IF written THEN WrSetOpMode(told) ELSE told \ {"mode"}
    /\ cfg' = [cfg EXCEPT !.opmode = m, !.port = m]
    /\ CanWrite
    /\ UNCHANGED <<asked, kscan, stopper, dead, cut, stopped, wrongs>>

ChangeIface(m) ==
    /\ Rtnl /\ vif.reg
    /\ \/ /\ cfg.opmode # m /\ CanWrite
          /\ vif' = [vif EXCEPT !.iftype = m]
          /\ cfg' = [cfg EXCEPT !.opmode = m, !.port = m]
          /\ told' \in {WrSetOpMode(told), told \ {"mode"}}
          /\ UNCHANGED <<asked, kscan, stopper, dead, cut, stopped, wrongs>>
       \/ cfg.opmode # m /\ ~ CanWrite /\ Dies("oops")
       \/ cfg.opmode = m /\ vif' = [vif EXCEPT !.iftype = m]
          /\ UNCHANGED <<cfg, asked, told, kscan, stopper, dead, cut, stopped, wrongs>>

-----------------------------------------------------------------------------
(* Scans: mt7697_cfg80211_scan and the firmware's answers *)

\* A connection under way is reported as failed, and yet goes on.  The request is noted
\* before it is written, and forgotten when that fails.
Scan ==
    /\ Rtnl /\ vif.up /\ ~ kscan /\ ~ vif.connected
    /\ \/ /\ CanWrite
          /\ \E written \in BOOLEAN : vif' = [vif EXCEPT !.scan = written] /\ kscan' = written
          /\ wrongs' = IF vif.pend THEN Reported("connect") ELSE wrongs
          /\ UNCHANGED <<cfg, asked, told, stopper, dead, cut, stopped>>
       \/ ~ CanWrite /\ Dies("oops")

\* mt7697_proc_scan_rsp of a failed scan looks into vif before it sets it.  What it finds
\* there is any word: it may not be an address, and it may be NULL or not.
ProcScanRsp ==
    /\ Receiving
    /\ \/ Dies("oops")
       \/ /\ Found(0) /\ vif.scan
          /\ wrongs' = ScanReported /\ kscan' = FALSE
          /\ vif' = [vif EXCEPT !.scan = FALSE]
          /\ UNCHANGED <<cfg, asked, told, stopper, dead, cut, stopped>>

ProcScanComplete ==
    /\ Receiving /\ Found(0) /\ vif.scan
    /\ wrongs' = ScanReported /\ kscan' = FALSE
    /\ vif' = [vif EXCEPT !.scan = FALSE]
    /\ UNCHANGED <<cfg, asked, told, stopper, dead, cut, stopped>>

-----------------------------------------------------------------------------
(* Wireless extensions (ioctl.c) *)

\* mt7697_wext_siwfreq, mt7697_wext_siwencodeext: a channel, a key to connect with.
Siwfreq ==
    /\ Rtnl /\ vif.reg
    /\ vif' = [vif EXCEPT !.ch = TRUE] /\ told' = told \ {"ch"}
    /\ UNCHANGED <<cfg, asked, kscan, stopper, dead, cut, stopped, wrongs>>

Siwencodeext ==
    /\ Rtnl /\ vif.reg
    /\ told' = told \ {"sec"}
    /\ UNCHANGED <<cfg, vif, asked, kscan, stopper, dead, cut, stopped, wrongs>>

\* mt7697_wext_siwmode: the firmware is not told.  A station that is connected or about
\* to be stays one; an access point stays one as long as there is an interface.
Siwmode(m) ==
    /\ Rtnl /\ vif.reg /\ cfg.opmode # m
    /\ m = "ap" => ~ (vif.connected \/ vif.pend)
    /\ m = "sta" => ~ cfg.listed
    /\ cfg' = [cfg EXCEPT !.opmode = m, !.port = m]
    /\ vif' = [vif EXCEPT !.iftype = m]
    /\ told' = told \ {"mode"}
    /\ UNCHANGED <<asked, kscan, stopper, dead, cut, stopped, wrongs>>
\* mt7697_wext_siwessid with a name: the requests, in order.
EssidRequests ==
    <<"mode", "ssid">> \o (IF cfg.opmode = "sta" THEN <<"bssid">> ELSE <<>>)
                      \o (IF vif.ch THEN <<"ch">> ELSE <<>>) \o <<"sec">>
\* Mutant: a failed request is passed over.
EssidGetsOver(k) == TRUE
\* A request that fails ends the call.
EssidGoesOn(k) == k >= Len(EssidRequests)

SiwessidSet ==
    /\ Rtnl /\ vif.reg /\ CanWrite
    /\ \E k \in 0 .. Len(EssidRequests) + 1 :
        LET written == (told \ {"ssid"})
                         \cup {EssidRequests[i] : i \in {j \in DOMAIN EssidRequests : j <= k}}
        IN  /\ told' = written
            /\ \/ /\ ~ EssidGoesOn(k) \/ vif.connected
                  /\ UNCHANGED <<vif, wrongs>>
               \/ /\ EssidGoesOn(k) /\ ~ vif.connected
                  /\ vif' = [vif EXCEPT !.pend = TRUE, !.sme = "connecting"]
                  /\ \/ wrongs' = WrReload(written, {"mode", "ssid", "sec"}
                                               \cup (IF vif.ch THEN {"ch"} ELSE {}))
                     \/ UNCHANGED wrongs          \* the reload request fails
    /\ UNCHANGED <<cfg, asked, kscan, stopper, dead, cut, stopped>>

\* With an empty name a connected station only asks the firmware to disconnect.
SiwessidClear ==
    /\ Rtnl /\ vif.reg /\ CanWrite
    /\ told' \in {WrSetSsid(told), told \ {"ssid"}}
    /\ UNCHANGED <<cfg, vif, asked, kscan, stopper, dead, cut, stopped, wrongs>>

SiwessidClosed == Rtnl /\ vif.reg /\ ~ CanWrite /\ Dies("oops")

-----------------------------------------------------------------------------
(* Connections *)

\* mt7697_disconnect, called by mt7697_cfg80211_disconnect: the end of the session is
\* reported at once, and noted only when the firmware indicates it.
Disconnect ==
    /\ Rtnl /\ vif.reg /\ (vif.connected \/ vif.pend)
    /\ \/ /\ CanWrite
          /\ wrongs' = IF vif.sme = "disconnected" THEN wrongs ELSE Reported("connect")
          /\ \/ vif' = [vif EXCEPT !.pend = FALSE] /\ told' = told \ {"ssid"}
             \/ UNCHANGED <<vif, told>>            \* the request could not be written
          /\ UNCHANGED <<cfg, asked, kscan, stopper, dead, cut, stopped>>
       \/ ~ CanWrite /\ Dies("oops")

\* mt7697_cfg80211_connect_event: the flags change before the channel is looked at.
ConnectEvent(ch) ==
    \E added \in AddBssIfNeeded(ch) :
        /\ vif' = [vif EXCEPT !.connected = TRUE, !.pend = FALSE,
                              !.sme = IF added THEN "connected" ELSE @]
        /\ wrongs' = IF added THEN Reported("connect") ELSE wrongs

NewSta(a) ==
    IF vif.count > StaMax THEN vif
    ELSE [vif EXCEPT !.stas = Append(@, a), !.count = @ + 1, !.connected = TRUE]

ProcConnectInd(i, a, ch) ==
    /\ Receiving /\ cfg.listed
    /\ \/ cfg.opmode = "sta" /\ Found(i) /\ vif.pend /\ ConnectEvent(ch)
       \/ /\ cfg.opmode # "sta"
          /\ Len(vif.stas) <= StaMax + 1
          /\ vif' = NewSta(a)
          /\ wrongs' = IF vif' = vif THEN wrongs ELSE Reported("connect")
    /\ UNCHANGED <<cfg, asked, told, kscan, stopper, dead, cut, stopped>>

\* mt7697_cfg80211_del_sta: the first entry with the address goes, once the firmware has
\* been told; when that fails a lock is given back that is not held.
DelSta(a) ==
    LET i == CHOOSE j \in DOMAIN vif.stas : vif.stas[j] = a
                /\ \A n \in 1 .. j - 1 : vif.stas[n] # a
    IN  [vif EXCEPT !.stas = RemoveAt(@, i), !.count = @ - 1]

\* The interface counts as disconnected afterwards, whatever other stations it has.
ProcDisconnectInd(i, a) ==
    /\ Receiving /\ cfg.listed
    /\ \/ /\ cfg.opmode = "sta" /\ Found(i) /\ CanWrite
          /\ vif' = [vif EXCEPT !.sme = "disconnected", !.connected = FALSE, !.pend = FALSE]
          /\ wrongs' = IF vif.sme = "disconnected" THEN wrongs ELSE Reported("connect")
       \/ /\ cfg.opmode # "sta" /\ Contains(vif.stas, a) /\ CanWrite
          /\ vif' = [DelSta(a) EXCEPT !.sme = "disconnected", !.connected = FALSE,
                                      !.pend = FALSE]
          /\ UNCHANGED wrongs
    /\ UNCHANGED <<cfg, asked, told, kscan, stopper, dead, cut, stopped>>

DelStaFails(a) ==
    /\ Receiving /\ cfg.listed /\ cfg.opmode # "sta" /\ Contains(vif.stas, a) /\ CanWrite
    /\ Dies("deadlock")

-----------------------------------------------------------------------------
(* mt7697_cfg80211_start_ap: name, channel and security, then the reload *)

\* The security settings the driver knows (set_wpa_version, set_cipher, set_key_mgmt).
StartAp ==
    /\ Rtnl /\ vif.up /\ vif.iftype = "ap" /\ CanWrite
    /\ \E k \in 0 .. 4, supported \in BOOLEAN :
        LET afterName == IF k >= 1 THEN WrSetSsid(told) ELSE told \ {"ssid"}
            afterChannel == IF k >= 2 THEN WrSetChannel(afterName) ELSE afterName \ {"ch"}
            afterSecurity == IF k >= 3 /\ supported THEN WrSetSecurityMode(afterChannel)
                             ELSE afterChannel \ {"sec"}
        IN  /\ told' = CASE k = 0 -> afterName [] k = 1 -> afterChannel
                          [] k >= 2 -> afterSecurity
            /\ vif' = IF k >= 1 THEN [vif EXCEPT !.ch = TRUE] ELSE vif
            /\ wrongs' = IF k = 4 /\ supported THEN WrReload(afterSecurity, {"ssid", "ch", "sec"})
                         ELSE wrongs
    /\ UNCHANGED <<cfg, asked, kscan, stopper, dead, cut, stopped>>

-----------------------------------------------------------------------------

SmeInit ==
    /\ cfg \in {NoCfg("uart"), NoCfg("spi")}
    /\ vif = NoVif
    /\ asked = {} /\ told = {} /\ kscan = FALSE /\ stopper = "no" /\ dead = "no"
    /\ cut = FALSE /\ stopped = FALSE /\ wrongs = {}

SmeNext ==
    \/ ProbeOk \/ ProbeFails \/ InitHwStart \/ InitAfterRemove
    \/ ProcGetCfg \/ ProcMacAddr
    \/ NdoOpen \/ NdoOpenFails \/ NdoStop \/ DelIface \/ StopClosed \/ DelClosed \/ DriverRemove
    \/ AddIface \/ ReceiveAfterFree
    \/ \E m \in Modes : ChangeIface(m) \/ Siwmode(m)
    \/ Scan \/ ProcScanRsp \/ ProcScanComplete
    \/ Siwfreq \/ Siwencodeext \/ SiwessidSet \/ SiwessidClear \/ SiwessidClosed
    \/ Disconnect \/ StartAp
    \/ \E i \in 0 .. 1, a \in Macs, ch \in Channels : ProcConnectInd(i, a, ch)
    \/ \E i \in 0 .. 1, a \in Macs : ProcDisconnectInd(i, a)
    \/ \E a \in Macs : DelStaFails(a)

SmeSpec == SmeInit /\ [][SmeNext]_smeVars

-----------------------------------------------------------------------------

\* The operating mode, the port type that goes into every request and the interface type
\* that the handlers look at agree, whichever of the five ways of changing them were
\* taken and whichever of their requests failed (change_iface, siwmode, stop,
\* mt7697_proc_get_cfg, interface_add).
ModeAgrees == vif.reg => cfg.opmode = vif.iftype /\ cfg.port = vif.iftype

\* Unless a stop was cut short by a failed write, nothing is reported to cfg80211 between
\* the stop of an interface and its next opening, though the firmware's indications go on
\* arriving; and a scan is reported once, while its request is outstanding
\* (mt7697_cfg80211_stop, mt7697_proc_scan_complete, connect_event).
NoLateReports == ~ cut => wrongs \cap {"scan", "connect"} = {}

\* The firmware is made to act on its settings only after every setting that the call
\* relies on reached it (mt7697_wext_siwessid, mt7697_cfg80211_start_ap).
ReloadIsComplete == "reload" \notin wrongs

-----------------------------------------------------------------------------
(* The inductive invariant behind the three.                               *)

SmeTypeOK ==
    /\ cfg \in [itf : {"uart", "spi"}, bound : BOOLEAN, init : {"none", "queued", "done"},
                hif : {"closed", "open", "closing", "orphan"},
                opmode : Modes \cup {"unset"}, port : Modes, listed : BOOLEAN]
    /\ vif \in [reg : BOOLEAN, up : BOOLEAN, iftype : Modes \cup {"unset"},
                sme : {"disconnected", "connecting", "connected"}, connected : BOOLEAN,
                pend : BOOLEAN, scan : BOOLEAN, ch : BOOLEAN, stas : {vif.stas},
                count : {vif.count}]
    /\ kscan \in BOOLEAN /\ cut \in BOOLEAN /\ stopped \in BOOLEAN

\* The firmware's configuration is asked for before there is an interface, and the address
\* only once it has been stored: no answer can change the mode of an interface.
AnswersInOrder ==
    /\ cfg.bound /\ cfg.init = "queued" => asked = {} /\ ~ vif.reg /\ ~ stopped
    /\ "cfg" \in asked => ~ vif.reg /\ "mac" \notin asked
    /\ "mac" \in asked => cfg.port = cfg.opmode
    /\ vif.up => vif.reg

\* A stop that went through leaves nothing to report: no scan, no connection, and no access
\* point, until the transport is open again.
StopIsFinal ==
    /\ stopper # "no" => stopped
    /\ stopped => cfg.hif # "open" /\ ~ vif.pend
    /\ cfg.hif = "closing" => stopper # "no" /\ vif.reg /\ cfg.opmode = "sta"
    /\ ~ cut /\ vif.scan => kscan /\ ~ stopped

SmeIInv == /\ SmeTypeOK /\ AnswersInOrder /\ StopIsFinal
           /\ ModeAgrees /\ NoLateReports /\ ReloadIsComplete

=============================================================================
