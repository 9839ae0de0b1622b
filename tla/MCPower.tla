------------------------------ MODULE MCPower ------------------------------
(* The battery drivers and the applications around them, explored one at a *)
(* time: the settings and the reports of the chargers, the two gauges, the *)
(* SensorTag sample and the NFC tag.  focus names the one that runs; the   *)
(* others rest in one of their initial states.                             *)
EXTENDS BqCharger, Bq27xxx, Ltc294x, SensorTag, Ntag

const_Requests == [ichg |-> {100000, 600000}, vreg |-> {4000000}, treg |-> {100, 1000}]
const_RSense == {18, 50, -18}

VARIABLE focus

\* The two drivers report faults alike: the supply comes and goes at the bq25601 only.
SupplyBound == part = "bq24190" => chip'.pg = chip.pg

PowerInit ==
    /\ focus \in {"settings", "reports", "gauge", "coulombs", "sensortag", "ntag"}
    /\ BqInit /\ (focus \notin {"settings", "reports"} => part = "bq25601")
    /\ GaugeInit /\ (focus # "gauge" => info = {} /\ \A m \in Words : gauge.mem[m] = "old")
    /\ LtcInit /\ (focus # "coulombs" => ltc.Qlsb = Qlsb(18, 0) /\ meter.acc = 0)
    /\ TagInit /\ (focus # "sensortag" => /\ adapter = "absent" /\ tag = "absent" /\ attrs = 0
                                          /\ ~ tagChip["imu"].config.on)
    /\ NtagInit

PowerNext ==
    /\ UNCHANGED focus
    /\ \/ /\ \/ focus = "settings" /\ SettingNext
             \/ focus = "reports" /\ ReportNext /\ SupplyBound
          /\ UNCHANGED <<gaugeVars, ltcVars, tagVars, ntagVars>>
       \/ focus = "gauge" /\ GaugeNext /\ UNCHANGED <<bqVars, ltcVars, tagVars, ntagVars>>
       \/ focus = "coulombs" /\ LtcNext /\ UNCHANGED <<bqVars, gaugeVars, tagVars, ntagVars>>
       \/ focus = "sensortag" /\ TagNext /\ UNCHANGED <<bqVars, gaugeVars, ltcVars, ntagVars>>
       \/ focus = "ntag" /\ NtagNext /\ UNCHANGED <<bqVars, gaugeVars, ltcVars, tagVars>>

PowerSpec ==
    PowerInit /\ [][PowerNext]_<<focus, bqVars, gaugeVars, ltcVars, tagVars, ntagVars>>
ReportsOnlySpec ==
    PowerInit /\ focus = "reports"
              /\ [][PowerNext]_<<focus, bqVars, gaugeVars, ltcVars, tagVars, ntagVars>>
=============================================================================
