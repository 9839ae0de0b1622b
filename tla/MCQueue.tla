------------------------------ MODULE MCQueue ------------------------------
(* The two components with a proof or a service behind them, explored one  *)
(* at a time: the write direction of the SPI queue, the Combain service on *)
(* its own and the location sensor as one of its clients.  focus names the *)
(* one that runs; the others rest in one of their initial states.          *)
EXTENDS Mt7697qWrite, LocationService

CONSTANT SensorReqs     \* bound: requests in the runs of the sensor

VARIABLE focus

QueueInit ==
    /\ focus \in {"write", "combain", "sensor"}
    /\ Init /\ (focus # "write" => srd = 0)
    /\ LocInit /\ (focus = "write" => combainApiKeySet)

QueueNext ==
    /\ UNCHANGED focus
    /\ \/ focus = "write" /\ Next /\ UNCHANGED allVars
       \/ focus = "combain" /\ CombainNext /\ UNCHANGED <<vars, locVars>>
       \/ focus = "sensor" /\ LocNext /\ next' <= SensorReqs /\ UNCHANGED vars

QueueSpec == QueueInit /\ [][QueueNext]_<<focus, vars, allVars>>

\* SensorSound, for the behaviours in which the sensor is the one that uses its session:
\* it gets no answer but the one it waits for, does one thing at a time, and shows the
\* fix type of what it sent.
SensorIsSound == focus = "sensor" => SensorSound
=============================================================================
