------------------------------- MODULE MCCan -------------------------------
(* The CAN drivers and protocols, explored one at a time: the MCP251x      *)
(* controller, raw sockets with the receive lists and the broadcast        *)
(* manager.  focus names the one that runs; the others rest in one of      *)
(* their initial states.                                                   *)
EXTENDS Mcp251x, CanRaw, CanBcm

\* All filters but those with identifier bits outside the mask, which make no difference, and
\* those that ask for a standard frame with the bits of an extended one, which find_rcv_list
\* leaves out of the mask
Pool ==
    {f \in [can_id : SUBSET {"s", "e", "EFF", "RTR", "INV"}, mask : SUBSET {"s", "e", "EFF", "RTR"}] :
        /\ f.can_id \subseteq f.mask \cup {"INV"}
        /\ "EFF" \in f.mask /\ "EFF" \notin f.can_id => "e" \notin f.can_id}
Few == {[can_id |-> {}, mask |-> {}], [can_id |-> {"s"}, mask |-> {"s", "EFF", "RTR"}],
        [can_id |-> {"s", "INV"}, mask |-> {"s"}]}
const_FilterLists == {<<>>} \cup {<<f>> : f \in Pool} \cup {<<f, g>> : f, g \in Few}
const_ErrMasks == {{}, {"s"}}

VARIABLE focus

CanInit ==
    /\ focus \in {"mcp251x", "raw", "bcm"}
    /\ McpInit /\ (focus # "mcp251x" => netdev.restart_ms /\ netdev.power)
    /\ RawInit
    /\ BcmInit

CanNext ==
    /\ UNCHANGED focus
    /\ \/ focus = "mcp251x" /\ McpNext /\ UNCHANGED <<rawVars, bcmVars>>
       \/ focus = "raw" /\ RawNext /\ UNCHANGED <<mcpVars, bcmVars>>
       \/ focus = "bcm" /\ BcmNext /\ UNCHANGED <<mcpVars, rawVars>>

CanSpec == CanInit /\ [][CanNext]_<<focus, mcpVars, rawVars, bcmVars>>
RawOnlySpec == CanInit /\ focus = "raw" /\ [][CanNext]_<<focus, mcpVars, rawVars, bcmVars>>
=============================================================================
