------------------------------- MODULE MCParts -------------------------------
(***************************************************************************)
(* The parts that work on their own, each one by itself: how the packets   *)
(* of a video block arrive (MCVideoBlock), how the transmitter cuts its    *)
(* input (VideoAir), how stick positions are packed (MCRcMessage), how the *)
(* telemetry of the flight controller is parsed (MspSerial) and how it is  *)
(* handed to plugins (UnixServer).  A behaviour runs one part; the others  *)
(* stay in their initial states.                                           *)
(***************************************************************************)
EXTENDS MCVideoBlock, VideoAir, MCRcMessage, MspSerial, UnixServer

VARIABLE part

\* The plugins differ in nothing but their names.
PluginSymmetry == Permutations(Plugins)

Parts == {"block", "air", "sticks", "msp", "unix"}
vars == <<sl, airVars, sticks, mspVars, unixVars, part>>

Init ==
    /\ part \in Parts
    /\ IF part = "block" THEN BlockInit ELSE sl = [p \in Slots |-> EmptySlot]
    /\ AirInit
    /\ SticksInit
    /\ MspInit
    /\ UnixInit
    /\ part # "msp" => port.c_state = "IDLE"

Next ==
    \/ part = "block" /\ BlockNext /\ UNCHANGED <<airVars, sticks, mspVars, unixVars, part>>
    \/ part = "air" /\ AirNext /\ UNCHANGED <<sl, sticks, mspVars, unixVars, part>>
    \/ part = "sticks" /\ SticksNext /\ UNCHANGED <<sl, airVars, mspVars, unixVars, part>>
    \/ part = "msp" /\ MspNext /\ UNCHANGED <<sl, airVars, sticks, unixVars, part>>
    \/ part = "unix" /\ UnixNext /\ UNCHANGED <<sl, airVars, sticks, mspVars, part>>

Spec == Init /\ [][Next]_vars
=============================================================================
