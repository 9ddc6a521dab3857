----------------------------- MODULE MCRcMessage -----------------------------
(***************************************************************************)
(* Stick positions for RcMessage: every way to move up to MaxMoved of the  *)
(* fourteen channels of a joystick away from the middle.                   *)
(***************************************************************************)
EXTENDS RcMessage, FiniteSets

CONSTANTS Positions,   \* positions a driver may report for a channel
          MaxMoved     \* bound: channels away from the middle at a time

ASSUME PositionsAssumption == Positions \subseteq Nat

VARIABLE sticks

Middle == 1500

SticksInit == sticks = [i \in StickChannels |-> Middle]

Move(i, v) ==
    /\ sticks' = [sticks EXCEPT ![i] = v]
    /\ Cardinality({j \in StickChannels : sticks'[j] # Middle}) <= MaxMoved

SticksNext == \E i \in StickChannels, v \in Positions : Move(i, v)

SticksSpec == SticksInit /\ [][SticksNext]_sticks

-----------------------------------------------------------------------------
Arrived == RcChannels(generate_db_rc_message(sticks))
Pilot == [i \in Channels |-> Capped(sticks[i])]

\* The channels that rc_air.c unpacks from a DB-RC message are the positions
\* of the sticks, limited to the range of 1000 to 2000, each on its channel.
RcRoundTrip == Arrived = Pilot

\* A flight controller that reads the MSPv2 message of generate_mspv2 gets the
\* positions of the sticks.
MspV2CarriesChannels == FcReadsMspV2(generate_mspv2(Arrived)) = Pilot

\* The same for the SUMD message of generate_sumd, whose values are scaled.
SumdCarriesChannels == FcReadsSumd(generate_sumd(Arrived)) = Pilot
=============================================================================
