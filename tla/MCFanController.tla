-------------------------- MODULE MCFanController --------------------------
(***************************************************************************)
(* FanController for TLC: two fans addressed one by one, a CPU and an HDD  *)
(* class with ramps a few degrees wide, an active GPU, a fan range of a    *)
(* few percent below 100.                                                  *)
(***************************************************************************)
EXTENDS FanController

CONSTANTS f0, f1

MCFanIndices == <<f0, f1>>
MCEmergency  == [cpu |-> 8, pg |-> 9, ag |-> 9, hdd |-> 5, ssd |-> 9]
MCSpan       == [cpu |-> 3, pg |-> 2, hdd |-> 2, ssd |-> 2]

MCReading(cpu, hdd, ag, own) ==
  [temp |-> [cpu |-> cpu, pg |-> 0, ag |-> ag, hdd |-> hdd, ssd |-> 0], agFan |-> own]

\* Cool; CPU warm and HDD absent; HDD warm and the active GPU asking for help;
\* an HDD emergency.
MCReadings ==
  { MCReading(4, 3, 0, 0), MCReading(6, 0, 0, 0), MCReading(4, 4, 4, 90),
    MCReading(4, 5, 0, 0) }

\* The liveness instance: a CPU reading on its ramp, smoothed in quarter
\* degrees (fine enough that no rounding boundary lies within one above it),
\* an idle one and an emergency; fans on the broadcast dialect.
MCSettleReadings == { MCReading(3, 0, 0, 0), MCReading(6, 0, 0, 0), MCReading(8, 0, 0, 0) }
MCSettleComforts == [cpu |-> {3, 4}, pg |-> {4}, hdd |-> {2}, ssd |-> {4}]
MCBroadcast == <<>>

\* The learner moves the CPU ramp, at first beyond the cap of its span.
MCComforts == [cpu |-> {3, 7}, pg |-> {4}, hdd |-> {2}, ssd |-> {4}]
=============================================================================
