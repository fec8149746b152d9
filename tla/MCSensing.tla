----------------------------- MODULE MCSensing -----------------------------
(* An SSD and a hard disk behind one controller, a processor with its       *)
(* fallback, a passive card, and fans that are written one by one: two      *)
(* writes of a timeout each.  15 s ticks: timeout 2, deadline 4, cache 4,   *)
(* and two levels of two minutes, the shortest dwell in whole minutes that  *)
(* is as long as the cache interval and the writes.                         *)
EXTENDS Sensing

MCDrives == <<"sda", "sdb">>
MCMoods ==
  [s \in Source |->
     CASE s = "coretemp" -> {"cool", "silent"}
       [] s = "sdr" -> {"warm", "hung"}
       [] s = "smi" -> {"cool", "hung"}
       [] s = "sda" -> {"cool", "hung"}
       [] s = "sdb" -> {"hot", "silent", "hung"}]
=============================================================================
