------------------------------ MODULE MCDrift ------------------------------
(* The SSDs of a box on the shipped default.env in the min-noise mode, with  *)
(* their shipped envelope: idle drives far below their band, or no window    *)
(* yet.                                                                      *)
EXTENDS Adaptive

Idle == [full |-> TRUE, mean |-> 400, sd |-> 5, changes |-> 0, p90 |-> 20]

MCOrder == <<"SSD">>
MCEnv == [c \in Class |-> [low |-> 45, mid |-> 50, high |-> 60, safe |-> 70]]
MCWindows == [c \in Class |-> {[Idle EXCEPT !.full = FALSE], Idle}]
MCPinnedPair == [c \in Class |-> Unset]

Emergency == [c \in Class |-> 65]       \* SSD_EMERGENCY of default.env

(***************************************************************************)
(* config.go:340-342 "The invariant is target < emergency ... A PID target *)
(* at or above its own emergency trip is genuinely broken": what Validate  *)
(* demands at start-up holds of the configuration as long as it is in use. *)
(***************************************************************************)
TargetBelowEmergency ==
  phase = "cycling" => \A c \in Class : cfg[c].target < Emergency[c]
=============================================================================
