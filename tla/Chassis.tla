------------------------------ MODULE Chassis ------------------------------
(***************************************************************************)
(* What the control cycle promises about the fans, whatever the sensors    *)
(* read and whichever commands the BMC loses:                              *)
(*                                                                         *)
(*  - the setpoint is always one of the permitted speeds; it may rise at   *)
(*    once and falls in bounded steps (or to the top of the fan range);    *)
(*  - a fan is only ever driven in manual mode, to the setpoint of that    *)
(*    moment: no stale and no unslewed value is ever written;              *)
(*  - the agent may take the fans over, and the BMC may take them back, at *)
(*    any time.                                                            *)
(*                                                                         *)
(* No cycle, no sensor, no failure: only what an observer of the chassis   *)
(* can rely on.                                                            *)
(***************************************************************************)
EXTENDS Integers

CONSTANTS Fan,
          Speeds,       \* the permitted setpoints
          TopSpeed,     \* the top of the fan range
          Falls         \* the permitted sizes of a fall

VARIABLES mode, duty, setpoint
vars == <<mode, duty, setpoint>>

Undriven == -1

Init ==
  /\ setpoint \in Speeds
  /\ mode \in {"auto", "manual"}
  /\ duty \in [Fan -> {Undriven, setpoint}]

TakeOver ==
  /\ mode' = "manual"
  /\ UNCHANGED <<duty, setpoint>>

Drive(S) ==
  /\ mode = "manual"
  /\ duty' = [f \in Fan |-> IF f \in S THEN setpoint ELSE duty[f]]
  /\ UNCHANGED <<mode, setpoint>>

TakeBack ==
  /\ mode' = "auto"
  /\ duty' = [f \in Fan |-> Undriven]
  /\ UNCHANGED setpoint

ChooseSetpoint ==
  /\ setpoint' \in Speeds
  /\ \/ setpoint' >= setpoint
     \/ \E fall \in Falls : setpoint - setpoint' <= fall
     \/ setpoint' = TopSpeed
  /\ UNCHANGED <<mode, duty>>

Next == TakeOver \/ TakeBack \/ ChooseSetpoint \/ \E S \in SUBSET Fan : Drive(S)

Spec == Init /\ [][Next]_vars
=============================================================================
