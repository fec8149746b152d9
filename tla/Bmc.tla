-------------------------------- MODULE Bmc --------------------------------
(***************************************************************************)
(* A Dell BMC as the agent sees it, and the commands internal/ipmi/ipmi.go *)
(* sends it through ipmitool.                                              *)
(*                                                                         *)
(* In manual mode the BMC holds the last percent written to each fan; in   *)
(* auto mode its own thermal policy drives the fans, a fan write is        *)
(* answered "ok" and ignored, and the manual setpoints are gone.  The BMC  *)
(* may leave manual mode by itself at any moment (the third-party PCIe     *)
(* response, the fan-PWM watchdog).                                        *)
(*                                                                         *)
(* Every command is one ipmitool run with a deadline (runner.Exec): it     *)
(* succeeds, or fails without effect, or fails after the BMC has already   *)
(* obeyed (the deadline struck between effect and reply).                  *)
(***************************************************************************)
EXTENDS Integers

CONSTANT Fan                    \* the chassis fans

VARIABLES bmcMode,              \* who drives the fans: "manual" or "auto"
          duty                  \* percent each fan holds in manual mode

Unset == -1                     \* manual mode, and no percent written yet

Outcome == {"ok", "failed", "lateFailure"}

Obeyed(o) == o \in {"ok", "lateFailure"}

-----------------------------------------------------------------------------
NoSetpoint == [f \in Fan |-> Unset]

\* raw 0x30 0x30 0x01 0x00: idempotent when the BMC is already in manual mode.
EngageManual(o) ==
  /\ bmcMode' = IF Obeyed(o) THEN "manual" ELSE bmcMode
  /\ UNCHANGED duty

\* raw 0x30 0x30 0x01 0x01.
HandbackAuto(o) ==
  /\ bmcMode' = IF Obeyed(o) THEN "auto" ELSE bmcMode
  /\ duty' = IF Obeyed(o) THEN NoSetpoint ELSE duty

\* The percent that goes on the wire: negative values are floored.
WirePct(pct) == IF pct < 0 THEN 0 ELSE pct

\* raw 0x30 0x30 0x02 <selector> <pct>, the selector covering the fans S (0xff
\* covers them all).
SetSelector(S, pct, o) ==
  /\ duty' = IF Obeyed(o) /\ bmcMode = "manual"
             THEN [f \in Fan |-> IF f \in S THEN WirePct(pct) ELSE duty[f]]
             ELSE duty
  /\ UNCHANGED bmcMode

\* The BMC takes the fans back on its own.
BmcReverts ==
  /\ bmcMode = "manual"
  /\ bmcMode' = "auto"
  /\ duty' = NoSetpoint
=============================================================================
