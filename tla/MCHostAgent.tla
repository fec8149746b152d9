---------------------------- MODULE MCHostAgent ----------------------------
(***************************************************************************)
(* HostAgent for TLC: a box with a slow plant, the scan levels of scan.go  *)
(* and its startup floor, a fan range that reaches below and above the     *)
(* floor, two ramp starts.                                                 *)
(***************************************************************************)
EXTENDS HostAgent

MCScanLevels == <<80, 55, 30>>
=============================================================================
