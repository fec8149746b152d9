----------------------------- MODULE BoxRecord -----------------------------
(***************************************************************************)
(* What the agent promises about what it has learned of its box: whether   *)
(* the one-time scan has been done, and where a class's ramp starts.       *)
(*                                                                         *)
(*  - a process starts from the record that is on file;                    *)
(*  - an unscanned box may be scanned, which installs a ramp; the learner  *)
(*    moves the ramp and nothing else;                                     *)
(*  - what is put on file is what is in use, both parts of it together;    *)
(*  - a process that goes, however it goes, takes nothing else along.      *)
(*                                                                         *)
(* No phases, no signals, no failed saves and no file formats: only what   *)
(* an operator who looks at the box between two starts can rely on.  That  *)
(* a scan is never undone is not written down here: it follows, because a  *)
(* record in use was on file or is of a later scan.                        *)
(***************************************************************************)
CONSTANTS Ramps,        \* the ramp starts scan and learner may install
          FirstRamp     \* the ramp of a box nothing is known of

VARIABLES running,      \* a process is there and has loaded its record
          stored,       \* the record a start would resume
          working       \* the record in use, of no matter without a process
vars == <<running, stored, working>>

Record == [scanned : BOOLEAN, ramp : Ramps]

Init ==
  /\ ~running
  /\ stored = [scanned |-> FALSE, ramp |-> FirstRamp]
  /\ working \in Record

Load ==
  /\ ~running /\ running'
  /\ working' = stored
  /\ UNCHANGED stored

\* What is in use after a change may be saved in the same step, or later.
MaySave == stored' \in {stored, working'}

Scan ==
  /\ running /\ UNCHANGED running
  /\ ~working.scanned
  /\ \E c \in Ramps : working' = [scanned |-> TRUE, ramp |-> c]
  /\ MaySave

Learn ==
  /\ running /\ UNCHANGED running
  /\ \E c \in Ramps : working' = [scanned |-> working.scanned, ramp |-> c]
  /\ MaySave

Go ==
  /\ ~running'
  /\ working' \in Record
  /\ UNCHANGED stored

Next == Load \/ Scan \/ Learn \/ Go

Spec == Init /\ [][Next]_vars

\* Once a scan is on file, no start, ramp or save takes it back.
ScannedForGood == [][stored.scanned => stored'.scanned]_vars
=============================================================================
