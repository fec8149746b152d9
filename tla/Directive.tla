----------------------------- MODULE Directive -----------------------------
(***************************************************************************)
(* What the intent layer promises of the targets the control cycles use:   *)
(*                                                                         *)
(*  - a target walks: every decision leaves it, moves it by a degree, or   *)
(*    puts it back where the mode starts, always inside its envelope;      *)
(*  - a decision is handed over class by class, and no new one is made     *)
(*    before all of the old one is: what is on offer is never more than    *)
(*    one decision old, and never goes back to an older one;               *)
(*  - a cycle takes what is on offer for all classes at once.              *)
(*                                                                         *)
(* No windows, no scores, no list of actions, no ticker, no files: a life  *)
(* of the process begins with any targets inside the envelopes.            *)
(***************************************************************************)
EXTENDS Integers

CONSTANTS Class,
          Envelope,     \* per class, the targets it permits
          Start         \* per class, the target the mode starts with

VARIABLES up, decided, offered, used
vars == <<up, decided, offered, used>>

Permitted(t) == DOMAIN t = Class /\ \A c \in Class : t[c] \in Envelope[c]

Init == ~up

Begin ==
  /\ ~up /\ up'
  /\ Permitted(decided') /\ Permitted(used')
  /\ offered' = decided'

Decide ==
  /\ up /\ offered = decided
  /\ Permitted(decided')
  /\ \A c \in Class : decided'[c] - decided[c] \in -1 .. 1 \/ decided'[c] = Start[c]
  /\ UNCHANGED <<up, offered, used>>

HandOver(c) ==
  /\ up
  /\ offered' = [offered EXCEPT ![c] = decided[c]]
  /\ UNCHANGED <<up, decided, used>>

Use ==
  /\ up
  /\ used' = offered
  /\ UNCHANGED <<up, decided, offered>>

End == up /\ ~up'

Next == Begin \/ Decide \/ (\E c \in Class : HandOver(c)) \/ Use \/ End

Spec == Init /\ [][Next]_vars
=============================================================================
