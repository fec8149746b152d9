----------------------------- MODULE MCAdaptive -----------------------------
(* Two managed classes and a pinned one, in the balanced mode.  Each managed *)
(* class has a band of two targets, so that both clamps, both directions and *)
(* the reset are met; the processor's windows move it between two deadbands, *)
(* the drives are never noisy enough for that.  adaptive.json may be of a    *)
(* time when the pinned class was managed and the processor was not.         *)
EXTENDS Adaptive

Win(full, mean, sd, p90) == [full |-> full, mean |-> mean, sd |-> sd, changes |-> 0, p90 |-> p90]

Warming == Win(FALSE, 300, 0, 50)
Noisy   == Win(TRUE, 300, 60, 50)
Calm(sd) == Win(TRUE, 305, sd, 50)      \* in the band, drifts up when sd > 0
Hot(sd)  == Win(TRUE, 400, sd, 50)      \* above it: down
Pegged(sd) == Win(TRUE, 305, sd, 100)   \* fan at its limit: up

MCOrder == <<"CPU", "GPU", "HDD">>
MCPinned == {"GPU"}
MCEnv == [c \in Class |->
            [low |-> 30, mid |-> IF c = "CPU" THEN 30 ELSE 31, high |-> 31, safe |-> 32]]
MCWindows == [c \in Class |->
  CASE c = "CPU" -> {Warming, Noisy} \cup {Hot(sd) : sd \in {0, 24}} \cup {Pegged(sd) : sd \in {0, 24}}
                      \cup {Calm(0), [Calm(24) EXCEPT !.mean = 314]}
    [] c = "GPU" -> {Warming}
    [] c = "HDD" -> {Warming, Noisy, Hot(0), Pegged(0), Calm(0)}]
MCPinnedPair == [c \in Class |-> [target |-> 40, deadband |-> 1]]
MCInherited == {[c \in {"GPU", "HDD"} |-> [target |-> 30, deadband |-> IF c = "HDD" THEN 3 ELSE 4]]}
=============================================================================
