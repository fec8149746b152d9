----------------------------- MODULE MCLearner -----------------------------
(***************************************************************************)
(* Two classes behind one chassis fan: drives that heat up past what the   *)
(* fan can remove, and SSDs whose need the drives may cover or not.        *)
(***************************************************************************)
EXTENDS Learner

MCClass        == {"hdd", "ssd"}
MCTarget       == [hdd |-> 38, ssd |-> 41]
MCEmergency    == [hdd |-> 50, ssd |-> 52]
MCMinCurveSpan == [hdd |-> 6, ssd |-> 6]
MCProfile      == [hdd |-> {33, 38, 60}, ssd |-> {36, 44}]
MCHeats        == [hdd |-> {40, 48, 84}, ssd |-> {42, 50}]
\* An idle drive behind a loud chassis is colder than the observer believes.
MCSane         == [hdd |-> 25 .. 100, ssd |-> 15 .. 160]
MCCooling      == [hdd |-> 32, ssd |-> 10]
MCEnv          == [c \in MCClass |-> IF c = "hdd" THEN [low |-> 32, mid |-> 38, high |-> 43, safe |-> 45]
                                               ELSE [low |-> 39, mid |-> 41, high |-> 44, safe |-> 46]]

\* Both targets drift, and the drives may be hotter than all the fan can help.
TLHeats        == [hdd |-> {56, 76}, ssd |-> {50}]
TLProfile      == [hdd |-> {34}, ssd |-> {36, 44}]
=============================================================================
