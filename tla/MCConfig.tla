------------------------------ MODULE MCConfig ------------------------------
(* The shipped default.env and the three kinds of chassis profile there are: *)
(* one that lowers the fans only, the two that also set a drive target, and  *)
(* none.  The operator sets two knobs, of the processor, the SSDs, the disks *)
(* or the fans, to numbers on either side of what the other knobs ask for,   *)
(* to nothing or to something that is no number.                             *)
EXTENDS Config

Lines(entries) == [k \in Knob |-> IF k \in DOMAIN entries THEN Num(entries[k]) ELSE Absent]

ClassOf(target, deadband, emergency, comfort) ==
  [TARGET |-> target, DEADBAND |-> deadband, EMERGENCY |-> emergency, COMFORT |-> comfort]

Temps ==
  [CPU |-> ClassOf(70, 3, 80, 60), GPU |-> ClassOf(87, 2, 90, 75),
   HDD |-> ClassOf(40, 3, 50, 38), SSD |-> ClassOf(50, 5, 65, 48)]

Fans == [MIN_FAN |-> 20, MAX_FAN |-> 100, INTERVAL |-> 15, FAN_GAIN |-> 50, ADAPT_ALPHA |-> 1]

MCDefault == Lines([k \in Knob |-> IF k[1] = "all" THEN Fans[k[2]] ELSE Temps[k[1]][k[2]]])

MinFan == <<"all", "MIN_FAN">>
HddTarget == <<"HDD", "TARGET">>
MCChassis == {"none", "r730xd", "dell_xc730xd_12", "r410"}
MCProfile ==
  [m \in MCChassis |->
     CASE m = "none" -> Lines([k \in {} |-> 0])
       [] m = "r730xd" -> Lines([k \in {MinFan} |-> 10])
       [] m = "dell_xc730xd_12" ->
            Lines([k \in {MinFan, HddTarget, <<"HDD", "COMFORT">>} |->
                     IF k = MinFan THEN 10 ELSE IF k = HddTarget THEN 38 ELSE 31])
       [] m = "r410" -> Lines([k \in {MinFan, HddTarget} |-> IF k = MinFan THEN 20 ELSE 44])]

MCOffers ==
  [k \in Knob |->
     CASE k \in {<<"CPU", "TARGET">>, <<"CPU", "EMERGENCY">>} -> {Blank, Num(68)}
       [] k = <<"SSD", "EMERGENCY">> -> {Garbled, Num(24)}
       [] k = <<"SSD", "TARGET">> -> {Garbled, Num(22)}
       [] k = <<"CPU", "DEADBAND">> -> {Blank, Num(7)}
       [] k = <<"CPU", "COMFORT">> -> {Num(0), Num(79)}
       [] k = HddTarget -> {Blank, Num(45)}
       [] k = <<"all", "INTERVAL">> -> {Num(0), Num(30)}
       [] k = MinFan -> {Garbled, Num(101)}
       [] OTHER -> {}]

MCRests == {10, 79}
=============================================================================
