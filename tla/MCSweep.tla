------------------------------- MODULE MCSweep -------------------------------
EXTENDS Sweep

MCFeature == <<"spec", "kv">>
MCLadder == <<1, 2, 4>>
Cf(r, fs) == [replicas |-> r, features |-> fs]

\* A grid whose first config is risky, one with a config that combines two
\* features, and one that needs the ladder of two measured steps.
MCGrids == {<<Cf(1, {}), Cf(2, {"spec"})>>, <<Cf(2, {"spec", "kv"}), Cf(4, {"kv"})>>}
MCPoint == [tps : {10, 12}, ceilings : {TRUE}, reached : BOOLEAN]
             \cup [tps : {10, 12}, ceilings : {FALSE}, reached : {FALSE}]
=============================================================================
