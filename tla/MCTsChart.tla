------------------------------ MODULE MCTsChart ------------------------------
(***************************************************************************)
(* Two series and a canvas of three columns and three or two rows, or none *)
(* at all; values in the lowest 0.5% of some range, in its middle, above   *)
(* the fixed one, and no number.                                           *)
(***************************************************************************)
EXTENDS TsChart

MCValue == {1, 300, Gap}
MCYRange == <<0, 100>>
MCSizes == {<<2, 2>>, <<5, 5>>}
MCNameLists == {<<"a">>, <<"b", "a">>}
MCThresholds == {<<>>, <<40>>}
=============================================================================
