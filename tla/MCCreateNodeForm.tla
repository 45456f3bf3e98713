--------------------------- MODULE MCCreateNodeForm ---------------------------
(***************************************************************************)
(* CreateNodeForm for TLC: a free and a taken name; a free, a taken, an    *)
(* out-of-range and a three-part IP.  Five typing steps fill the four      *)
(* fields and change one of them again.                                    *)
(***************************************************************************)
EXTENDS CreateNodeForm

MCNames      == {"", "n1", "n2"}
MCTakenNames == {"n2"}
MCIps        == {<<>>, <<10, 0, 0, 1>>, <<10, 0, 0, 2>>, <<300, 0, 0, 1>>, <<10, 0, 1>>}
MCTakenIps   == {<<10, 0, 0, 2>>}
=============================================================================
