----------------------------- MODULE MCSettings -----------------------------
(* Settings with numbers on both sides of every bound.                      *)
EXTENDS Settings

(* A negative number of buffers, and more than the 50 of a slow medium.      *)
MCBuffers == {-1000, 1700}

(* As ULONG above every maximum.                                            *)
MCArgs == {-1}

(* Below, between and above the bounds of every setting.                    *)
MCInputs == {-1, 300, 10001}

MCUMasks == {<<0, 2, 7>>, <<1, 9, 3>>}

\* More than the 50 buffers of a slow medium, and fewer than none.
MCCounts == {-300, 0, 7, 2500}
=============================================================================
