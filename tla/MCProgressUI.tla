---------------------------- MODULE MCProgressUI ----------------------------
(***************************************************************************)
(* ProgressUI for TLC: two or three goroutines and a channel of one or two *)
(* slots, so that a send blocks on a full channel within a few calls.      *)
(***************************************************************************)
EXTENDS ProgressUI

CONSTANTS g1, g2, g3

TwoProcs   == {g1, g2}
ThreeProcs == {g1, g2, g3}

=============================================================================
