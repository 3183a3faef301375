------------------------------- MODULE MCAdcTab ------------------------------
(***************************************************************************)
(* Two plots of two points, two fetches at a time: a plot overflows, a     *)
(* reply overtakes another, and a channel may be unusable while another is *)
(* not.                                                                    *)
(***************************************************************************)
EXTENDS AdcTab, TLC

TabSymmetry == Permutations(Samples) \cup Permutations(Plots)
=============================================================================
