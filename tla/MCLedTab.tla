------------------------------- MODULE MCLedTab ------------------------------
(***************************************************************************)
(* Two pages with one LED and one GET at a time each: two clicks, so that  *)
(* one page's POST may fall between the stores and the loads of the        *)
(* other's and make its setLed() repeat.  The run that looks for a         *)
(* counterexample needs one page only.                                     *)
(***************************************************************************)
EXTENDS LedTab
=============================================================================
