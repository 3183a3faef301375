------------------------------ MODULE MCEServer ------------------------------
(***************************************************************************)
(* Two LEDs; opposite full POSTs, a POST of the first LED only, and a GET. *)
(***************************************************************************)
EXTENDS EServer

MCValLists == {<<>>, <<1>>, <<1, 0>>, <<0, 2>>}
=============================================================================
