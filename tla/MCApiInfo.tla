------------------------------ MODULE MCApiInfo ------------------------------
(***************************************************************************)
(* Responses of up to seven blocks read two at a time: the buffer grows    *)
(* twice, and a response may end or be cut in every part of it.            *)
(***************************************************************************)
EXTENDS ApiInfo
=============================================================================
