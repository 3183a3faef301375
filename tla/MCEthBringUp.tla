---------------------------- MODULE MCEthBringUp ----------------------------
(***************************************************************************)
(* EthBringUp for TLC.  The configurations wait and poll for one round,    *)
(* give the queue room for six rpcs and let the PHY change three times:     *)
(* plugged, unplugged and plugged again before, during or after the        *)
(* override, with the queue now and then full.                             *)
(***************************************************************************)
EXTENDS EthBringUp
=============================================================================
