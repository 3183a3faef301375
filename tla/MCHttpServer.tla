---------------------------- MODULE MCHttpServer -----------------------------
(***************************************************************************)
(* Two clients, so that one is queued while the other is served, and two   *)
(* LEDs.  One request for every way through the server: a GET, a POST of   *)
(* all LEDs with a value that is neither 0 nor 1, a path without a page,   *)
(* and a request line that cannot be split.                                *)
(***************************************************************************)
EXTENDS HttpServer

MCReqs ==
    { [path |-> "leds", post |-> FALSE, vals |-> <<>>],
      [path |-> "leds", post |-> TRUE, vals |-> <<0, 2>>],
      [path |-> "nofile", post |-> FALSE, vals |-> <<>>],
      [path |-> "garbled", post |-> FALSE, vals |-> <<>>] }
=============================================================================
