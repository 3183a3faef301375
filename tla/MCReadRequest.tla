---------------------------- MODULE MCReadRequest ----------------------------
(***************************************************************************)
(* A buffer of 9 bytes and a word of 40: blank lines that do and do not    *)
(* fit, Content-Lengths on both sides of every boundary (negative enough   *)
(* to wrap, the last that fits, the first that does not, close to the      *)
(* word), named in the headers or only in the body, streams that stop      *)
(* short, are exact, or carry more than was announced.  Of a number with   *)
(* two digits the first may arrive alone.                                  *)
(***************************************************************************)
EXTENDS ReadRequest

FirstDigit(c) == IF c >= 10 THEN <<c \div 10>>
                 ELSE IF c <= -10 THEN <<-((-c) \div 10)>> ELSE <<>>

MCRequests ==
    { [hdr |-> q.hdr, cl |-> q.cl, clAt |-> q.clAt, shorn |-> FirstDigit(q.cl), len |-> q.len] :
      q \in {r \in [hdr : {0, 1, 4, 5}, cl : {-20, -6, -5, -4, -1, 0, 1, 3, 4, 5, 19},
             clAt : {0, 4, 6, 8}, len : {0, 3, 5, 8, 9, 11}] :
        r.clAt <= r.hdr \/ r.clAt > r.hdr + 4} }
=============================================================================
