----------------------------- MODULE HttpRequest -----------------------------
(***************************************************************************)
(* One HTTP request as the byte stream read_request() sees it, and the     *)
(* 32-bit arithmetic that function does on its length.  The same function  *)
(* is in the two board servers (solutions/*_http/src/http_server.c) and in *)
(* the host server (e_server/server.c).                                    *)
(*                                                                         *)
(* A request abstracts the bytes to what the code can tell apart:          *)
(*   hdr    offset of the first "\r\n\r\n" (hdr_end - buf)                 *)
(*   cl     the number atol() reads after the first "Content-Length:"      *)
(*   clAt   the offset at which that number is complete in the stream: up  *)
(*          to hdr for a real header, beyond it when the text only occurs  *)
(*          in the body (strstr() searches the whole buffer)               *)
(*   shorn  what atol() reads while 1, 2, ... bytes of that number are      *)
(*          still to come; where the sequence ends, no digit is there yet  *)
(*   len    how many bytes the client sends before it stops                *)
(***************************************************************************)
EXTENDS Integers, Sequences

CONSTANTS
    CAP,       \* size of the request buffer; REQ_BUF_SIZE = 16384 in the code
    WORD,      \* size_t counts modulo WORD; 2^32 on the board
    Requests   \* the requests clients may send

Request == [hdr : Nat, cl : Int, clAt : Nat, shorn : Seq(Int), len : Nat]

\* what atol() may read of a request
Numbers(q) == {0, q.cl} \cup {q.shorn[i] : i \in 1 .. Len(q.shorn)}

\* The buffer has room for a byte and its terminator, is far smaller than the
\* address space, and Content-Length is a long of the same width as size_t.
ASSUME SizesAssumption ==
    /\ CAP \in Nat /\ CAP >= 2
    /\ WORD \in Nat /\ 4 * CAP <= WORD
ASSUME RequestsAssumption ==
    /\ Requests \subseteq Request
    /\ \A q \in Requests : \A c \in Numbers(q) : -WORD <= 2 * c /\ 2 * c < WORD

\* (size_t)x of a long x
ToSizeT(x) == IF x < 0 THEN x + WORD ELSE x

WrapVariant(x) == x

\* a size_t sum of two size_t values
Wrap(x) == IF x >= WORD THEN x - WORD ELSE x

\* the first byte after the blank line
HdrLen(q) == q.hdr + 4

\* cl as the code computes it when n bytes of the stream are in the buffer
SeenCL(q, n) ==
    IF q.clAt <= n THEN q.cl
    ELSE IF q.clAt - n <= Len(q.shorn) THEN q.shorn[q.clAt - n] ELSE 0

\* want = (size_t)(hdr_end - buf) + 4 + (size_t)cl
Want(q, cl) == Wrap(HdrLen(q) + ToSizeT(cl))
=============================================================================
