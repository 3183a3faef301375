----------------------------- MODULE ReadRequest -----------------------------
(***************************************************************************)
(* read_request(): one task reads one request from one socket, in chunks   *)
(* whose sizes TCP decides, while the peer sends, stops, closes or resets. *)
(***************************************************************************)
EXTENDS HttpRequest

VARIABLES
    req,      \* the request the peer is sending
    arrived,  \* bytes of it that TCP has delivered to the socket so far
    peer,     \* "open", "closed" (orderly FIN) or "reset"
    pc,       \* "hdr": outer loop, "body": inner loop, "done": returned
    got,      \* bytes in the buffer
    cl,       \* Content-Length as parsed, 0 before that
    want,     \* bytes the request must have, 0 before that
    ret,      \* the value returned, 0 until then
    body      \* *body_out as an offset into the buffer, NULL or hdr + 4

NULL == 0   \* no body: a body never starts at the first byte

vars == <<req, arrived, peer, pc, got, cl, want, ret, body>>
conn == <<req, arrived, peer>>

TypeOK ==
    /\ req \in Requests
    /\ arrived \in 0 .. req.len
    /\ peer \in {"open", "closed", "reset"}
    /\ pc \in {"hdr", "body", "done"}
    /\ got \in 0 .. arrived
    /\ cl \in Int
    /\ want \in 0 .. WORD - 1
    /\ ret \in {0, 1}
    /\ body \in {NULL, HdrLen(req)}

Init ==
    /\ req \in Requests
    /\ arrived = 0 /\ peer = "open"
    /\ pc = "hdr" /\ got = 0 /\ cl = 0 /\ want = 0
    /\ ret = 0 /\ body = NULL

-----------------------------------------------------------------------------
(* The peer and TCP *)

Arrive ==
    /\ peer = "open"
    /\ arrived' \in arrived + 1 .. req.len
    /\ UNCHANGED <<req, peer, pc, got, cl, want, ret, body>>

PeerClose ==
    /\ peer = "open"
    /\ peer' = "closed"
    /\ UNCHANGED <<req, arrived, pc, got, cl, want, ret, body>>

PeerReset ==
    /\ peer = "open"
    /\ peer' = "reset"
    /\ UNCHANGED <<req, arrived, pc, got, cl, want, ret, body>>

\* recv(fd, buf + got, room, 0) > 0: some of the bytes that are there.  It
\* blocks while there are none and the peer is still open.
Received(room) == got' \in got + 1 .. (IF arrived <= got + room THEN arrived ELSE got + room)

\* recv(...) <= 0: end of the stream, or an error (which may come before the
\* bytes that were still queued)
NoMore == (peer = "closed" /\ got = arrived) \/ peer = "reset"

-----------------------------------------------------------------------------
(* The outer loop: read until the blank line, then size the request.       *)

\* the variants named ...Variant are plausible slips in the definition that
\* follows them; the properties must tell them apart from the code
HdrRoomVariant == CAP - got
HdrRoom == CAP - 1 - got

TooBigVariant(w) == w > CAP
TooBig(w) == w >= CAP

RecvHeader ==
    /\ pc = "hdr"
    /\ got < CAP - 1
    /\ Received(HdrRoom)
    /\ IF got' < HdrLen(req)
       THEN UNCHANGED <<pc, cl, want>>
       ELSE /\ cl' = SeenCL(req, got')
            /\ want' = Want(req, cl')
            /\ pc' = IF TooBig(want') THEN "done" ELSE "body"
    /\ UNCHANGED <<req, arrived, peer, ret, body>>

HeaderFailsVariant ==
    /\ pc = "hdr"
    /\ got < CAP - 1 /\ NoMore
    /\ pc' = "done"
    /\ UNCHANGED <<req, arrived, peer, got, cl, want, ret, body>>

\* the peer stopped, or the buffer is full, and there is no blank line yet
HeaderFails ==
    /\ pc = "hdr"
    /\ got < CAP - 1 => NoMore
    /\ pc' = "done"
    /\ UNCHANGED <<req, arrived, peer, got, cl, want, ret, body>>

-----------------------------------------------------------------------------
(* The inner loop: read the rest of the body, then return.                 *)

RecvBody ==
    /\ pc = "body"
    /\ got < want
    /\ Received(want - got)
    /\ UNCHANGED <<req, arrived, peer, pc, cl, want, ret, body>>

Return ==
    /\ pc = "body"
    /\ got < want => NoMore
    /\ ret' = IF got >= want THEN 1 ELSE 0
    /\ body' = IF got >= want /\ cl > 0 THEN HdrLen(req) ELSE NULL
    /\ pc' = "done"
    /\ UNCHANGED <<req, arrived, peer, got, cl, want>>

-----------------------------------------------------------------------------
Server == RecvHeader \/ HeaderFails \/ RecvBody \/ Return

Next == Arrive \/ PeerClose \/ PeerReset \/ Server

\* The server task is always scheduled again when recv() has something to
\* return; the peer promises nothing.
Spec == Init /\ [][Next]_vars /\ WF_vars(Server)

-----------------------------------------------------------------------------
(* Properties *)

\* Every byte the code stores, the terminator buf[got] = 0 included, is inside
\* the buffer, and a body that is handed to the route handler lies entirely in
\* what was received: no Content-Length, negative or near the word size, and
\* no split into chunks makes read_request() write or promise more.
BufferSafe ==
    /\ got <= CAP - 1
    /\ body # NULL => body + cl <= got

\* Does the buffer take the request, and how many bytes complete it
Fits(q) == HdrLen(q) <= CAP - 1 /\ Want(q, q.cl) < CAP
Complete(q, n) == n >= HdrLen(q) /\ n >= Want(q, q.cl)

\* What read_request() returns for a request whose Content-Length is a header
\* does not depend on how TCP cut the stream into chunks, nor on when the
\* peer closed: it succeeds only for a request that fits and has arrived
\* completely, and without a reset it fails only when the request does not
\* fit, or was cut short.
ChunkIndependent ==
    (pc = "done" /\ req.clAt <= req.hdr) =>
        /\ ret = 1 => Fits(req) /\ Complete(req, arrived)
        /\ (ret = 0 /\ peer # "reset") =>
              ~Fits(req) \/ (peer = "closed" /\ ~Complete(req, arrived))

\* Once the peer has closed or reset the connection, or has sent all that
\* the headers announce, read_request() returns.
Terminates ==
    (peer # "open" \/ arrived >= HdrLen(req) + (IF req.cl > 0 THEN req.cl ELSE 0))
        ~> pc = "done"
=============================================================================
