-------------------------- MODULE ReadRequestProofs --------------------------
(***************************************************************************)
(* The invariants of ReadRequest, proved for every buffer size, every word *)
(* size at least four times larger, and every set of requests.             *)
(***************************************************************************)
EXTENDS ReadRequest, TLAPS

\* What each control point knows.  In the outer loop nothing is decided and
\* the blank line has not been seen; in the inner loop the request is sized
\* and fits; the last conjunct is what a return leaves behind.
AtHdr ==
    pc = "hdr" => got < HdrLen(req) /\ cl = 0 /\ want = 0 /\ ret = 0 /\ body = NULL
AtBody ==
    pc = "body" => /\ got >= HdrLen(req)
                   /\ want = Want(req, cl) /\ want < CAP
                   /\ cl \in Numbers(req)
                   /\ (req.clAt <= req.hdr => cl = req.cl)
                   /\ ret = 0 /\ body = NULL
AtDone ==
    pc = "done" =>
        /\ cl \in Numbers(req)
        /\ ret = 1 =>
                 /\ got >= HdrLen(req) /\ got >= want
                 /\ want = Want(req, cl) /\ want < CAP
                 /\ (req.clAt <= req.hdr => cl = req.cl)
        /\ body # NULL => ret = 1 /\ cl > 0

IInv == TypeOK /\ got <= CAP - 1 /\ AtHdr /\ AtBody /\ AtDone /\ ChunkIndependent

-----------------------------------------------------------------------------
(* Arithmetic of the lengths *)

\* What atol() reads is a long.
LEMMA NumbersFit ==
    ASSUME NEW q \in Requests, NEW c \in Numbers(q)
    PROVE  c \in Int /\ -WORD <= 2 * c /\ 2 * c < WORD
<1>1. q.cl \in Int /\ q.shorn \in Seq(Int)
  BY RequestsAssumption DEF Request
<1>2. c \in Int
  BY <1>1 DEF Numbers
<1> QED BY <1>2, RequestsAssumption

\* Sizing a request stays in the range of size_t.
LEMMA WantType ==
    ASSUME NEW q \in Requests, NEW c \in Numbers(q), HdrLen(q) <= CAP
    PROVE  Want(q, c) \in 0 .. WORD - 1
<1>1. c \in Int /\ -WORD <= 2 * c /\ 2 * c < WORD
  BY NumbersFit
<1>2. q.hdr \in Nat
  BY RequestsAssumption DEF Request
<1> QED BY <1>1, <1>2, SizesAssumption DEF Want, Wrap, ToSizeT, HdrLen

\* For a positive Content-Length the sum does not wrap, so the body it
\* announces ends exactly at want.
LEMMA WantOfPositive ==
    ASSUME NEW q \in Requests, NEW c \in Numbers(q), HdrLen(q) <= CAP, c > 0
    PROVE  Want(q, c) = HdrLen(q) + c
<1>1. c \in Int /\ -WORD <= 2 * c /\ 2 * c < WORD
  BY NumbersFit
<1>2. q.hdr \in Nat
  BY RequestsAssumption DEF Request
<1> QED BY <1>1, <1>2, SizesAssumption DEF Want, Wrap, ToSizeT, HdrLen

LEMMA InitInv == Init => IInv
<1> SUFFICES ASSUME Init PROVE IInv
  OBVIOUS
<1>1. req.hdr \in Nat /\ req.len \in Nat
  BY RequestsAssumption DEF Init, Request
<1>2. TypeOK
  <2>1. 0 \in 0 .. WORD - 1
    BY SizesAssumption
  <2> QED BY <1>1, <2>1 DEF Init, TypeOK
<1>3. AtHdr /\ AtBody /\ AtDone /\ ChunkIndependent
  BY <1>1 DEF Init, AtHdr, AtBody, AtDone, ChunkIndependent, HdrLen
<1> QED BY <1>2, <1>3, SizesAssumption DEF IInv, Init

LEMMA NextInv == IInv /\ [Next]_vars => IInv'
<1> SUFFICES ASSUME IInv, [Next]_vars PROVE IInv'
  OBVIOUS
<1> USE DEF IInv
<1>q. req.hdr \in Nat /\ req.cl \in Int /\ req.clAt \in Nat /\ req.len \in Nat
  BY RequestsAssumption DEF TypeOK, Request
<1>s. req.shorn \in Seq(Int)
  BY RequestsAssumption DEF TypeOK, Request
<1>1. CASE Arrive
  BY <1>1, <1>q, SizesAssumption
  DEF Arrive, TypeOK, AtHdr, AtBody, AtDone, ChunkIndependent, Complete, HdrLen
<1>2. CASE PeerClose
  BY <1>2, <1>q DEF PeerClose, TypeOK, AtHdr, AtBody, AtDone, ChunkIndependent
<1>3. CASE PeerReset
  BY <1>3, <1>q DEF PeerReset, TypeOK, AtHdr, AtBody, AtDone, ChunkIndependent
<1>4. CASE RecvHeader
  <2>1. got' \in got + 1 .. arrived /\ got' <= CAP - 1
    BY <1>4, SizesAssumption DEF RecvHeader, Received, HdrRoom, TypeOK
  <2>2. CASE got' < HdrLen(req)
    BY <1>4, <2>1, <2>2, <1>q
    DEF RecvHeader, TypeOK, AtHdr, AtBody, AtDone, ChunkIndependent, HdrLen
  <2>3. CASE ~(got' < HdrLen(req))
    <3>1. HdrLen(req) <= CAP - 1
      BY <2>1, <2>3, <1>q, SizesAssumption DEF HdrLen, TypeOK
    <3>2. /\ cl' = SeenCL(req, got') /\ want' = Want(req, cl')
          /\ pc' = (IF TooBig(want') THEN "done" ELSE "body")
          /\ UNCHANGED <<req, arrived, peer, ret, body>> /\ pc = "hdr"
      BY <1>4, <2>3 DEF RecvHeader
    <3>3. cl' \in Numbers(req) /\ (req.clAt <= req.hdr => cl' = req.cl)
      <4>1. got' \in Nat /\ got' >= req.hdr
        BY <2>1, <2>3, <1>q DEF TypeOK, HdrLen
      <4>2. CASE req.clAt <= got'
        BY <3>2, <4>2 DEF SeenCL, Numbers
      <4>3. CASE ~(req.clAt <= got')
        <5>1. req.clAt - got' \in Nat \ {0} /\ ~(req.clAt <= req.hdr)
          BY <4>1, <4>3, <1>q
        <5>2. req.clAt - got' <= Len(req.shorn) => req.clAt - got' \in 1 .. Len(req.shorn)
          BY <5>1, <1>s
        <5> QED BY <3>2, <4>3, <5>1, <5>2 DEF SeenCL, Numbers
      <4> QED BY <4>2, <4>3
    <3>c. cl' \in Int
      BY <3>2, <3>3, NumbersFit DEF TypeOK
    <3>4. want' \in 0 .. WORD - 1
      BY <3>1, <3>2, <3>3, <1>q, WantType, SizesAssumption DEF TypeOK, HdrLen
    <3>5. ChunkIndependent'
      <4>1. ASSUME pc' = "done", req.clAt <= req.hdr PROVE ~Fits(req) /\ ret' = 0
        BY <4>1, <3>2, <3>3, <3>4, SizesAssumption DEF AtHdr, Fits, TooBig
      <4> QED BY <4>1, <3>2 DEF ChunkIndependent
    <3> QED
      BY <3>1, <3>2, <3>3, <3>c, <3>4, <3>5, <2>1, <2>3, <1>q, SizesAssumption
      DEF TypeOK, AtHdr, AtBody, AtDone, TooBig, HdrLen
  <2> QED BY <2>2, <2>3
<1>5. CASE HeaderFails
  BY <1>5, <1>q, SizesAssumption
  DEF HeaderFails, NoMore, TypeOK, AtHdr, AtBody, AtDone, ChunkIndependent, Fits, Complete, HdrLen,
      Numbers
<1>6. CASE RecvBody
  BY <1>6, <1>q, SizesAssumption
  DEF RecvBody, Received, TypeOK, AtHdr, AtBody, AtDone, ChunkIndependent, HdrLen
<1>7. CASE Return
  <2>1. TypeOK' /\ got' <= CAP - 1 /\ AtHdr' /\ AtBody' /\ AtDone'
    BY <1>7, <1>q, SizesAssumption DEF Return, TypeOK, AtHdr, AtBody, AtDone, HdrLen
  <2>2. ChunkIndependent'
    <3> SUFFICES ASSUME req.clAt <= req.hdr
                 PROVE  /\ ret' = 1 => Fits(req) /\ Complete(req, arrived)
                        /\ (ret' = 0 /\ peer # "reset") =>
                              peer = "closed" /\ ~Complete(req, arrived)
      BY <1>7 DEF Return, ChunkIndependent
    <3>1. cl = req.cl /\ want = Want(req, req.cl) /\ want < CAP /\ got >= HdrLen(req)
      BY <1>7 DEF Return, AtBody
    <3>2. ASSUME ret' = 1 PROVE Fits(req) /\ Complete(req, arrived)
      BY <1>7, <3>1, <3>2, <1>q, SizesAssumption
      DEF Return, TypeOK, Fits, Complete, HdrLen
    <3>3. ASSUME ret' = 0, peer # "reset" PROVE peer = "closed" /\ ~Complete(req, arrived)
      BY <1>7, <3>1, <3>3, <1>q, SizesAssumption
      DEF Return, NoMore, TypeOK, Complete, HdrLen
    <3> QED BY <3>2, <3>3
  <2> QED BY <2>1, <2>2
<1>8. CASE UNCHANGED vars
  BY <1>8 DEF vars, TypeOK, AtHdr, AtBody, AtDone, ChunkIndependent
<1> QED BY <1>1, <1>2, <1>3, <1>4, <1>5, <1>6, <1>7, <1>8 DEF Next, Server

\* read_request() keeps the inductive invariant.
LEMMA InvHolds == Spec => []IInv
BY InitInv, NextInv, PTL DEF Spec

\* The variables of read_request() keep their types; got never passes what
\* has arrived, want stays a size_t.
THEOREM TypeCorrect == Spec => []TypeOK
<1>1. IInv => TypeOK BY DEF IInv
<1> QED BY <1>1, InvHolds, PTL

\* Whatever the Content-Length and the chunks, no byte is stored outside the
\* buffer and a body handed on lies inside what was received.
THEOREM BufferIsSafe == Spec => []BufferSafe
<1>1. IInv => BufferSafe
  <2> SUFFICES ASSUME IInv, body # NULL PROVE body + cl <= got
    BY DEF IInv, BufferSafe
  <2>1. req.hdr \in Nat /\ req.cl \in Int /\ req \in Requests
    BY RequestsAssumption DEF IInv, TypeOK, Request
  <2>2. pc = "done" /\ ret = 1 /\ body = HdrLen(req) /\ cl > 0 /\ cl \in Numbers(req)
        /\ got >= HdrLen(req) /\ got >= want /\ want = Want(req, cl)
    BY DEF IInv, TypeOK, AtHdr, AtBody, AtDone
  <2>3. HdrLen(req) <= CAP
    BY <2>1, <2>2, SizesAssumption DEF IInv, TypeOK, HdrLen
  <2> QED BY <2>1, <2>2, <2>3, WantOfPositive
<1> QED BY <1>1, InvHolds, PTL

\* The result of read_request() does not depend on how TCP cut the stream.
THEOREM ResultIsChunkIndependent == Spec => []ChunkIndependent
<1>1. IInv => ChunkIndependent BY DEF IInv
<1> QED BY <1>1, InvHolds, PTL
=============================================================================
