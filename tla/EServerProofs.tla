---------------------------- MODULE EServerProofs ----------------------------
(***************************************************************************)
(* Threads of the host server share leds[] without a lock.  For any number *)
(* of connections, LEDs and request values: a POST that no other thread    *)
(* disturbs is answered with its own values.                               *)
(***************************************************************************)
EXTENDS EServer, TLAPS

\* A thread has a request; its counter points at a value to store or at a LED
\* to load.
ThreadInv ==
    \A c \in Clients :
        /\ pc[c] # "idle" => vals[c] \in ValLists
        /\ pc[c] = "store" => idx[c] \in 1 .. Len(vals[c])
        /\ pc[c] = "load" => idx[c] \in 1 .. N

\* What an undisturbed thread has stored is still there, and what it has
\* loaded for the answer is what it stored.
StoredUpTo(c, n) == \A i \in 1 .. Len(vals[c]) : i <= n => leds[i] = Norm(vals[c][i])
LoadedUpTo(c, n) == \A i \in 1 .. Len(vals[c]) : i <= n => shot[c][i] = Norm(vals[c][i])
EchoInv ==
    \A c \in Clients : alone[c] =>
        /\ pc[c] = "store" => StoredUpTo(c, idx[c] - 1)
        /\ pc[c] = "load" => StoredUpTo(c, N) /\ LoadedUpTo(c, idx[c] - 1)
        /\ pc[c] = "send" => LoadedUpTo(c, N)

IInv == TypeOK /\ ThreadInv /\ EchoInv
-----------------------------------------------------------------------------
\* Every list of values a request may carry is a list of at most N integers.
LEMMA ValListFacts ==
    ASSUME NEW v \in ValLists
    PROVE  /\ v \in Seq(Int) /\ Len(v) \in Nat /\ Len(v) <= N
           /\ v # <<>> => 1 \in 1 .. Len(v)
           /\ \A i \in 1 .. Len(v) : v[i] \in Int /\ i \in Led
  BY EServerAssumption DEF Led

\* The initial state satisfies the invariant.
LEMMA InitIInv == Init => IInv
<1> SUFFICES ASSUME Init PROVE IInv
  OBVIOUS
<1>1. TypeOK
  BY EServerAssumption DEF Init, TypeOK, Nothing
<1>2. ThreadInv /\ EchoInv
  BY DEF Init, ThreadInv, EchoInv
<1> QED BY <1>1, <1>2 DEF IInv

\* The end of a connection: Closed(c) with the LEDs as they are.
LEMMA ClosedIInv ==
    ASSUME IInv, NEW c \in Clients, Closed(c), UNCHANGED leds
    PROVE  IInv'
<1> USE EServerAssumption DEF IInv
<1>1. TypeOK'
  BY DEF Closed, TypeOK, Nothing
<1>2. ThreadInv'
  BY DEF Closed, TypeOK, ThreadInv
<1>3. EchoInv'
  BY DEF Closed, TypeOK, EchoInv, StoredUpTo, LoadedUpTo
<1> QED BY <1>1, <1>2, <1>3

\* Every step keeps the invariant.
LEMMA NextIInv == IInv /\ [Next]_vars => IInv'
<1> SUFFICES ASSUME IInv, [Next]_vars PROVE IInv'
  OBVIOUS
<1> USE EServerAssumption
<1>1. ASSUME NEW c \in Clients, Connect(c) PROVE IInv'
  <2>1. TypeOK'
    BY <1>1 DEF IInv, Connect, TypeOK
  <2>2. ThreadInv'
    BY <1>1 DEF IInv, Connect, TypeOK, ThreadInv
  <2>3. EchoInv'
    BY <1>1 DEF IInv, Connect, TypeOK, EchoInv, StoredUpTo, LoadedUpTo
  <2> QED BY <2>1, <2>2, <2>3 DEF IInv
<1>2. ASSUME NEW c \in Clients, SendRest(c) PROVE IInv'
  <2>1. TypeOK'
    BY <1>2 DEF IInv, SendRest, TypeOK
  <2>2. ThreadInv' /\ EchoInv'
    BY <1>2 DEF IInv, SendRest, ThreadInv, EchoInv, StoredUpTo, LoadedUpTo
  <2> QED BY <2>1, <2>2 DEF IInv
<1>3. ASSUME NEW c \in Clients, Hangup(c) PROVE IInv'
  <2>1. TypeOK'
    BY <1>3 DEF IInv, Hangup, TypeOK
  <2>2. ThreadInv' /\ EchoInv'
    BY <1>3 DEF IInv, Hangup, ThreadInv, EchoInv, StoredUpTo, LoadedUpTo
  <2> QED BY <2>1, <2>2 DEF IInv
<1>4. ASSUME NEW c \in Clients, StartWorker(c) PROVE IInv'
  <2>1. CASE Closed(c)
    BY <1>4, <2>1, ClosedIInv DEF StartWorker
  <2>2. CASE pc' = [pc EXCEPT ![c] = "read"] /\ UNCHANGED <<vals, data, peer, idx, shot, alone>>
    <3>1. TypeOK'
      BY <1>4, <2>2 DEF IInv, StartWorker, TypeOK
    <3>2. ThreadInv' /\ EchoInv'
      BY <1>4, <2>2 DEF IInv, StartWorker, TypeOK, ThreadInv, EchoInv, StoredUpTo, LoadedUpTo
    <3> QED BY <3>1, <3>2 DEF IInv
  <2> QED BY <1>4, <2>1, <2>2 DEF StartWorker
<1>5. ASSUME NEW c \in Clients, ReadOk(c) PROVE IInv'
  <2>0. vals[c] \in ValLists
    BY <1>5 DEF IInv, ReadOk, ThreadInv
  <2>1. TypeOK'
    BY <1>5 DEF IInv, ReadOk, TypeOK
  <2>2. ThreadInv'
    BY <1>5, <2>0, ValListFacts DEF IInv, ReadOk, TypeOK, ThreadInv
  <2>3. EchoInv'
    <3> SUFFICES ASSUME NEW d \in Clients, alone[d]
                 PROVE  /\ pc'[d] = "store" => StoredUpTo(d, idx[d] - 1)'
                        /\ pc'[d] = "load" => StoredUpTo(d, N)' /\ LoadedUpTo(d, idx[d] - 1)'
                        /\ pc'[d] = "send" => LoadedUpTo(d, N)'
      BY <1>5 DEF ReadOk, EchoInv
    <3>1. CASE d = c
      BY <1>5, <2>0, <3>1, ValListFacts DEF IInv, ReadOk, TypeOK, StoredUpTo, LoadedUpTo
    <3>2. CASE d # c
      BY <1>5, <3>2 DEF IInv, ReadOk, TypeOK, EchoInv, StoredUpTo, LoadedUpTo
    <3> QED BY <3>1, <3>2
  <2> QED BY <2>1, <2>2, <2>3 DEF IInv
<1>6. ASSUME NEW c \in Clients, ReadFails(c) PROVE IInv'
  BY <1>6, ClosedIInv DEF ReadFails
<1>7. ASSUME NEW c \in Clients, StoreLed(c) PROVE IInv'
  <2>0. /\ vals[c] \in ValLists /\ idx[c] \in 1 .. Len(vals[c]) /\ idx[c] \in Led
        /\ Norm(vals[c][idx[c]]) \in {0, 1} /\ Len(vals[c]) \in 1 .. N
    BY <1>7, ValListFacts DEF IInv, StoreLed, ThreadInv, Norm
  <2>1. TypeOK'
    <3>1. leds' \in [Led -> {0, 1}]
      BY <1>7, <2>0 DEF IInv, StoreLed, TypeOK
    <3>2. idx' \in [Clients -> 0 .. N]
      <4>1. CASE idx[c] < Len(vals[c])
        <5>1. idx' = [idx EXCEPT ![c] = idx[c] + 1] /\ idx \in [Clients -> 0 .. N]
          BY <1>7, <4>1 DEF IInv, StoreLed, TypeOK
        <5> QED BY <2>0, <4>1, <5>1 DEF Led
      <4>2. CASE ~(idx[c] < Len(vals[c]))
        <5>1. idx' = [idx EXCEPT ![c] = 1] /\ idx \in [Clients -> 0 .. N]
          BY <1>7, <4>2 DEF IInv, StoreLed, TypeOK
        <5> QED BY <2>0, <4>2, <5>1 DEF Led
      <4> QED BY <4>1, <4>2
    <3>3. alone' \in [Clients -> BOOLEAN]
      BY <1>7 DEF IInv, StoreLed, TypeOK
    <3>4. pc' \in [Clients -> {"idle", "queued", "read", "store", "load", "send"}]
      <4>1. CASE idx[c] < Len(vals[c])
        BY <1>7, <4>1 DEF IInv, StoreLed, TypeOK
      <4>2. CASE ~(idx[c] < Len(vals[c]))
        <5>1. pc' = [pc EXCEPT ![c] = "load"] /\ pc \in [Clients -> {"idle", "queued", "read", "store", "load", "send"}]
          BY <1>7, <4>2 DEF IInv, StoreLed, TypeOK
        <5> QED BY <2>0, <4>2, <5>1 DEF Led
      <4> QED BY <4>1, <4>2
    <3> QED BY <1>7, <3>1, <3>2, <3>3, <3>4 DEF IInv, StoreLed, TypeOK
  <2>2. ThreadInv'
    BY <1>7, <2>0 DEF IInv, StoreLed, TypeOK, ThreadInv
  <2>3. EchoInv'
    <3> SUFFICES ASSUME NEW d \in Clients, alone'[d]
                 PROVE  /\ pc'[d] = "store" => StoredUpTo(d, idx[d] - 1)'
                        /\ pc'[d] = "load" => StoredUpTo(d, N)' /\ LoadedUpTo(d, idx[d] - 1)'
                        /\ pc'[d] = "send" => LoadedUpTo(d, N)'
      BY DEF EchoInv
    <3>1. CASE d = c
      <4>1. alone[c] /\ pc[c] = "store" /\ StoredUpTo(c, idx[c] - 1)
        BY <1>7, <3>1 DEF IInv, StoreLed, EchoInv
      <4>2. /\ leds' = [leds EXCEPT ![idx[c]] = Norm(vals[c][idx[c]])]
            /\ vals' = vals /\ leds \in [Led -> {0, 1}]
        BY <1>7 DEF IInv, StoreLed, TypeOK
      <4>3. \A i \in 1 .. Len(vals[c]) : i <= idx[c] => leds'[i] = Norm(vals[c][i])
        <5> SUFFICES ASSUME NEW i \in 1 .. Len(vals[c]), i <= idx[c]
                     PROVE  leds'[i] = Norm(vals[c][i])
          OBVIOUS
        <5>1. i \in Led
          BY <2>0, ValListFacts
        <5>2. CASE i = idx[c]
          BY <4>2, <5>1, <5>2
        <5>3. CASE i # idx[c]
          <6>1. i <= idx[c] - 1
            BY <2>0, <5>3
          <6>2. leds[i] = Norm(vals[c][i])
            BY <4>1, <6>1 DEF StoredUpTo
          <6> QED BY <4>2, <5>1, <5>3, <6>2
        <5> QED BY <5>2, <5>3
      <4>4. CASE idx[c] < Len(vals[c])
        BY <1>7, <2>0, <3>1, <4>2, <4>3, <4>4 DEF IInv, StoreLed, TypeOK, StoredUpTo
      <4>5. CASE ~(idx[c] < Len(vals[c]))
        BY <1>7, <2>0, <3>1, <4>2, <4>3, <4>5 DEF IInv, StoreLed, TypeOK, StoredUpTo, LoadedUpTo
      <4> QED BY <4>4, <4>5
    <3>2. CASE d # c
      BY <1>7, <3>2 DEF IInv, StoreLed, TypeOK, EchoInv, StoredUpTo, LoadedUpTo
    <3> QED BY <3>1, <3>2
  <2> QED BY <2>1, <2>2, <2>3 DEF IInv
<1>8. ASSUME NEW c \in Clients, LoadLed(c) PROVE IInv'
  <2>0. vals[c] \in ValLists /\ idx[c] \in Led
    BY <1>8 DEF IInv, LoadLed, ThreadInv, Led
  <2>1. TypeOK'
    <3>1. shot' \in [Clients -> [Led -> {0, 1, None}]]
      BY <1>8, <2>0 DEF IInv, LoadLed, Loaded, TypeOK
    <3>2. idx' \in [Clients -> 0 .. N]
      <4>1. CASE idx[c] < N
        <5>1. idx' = [idx EXCEPT ![c] = idx[c] + 1] /\ idx \in [Clients -> 0 .. N]
          BY <1>8, <4>1 DEF IInv, LoadLed, TypeOK
        <5> QED BY <2>0, <4>1, <5>1 DEF Led
      <4>2. CASE ~(idx[c] < N)
        <5>1. idx' = [idx EXCEPT ![c] = 0] /\ idx \in [Clients -> 0 .. N]
          BY <1>8, <4>2 DEF IInv, LoadLed, TypeOK
        <5> QED BY <2>0, <4>2, <5>1 DEF Led
      <4> QED BY <4>1, <4>2
    <3>3. pc' \in [Clients -> {"idle", "queued", "read", "store", "load", "send"}]
      <4>1. CASE idx[c] < N
        BY <1>8, <4>1 DEF IInv, LoadLed, TypeOK
      <4>2. CASE ~(idx[c] < N)
        <5>1. pc' = [pc EXCEPT ![c] = "send"] /\ pc \in [Clients -> {"idle", "queued", "read", "store", "load", "send"}]
          BY <1>8, <4>2 DEF IInv, LoadLed, TypeOK
        <5> QED BY <2>0, <4>2, <5>1 DEF Led
      <4> QED BY <4>1, <4>2
    <3> QED BY <1>8, <3>1, <3>2, <3>3 DEF IInv, LoadLed, TypeOK
  <2>2. ThreadInv'
    BY <1>8, <2>0 DEF IInv, LoadLed, TypeOK, ThreadInv, Led
  <2>3. EchoInv'
    <3> SUFFICES ASSUME NEW d \in Clients, alone[d]
                 PROVE  /\ pc'[d] = "store" => StoredUpTo(d, idx[d] - 1)'
                        /\ pc'[d] = "load" => StoredUpTo(d, N)' /\ LoadedUpTo(d, idx[d] - 1)'
                        /\ pc'[d] = "send" => LoadedUpTo(d, N)'
      BY <1>8 DEF LoadLed, EchoInv
    <3>1. CASE d = c
      <4>1. StoredUpTo(c, N) /\ LoadedUpTo(c, idx[c] - 1)
        BY <1>8, <3>1 DEF IInv, LoadLed, EchoInv
      <4>2. /\ \A i \in 1 .. Len(vals[c]) : i \in Led
            /\ shot'[c] = [shot[c] EXCEPT ![idx[c]] = leds[idx[c]]]
            /\ shot[c] \in [Led -> {0, 1, None}]
        BY <1>8, <2>0, ValListFacts DEF IInv, LoadLed, Loaded, TypeOK
      <4>3. \A i \in 1 .. Len(vals[c]) : i <= idx[c] => shot'[c][i] = Norm(vals[c][i])
        <5> SUFFICES ASSUME NEW i \in 1 .. Len(vals[c]), i <= idx[c]
                     PROVE  shot'[c][i] = Norm(vals[c][i])
          OBVIOUS
        <5>1. i \in Led /\ i <= N /\ leds[i] = Norm(vals[c][i])
          BY <2>0, <4>1, <4>2 DEF StoredUpTo, Led
        <5>2. CASE i = idx[c]
          BY <4>2, <5>1, <5>2
        <5>3. CASE i # idx[c]
          <6>1. i <= idx[c] - 1
            BY <2>0, <5>3 DEF Led
          <6>2. shot[c][i] = Norm(vals[c][i])
            BY <4>1, <6>1 DEF LoadedUpTo
          <6> QED BY <4>2, <5>1, <5>3, <6>2
        <5> QED BY <5>2, <5>3
      <4>4. StoredUpTo(c, N)'
        BY <1>8, <4>1 DEF LoadLed, StoredUpTo
      <4>5. CASE idx[c] < N
        BY <1>8, <2>0, <3>1, <4>3, <4>4, <4>5 DEF IInv, LoadLed, TypeOK, LoadedUpTo, Led
      <4>6. CASE ~(idx[c] < N)
        BY <1>8, <2>0, <3>1, <4>3, <4>6 DEF IInv, LoadLed, TypeOK, LoadedUpTo, Led
      <4> QED BY <4>5, <4>6
    <3>2. CASE d # c
      BY <1>8, <3>2 DEF IInv, LoadLed, TypeOK, EchoInv, StoredUpTo, LoadedUpTo
    <3> QED BY <3>1, <3>2
  <2> QED BY <2>1, <2>2, <2>3 DEF IInv
<1>9. ASSUME NEW c \in Clients, Send(c) PROVE IInv'
  BY <1>9, ClosedIInv DEF Send
<1>10. CASE UNCHANGED vars
  BY <1>10 DEF vars, IInv, TypeOK, ThreadInv, EchoInv, StoredUpTo, LoadedUpTo
<1> QED
  BY <1>1, <1>2, <1>3, <1>4, <1>5, <1>6, <1>7, <1>8, <1>9, <1>10
  DEF Next, ClientStep, Worker

-----------------------------------------------------------------------------
\* The variables of the host server's threads keep their types.
THEOREM TypeCorrect == Spec => []TypeOK
<1>1. IInv => TypeOK
  BY DEF IInv
<1> QED BY <1>1, InitIInv, NextIInv, PTL DEF Spec

\* A POST is answered with the values it listed unless another thread stored
\* a LED between its first store and its last load (api_leds() in server.c).
THEOREM PostsEcho == Spec => []UndisturbedPostEchoes
<1>1. IInv => UndisturbedPostEchoes
  <2> SUFFICES ASSUME IInv, NEW c \in Clients, pc[c] = "send", alone[c],
                      NEW i \in 1 .. Len(vals[c])
               PROVE  shot[c][i] = Norm(vals[c][i])
    BY DEF UndisturbedPostEchoes
  <2>1. vals[c] \in ValLists /\ LoadedUpTo(c, N)
    BY DEF IInv, ThreadInv, EchoInv
  <2> QED BY <2>1, ValListFacts DEF LoadedUpTo, Led
<1> QED BY <1>1, InitIInv, NextIInv, PTL DEF Spec
=============================================================================
