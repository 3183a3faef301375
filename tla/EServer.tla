------------------------------- MODULE EServer -------------------------------
(***************************************************************************)
(* The host server (e_server/server.c): main() accepts and starts one      *)
(* detached thread per connection; the threads share leds[] without a      *)
(* lock.  The stores of the loop in api_leds and the loads that build the  *)
(* answer are separate steps, so threads interleave between any two LEDs   *)
(* (an aligned int is read and written whole on every target the code      *)
(* builds for).  Requests to other paths do not touch shared state and are *)
(* left out.                                                               *)
(***************************************************************************)
EXTENDS Integers, Sequences

CONSTANTS
    Clients,   \* connections in use at the same time
    N,         \* number of LEDs; 5 in the code
    ValLists,  \* the numbers a request to /api/leds may carry; <<>> for a GET
    None       \* no request, no value read yet

Led == 1 .. N

ASSUME EServerAssumption ==
    /\ N \in Nat \ {0}
    /\ \A v \in ValLists : v \in Seq(Int) /\ Len(v) <= N

VARIABLES
    pc,     \* per connection: "idle", "queued" for accept(), then its thread:
            \* "read", "store", "load", "send"
    vals,   \* per connection: the values of its request, or None
    data,   \* per connection: "partial", "complete" or "unfit" (see ReadRequest)
    peer,   \* per connection: "open", "closed" or "reset"
    idx,    \* per thread: loop counter, or next LED to read for the answer
    shot,   \* per thread: the values read for the answer so far
    leds,   \* static int leds[5], shared
    alone   \* per thread: no other thread has stored since its loop began

vars == <<pc, vals, data, peer, idx, shot, leds, alone>>

TypeOK ==
    /\ pc \in [Clients -> {"idle", "queued", "read", "store", "load", "send"}]
    /\ vals \in [Clients -> ValLists \cup {None}]
    /\ data \in [Clients -> {"partial", "complete", "unfit"}]
    /\ peer \in [Clients -> {"open", "closed", "reset"}]
    /\ idx \in [Clients -> 0 .. N]
    /\ shot \in [Clients -> [Led -> {0, 1, None}]]
    /\ leds \in [Led -> {0, 1}]
    /\ alone \in [Clients -> BOOLEAN]

Nothing == [i \in Led |-> None]

Init ==
    /\ pc = [c \in Clients |-> "idle"]
    /\ vals = [c \in Clients |-> None]
    /\ data = [c \in Clients |-> "partial"]
    /\ peer = [c \in Clients |-> "open"]
    /\ idx = [c \in Clients |-> 0]
    /\ shot = [c \in Clients |-> Nothing]
    /\ leds = [i \in Led |-> 0]
    /\ alone = [c \in Clients |-> TRUE]

-----------------------------------------------------------------------------
(* Clients *)

Connect(c) ==
    /\ pc[c] = "idle"
    /\ pc' = [pc EXCEPT ![c] = "queued"]
    /\ \E v \in ValLists : vals' = [vals EXCEPT ![c] = v]
    /\ UNCHANGED <<data, peer, idx, shot, leds, alone>>

SendRest(c) ==
    /\ pc[c] # "idle" /\ peer[c] = "open" /\ data[c] = "partial"
    /\ \E d \in {"complete", "unfit"} : data' = [data EXCEPT ![c] = d]
    /\ UNCHANGED <<pc, vals, peer, idx, shot, leds, alone>>

Hangup(c) ==
    /\ pc[c] # "idle" /\ peer[c] = "open"
    /\ \E p \in {"closed", "reset"} : peer' = [peer EXCEPT ![c] = p]
    /\ UNCHANGED <<pc, vals, data, idx, shot, leds, alone>>

-----------------------------------------------------------------------------
(* main() and the threads *)

\* XCLOSE(fd): the connection is over and its thread, if any, has ended
Closed(c) ==
    /\ pc' = [pc EXCEPT ![c] = "idle"]
    /\ vals' = [vals EXCEPT ![c] = None]
    /\ data' = [data EXCEPT ![c] = "partial"]
    /\ peer' = [peer EXCEPT ![c] = "open"]
    /\ idx' = [idx EXCEPT ![c] = 0]
    /\ shot' = [shot EXCEPT ![c] = Nothing]
    /\ alone' = [alone EXCEPT ![c] = TRUE]

StartWorkerVariant(c) ==
    /\ pc[c] = "queued"
    /\ \A d \in Clients : pc[d] \in {"idle", "queued"}
    /\ \/ pc' = [pc EXCEPT ![c] = "read"] /\ UNCHANGED <<vals, data, peer, idx, shot, alone>>
       \/ Closed(c)
    /\ UNCHANGED leds

\* accept() and start_worker(): a thread, or the connection is closed at once
StartWorker(c) ==
    /\ pc[c] = "queued"
    /\ \/ pc' = [pc EXCEPT ![c] = "read"] /\ UNCHANGED <<vals, data, peer, idx, shot, alone>>
       \/ Closed(c)
    /\ UNCHANGED leds

\* read_request() succeeds and route() enters api_leds()
ReadOk(c) ==
    /\ pc[c] = "read" /\ data[c] = "complete"
    /\ pc' = [pc EXCEPT ![c] = IF vals[c] = <<>> THEN "load" ELSE "store"]
    /\ idx' = [idx EXCEPT ![c] = 1]
    /\ UNCHANGED <<vals, data, peer, shot, leds, alone>>

\* read_request() fails; a partial request on an open connection blocks
ReadFails(c) ==
    /\ pc[c] = "read"
    /\ \/ data[c] = "unfit"
       \/ data[c] = "partial" /\ peer[c] = "closed"
       \/ peer[c] = "reset"
    /\ Closed(c)
    /\ UNCHANGED leds

NormVariant(x) == x
Norm(x) == IF x # 0 THEN 1 ELSE 0

\* leds[i] = a[i] ? 1 : 0, for one i
StoreLed(c) ==
    /\ pc[c] = "store"
    /\ leds' = [leds EXCEPT ![idx[c]] = Norm(vals[c][idx[c]])]
    /\ alone' = [d \in Clients |-> IF d # c /\ pc[d] \in {"store", "load"}
                                   THEN FALSE ELSE alone[d]]
    /\ IF idx[c] < Len(vals[c])
       THEN idx' = [idx EXCEPT ![c] = @ + 1] /\ UNCHANGED pc
       ELSE idx' = [idx EXCEPT ![c] = 1] /\ pc' = [pc EXCEPT ![c] = "load"]
    /\ UNCHANGED <<vals, data, peer, shot>>

LoadedVariant(c) == IF vals[c] # <<>> /\ idx[c] < N THEN leds[idx[c] + 1] ELSE leds[idx[c]]
Loaded(c) == leds[idx[c]]

\* one of the leds[] arguments of the snprintf() that builds the answer
LoadLed(c) ==
    /\ pc[c] = "load"
    /\ shot' = [shot EXCEPT ![c][idx[c]] = Loaded(c)]
    /\ IF idx[c] < N
       THEN idx' = [idx EXCEPT ![c] = @ + 1] /\ UNCHANGED pc
       ELSE idx' = [idx EXCEPT ![c] = 0] /\ pc' = [pc EXCEPT ![c] = "send"]
    /\ UNCHANGED <<vals, data, peer, leds, alone>>

\* send_response() and XCLOSE(fd); an error while sending changes nothing here
Send(c) ==
    /\ pc[c] = "send"
    /\ Closed(c)
    /\ UNCHANGED leds

Worker(c) == ReadOk(c) \/ ReadFails(c) \/ StoreLed(c) \/ LoadLed(c) \/ Send(c)

ClientStep(c) == Connect(c) \/ SendRest(c) \/ Hangup(c)

Next == \E c \in Clients : ClientStep(c) \/ StartWorker(c) \/ Worker(c)

\* The host schedules every runnable thread; accept() takes connections in
\* order, so none of them waits for ever.
Spec == /\ Init /\ [][Next]_vars
        /\ \A c \in Clients : WF_vars(StartWorker(c)) /\ WF_vars(Worker(c))

-----------------------------------------------------------------------------
(* Properties *)

\* The answer to a POST echoes every LED it listed as long as no other
\* thread stored a LED between its first store and its last load; without
\* that proviso two POSTs may each get a mixture of both.
UndisturbedPostEchoes ==
    \A c \in Clients :
        (pc[c] = "send" /\ alone[c]) =>
            \A i \in 1 .. Len(vals[c]) : shot[c][i] = Norm(vals[c][i])

\* A client that stays silent holds up nobody else: a connection whose
\* request is complete is always finished, whatever the other clients do.
SilentClientIsHarmless ==
    \A c \in Clients : (pc[c] # "idle" /\ data[c] = "complete") ~> pc[c] = "idle"
=============================================================================
