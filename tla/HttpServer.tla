----------------------------- MODULE HttpServer ------------------------------
(***************************************************************************)
(* The board's HTTP server: one task accepts connections one at a time,    *)
(* reads a request, routes it, answers and closes (http_server.c of        *)
(* eth_http and wifi_http).  Next to it runs main() of startup.c, which    *)
(* lights the five LEDs before the scheduler starts and switches them off  *)
(* about a second later, on the same pins the server drives.               *)
(*                                                                         *)
(* How read_request() gets at a request is the subject of ReadRequest; its *)
(* property ChunkIndependent is what allows three kinds of stream here:    *)
(* one that is still incomplete, one that is complete, and one that does   *)
(* not fit the buffer.                                                     *)
(***************************************************************************)
EXTENDS Integers, Sequences

CONSTANTS
    Clients,   \* connections in use at the same time
    N,         \* number of LEDs; 5 in the code
    BACKLOG,   \* lwip_listen(srv, 8)
    Reqs,      \* requests a client may send
    None       \* no request, no response

Led == 1 .. N
Paths == {"index", "leds", "adc", "info", "favicon", "image", "nofile", "other",
          "garbled"}

\* path is what route() tells apart ("image" and "nofile" are /public/ paths
\* with and without an entry in embedded_files, "garbled" a request line that
\* sscanf() cannot split in three); post is strcmp(method, "POST") == 0; vals
\* the numbers sscanf() reads after '[': none without a body.
Req == [path : Paths, post : BOOLEAN, vals : Seq(Int)]

ASSUME ServerAssumption ==
    /\ N \in Nat \ {0} /\ BACKLOG \in Nat \ {0}
    /\ Reqs \subseteq Req
    /\ \A q \in Reqs : Len(q.vals) <= N
    /\ None \notin Clients /\ None \notin Reqs
    /\ None \notin [Led -> {0, 1}] /\ None # <<>>
    /\ \A q \in Reqs : None # q.vals

VARIABLES
    conn,     \* per client: "idle", "queued" (in the backlog) or "open"
    req,      \* per client: its request, or None
    data,     \* per client: "partial", "complete" or "unfit"
    peer,     \* per client: "open", "closed" or "reset"
    backlog,  \* connections TCP has set up and lwip_accept has not returned
    pc,       \* the server task
    cur,      \* the client it serves, or None
    idx,      \* loop counter of api_leds, counted from 1
    buf,      \* request buffers allocated and not freed
    leds,     \* static int leds[5]
    reply,    \* the response being sent, or None
    pins,     \* what the LEDs show: 1 is lit (the pin is driven low)
    drv,      \* per LED: who switched it last, "boot", "server" or "failed"
    boot      \* main(): 0 while it sleeps, then the next LED to switch off

clients == <<conn, req, data, peer>>
vars == <<conn, req, data, peer, backlog, pc, cur, idx, buf, leds, reply,
          pins, drv, boot>>

Pcs == {"start", "exit", "accept", "alloc", "read", "route", "store", "drive",
        "reply", "close"}

Answer == [code : {200, 204, 404}, leds : [Led -> {0, 1}] \cup {None}]

TypeOK ==
    /\ conn \in [Clients -> {"idle", "queued", "open"}]
    /\ req \in [Clients -> Reqs \cup {None}]
    /\ data \in [Clients -> {"partial", "complete", "unfit"}]
    /\ peer \in [Clients -> {"open", "closed", "reset"}]
    /\ backlog \in Seq(Clients) /\ Len(backlog) <= BACKLOG
    /\ pc \in Pcs
    /\ cur \in Clients \cup {None}
    /\ idx \in 0 .. N
    /\ buf \in 0 .. 1
    /\ leds \in [Led -> {0, 1}]
    /\ reply \in Answer \cup {None}
    /\ pins \in [Led -> {0, 1}]
    /\ drv \in [Led -> {"boot", "server", "failed"}]
    /\ boot \in 0 .. N + 1

\* haas_board_init() has lit the LEDs; leds[] is statically zero.
Init ==
    /\ conn = [c \in Clients |-> "idle"]
    /\ req = [c \in Clients |-> None]
    /\ data = [c \in Clients |-> "partial"]
    /\ peer = [c \in Clients |-> "open"]
    /\ backlog = <<>>
    /\ pc = "start" /\ cur = None /\ idx = 0 /\ buf = 0
    /\ leds = [i \in Led |-> 0]
    /\ reply = None
    /\ pins = [i \in Led |-> 1]
    /\ drv = [i \in Led |-> "boot"]
    /\ boot = 0

-----------------------------------------------------------------------------
(* Clients and the TCP stack *)

Listening == pc \notin {"start", "exit"}

Connect(c) ==
    /\ Listening /\ conn[c] = "idle"
    /\ Len(backlog) < BACKLOG
    /\ conn' = [conn EXCEPT ![c] = "queued"]
    /\ \E q \in Reqs : req' = [req EXCEPT ![c] = q]
    /\ backlog' = Append(backlog, c)
    /\ UNCHANGED <<data, peer, pc, cur, idx, buf, leds, reply, pins, drv, boot>>

Connected(c) == conn[c] \in {"queued", "open"}

\* the last byte the server is waiting for arrives, or one too many
SendRest(c) ==
    /\ Connected(c) /\ peer[c] = "open" /\ data[c] = "partial"
    /\ \E d \in {"complete", "unfit"} : data' = [data EXCEPT ![c] = d]
    /\ UNCHANGED <<conn, req, peer, backlog, pc, cur, idx, buf, leds, reply,
                   pins, drv, boot>>

Hangup(c) ==
    /\ Connected(c) /\ peer[c] = "open"
    /\ \E p \in {"closed", "reset"} : peer' = [peer EXCEPT ![c] = p]
    /\ UNCHANGED <<conn, req, data, backlog, pc, cur, idx, buf, leds, reply,
                   pins, drv, boot>>

-----------------------------------------------------------------------------
(* The server task *)

\* socket, bind and listen, or the task ends
Start ==
    /\ pc = "start"
    /\ pc' \in {"accept", "exit"}
    /\ UNCHANGED <<clients, backlog, cur, idx, buf, leds, reply, pins, drv, boot>>

Accept ==
    /\ pc = "accept" /\ backlog # <<>>
    /\ cur' = Head(backlog)
    /\ backlog' = Tail(backlog)
    /\ conn' = [conn EXCEPT ![cur'] = "open"]
    /\ pc' = "alloc"
    /\ UNCHANGED <<req, data, peer, idx, buf, leds, reply, pins, drv, boot>>

\* malloc(REQ_BUF_SIZE); handle_client returns at once when it fails
Alloc ==
    /\ pc = "alloc"
    /\ \/ buf' = buf + 1 /\ pc' = "read"
       \/ buf' = buf /\ pc' = "close"
    /\ UNCHANGED <<clients, backlog, cur, idx, leds, reply, pins, drv, boot>>

\* handle_client's free(buf), after whatever it did with the request
FreeBuf == buf' = buf - 1

\* read_request() returns 1; a request line of three words goes to route()
ReadOk ==
    /\ pc = "read" /\ data[cur] = "complete"
    /\ IF req[cur].path = "garbled"
       THEN pc' = "close" /\ FreeBuf
       ELSE pc' = "route" /\ UNCHANGED buf
    /\ UNCHANGED <<clients, backlog, cur, idx, leds, reply, pins, drv, boot>>

ReadFailsVariant ==
    /\ pc = "read"
    /\ data[cur] = "unfit" \/ peer[cur] = "reset"
    /\ pc' = "close" /\ FreeBuf
    /\ UNCHANGED <<clients, backlog, cur, idx, leds, reply, pins, drv, boot>>

\* read_request() returns 0; while a partial request is open it blocks
ReadFails ==
    /\ pc = "read"
    /\ \/ data[cur] = "unfit"
       \/ data[cur] = "partial" /\ peer[cur] = "closed"
       \/ peer[cur] = "reset"
    /\ pc' = "close" /\ FreeBuf
    /\ UNCHANGED <<clients, backlog, cur, idx, leds, reply, pins, drv, boot>>

LedAnswer(v) == [code |-> 200, leds |-> v]
PlainAnswer(path) ==
    [leds |-> None,
     code |-> CASE path \in {"index", "adc", "info", "image"} -> 200
                [] path = "favicon" -> 204
                [] path \in {"nofile", "other"} -> 404]

\* route(): everything but /api/leds answers without touching the LEDs
RoutePlain ==
    /\ pc = "route" /\ req[cur].path # "leds"
    /\ reply' = PlainAnswer(req[cur].path)
    /\ pc' = "reply"
    /\ UNCHANGED <<clients, backlog, cur, idx, buf, leds, pins, drv, boot>>

Posts(q) == q.post /\ q.vals # <<>>

\* api_leds(): a POST with values enters the loop, anything else reports
RouteLeds ==
    /\ pc = "route" /\ req[cur].path = "leds"
    /\ IF Posts(req[cur])
       THEN pc' = "store" /\ idx' = 1 /\ UNCHANGED reply
       ELSE pc' = "reply" /\ reply' = LedAnswer(leds) /\ UNCHANGED idx
    /\ UNCHANGED <<clients, backlog, cur, buf, leds, pins, drv, boot>>

NormVariant(x) == x
Norm(x) == IF x # 0 THEN 1 ELSE 0

\* leds[i] = a[i] ? 1 : 0
StoreLed ==
    /\ pc = "store"
    /\ leds' = [leds EXCEPT ![idx] = Norm(req[cur].vals[idx])]
    /\ pc' = "drive"
    /\ UNCHANGED <<clients, backlog, cur, idx, buf, reply, pins, drv, boot>>

\* led_switch(id, onoff): the pin follows, unless the GPIO driver refuses; ids
\* outside 1..5 are ignored
LedSwitch(id, onoff, who) ==
    \/ /\ id \in Led
       /\ pins' = [pins EXCEPT ![id] = onoff]
       /\ drv' = [drv EXCEPT ![id] = who]
    \/ /\ id \in Led
       /\ drv' = [drv EXCEPT ![id] = "failed"]
       /\ UNCHANGED pins
    \/ /\ id \notin Led
       /\ UNCHANGED <<pins, drv>>

LedIdVariant == idx - 1
\* LED ids count from 1: led_switch(i + 1, ...) with the code's i
LedId == idx

LoopEndsVariant == idx >= Len(req[cur].vals) - 1
LoopEnds == idx = Len(req[cur].vals)

\* led_switch() for this LED, then the next value or the answer
DriveLed ==
    /\ pc = "drive"
    /\ LedSwitch(LedId, leds[idx], "server")
    /\ IF LoopEnds
       THEN pc' = "reply" /\ idx' = 0 /\ reply' = LedAnswer(leds)
       ELSE pc' = "store" /\ idx' = idx + 1 /\ UNCHANGED reply
    /\ UNCHANGED <<clients, backlog, cur, buf, leds, boot>>

ReplyVariant ==
    /\ pc = "reply"
    /\ reply' = None
    /\ pc' = "close" /\ UNCHANGED buf
    /\ UNCHANGED <<clients, backlog, cur, idx, leds, pins, drv, boot>>

\* send_response(): whether all of it gets out or send_all() gives up on an
\* error makes no difference to the server
Reply ==
    /\ pc = "reply"
    /\ reply' = None
    /\ pc' = "close" /\ FreeBuf
    /\ UNCHANGED <<clients, backlog, cur, idx, leds, pins, drv, boot>>

\* lwip_close(c), and back to lwip_accept; the client may connect again
Close ==
    /\ pc = "close"
    /\ conn' = [conn EXCEPT ![cur] = "idle"]
    /\ req' = [req EXCEPT ![cur] = None]
    /\ data' = [data EXCEPT ![cur] = "partial"]
    /\ peer' = [peer EXCEPT ![cur] = "open"]
    /\ cur' = None
    /\ pc' = "accept"
    /\ UNCHANGED <<backlog, idx, buf, leds, reply, pins, drv, boot>>

ServerStep ==
    \/ Start \/ Accept \/ Alloc \/ ReadOk \/ ReadFails \/ RoutePlain \/ RouteLeds
    \/ StoreLed \/ DriveLed \/ Reply \/ Close

-----------------------------------------------------------------------------
(* main() of startup.c *)

\* eleven sleeps later
BootWake ==
    /\ boot = 0
    /\ boot' = 1
    /\ UNCHANGED <<clients, backlog, pc, cur, idx, buf, leds, reply, pins, drv>>

BootOff ==
    /\ boot \in Led
    /\ LedSwitch(boot, 0, "boot")
    /\ boot' = boot + 1
    /\ UNCHANGED <<clients, backlog, pc, cur, idx, buf, leds, reply>>

BootStep == BootWake \/ BootOff

ClientStep(c) == Connect(c) \/ SendRest(c) \/ Hangup(c)

Next == ServerStep \/ BootStep \/ \E c \in Clients : ClientStep(c)

\* Both tasks are scheduled; no client is obliged to anything.
Spec == Init /\ [][Next]_vars /\ WF_vars(ServerStep) /\ WF_vars(BootStep)

\* Clients that do not stall: each one sends the rest of its request or hangs up.
PatientSpec == Spec /\ \A c \in Clients : WF_vars(SendRest(c) \/ Hangup(c))

-----------------------------------------------------------------------------
(* Properties *)

\* Between two connections the server holds nothing: no request buffer is
\* left allocated and no connection open, whichever way the last one ended.
IdleIsClean ==
    pc \in {"accept", "exit"} =>
        buf = 0 /\ cur = None /\ reply = None /\ \A c \in Clients : conn[c] # "open"

\* A LED the server switched last shows what leds[] says, except between the
\* two statements of the loop in api_leds; one main() switched last is dark
\* once main() has passed it.
PinsFollow ==
    \A i \in Led :
        /\ (drv[i] = "server" /\ ~(pc = "drive" /\ idx = i)) => pins[i] = leds[i]
        /\ (drv[i] = "boot" /\ boot > i) => pins[i] = 0

\* /api/leds as a register: what is still to be stored by the loop counts as
\* stored, and a routed request as served.
Pending == IF pc \in {"store", "drive"} THEN req[cur].vals ELSE <<>>
CallVals(q) == IF q.path # "leds" THEN None ELSE IF q.post THEN q.vals ELSE <<>>
FinalLeds == [i \in Led |-> IF pc \in {"store", "drive"} /\ i <= Len(Pending)
                            THEN Norm(Pending[i]) ELSE leds[i]]
Served(c) == c = cur /\ (pc \in {"store", "drive"} \/ (pc = "reply" /\ reply.leds # None))
StoreCall == [c \in Clients |-> IF Connected(c) /\ (c = cur => pc # "close")
                               THEN CallVals(req[c]) ELSE None]
StoreAns == [c \in Clients |-> IF Served(c)
                              THEN (IF pc = "reply" THEN reply.leds ELSE FinalLeds)
                              ELSE None]
Store == INSTANCE LedStore
    WITH LedVals <- {CallVals(q) : q \in Reqs} \ {None},
         leds <- FinalLeds, call <- StoreCall, ans <- StoreAns

\* The server implements the register of LedStore: although api_leds stores
\* and switches the LEDs one by one, and main() runs in between, clients see
\* POST and GET as indivisible.
LedsAreARegister == Store!Spec

\* With clients that do not stall, every connection that gets into the
\* backlog is accepted and closed, whatever fails on the way.
EveryConnectionEnds == \A c \in Clients : conn[c] = "queued" ~> conn[c] = "idle"
=============================================================================
