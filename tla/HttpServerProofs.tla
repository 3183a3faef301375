--------------------------- MODULE HttpServerProofs --------------------------
(***************************************************************************)
(* The board server holds nothing between connections, keeps the LEDs in   *)
(* step with leds[], and implements the register of LedStore, for any      *)
(* number of clients and LEDs, any backlog and any set of requests.        *)
(***************************************************************************)
EXTENDS HttpServer, TLAPS

\* The one open connection is the one being served; the others have sent
\* their request or are idle.
ConnInv ==
    /\ cur = None <=> pc \in {"start", "exit", "accept"}
    /\ \A c \in Clients : conn[c] = "open" <=> c = cur
    /\ \A c \in Clients : conn[c] # "idle" => req[c] \in Reqs

\* The backlog holds every waiting connection once.
BacklogInv ==
    /\ \A i \in 1 .. Len(backlog) : conn[backlog[i]] = "queued"
    /\ \A i, j \in 1 .. Len(backlog) : backlog[i] = backlog[j] => i = j

\* Where the loop of api_leds is: the LEDs before idx are stored, the one at
\* idx is from the moment it is driven.
Stored(n) == \A i \in 1 .. n : leds[i] = Norm(req[cur].vals[i])
LoopInv ==
    /\ pc \in {"route", "store", "drive", "reply"} => req[cur].path # "garbled"
    /\ pc \in {"store", "drive"} =>
          /\ req[cur].path = "leds" /\ Posts(req[cur])
          /\ idx \in 1 .. Len(req[cur].vals)
    /\ pc = "store" => Stored(idx - 1)
    /\ pc = "drive" => Stored(idx)

\* The request buffer and the answer exist where they are used only; an
\* answer to /api/leds is leds[].
HeldInv ==
    /\ buf = IF pc \in {"read", "route", "store", "drive", "reply"} THEN 1 ELSE 0
    /\ pc # "reply" => reply = None
    /\ pc = "reply" => /\ reply \in Answer
                      /\ reply.leds = IF req[cur].path = "leds" THEN leds ELSE None

Inv == TypeOK /\ ConnInv /\ BacklogInv /\ LoopInv /\ HeldInv /\ PinsFollow

-----------------------------------------------------------------------------
LEMMA InitInv == Init => Inv
<1> SUFFICES ASSUME Init PROVE Inv
  OBVIOUS
<1>1. TypeOK
  BY ServerAssumption DEF Init, TypeOK, Pcs, Led
<1>2. ConnInv /\ BacklogInv /\ LoopInv
  BY ServerAssumption DEF Init, ConnInv, BacklogInv, LoopInv
<1>3. HeldInv /\ PinsFollow
  BY ServerAssumption DEF Init, HeldInv, PinsFollow, Led
<1> QED BY <1>1, <1>2, <1>3 DEF Inv

LEMMA NextInv == Inv /\ [Next]_vars => Inv'
<1> SUFFICES ASSUME Inv, [Next]_vars PROVE Inv'
  OBVIOUS
<1> USE ServerAssumption DEF Inv
<1>1. ASSUME Start PROVE Inv'
  <2>1. TypeOK'
    BY <1>1 DEF Start, clients, TypeOK, Pcs
  <2>2. ConnInv'
    BY <1>1 DEF Start, clients, ConnInv
  <2>3. BacklogInv'
    BY <1>1 DEF Start, clients, BacklogInv
  <2>4. LoopInv'
    BY <1>1 DEF Start, LoopInv
  <2>5. HeldInv'
    BY <1>1 DEF Start, HeldInv
  <2>6. PinsFollow'
    BY <1>1 DEF Start, PinsFollow
  <2> QED BY <2>1, <2>2, <2>3, <2>4, <2>5, <2>6
<1>2. ASSUME Accept PROVE Inv'
  <2>0. /\ cur' = backlog[1] /\ cur' \in Clients /\ 1 \in 1 .. Len(backlog)
        /\ conn[cur'] = "queued"
    BY <1>2 DEF Accept, TypeOK, BacklogInv
  <2>1. TypeOK'
    BY <1>2 DEF Accept, TypeOK, Pcs
  <2>2. ConnInv'
    BY <1>2, <2>0 DEF Accept, TypeOK, ConnInv
  <2>3. BacklogInv'
    BY <1>2, <2>0 DEF Accept, BacklogInv
  <2>4. LoopInv'
    BY <1>2 DEF Accept, LoopInv
  <2>5. HeldInv'
    BY <1>2 DEF Accept, HeldInv
  <2>6. PinsFollow'
    BY <1>2 DEF Accept, PinsFollow
  <2> QED BY <2>1, <2>2, <2>3, <2>4, <2>5, <2>6
<1>3. ASSUME Alloc PROVE Inv'
  <2>0. cur \in Clients /\ req[cur] \in Reqs
    BY <1>3 DEF Alloc, TypeOK, ConnInv
  <2>1. TypeOK'
    BY <1>3 DEF Alloc, clients, TypeOK, Pcs, HeldInv
  <2>2. ConnInv'
    BY <1>3 DEF Alloc, clients, ConnInv
  <2>3. BacklogInv'
    BY <1>3 DEF Alloc, clients, BacklogInv
  <2>4. LoopInv'
    BY <1>3 DEF Alloc, LoopInv
  <2>5. HeldInv'
    BY <1>3 DEF Alloc, HeldInv
  <2>6. PinsFollow'
    BY <1>3 DEF Alloc, PinsFollow
  <2> QED BY <2>1, <2>2, <2>3, <2>4, <2>5, <2>6
<1>4. ASSUME ReadOk PROVE Inv'
  <2>0. cur \in Clients /\ req[cur] \in Reqs
    BY <1>4 DEF ReadOk, TypeOK, ConnInv
  <2>1. TypeOK'
    BY <1>4 DEF ReadOk, FreeBuf, clients, TypeOK, Pcs, HeldInv
  <2>2. ConnInv'
    BY <1>4 DEF ReadOk, clients, ConnInv
  <2>3. BacklogInv'
    BY <1>4 DEF ReadOk, clients, BacklogInv
  <2>4. LoopInv'
    BY <1>4 DEF ReadOk, clients, LoopInv
  <2>5. HeldInv'
    BY <1>4 DEF ReadOk, FreeBuf, HeldInv
  <2>6. PinsFollow'
    BY <1>4 DEF ReadOk, PinsFollow
  <2> QED BY <2>1, <2>2, <2>3, <2>4, <2>5, <2>6
<1>5. ASSUME ReadFails PROVE Inv'
  <2>0. cur \in Clients /\ req[cur] \in Reqs
    BY <1>5 DEF ReadFails, TypeOK, ConnInv
  <2>1. TypeOK'
    BY <1>5 DEF ReadFails, FreeBuf, clients, TypeOK, Pcs, HeldInv
  <2>2. ConnInv'
    BY <1>5 DEF ReadFails, clients, ConnInv
  <2>3. BacklogInv'
    BY <1>5 DEF ReadFails, clients, BacklogInv
  <2>4. LoopInv'
    BY <1>5 DEF ReadFails, LoopInv
  <2>5. HeldInv'
    BY <1>5 DEF ReadFails, FreeBuf, HeldInv
  <2>6. PinsFollow'
    BY <1>5 DEF ReadFails, PinsFollow
  <2> QED BY <2>1, <2>2, <2>3, <2>4, <2>5, <2>6
<1>6. ASSUME RoutePlain PROVE Inv'
  <2>0. cur \in Clients /\ req[cur] \in Reqs
    BY <1>6 DEF RoutePlain, TypeOK, ConnInv
  <2>a. /\ reply' = PlainAnswer(req[cur].path)
        /\ req[cur].path \in Paths \ {"leds", "garbled"}
    BY <1>6, <2>0 DEF RoutePlain, LoopInv, Req
  <2>b. reply' \in Answer /\ reply'.leds = None
    BY <2>a DEF PlainAnswer, Paths, Answer
  <2>1. TypeOK'
    BY <1>6, <2>b DEF RoutePlain, clients, TypeOK, Pcs
  <2>2. ConnInv'
    BY <1>6 DEF RoutePlain, clients, ConnInv
  <2>3. BacklogInv'
    BY <1>6 DEF RoutePlain, clients, BacklogInv
  <2>4. LoopInv'
    BY <1>6 DEF RoutePlain, clients, LoopInv
  <2>5. HeldInv'
    BY <1>6, <2>b DEF RoutePlain, clients, HeldInv
  <2>6. PinsFollow'
    BY <1>6 DEF RoutePlain, PinsFollow
  <2> QED BY <2>1, <2>2, <2>3, <2>4, <2>5, <2>6
<1>7. ASSUME RouteLeds PROVE Inv'
  <2>0. cur \in Clients /\ req[cur] \in Reqs
    BY <1>7 DEF RouteLeds, TypeOK, ConnInv
  <2>a. LedAnswer(leds) \in Answer /\ LedAnswer(leds).leds = leds
    BY DEF LedAnswer, Answer, TypeOK
  <2>1. TypeOK'
    BY <1>7, <2>a DEF RouteLeds, clients, TypeOK, Pcs
  <2>2. ConnInv'
    BY <1>7 DEF RouteLeds, clients, ConnInv
  <2>3. BacklogInv'
    BY <1>7 DEF RouteLeds, clients, BacklogInv
  <2>4. LoopInv'
    BY <1>7 DEF RouteLeds, Posts, clients, LoopInv, Stored
  <2>5. HeldInv'
    BY <1>7, <2>a DEF RouteLeds, clients, HeldInv
  <2>6. PinsFollow'
    BY <1>7 DEF RouteLeds, PinsFollow
  <2> QED BY <2>1, <2>2, <2>3, <2>4, <2>5, <2>6
<1>8. ASSUME StoreLed PROVE Inv'
  <2>0. cur \in Clients /\ req[cur] \in Reqs
    BY <1>8 DEF StoreLed, TypeOK, ConnInv
  <2>1. TypeOK'
    BY <1>8 DEF StoreLed, Norm, clients, TypeOK, Pcs, Led, LoopInv
  <2>2. ConnInv'
    BY <1>8 DEF StoreLed, clients, ConnInv
  <2>3. BacklogInv'
    BY <1>8 DEF StoreLed, clients, BacklogInv
  <2>4. LoopInv'
    BY <1>8 DEF StoreLed, clients, TypeOK, LoopInv, Led, Stored
  <2>5. HeldInv'
    BY <1>8 DEF StoreLed, HeldInv
  <2>6. PinsFollow'
    BY <1>8 DEF StoreLed, PinsFollow
  <2> QED BY <2>1, <2>2, <2>3, <2>4, <2>5, <2>6
<1>9. ASSUME DriveLed PROVE Inv'
  <2>0. cur \in Clients /\ req[cur] \in Reqs
    BY <1>9 DEF DriveLed, TypeOK, ConnInv
  <2>a. idx \in Led /\ leds[idx] \in {0, 1} /\ idx + 1 \in Nat
    BY <1>9 DEF DriveLed, LoopInv, Led, TypeOK
  <2>b. pins' \in [Led -> {0, 1}] /\ drv' \in [Led -> {"boot", "server", "failed"}]
    BY <1>9, <2>a DEF DriveLed, LedSwitch, TypeOK
  <2>c. /\ LoopEnds => pc' = "reply" /\ idx' = 0 /\ reply' = LedAnswer(leds)
        /\ ~LoopEnds => pc' = "store" /\ idx' = idx + 1 /\ reply' = reply /\ idx + 1 <= N
    BY <1>9, <2>0 DEF DriveLed, LoopEnds, LoopInv
  <2>d. LedAnswer(leds) \in Answer /\ LedAnswer(leds).leds = leds
    BY DEF LedAnswer, Answer, TypeOK
  <2>1. TypeOK'
    BY <1>9, <2>b, <2>c, <2>d DEF DriveLed, clients, TypeOK, Pcs
  <2>2. ConnInv'
    BY <1>9 DEF DriveLed, clients, ConnInv
  <2>3. BacklogInv'
    BY <1>9 DEF DriveLed, clients, BacklogInv
  <2>4. LoopInv'
    BY <1>9 DEF DriveLed, LoopEnds, clients, LoopInv, Led, Stored
  <2>5. HeldInv'
    BY <1>9, <2>d DEF DriveLed, clients, HeldInv, LoopInv
  <2>6. PinsFollow'
    BY <1>9, <2>b DEF DriveLed, LedSwitch, LedId, PinsFollow
  <2> QED BY <2>1, <2>2, <2>3, <2>4, <2>5, <2>6
<1>10. ASSUME Reply PROVE Inv'
  <2>0. cur \in Clients /\ req[cur] \in Reqs
    BY <1>10 DEF Reply, TypeOK, ConnInv
  <2>1. TypeOK'
    BY <1>10 DEF Reply, FreeBuf, clients, TypeOK, Pcs, HeldInv
  <2>2. ConnInv'
    BY <1>10 DEF Reply, clients, ConnInv
  <2>3. BacklogInv'
    BY <1>10 DEF Reply, clients, BacklogInv
  <2>4. LoopInv'
    BY <1>10 DEF Reply, LoopInv
  <2>5. HeldInv'
    BY <1>10 DEF Reply, FreeBuf, HeldInv
  <2>6. PinsFollow'
    BY <1>10 DEF Reply, PinsFollow
  <2> QED BY <2>1, <2>2, <2>3, <2>4, <2>5, <2>6
<1>11. ASSUME Close PROVE Inv'
  <2>0. cur \in Clients /\ req[cur] \in Reqs
    BY <1>11 DEF Close, TypeOK, ConnInv
  <2>1. TypeOK'
    BY <1>11 DEF Close, TypeOK, Pcs
  <2>2. ConnInv'
    BY <1>11 DEF Close, TypeOK, ConnInv
  <2>3. BacklogInv'
    BY <1>11, <2>0 DEF Close, BacklogInv, ConnInv
  <2>4. LoopInv'
    BY <1>11 DEF Close, LoopInv
  <2>5. HeldInv'
    BY <1>11 DEF Close, HeldInv
  <2>6. PinsFollow'
    BY <1>11 DEF Close, PinsFollow
  <2> QED BY <2>1, <2>2, <2>3, <2>4, <2>5, <2>6
<1>12. ASSUME BootWake PROVE Inv'
  <2>1. TypeOK'
    BY <1>12 DEF BootWake, clients, TypeOK
  <2>2. ConnInv'
    BY <1>12 DEF BootWake, clients, ConnInv
  <2>3. BacklogInv'
    BY <1>12 DEF BootWake, clients, BacklogInv
  <2>4. LoopInv'
    BY <1>12 DEF BootWake, clients, LoopInv, Stored
  <2>5. HeldInv'
    BY <1>12 DEF BootWake, clients, HeldInv
  <2>6. PinsFollow'
    BY <1>12 DEF BootWake, PinsFollow, Led
  <2> QED BY <2>1, <2>2, <2>3, <2>4, <2>5, <2>6
<1>13. ASSUME BootOff PROVE Inv'
  <2>1. TypeOK'
    BY <1>13 DEF BootOff, LedSwitch, clients, TypeOK, Pcs, Answer, Led, LoopInv, ConnInv
  <2>2. ConnInv'
    BY <1>13 DEF BootOff, clients, ConnInv
  <2>3. BacklogInv'
    BY <1>13 DEF BootOff, clients, BacklogInv
  <2>4. LoopInv'
    BY <1>13 DEF BootOff, clients, LoopInv, Stored
  <2>5. HeldInv'
    BY <1>13 DEF BootOff, clients, HeldInv
  <2>6. PinsFollow'
    BY <1>13 DEF BootOff, LedSwitch, TypeOK, PinsFollow
  <2> QED BY <2>1, <2>2, <2>3, <2>4, <2>5, <2>6
<1>14. ASSUME NEW c \in Clients, Connect(c) PROVE Inv'
  <2>1. TypeOK'
    BY <1>14 DEF Connect, TypeOK
  <2>2. ConnInv'
    BY <1>14 DEF Connect, TypeOK, ConnInv
  <2>3. BacklogInv'
    BY <1>14 DEF Connect, TypeOK, BacklogInv
  <2>4. LoopInv'
    BY <1>14 DEF Connect, LoopInv, ConnInv, Stored
  <2>5. HeldInv'
    BY <1>14 DEF Connect, HeldInv, ConnInv
  <2>6. PinsFollow'
    BY <1>14 DEF Connect, PinsFollow
  <2> QED BY <2>1, <2>2, <2>3, <2>4, <2>5, <2>6
<1>15. ASSUME NEW c \in Clients, SendRest(c) PROVE Inv'
  <2>1. TypeOK'
    BY <1>15 DEF SendRest, TypeOK
  <2>2. ConnInv'
    BY <1>15 DEF SendRest, ConnInv
  <2>3. BacklogInv'
    BY <1>15 DEF SendRest, BacklogInv
  <2>4. LoopInv'
    BY <1>15 DEF SendRest, LoopInv, Stored
  <2>5. HeldInv'
    BY <1>15 DEF SendRest, HeldInv
  <2>6. PinsFollow'
    BY <1>15 DEF SendRest, PinsFollow
  <2> QED BY <2>1, <2>2, <2>3, <2>4, <2>5, <2>6
<1>16. ASSUME NEW c \in Clients, Hangup(c) PROVE Inv'
  <2>1. TypeOK'
    BY <1>16 DEF Hangup, TypeOK
  <2>2. ConnInv'
    BY <1>16 DEF Hangup, ConnInv
  <2>3. BacklogInv'
    BY <1>16 DEF Hangup, BacklogInv
  <2>4. LoopInv'
    BY <1>16 DEF Hangup, LoopInv, Stored
  <2>5. HeldInv'
    BY <1>16 DEF Hangup, HeldInv
  <2>6. PinsFollow'
    BY <1>16 DEF Hangup, PinsFollow
  <2> QED BY <2>1, <2>2, <2>3, <2>4, <2>5, <2>6
<1>17. ASSUME UNCHANGED vars PROVE Inv'
  BY <1>17 DEF vars, TypeOK, ConnInv, BacklogInv, LoopInv, Stored, HeldInv, PinsFollow
<1> QED
  BY <1>1, <1>2, <1>3, <1>4, <1>5, <1>6, <1>7, <1>8, <1>9, <1>10, <1>11, <1>12, <1>13,
          <1>14, <1>15, <1>16, <1>17 DEF Next, ServerStep, BootStep, ClientStep

\* The server keeps the inductive invariant.
LEMMA InvHolds == Spec => []Inv
BY InitInv, NextInv, PTL DEF Spec

-----------------------------------------------------------------------------
(* Refinement of LedStore *)

\* A request to /api/leds maps to a list of values, any other to None.
LEMMA CallValsIsNone ==
    ASSUME NEW q \in Reqs
    PROVE  /\ CallVals(q) = None <=> q.path # "leds"
           /\ CallVals(q) # None => CallVals(q) \in {CallVals(r) : r \in Reqs} \ {None}
BY ServerAssumption DEF CallVals

\* Outside the loop of api_leds the register is leds[].
LEMMA FinalLedsOutside ==
    ASSUME TypeOK, pc \notin {"store", "drive"}
    PROVE  FinalLeds = leds
BY DEF FinalLeds, TypeOK

LEMMA InitRefines == Init => Store!Init
<1> SUFFICES ASSUME Init PROVE Store!Init
  OBVIOUS
<1>1. FinalLeds = [i \in Led |-> 0]
  BY DEF Init, FinalLeds
<1>2. StoreCall = [c \in Clients |-> None]
  BY DEF Init, StoreCall, Connected
<1>3. StoreAns = [c \in Clients |-> None]
  BY ServerAssumption DEF Init, StoreAns, Served
<1> QED BY <1>1, <1>2, <1>3 DEF Store!Init, Store!Led, Led

\* A connection that leaves the server unanswered, or answered and done with,
\* ends its request at the register.
LEMMA EndRefines ==
    ASSUME Inv, cur \in Clients, pc # "close", pc' = "close", pc \notin {"store", "drive"},
           UNCHANGED <<clients, cur, leds>>
    PROVE  [Store!Next]_(Store!vars)
<1>1. req[cur] \in Reqs /\ Connected(cur) /\ Connected(cur)'
  BY DEF Inv, ConnInv, Connected, clients
<1>2. FinalLeds' = FinalLeds
  BY DEF FinalLeds
<1>3. StoreCall' = [StoreCall EXCEPT ![cur] = None]
  BY <1>1 DEF StoreCall, Connected, clients
<1>4. StoreAns' = [StoreAns EXCEPT ![cur] = None]
  BY <1>1 DEF StoreAns, Served
<1>5. StoreCall[cur] = CallVals(req[cur])
  BY <1>1 DEF StoreCall
<1>6. CASE req[cur].path = "leds"
  <2>1. StoreCall[cur] # None
    BY <1>1, <1>5, <1>6, CallValsIsNone
  <2>2. Store!End(cur)
    BY <1>2, <1>3, <1>4, <2>1 DEF Store!End
  <2> QED BY <2>2 DEF Store!Next
<1>7. CASE req[cur].path # "leds"
  <2>1. StoreCall[cur] = None
    BY <1>1, <1>5, <1>7, CallValsIsNone
  <2>2. StoreAns[cur] = None
    BY <1>7, ServerAssumption DEF StoreAns, Served, Inv, HeldInv
  <2>3. StoreCall' = StoreCall /\ StoreAns' = StoreAns
    BY <1>3, <1>4, <2>1, <2>2 DEF StoreCall, StoreAns
  <2> QED BY <1>2, <2>3 DEF Store!vars
<1> QED BY <1>6, <1>7

\* Steps that neither begin nor end anything at the register.
LEMMA StutterRefines ==
    ASSUME UNCHANGED <<FinalLeds, StoreCall, StoreAns>>
    PROVE  [Store!Next]_(Store!vars)
BY DEF Store!vars

LEMMA NextRefines == Inv /\ [Next]_vars => [Store!Next]_(Store!vars)
<1> SUFFICES ASSUME Inv, [Next]_vars PROVE [Store!Next]_(Store!vars)
  OBVIOUS
<1> USE DEF Inv
<1>1. CASE Start
  BY <1>1, StutterRefines
  DEF Start, clients, FinalLeds, StoreCall, StoreAns, Pending, Connected, Served
<1>2. CASE Accept
  <2>0. /\ cur' = backlog[1] /\ cur' \in Clients /\ 1 \in 1 .. Len(backlog)
        /\ conn[cur'] = "queued" /\ cur = None
    BY <1>2 DEF Accept, TypeOK, BacklogInv, ConnInv
  <2>1. \A c \in Clients : Connected(c)' = Connected(c)
    BY <1>2, <2>0 DEF Accept, Connected, TypeOK
  <2>2. StoreCall' = StoreCall
    BY <1>2, <2>0, <2>1 DEF Accept, StoreCall
  <2>3. StoreAns' = StoreAns /\ FinalLeds' = FinalLeds
    BY <1>2 DEF Accept, StoreAns, Served, FinalLeds
  <2> QED BY <2>2, <2>3, StutterRefines
<1>3. CASE Alloc
  <2>0. cur \in Clients
    BY <1>3 DEF Alloc, TypeOK, ConnInv
  <2>1. CASE pc' = "read"
    BY <1>3, <2>1, StutterRefines
    DEF Alloc, clients, FinalLeds, StoreCall, StoreAns, Connected, Served
  <2>2. CASE pc' = "close"
    BY <1>3, <2>0, <2>2, EndRefines DEF Alloc
  <2> QED BY <1>3, <2>1, <2>2 DEF Alloc
<1>4. CASE ReadOk
  <2>0. cur \in Clients
    BY <1>4 DEF ReadOk, TypeOK, ConnInv
  <2>1. CASE pc' = "route"
    BY <1>4, <2>1, StutterRefines
    DEF ReadOk, clients, FinalLeds, StoreCall, StoreAns, Connected, Served
  <2>2. CASE pc' = "close"
    BY <1>4, <2>0, <2>2, EndRefines DEF ReadOk
  <2> QED BY <1>4, <2>1, <2>2 DEF ReadOk
<1>5. CASE ReadFails
  <2>0. cur \in Clients
    BY <1>5 DEF ReadFails, TypeOK, ConnInv
  <2> QED BY <1>5, <2>0, EndRefines DEF ReadFails
<1>6. CASE RoutePlain
  <2>1. reply'.leds = None
    BY <1>6 DEF RoutePlain, PlainAnswer
  <2>2. StoreAns' = StoreAns
    BY <1>6, <2>1 DEF RoutePlain, StoreAns, Served
  <2>3. StoreCall' = StoreCall /\ FinalLeds' = FinalLeds
    BY <1>6 DEF RoutePlain, clients, StoreCall, Connected, FinalLeds
  <2> QED BY <2>2, <2>3, StutterRefines
<1>7. CASE RouteLeds
  <2>0. /\ cur \in Clients /\ req[cur] \in Reqs /\ req[cur] \in Req
        /\ Connected(cur) /\ req[cur].path = "leds"
    BY <1>7, ServerAssumption DEF RouteLeds, TypeOK, ConnInv, Connected
  <2>1. StoreCall[cur] # None /\ StoreCall[cur] = CallVals(req[cur])
    BY <1>7, <2>0, CallValsIsNone DEF StoreCall, RouteLeds
  <2>2. StoreAns[cur] = None
    BY <1>7, <2>0 DEF StoreAns, Served, RouteLeds
  <2>3. StoreCall' = StoreCall
    BY <1>7 DEF RouteLeds, clients, StoreCall, Connected
  <2>4. FinalLeds = leds
    BY <1>7, FinalLedsOutside DEF RouteLeds
  <2>5. CASE Posts(req[cur])
    <3>1. pc' = "store" /\ leds' = leds /\ req' = req /\ cur' = cur
      BY <1>7, <2>5 DEF RouteLeds, clients
    <3>2. CallVals(req[cur]) = req[cur].vals
      BY <2>0, <2>5 DEF CallVals, Posts
    <3>3. FinalLeds' = Store!Apply(FinalLeds, StoreCall[cur])
      BY <2>1, <2>4, <3>1, <3>2
      DEF FinalLeds, Pending, Store!Apply, Store!Norm, Store!Led, Led, Norm
    <3>4. StoreAns' = [StoreAns EXCEPT ![cur] = FinalLeds']
      BY <1>7, <2>0, <3>1 DEF RouteLeds, StoreAns, Served
    <3>5. Store!Serve(cur)
      BY <2>1, <2>2, <2>3, <3>3, <3>4 DEF Store!Serve
    <3> QED BY <2>0, <3>5 DEF Store!Next
  <2>6. CASE ~Posts(req[cur])
    <3>1. /\ pc' = "reply" /\ leds' = leds /\ req' = req /\ cur' = cur
          /\ reply' = LedAnswer(leds)
      BY <1>7, <2>6 DEF RouteLeds, clients
    <3>2. CallVals(req[cur]) = <<>>
      BY <2>0, <2>6 DEF CallVals, Posts
    <3>3. FinalLeds' = leds
      BY <3>1 DEF FinalLeds, TypeOK
    <3>4. Store!Apply(FinalLeds, StoreCall[cur]) = leds
      BY <2>1, <2>4, <3>2 DEF Store!Apply, Store!Led, Led, TypeOK
    <3>5. reply'.leds = leds /\ leds # None
      BY <3>1, ServerAssumption DEF LedAnswer, TypeOK
    <3>6. StoreAns' = [StoreAns EXCEPT ![cur] = FinalLeds']
      BY <1>7, <2>0, <3>1, <3>3, <3>5 DEF RouteLeds, StoreAns, Served
    <3>7. Store!Serve(cur)
      BY <2>1, <2>2, <2>3, <3>3, <3>4, <3>6 DEF Store!Serve
    <3> QED BY <2>0, <3>7 DEF Store!Next
  <2> QED BY <2>5, <2>6
<1>8. CASE StoreLed
  <2>0. /\ cur \in Clients /\ req[cur] \in Req /\ idx \in 1 .. Len(req[cur].vals)
        /\ pc = "store" /\ pc' = "drive" /\ cur' = cur /\ req' = req /\ conn' = conn
        /\ leds' = [leds EXCEPT ![idx] = Norm(req[cur].vals[idx])]
    BY <1>8, ServerAssumption DEF StoreLed, clients, TypeOK, ConnInv, LoopInv
  <2>1. FinalLeds' = FinalLeds
    BY <2>0 DEF FinalLeds, Pending, Norm, TypeOK, Req
  <2>2. StoreCall' = StoreCall
    BY <2>0 DEF StoreCall, Connected
  <2>3. StoreAns' = StoreAns
    BY <2>0, <2>1 DEF StoreAns, Served
  <2> QED BY <2>1, <2>2, <2>3, StutterRefines
<1>9. CASE DriveLed
  <2>0. /\ cur \in Clients /\ req[cur] \in Req /\ idx \in 1 .. Len(req[cur].vals)
        /\ pc = "drive" /\ cur' = cur /\ req' = req /\ conn' = conn /\ leds' = leds
        /\ Stored(idx)
    BY <1>9, ServerAssumption DEF DriveLed, clients, TypeOK, ConnInv, LoopInv
  <2>1. StoreCall' = StoreCall
    BY <1>9, <2>0 DEF DriveLed, StoreCall, Connected
  <2>2. CASE LoopEnds
    <3>1. pc' = "reply" /\ reply' = LedAnswer(leds)
      BY <1>9, <2>2 DEF DriveLed
    <3>2. \A i \in Led : i <= Len(req[cur].vals) => leds[i] = Norm(req[cur].vals[i])
      BY <2>0, <2>2 DEF Stored, LoopEnds, Led, Req
    <3>3. FinalLeds = leds
      BY <2>0, <3>2 DEF FinalLeds, Pending, TypeOK
    <3>4. FinalLeds' = leds
      BY <2>0, <3>1 DEF FinalLeds, TypeOK
    <3>5. reply'.leds = leds /\ leds # None
      BY <3>1, ServerAssumption DEF LedAnswer, TypeOK
    <3>6. StoreAns' = StoreAns
      BY <2>0, <3>1, <3>3, <3>5 DEF StoreAns, Served
    <3> QED BY <2>1, <3>3, <3>4, <3>6, StutterRefines
  <2>3. CASE ~LoopEnds
    <3>1. pc' = "store"
      BY <1>9, <2>3 DEF DriveLed
    <3>2. FinalLeds' = FinalLeds
      BY <2>0, <3>1 DEF FinalLeds, Pending
    <3>3. StoreAns' = StoreAns
      BY <2>0, <3>1, <3>2 DEF StoreAns, Served
    <3> QED BY <2>1, <3>2, <3>3, StutterRefines
  <2> QED BY <2>2, <2>3
<1>10. CASE Reply
  <2>0. cur \in Clients
    BY <1>10 DEF Reply, TypeOK, ConnInv
  <2> QED BY <1>10, <2>0, EndRefines DEF Reply
<1>11. CASE Close
  <2>0. cur \in Clients /\ cur' \notin Clients /\ conn[cur] = "open"
    BY <1>11, ServerAssumption DEF Close, TypeOK, ConnInv
  <2>1. StoreCall' = StoreCall
    BY <1>11, <2>0 DEF Close, StoreCall, Connected, TypeOK
  <2>2. StoreAns' = StoreAns /\ FinalLeds' = FinalLeds
    BY <1>11 DEF Close, StoreAns, Served, FinalLeds
  <2> QED BY <2>1, <2>2, StutterRefines
<1>12. CASE BootStep
  <2>1. UNCHANGED <<conn, req, pc, cur, leds, reply>>
    BY <1>12 DEF BootStep, BootWake, BootOff, clients
  <2> QED BY <2>1, StutterRefines
          DEF FinalLeds, Pending, StoreCall, StoreAns, Connected, Served
<1>13. ASSUME NEW c \in Clients, Connect(c) PROVE [Store!Next]_(Store!vars)
  <2>0. PICK q \in Reqs : req' = [req EXCEPT ![c] = q]
    BY <1>13 DEF Connect
  <2>1. /\ ~Connected(c) /\ c # cur /\ StoreCall[c] = None
        /\ cur' = cur /\ pc' = pc /\ leds' = leds /\ reply' = reply
    BY <1>13 DEF Connect, Connected, StoreCall, ConnInv
  <2>2. FinalLeds' = FinalLeds
    BY <2>0, <2>1, ServerAssumption DEF FinalLeds, Pending, TypeOK, ConnInv
  <2>3. StoreAns' = StoreAns
    BY <2>1, <2>2 DEF StoreAns, Served
  <2>4. StoreCall' = [StoreCall EXCEPT ![c] = CallVals(q)]
    BY <1>13, <2>0, <2>1 DEF Connect, StoreCall, Connected, TypeOK
  <2>5. CASE q.path = "leds"
    <3>1. CallVals(q) \in {CallVals(r) : r \in Reqs} \ {None}
      BY <2>5, CallValsIsNone
    <3>2. Store!Call(c)
      BY <2>1, <2>2, <2>3, <2>4, <3>1 DEF Store!Call
    <3> QED BY <3>2 DEF Store!Next
  <2>6. CASE q.path # "leds"
    <3>1. StoreCall' = StoreCall
      BY <2>1, <2>4, <2>6, CallValsIsNone DEF StoreCall
    <3> QED BY <2>2, <2>3, <3>1, StutterRefines
  <2> QED BY <2>5, <2>6
<1>14. ASSUME NEW c \in Clients, SendRest(c) \/ Hangup(c) PROVE [Store!Next]_(Store!vars)
  <2>1. UNCHANGED <<conn, req, pc, cur, leds, reply>>
    BY <1>14 DEF SendRest, Hangup
  <2> QED BY <2>1, StutterRefines
          DEF FinalLeds, Pending, StoreCall, StoreAns, Connected, Served
<1>15. CASE UNCHANGED vars
  BY <1>15, StutterRefines
  DEF vars, FinalLeds, Pending, StoreCall, StoreAns, Connected, Served
<1> QED
  BY <1>1, <1>2, <1>3, <1>4, <1>5, <1>6, <1>7, <1>8, <1>9, <1>10, <1>11, <1>12,
     <1>13, <1>14, <1>15
  DEF Next, ServerStep, ClientStep

-----------------------------------------------------------------------------
(* The theorems *)

\* The variables of http_server.c keep their types: idx never leaves leds[],
\* the backlog never exceeds the listen() argument.
THEOREM TypeCorrect == Spec => []TypeOK
<1>1. Inv => TypeOK
  BY DEF Inv
<1> QED BY <1>1, InvHolds, PTL

\* handle_client() frees its buffer and http_server_task() closes the
\* connection on every path.
THEOREM IdleServerIsClean == Spec => []IdleIsClean
<1>1. Inv => IdleIsClean
  BY ServerAssumption DEF Inv, IdleIsClean, HeldInv, ConnInv
<1> QED BY <1>1, InvHolds, PTL

\* The LEDs api_leds() switched last show leds[], the ones main() switched
\* off last are dark.
THEOREM PinsFollowLeds == Spec => []PinsFollow
<1>1. Inv => PinsFollow
  BY DEF Inv
<1> QED BY <1>1, InvHolds, PTL

\* The server implements LedStore: POST and GET of /api/leds are indivisible
\* although api_leds() stores and switches the LEDs one by one.
THEOREM ServerIsARegister == Spec => LedsAreARegister
<1>1. Init => Store!Init
  BY InitRefines
<1>2. Inv /\ [Next]_vars => [Store!Next]_(Store!vars)
  BY NextRefines
<1> QED BY <1>1, <1>2, InvHolds, PTL DEF Spec, LedsAreARegister, Store!Spec
=============================================================================
