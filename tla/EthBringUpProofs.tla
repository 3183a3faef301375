-------------------------- MODULE EthBringUpProofs ---------------------------
(***************************************************************************)
(* The bring-up of the Ethernet firmware, for every queue length, number   *)
(* of link changes and of rounds of waiting and polling: the manager ends  *)
(* up where the cable is, a connection called connected has an address or  *)
(* looks for one, and the static address stays.                            *)
(***************************************************************************)
EXTENDS EthBringUp, SequenceTheorems, TLAPS

\* Where the application is before it has set the mode, and once it has stored
\* the static address.
Early == {"boot", "subscribe", "wait", "mode"}
Stores == {"stop2", "down2", "up2", "addr2", "poll", "served"}

\* The loop counters stay in range, and the mode and the stored address follow
\* the application.
AppInv ==
  /\ app \in [pc : AppSteps, n : Nat]
  /\ app.pc = "subscribe" => app.n < 5
  /\ app.pc = "wait" => app.n <= TRIES
  /\ app.pc = "poll" => app.n <= POLLS
  /\ app.pc \notin {"subscribe", "wait", "poll"} => app.n = 0
  /\ conn.mode = (IF app.pc \in Early THEN "AUTO" ELSE "STATIC")
  /\ conn.static = (IF app.pc \in Stores THEN "static" ELSE "none")

\* What the manager's record says at each step of the event task: between two
\* messages it has an interface exactly when it is not disconnected.
ConnInv ==
  /\ epc = "idle" => /\ conn.state # "CONNECTED"
                     /\ conn.netif <=> conn.state # "DISCONNECTED"
  /\ epc = "link" => conn.netif /\ conn.state \in {"CONNECTED", "OBTAINING_IP"}
  /\ epc \in {"obtain"} \cup AutoSteps \cup StaticSteps =>
        conn.netif /\ conn.state = "OBTAINING_IP"
  /\ epc \in DownSteps => conn.state = "DISCONNECTED"
  /\ epc \in StaticSteps => conn.mode = "STATIC"

\* The last link event in a queue q tells whether the cable is plugged (b).
IsLink(m) == m.cmd = "pub" /\ m.ev \in {"UP", "DOWN"}
NoLink(q) == \A i \in 1 .. Len(q) : ~IsLink(q[i])
LastLink(q, b) ==
  \A i \in 1 .. Len(q) :
    (IsLink(q[i]) /\ \A j \in (i + 1) .. Len(q) : ~IsLink(q[j])) => (q[i].ev = "UP" <=> b)

\* As long as no link event is lost, the last one in the queue is where the
\* cable is; with none in the queue the manager is already there.
LinkInv ==
  ~lost => /\ LastLink(queue, phy)
           /\ NoLink(queue) => (conn.state # "DISCONNECTED" <=> phy)

\* The DHCP client does nothing.
Off == nif.dhcp \in {"null", "off"}

\* The interface is up when the event task is about to start DHCP, except where
\* the application has just taken it down.
UpInv ==
  /\ epc = "obtain" /\ conn.mode = "AUTO" => nif.up
  /\ epc \in AutoSteps /\ app.pc \notin {"up1", "up2"} => nif.up

\* Before the override DHCP runs only on an interface that is up and attached.
DhcpInv ==
  conn.mode = "AUTO" => /\ ~nif.up => Off
                        /\ ~conn.netif => Off
                        /\ epc \in {"down", "forget"} => Off

\* Once the mode is STATIC, unless the event task had already read AUTO, DHCP
\* is stopped for good; after the override an attached interface has the static
\* address, or the event task is on its way to set it.
StaticInv ==
  ~raced => /\ conn.mode = "STATIC" => /\ epc \notin AutoSteps
                                       /\ app.pc # "stop1" => Off
            /\ Overridden /\ conn.netif /\ epc \notin {"link", "obtain"} \cup StaticSteps
                 => nif.addr = "static"

\* Between two messages an attached interface has an address or asks for one,
\* except during the override.
HonestInv ==
  app.pc \in Early \cup {"poll", "served"} /\ epc = "idle" /\ conn.netif
    => nif.addr # "none" \/ nif.dhcp = "trying"

IInv == /\ TypeOK /\ AppInv /\ ConnInv /\ LinkInv
        /\ UpInv /\ DhcpInv /\ StaticInv /\ HonestInv

Conns == [state : {"DISCONNECTED", "CONNECTED", "OBTAINING_IP", "NETWORK_CONNECTED"},
          netif : BOOLEAN, mode : {"AUTO", "STATIC"}, static : {"none", "static"}]
Netifs == [up : BOOLEAN, link : BOOLEAN, cb : BOOLEAN,
           addr : {"none", "dhcp", "static"}, dhcp : {"null", "off", "trying", "bound"}]
-----------------------------------------------------------------------------
(* The queue *)

\* The messages the model sends are messages, and their kinds are these.
LEMMA MessageFacts ==
  /\ \A ev \in Events : Pub(ev) \in Messages /\ Pub(ev).cmd = "pub" /\ Pub(ev).ev = ev
  /\ \A ev \in Events, who \in Who : Sub(ev, who) \in Messages /\ Sub(ev, who).cmd = "sub"
  BY DEF Pub, Sub, Messages, Who

\* A post keeps the queue within its bounds, and drops nothing unless lost
\* says so.
LEMMA PostFacts ==
  ASSUME NEW q \in Seq(Messages), Len(q) <= QUEUE, NEW ms \in Seq(Messages), Post(q, ms)
  PROVE  /\ queue' \in Seq(Messages) /\ Len(queue') <= QUEUE
         /\ lost' \in BOOLEAN
         /\ ~lost' => ~lost /\ queue' = q \o ms
<1>1. q \o ms \in Seq(Messages) /\ Len(q \o ms) = Len(q) + Len(ms)
  OBVIOUS
<1>2. QUEUE \in Nat /\ Len(q) \in Nat /\ Len(ms) \in Nat
  BY Bounds
<1> DEFINE full == Len(q) + Len(ms) > QUEUE
<1>0. queue' = Enqueued(q, ms) /\ lost' = (lost \/ full)
  BY DEF Post
<1>a. lost' \in BOOLEAN /\ (full => lost') /\ (~lost' => ~lost)
  BY <1>0, Zenon
<1>3. CASE Len(q) + Len(ms) <= QUEUE
  BY <1>0, <1>1, <1>2, <1>3, <1>a DEF Enqueued
<1>4. CASE ~(Len(q) + Len(ms) <= QUEUE)
  <2>1. queue' = SubSeq(q \o ms, 1, QUEUE) /\ lost'
    BY <1>0, <1>2, <1>4, <1>a DEF Enqueued
  <2>2. SubSeq(q \o ms, 1, QUEUE) \in Seq(Messages) /\ Len(SubSeq(q \o ms, 1, QUEUE)) = QUEUE
    BY <1>1, <1>2, <1>4
  <2>4. queue' \in Seq(Messages) /\ Len(queue') = QUEUE
    BY <2>1, <2>2, Zenon
  <2>5. QUEUE <= QUEUE
    BY <1>2
  <2>3. queue' \in Seq(Messages) /\ Len(queue') <= QUEUE
    BY <2>4, <2>5, Zenon
  <2> QED BY <1>a, <2>1, <2>3, Zenon
<1> QED BY <1>3, <1>4

\* Messages that are no link events do not change which one is the last.
LEMMA LinkConcat ==
  ASSUME NEW q \in Seq(Messages), NEW ms \in Seq(Messages), NoLink(ms), NEW b \in BOOLEAN
  PROVE  /\ NoLink(q \o ms) => NoLink(q)
         /\ LastLink(q, b) => LastLink(q \o ms, b)
<1>1. /\ q \o ms \in Seq(Messages) /\ Len(q \o ms) = Len(q) + Len(ms)
      /\ Len(q) \in Nat /\ Len(ms) \in Nat
  OBVIOUS
<1>2. \A i \in 1 .. Len(q) : (q \o ms)[i] = q[i] /\ i \in 1 .. Len(q \o ms)
  BY <1>1
<1>3. \A i \in 1 .. Len(q \o ms) : i > Len(q) => (q \o ms)[i] = ms[i - Len(q)] /\ i - Len(q) \in 1 .. Len(ms)
  BY <1>1
<1>4. NoLink(q \o ms) => NoLink(q)
  BY <1>2 DEF NoLink
<1>5. ASSUME LastLink(q, b), NEW i \in 1 .. Len(q \o ms), IsLink((q \o ms)[i]),
             \A j \in (i + 1) .. Len(q \o ms) : ~IsLink((q \o ms)[j])
      PROVE  (q \o ms)[i].ev = "UP" <=> b
  <2>1. i \in 1 .. Len(q)
    BY <1>1, <1>3, <1>5 DEF NoLink
  <2>2. \A j \in (i + 1) .. Len(q) : ~IsLink(q[j])
    BY <1>1, <1>2, <1>5, <2>1
  <2>3. IsLink(q[i])
    BY <1>2, <1>5, <2>1
  <2>4. q[i].ev = "UP" <=> b
    BY <1>5, <2>1, <2>2, <2>3 DEF LastLink
  <2> QED BY <1>2, <2>1, <2>4
<1> QED BY <1>4, <1>5 DEF LastLink

\* A link event that is posted becomes the last one.
LEMMA LinkPosted ==
  ASSUME NEW q \in Seq(Messages), NEW m \in Messages, IsLink(m)
  PROVE  ~NoLink(q \o <<m>>) /\ LastLink(q \o <<m>>, m.ev = "UP")
<1>1. /\ Len(q \o <<m>>) = Len(q) + 1 /\ Len(q) \in Nat
      /\ (q \o <<m>>)[Len(q) + 1] = m
  OBVIOUS
<1>2. ~NoLink(q \o <<m>>)
  BY <1>1 DEF NoLink
<1>3. ASSUME NEW i \in 1 .. Len(q \o <<m>>),
             \A j \in (i + 1) .. Len(q \o <<m>>) : ~IsLink((q \o <<m>>)[j])
      PROVE  i = Len(q) + 1
  BY <1>1, <1>3
<1> QED BY <1>1, <1>2, <1>3 DEF LastLink

\* What remains of the queue when its head is taken.
LEMMA LinkTaken ==
  ASSUME NEW q \in Seq(Messages), q # << >>, NEW b \in BOOLEAN, LastLink(q, b)
  PROVE  /\ LastLink(Tail(q), b)
         /\ NoLink(Tail(q)) /\ IsLink(Head(q)) => (Head(q).ev = "UP" <=> b)
         /\ NoLink(Tail(q)) /\ ~IsLink(Head(q)) => NoLink(q)
<1>1. /\ Tail(q) \in Seq(Messages) /\ Len(Tail(q)) = Len(q) - 1 /\ Len(q) \in Nat \ {0}
      /\ Head(q) = q[1]
      /\ \A i \in 1 .. Len(Tail(q)) : Tail(q)[i] = q[i + 1] /\ i + 1 \in 1 .. Len(q)
  OBVIOUS
<1>2. \A j \in 2 .. Len(q) : q[j] = Tail(q)[j - 1] /\ j - 1 \in 1 .. Len(Tail(q))
  BY <1>1
<1>3. ASSUME NEW i \in 1 .. Len(Tail(q)), IsLink(Tail(q)[i]),
             \A j \in (i + 1) .. Len(Tail(q)) : ~IsLink(Tail(q)[j])
      PROVE  Tail(q)[i].ev = "UP" <=> b
  <2>1. \A j \in (i + 2) .. Len(q) : ~IsLink(q[j])
    BY <1>1, <1>2, <1>3
  <2>2. q[i + 1] = Tail(q)[i] /\ i + 1 \in 1 .. Len(q) /\ i + 1 + 1 = i + 2
    BY <1>1
  <2> QED BY <1>3, <2>1, <2>2 DEF LastLink
<1>4. ASSUME NoLink(Tail(q)) PROVE \A j \in 2 .. Len(q) : ~IsLink(q[j])
  BY <1>1, <1>2, <1>4 DEF NoLink
<1>5. ASSUME NoLink(Tail(q)), IsLink(Head(q)) PROVE Head(q).ev = "UP" <=> b
  <2>1. 1 \in 1 .. Len(q) /\ 1 + 1 = 2
    BY <1>1
  <2> QED BY <1>1, <1>4, <1>5, <2>1 DEF LastLink
<1>6. ASSUME NoLink(Tail(q)), ~IsLink(Head(q)) PROVE NoLink(q)
  BY <1>1, <1>4, <1>6 DEF NoLink
<1> QED BY <1>3, <1>5, <1>6 DEF LastLink
-----------------------------------------------------------------------------
(* What every step does to the queue and to the types *)

\* The queue after a step that posts no link event: it stays within its bounds
\* and, unless something was lost, its last link event is the same.
QueueStep ==
  /\ queue' \in Seq(Messages) /\ Len(queue') <= QUEUE
  /\ lost' \in BOOLEAN
  /\ ~lost' => /\ ~lost
               /\ NoLink(queue') => NoLink(queue)
               /\ LastLink(queue, phy) => LastLink(queue', phy)

\* The variables have their types.
LEMMA TypeFacts ==
  TypeOK => /\ queue \in Seq(Messages) /\ Len(queue) <= QUEUE
            /\ subs \subseteq [ev : Events, who : Who]
            /\ epc \in EventSteps /\ conn \in Conns /\ nif \in Netifs
            /\ phy \in BOOLEAN /\ flaps \in 0 .. MaxFlaps
            /\ ok \in BOOLEAN /\ lost \in BOOLEAN /\ raced \in BOOLEAN /\ halted \in BOOLEAN
  BY DEF TypeOK, Conns, Netifs

\* ... and have them after a step when each of them has; the application's
\* counter is in the range the type invariant gives it.
LEMMA TypeStep ==
  ASSUME queue' \in Seq(Messages), Len(queue') <= QUEUE,
         subs' \subseteq [ev : Events, who : Who], epc' \in EventSteps,
         conn' \in Conns, nif' \in Netifs, phy' \in BOOLEAN, flaps' \in 0 .. MaxFlaps,
         ok' \in BOOLEAN, lost' \in BOOLEAN, raced' \in BOOLEAN, halted' \in BOOLEAN,
         AppInv'
  PROVE  TypeOK'
<1>1. TRIES \in Nat /\ POLLS \in Nat /\ Len(Subscriptions) = 5
  BY Bounds DEF Subscriptions
<1>2. app'.pc \in AppSteps /\ app'.n \in 0 .. (TRIES + POLLS + Len(Subscriptions))
  BY <1>1 DEF AppInv
<1>3. {ok', lost', raced', halted'} \subseteq BOOLEAN
  OBVIOUS
<1> QED BY <1>2, <1>3 DEF TypeOK, Conns, Netifs

\* The status callback announces nothing or a success.
LEMMA AnnouncedFacts ==
  ASSUME NEW n \in Netifs, NEW ms \in Announced(n)
  PROVE  ms = << >> \/ ms = <<Pub("SUCC")>>
<1>1. CASE ~n.cb
  BY <1>1 DEF Announced, Netifs
<1>2. CASE n.cb /\ n.dhcp = "null"
  BY <1>2 DEF Announced, Netifs
<1>3. CASE n.cb /\ n.dhcp # "null"
  BY <1>3 DEF Announced, Netifs
<1> QED BY <1>1, <1>2, <1>3 DEF Netifs

\* What the interface and the manager post are no link events.
LEMMA PlainFacts ==
  ASSUME NEW ms, NEW after,
         ms = << >> \/ ms = <<Pub("SUCC")>>,
         \/ after = << >>
         \/ \E ev \in Events \ {"UP", "DOWN"} : after = <<Pub(ev)>>
  PROVE  ms \o after \in Seq(Messages) /\ NoLink(ms \o after)
<1>0. "SUCC" \in Events \ {"UP", "DOWN"}
  BY DEF Events
<1>1. \A ev \in Events \ {"UP", "DOWN"} : Pub(ev) \in Messages /\ ~IsLink(Pub(ev))
  BY MessageFacts DEF IsLink
<1>a. << >> \in Seq(Messages) /\ \A i \in 1 .. Len(<< >>) : ~IsLink(<< >>[i])
  OBVIOUS
<1>b. ASSUME NEW m \in Messages, ~IsLink(m)
      PROVE  <<m>> \in Seq(Messages) /\ \A i \in 1 .. Len(<<m>>) : ~IsLink(<<m>>[i])
  BY <1>b
<1>c. ms \in Seq(Messages) /\ \A i \in 1 .. Len(ms) : ~IsLink(ms[i])
  BY <1>0, <1>1, <1>a, <1>b, Zenon
<1>d. after \in Seq(Messages) /\ \A i \in 1 .. Len(after) : ~IsLink(after[i])
  BY <1>1, <1>a, <1>b, Zenon
<1>2. /\ ms \in Seq(Messages) /\ \A i \in 1 .. Len(ms) : ~IsLink(ms[i])
      /\ after \in Seq(Messages) /\ \A i \in 1 .. Len(after) : ~IsLink(after[i])
  BY <1>c, <1>d
<1>3. /\ ms \o after \in Seq(Messages) /\ Len(ms \o after) = Len(ms) + Len(after)
      /\ Len(ms) \in Nat /\ Len(after) \in Nat
  BY <1>2
<1>4. \A i \in 1 .. Len(ms \o after) :
         \/ i \in 1 .. Len(ms) /\ (ms \o after)[i] = ms[i]
         \/ i - Len(ms) \in 1 .. Len(after) /\ (ms \o after)[i] = after[i - Len(ms)]
  BY <1>2, <1>3
<1> QED BY <1>2, <1>3, <1>4 DEF NoLink

\* Posting such messages is a QueueStep.
LEMMA PlainPost ==
  ASSUME TypeOK, NEW ms \in Seq(Messages), NoLink(ms), Post(queue, ms)
  PROVE  QueueStep
<1>1. queue \in Seq(Messages) /\ Len(queue) <= QUEUE /\ phy \in BOOLEAN
  BY TypeFacts
<1>2. /\ queue' \in Seq(Messages) /\ Len(queue') <= QUEUE /\ lost' \in BOOLEAN
      /\ ~lost' => ~lost /\ queue' = queue \o ms
  BY <1>1, PostFacts
<1>3. /\ NoLink(queue \o ms) => NoLink(queue)
      /\ LastLink(queue, phy) => LastLink(queue \o ms, phy)
  BY <1>1, LinkConcat
<1> QED BY <1>2, <1>3 DEF QueueStep

\* A step that leaves the queue alone is one too.
LEMMA IdleQueue ==
  ASSUME TypeOK, UNCHANGED <<queue, lost>>
  PROVE  QueueStep
  BY TypeFacts DEF QueueStep

\* A call of lwIP posts at most what the status callback announces and what the
\* caller publishes after it.
LEMMA NetifFacts ==
  ASSUME TypeOK, NEW n \in Netifs, NEW changed \in BOOLEAN, NEW after,
         \/ after = << >>
         \/ \E ev \in Events \ {"UP", "DOWN"} : after = <<Pub(ev)>>,
         Netif(n, changed, after)
  PROVE  nif' = n /\ halted' \in BOOLEAN /\ QueueStep
<1>1. PICK ms \in IF changed THEN Announced(n) ELSE {<< >>} : Post(queue, ms \o after)
  BY DEF Netif
<1>2. ms = << >> \/ ms = <<Pub("SUCC")>>
  BY <1>1, AnnouncedFacts
<1>3. ms \o after \in Seq(Messages) /\ NoLink(ms \o after)
  BY <1>2, PlainFacts
<1>4. QueueStep
  BY <1>1, <1>3, PlainPost
<1>5. nif' = n /\ halted' \in BOOLEAN
  BY DEF Netif
<1> QED BY <1>4, <1>5

\* A step that keeps the last link event and whether the manager is
\* disconnected keeps LinkInv.
LEMMA LinkStep ==
  ASSUME LinkInv, QueueStep, phy' = phy,
         conn'.state # "DISCONNECTED" <=> conn.state # "DISCONNECTED"
  PROVE  LinkInv'
  BY DEF LinkInv, QueueStep

\* The interface becomes n in a step that posts no link event.
NetifTo(n) == nif' = n /\ nif' \in Netifs /\ halted' \in BOOLEAN /\ QueueStep

\* The calls of netifapi, each by what it makes of the interface.
LEMMA CallFacts ==
  ASSUME TypeOK
  PROVE  /\ SetUp => NetifTo([nif EXCEPT !.up = TRUE])
         /\ SetDown => NetifTo([nif EXCEPT !.up = FALSE])
         /\ DhcpStop => NetifTo(Stopped(nif))
         /\ \A a \in {"none", "dhcp", "static"} :
              \/ SetAddr(a, << >>)
              \/ SetAddr(a, <<Pub("SUCC")>>)
              => NetifTo([nif EXCEPT !.addr = a])
<1>0. nif \in Netifs /\ "SUCC" \in Events \ {"UP", "DOWN"}
  BY TypeFacts DEF Events
<1>1. [nif EXCEPT !.up = TRUE] \in Netifs /\ [nif EXCEPT !.up = FALSE] \in Netifs
  BY <1>0 DEF Netifs
<1>2. Stopped(nif) \in Netifs
  BY <1>0 DEF Stopped, Netifs
<1>3. \A a \in {"none", "dhcp", "static"} : [nif EXCEPT !.addr = a] \in Netifs
  BY <1>0 DEF Netifs
<1>4. ASSUME SetUp PROVE NetifTo([nif EXCEPT !.up = TRUE])
  <2>1. (~nif.up) \in BOOLEAN
    OBVIOUS
  <2> QED BY <1>1, <1>4, <2>1, NetifFacts DEF SetUp, NetifTo
<1>5. ASSUME SetDown PROVE NetifTo([nif EXCEPT !.up = FALSE])
  <2>1. nif.up \in BOOLEAN
    BY <1>0 DEF Netifs
  <2> QED BY <1>1, <1>5, <2>1, NetifFacts DEF SetDown, NetifTo
<1>6. ASSUME DhcpStop PROVE NetifTo(Stopped(nif))
  BY <1>2, <1>6, NetifFacts DEF DhcpStop, NetifTo
<1>7. ASSUME NEW a \in {"none", "dhcp", "static"}, NEW after,
             after = << >> \/ after = <<Pub("SUCC")>>, SetAddr(a, after)
      PROVE  NetifTo([nif EXCEPT !.addr = a])
  <2>1. (a # nif.addr) \in BOOLEAN
    OBVIOUS
  <2>2. after = << >> \/ \E ev \in Events \ {"UP", "DOWN"} : after = <<Pub(ev)>>
    BY <1>0, <1>7, Zenon
  <2>3. Netif([nif EXCEPT !.addr = a], a # nif.addr, after)
    BY <1>7 DEF SetAddr
  <2>4. nif' = [nif EXCEPT !.addr = a] /\ halted' \in BOOLEAN /\ QueueStep
    BY <1>3, <2>1, <2>2, <2>3, NetifFacts
  <2> QED BY <1>3, <2>4 DEF NetifTo
<1> QED BY <1>4, <1>5, <1>6, <1>7

\* What the invariant says about the tasks, without the queue.
TaskInv == AppInv /\ ConnInv /\ UpInv /\ DhcpInv /\ StaticInv /\ HonestInv

-----------------------------------------------------------------------------
(* The application *)

\* The invariant holds when the board starts.
LEMMA InitIInv == Init => IInv
<1> SUFFICES ASSUME Init PROVE IInv
  OBVIOUS
<1>1. queue = << >> /\ queue \in Seq(Messages) /\ Len(queue) = 0
  BY DEF Init
<1>2. LinkInv
  <2>1. \A i \in 1 .. Len(queue) : FALSE
    BY <1>1
  <2>2. conn.state = "DISCONNECTED" /\ phy = FALSE
    BY DEF Init
  <2> QED BY <2>1, <2>2 DEF LinkInv, LastLink
<1>3. AppInv
  BY Bounds DEF Init, AppInv, AppSteps, Override, Early, Stores
<1>4. ConnInv /\ UpInv /\ DhcpInv /\ StaticInv /\ HonestInv
  BY DEF Init, ConnInv, UpInv, DhcpInv, StaticInv, HonestInv, Off, Overridden,
         AutoSteps, StaticSteps, DownSteps, Early
<1>5. TypeOK
  <2>1. TRIES \in Nat /\ POLLS \in Nat /\ QUEUE \in Nat /\ MaxFlaps \in Nat /\ Len(Subscriptions) = 5
    BY Bounds DEF Subscriptions
  <2>2. app.pc \in AppSteps /\ app.n \in 0 .. (TRIES + POLLS + Len(Subscriptions))
    BY <2>1 DEF Init, AppSteps
  <2>3. {ok, lost, raced, halted} \subseteq BOOLEAN /\ phy \in BOOLEAN
    BY DEF Init
  <2> QED BY <1>1, <2>1, <2>2, <2>3 DEF Init, TypeOK, EventSteps
<1> QED BY <1>2, <1>3, <1>4, <1>5 DEF IInv

\* Starting the event service touches the program counter only.
LEMMA EventServiceInitInv == IInv /\ EventServiceInit => IInv'
<1> SUFFICES ASSUME IInv, EventServiceInit PROVE IInv'
  OBVIOUS
<1>1. TypeOK /\ TaskInv /\ LinkInv
  BY DEF IInv, TaskInv
<1>2. QueueStep
  BY <1>1, IdleQueue DEF EventServiceInit
<1>3. LinkInv'
  BY <1>1, <1>2, LinkStep DEF EventServiceInit, AppRest
<1>4. TaskInv'
  BY <1>1 DEF TaskInv, EventServiceInit, AppAt, AppGoto, AppRest, AppInv, ConnInv, UpInv, DhcpInv,
     StaticInv, HonestInv, Off, Overridden, Early, Stores, AppSteps
<1>5. TypeOK'
  BY <1>1, <1>2, <1>4, TypeFacts, TypeStep DEF TaskInv, EventServiceInit, AppRest, QueueStep
<1> QED BY <1>3, <1>4, <1>5 DEF IInv, TaskInv


\* The subscriptions are rpcs, and no link events.
LEMMA SubscriptionFacts ==
  ASSUME NEW i \in 1 .. 5
  PROVE  <<Subscriptions[i]>> \in Seq(Messages) /\ NoLink(<<Subscriptions[i]>>)
<1>1. PICK ev \in Events, who \in Who : Subscriptions[i] = Sub(ev, who)
  BY DEF Subscriptions, Events, Who
<1>2. Subscriptions[i] \in Messages /\ ~IsLink(Subscriptions[i])
  BY <1>1, MessageFacts DEF IsLink
<1> HIDE DEF Subscriptions
<1> DEFINE m == Subscriptions[i]
<1>3. m \in Messages /\ ~IsLink(m)
  BY <1>2
<1> HIDE DEF m
<1>4. <<m>> \in Seq(Messages) /\ NoLink(<<m>>)
  BY <1>3 DEF NoLink
<1> QED BY <1>4 DEF m

\* A subscription is one more rpc in the queue.
LEMMA EventSubscribeInv == IInv /\ EventSubscribe => IInv'
<1> SUFFICES ASSUME IInv, EventSubscribe PROVE IInv'
  OBVIOUS
<1>1. TypeOK /\ TaskInv /\ LinkInv /\ app.pc = "subscribe"
  BY DEF IInv, TaskInv, EventSubscribe, AppAt
<1>a. app.n \in Nat /\ app.n < 5 /\ app.n + 1 \in 1 .. 5
  BY <1>1 DEF TaskInv, AppInv
<1>2. QueueStep
  BY <1>1, <1>a, SubscriptionFacts, PlainPost DEF EventSubscribe
<1>3. LinkInv'
  BY <1>1, <1>2, LinkStep DEF EventSubscribe, AppRest
<1>b. Len(Subscriptions) = 5
  BY DEF Subscriptions
<1>c. /\ app' \in [pc : AppSteps, n : Nat]
      /\ \/ app'.pc = "wait" /\ app'.n = 0
         \/ app'.pc = "subscribe" /\ app'.n < 5
  BY <1>1, <1>a, <1>b DEF EventSubscribe, AppGoto, TaskInv, AppInv, AppSteps
<1>d. UNCHANGED <<conn, nif, raced, halted, subs, epc, phy, flaps, ok>>
  BY DEF EventSubscribe, AppRest
<1>4. TaskInv'
  BY <1>1, <1>c, <1>d, Bounds DEF TaskInv, AppInv, ConnInv, UpInv, DhcpInv,
     StaticInv, HonestInv, Off, Overridden, Early, Stores
<1>5. TypeOK'
  BY <1>1, <1>2, <1>4, <1>d, TypeFacts, TypeStep DEF TaskInv, QueueStep
<1> QED BY <1>3, <1>4, <1>5 DEF IInv, TaskInv

\* Waiting only counts.
LEMMA WaitForAddressInv == IInv /\ WaitForAddress => IInv'
<1> SUFFICES ASSUME IInv, WaitForAddress PROVE IInv'
  OBVIOUS
<1>1. TypeOK /\ TaskInv /\ LinkInv /\ app.pc = "wait"
  BY DEF IInv, TaskInv, WaitForAddress, AppAt
<1>d. UNCHANGED <<queue, lost, conn, nif, raced, halted, subs, epc, phy, flaps, ok>>
  BY DEF WaitForAddress, AppRest
<1>2. QueueStep
  BY <1>1, <1>d, IdleQueue
<1>3. LinkInv'
  BY <1>1, <1>2, <1>d, LinkStep
<1>c. /\ app' \in [pc : AppSteps, n : Nat]
      /\ \/ app'.pc = "mode" /\ app'.n = 0
         \/ app'.pc = "wait" /\ app'.n <= TRIES
  BY <1>1, Bounds DEF WaitForAddress, AppGoto, TaskInv, AppInv, AppSteps, Override
<1>4. TaskInv'
  BY <1>1, <1>c, <1>d DEF TaskInv, AppInv, ConnInv, UpInv, DhcpInv,
     StaticInv, HonestInv, Off, Overridden, Early, Stores
<1>5. TypeOK'
  BY <1>1, <1>2, <1>4, <1>d, TypeFacts, TypeStep DEF TaskInv, QueueStep
<1> QED BY <1>3, <1>4, <1>5 DEF IInv, TaskInv

\* Setting the mode: an interface that is not attached has DHCP off already; one
\* that is gets it stopped next.  A task that has read AUTO makes it a race.
LEMMA SetIpModeInv == IInv /\ SetIpMode => IInv'
<1> SUFFICES ASSUME IInv, SetIpMode PROVE IInv'
  OBVIOUS
<1>1. TypeOK /\ TaskInv /\ LinkInv /\ app.pc = "mode" /\ conn \in Conns
  BY TypeFacts DEF IInv, TaskInv, SetIpMode, AppAt
<1>d. UNCHANGED <<queue, lost, nif, halted, subs, epc, phy, flaps, ok>>
  BY DEF SetIpMode, AppRest
<1>2. QueueStep
  BY <1>1, <1>d, IdleQueue
<1>c. /\ app' \in [pc : AppSteps, n : Nat] /\ app'.n = 0
      /\ app'.pc = IF conn.netif THEN "stop1" ELSE "store"
  BY <1>1 DEF SetIpMode, AppGoto, AppSteps, Override
<1>e. /\ conn' \in Conns /\ conn'.mode = "STATIC" /\ conn'.state = conn.state
      /\ conn'.netif = conn.netif /\ conn'.static = conn.static
  BY <1>1 DEF SetIpMode, Conns
<1>f. raced' \in BOOLEAN /\ (~raced' => ~raced /\ epc \notin AutoSteps)
  BY Zenon DEF SetIpMode
<1>3. LinkInv'
  BY <1>1, <1>2, <1>d, <1>e, LinkStep
<1>4. TaskInv'
  BY <1>1, <1>c, <1>d, <1>e, <1>f DEF TaskInv, AppInv, ConnInv, UpInv, DhcpInv,
     StaticInv, HonestInv, Off, Overridden, Early, Stores
<1>5. TypeOK'
  BY <1>1, <1>2, <1>4, <1>d, <1>e, <1>f, TypeFacts, TypeStep DEF TaskInv, QueueStep
<1> QED BY <1>3, <1>4, <1>5 DEF IInv, TaskInv

\* Storing the address: without an interface the override is over.
LEMMA SetStaticIpInv == IInv /\ SetStaticIp => IInv'
<1> SUFFICES ASSUME IInv, SetStaticIp PROVE IInv'
  OBVIOUS
<1>1. TypeOK /\ TaskInv /\ LinkInv /\ app.pc = "store" /\ conn \in Conns
  BY TypeFacts DEF IInv, TaskInv, SetStaticIp, AppAt
<1>d. UNCHANGED <<queue, lost, nif, raced, halted, subs, epc, phy, flaps, ok>>
  BY DEF SetStaticIp, AppRest
<1>2. QueueStep
  BY <1>1, <1>d, IdleQueue
<1>c. /\ app' \in [pc : AppSteps, n : Nat] /\ app'.n = 0
      /\ app'.pc = IF conn.netif THEN "stop2" ELSE "poll"
  BY <1>1 DEF SetStaticIp, AppGoto, AppSteps, Override
<1>e. /\ conn' \in Conns /\ conn'.static = "static" /\ conn'.state = conn.state
      /\ conn'.netif = conn.netif /\ conn'.mode = conn.mode
  BY <1>1 DEF SetStaticIp, Stored, Conns
<1>3. LinkInv'
  BY <1>1, <1>2, <1>d, <1>e, LinkStep
<1>4. TaskInv'
  BY <1>1, <1>c, <1>d, <1>e, Bounds DEF TaskInv, AppInv, ConnInv, UpInv, DhcpInv,
     StaticInv, HonestInv, Off, Overridden, Early, Stores
<1>5. TypeOK'
  BY <1>1, <1>2, <1>4, <1>d, <1>e, TypeFacts, TypeStep DEF TaskInv, QueueStep
<1> QED BY <1>3, <1>4, <1>5 DEF IInv, TaskInv

\* Polling only counts.
LEMMA PollInv == IInv /\ Poll => IInv'
<1> SUFFICES ASSUME IInv, Poll PROVE IInv'
  OBVIOUS
<1>1. TypeOK /\ TaskInv /\ LinkInv /\ app.pc = "poll"
  BY DEF IInv, TaskInv, Poll, AppAt
<1>d. UNCHANGED <<queue, lost, conn, nif, raced, halted, subs, epc, phy, flaps, ok>>
  BY DEF Poll, AppRest
<1>2. QueueStep
  BY <1>1, <1>d, IdleQueue
<1>3. LinkInv'
  BY <1>1, <1>2, <1>d, LinkStep
<1>c. /\ app' \in [pc : AppSteps, n : Nat]
      /\ \/ app'.pc = "served" /\ app'.n = 0
         \/ app'.pc = "poll" /\ app'.n <= POLLS
  <2>1. CASE Shows \/ app.n = POLLS
    BY <1>1, <2>1 DEF Poll, AppGoto, AppSteps
  <2>2. CASE ~(Shows \/ app.n = POLLS)
    BY <1>1, <2>2, Bounds DEF Poll, TaskInv, AppInv
  <2> QED BY <2>1, <2>2
<1>4. TaskInv'
  BY <1>1, <1>c, <1>d DEF TaskInv, AppInv, ConnInv, UpInv, DhcpInv,
     StaticInv, HonestInv, Off, Overridden, Early, Stores
<1>5. TypeOK'
  BY <1>1, <1>2, <1>4, <1>d, TypeFacts, TypeStep DEF TaskInv, QueueStep
<1> QED BY <1>3, <1>4, <1>5 DEF IInv, TaskInv


\* The steps that rebuild the address stop DHCP, take the interface down and up
\* and end with the address stored last.
LEMMA ReconfigureInv == IInv /\ Reconfigure => IInv'
<1> SUFFICES ASSUME IInv, Reconfigure PROVE IInv'
  OBVIOUS
<1>1. TypeOK /\ TaskInv /\ LinkInv /\ conn \in Conns /\ nif \in Netifs
  BY TypeFacts DEF IInv, TaskInv
<1>d. UNCHANGED <<conn, raced, subs, epc, phy, flaps, ok>>
  BY DEF Reconfigure, AppRest
<1>s. conn.static \in {"none", "dhcp", "static"}
  BY <1>1 DEF Conns
<1>r. \/ app.pc = "stop1" /\ NetifTo(Stopped(nif)) /\ AppGoto("down1")
      \/ app.pc = "down1" /\ NetifTo([nif EXCEPT !.up = FALSE]) /\ AppGoto("up1")
      \/ app.pc = "up1" /\ NetifTo([nif EXCEPT !.up = TRUE]) /\ AppGoto("addr1")
      \/ app.pc = "addr1" /\ NetifTo([nif EXCEPT !.addr = conn.static]) /\ AppGoto("store")
      \/ app.pc = "stop2" /\ NetifTo(Stopped(nif)) /\ AppGoto("down2")
      \/ app.pc = "down2" /\ NetifTo([nif EXCEPT !.up = FALSE]) /\ AppGoto("up2")
      \/ app.pc = "up2" /\ NetifTo([nif EXCEPT !.up = TRUE]) /\ AppGoto("addr2")
      \/ app.pc = "addr2" /\ NetifTo([nif EXCEPT !.addr = conn.static]) /\ AppGoto("poll")
  BY <1>1, <1>s, CallFacts DEF Reconfigure, AppAt
<1>2. QueueStep /\ halted' \in BOOLEAN /\ nif' \in Netifs
  BY <1>r DEF NetifTo
<1>3. LinkInv'
  BY <1>1, <1>2, <1>d, LinkStep
<1>c. app' \in [pc : AppSteps, n : Nat] /\ app'.n = 0
  BY <1>r DEF AppGoto, AppSteps, Override
<1>m. conn.mode = "STATIC" /\ app.pc \notin Early \cup {"poll", "served"}
  BY <1>1, <1>r DEF TaskInv, AppInv, Early
<1>i. AppInv /\ ConnInv /\ UpInv /\ DhcpInv /\ StaticInv
  BY <1>1 DEF TaskInv
<1>4. TaskInv'
  <2>1. CASE /\ app.pc = "stop1" /\ NetifTo(Stopped(nif)) /\ AppGoto("down1")
    <3>1. app'.pc = "down1" /\ Off' /\ nif'.up = nif.up /\ nif'.addr = nif.addr
      BY <1>1, <2>1 DEF AppGoto, NetifTo, Stopped, Off, Netifs
    <3> QED BY <1>i, <1>m, <1>c, <1>d, <2>1, <3>1 DEF TaskInv, AppInv, ConnInv, UpInv, DhcpInv,
          StaticInv, HonestInv, Overridden, Early, Stores
  <2>2. CASE /\ app.pc = "down1" /\ NetifTo([nif EXCEPT !.up = FALSE]) /\ AppGoto("up1")
    <3>1. app'.pc = "up1" /\ nif'.dhcp = nif.dhcp /\ nif'.addr = nif.addr
      BY <1>1, <2>2 DEF AppGoto, NetifTo, Netifs
    <3> QED BY <1>i, <1>m, <1>c, <1>d, <2>2, <3>1 DEF TaskInv, AppInv, ConnInv, UpInv, DhcpInv,
          StaticInv, HonestInv, Overridden, Early, Stores, Off
  <2>3. CASE /\ app.pc = "up1" /\ NetifTo([nif EXCEPT !.up = TRUE]) /\ AppGoto("addr1")
    <3>1. app'.pc = "addr1" /\ nif'.dhcp = nif.dhcp /\ nif'.addr = nif.addr /\ nif'.up
      BY <1>1, <2>3 DEF AppGoto, NetifTo, Netifs
    <3> QED BY <1>i, <1>m, <1>c, <1>d, <2>3, <3>1 DEF TaskInv, AppInv, ConnInv, UpInv, DhcpInv,
          StaticInv, HonestInv, Overridden, Early, Stores, Off
  <2>4. CASE /\ app.pc = "addr1" /\ NetifTo([nif EXCEPT !.addr = conn.static]) /\ AppGoto("store")
    <3>1. app'.pc = "store" /\ nif'.dhcp = nif.dhcp /\ nif'.up = nif.up
      BY <1>1, <2>4 DEF AppGoto, NetifTo, Netifs
    <3> QED BY <1>i, <1>m, <1>c, <1>d, <2>4, <3>1 DEF TaskInv, AppInv, ConnInv, UpInv, DhcpInv,
          StaticInv, HonestInv, Overridden, Early, Stores, Off
  <2>5. CASE /\ app.pc = "stop2" /\ NetifTo(Stopped(nif)) /\ AppGoto("down2")
    <3>1. app'.pc = "down2" /\ Off' /\ nif'.up = nif.up /\ nif'.addr = nif.addr
      BY <1>1, <2>5 DEF AppGoto, NetifTo, Stopped, Off, Netifs
    <3> QED BY <1>i, <1>m, <1>c, <1>d, <2>5, <3>1 DEF TaskInv, AppInv, ConnInv, UpInv, DhcpInv,
          StaticInv, HonestInv, Overridden, Early, Stores
  <2>6. CASE /\ app.pc = "down2" /\ NetifTo([nif EXCEPT !.up = FALSE]) /\ AppGoto("up2")
    <3>1. app'.pc = "up2" /\ nif'.dhcp = nif.dhcp /\ nif'.addr = nif.addr
      BY <1>1, <2>6 DEF AppGoto, NetifTo, Netifs
    <3> QED BY <1>i, <1>m, <1>c, <1>d, <2>6, <3>1 DEF TaskInv, AppInv, ConnInv, UpInv, DhcpInv,
          StaticInv, HonestInv, Overridden, Early, Stores, Off
  <2>7. CASE /\ app.pc = "up2" /\ NetifTo([nif EXCEPT !.up = TRUE]) /\ AppGoto("addr2")
    <3>1. app'.pc = "addr2" /\ nif'.dhcp = nif.dhcp /\ nif'.addr = nif.addr /\ nif'.up
      BY <1>1, <2>7 DEF AppGoto, NetifTo, Netifs
    <3> QED BY <1>i, <1>m, <1>c, <1>d, <2>7, <3>1 DEF TaskInv, AppInv, ConnInv, UpInv, DhcpInv,
          StaticInv, HonestInv, Overridden, Early, Stores, Off
  <2>8. CASE /\ app.pc = "addr2" /\ NetifTo([nif EXCEPT !.addr = conn.static]) /\ AppGoto("poll")
    <3>1. app'.pc = "poll" /\ nif'.dhcp = nif.dhcp /\ nif'.up = nif.up /\ nif'.addr = conn.static
      BY <1>1, <2>8 DEF AppGoto, NetifTo, Netifs
    <3> QED BY <1>i, <1>m, <1>c, <1>d, <2>8, <3>1, Bounds DEF TaskInv, AppInv, ConnInv, UpInv, DhcpInv,
          StaticInv, HonestInv, Overridden, Early, Stores, Off
  <2> QED BY <1>r, <2>1, <2>2, <2>3, <2>4, <2>5, <2>6, <2>7, <2>8
<1>5. TypeOK'
  BY <1>1, <1>2, <1>4, <1>d, TypeFacts, TypeStep DEF TaskInv, QueueStep
<1> QED BY <1>3, <1>4, <1>5 DEF IInv, TaskInv


-----------------------------------------------------------------------------
(* The event task *)

\* The rpc the event task takes, and what the rest of the queue tells.
LEMMA TakeFacts ==
  ASSUME TypeOK, LinkInv, queue # << >>
  PROVE  /\ Tail(queue) \in Seq(Messages) /\ Len(Tail(queue)) <= QUEUE /\ Msg \in Messages
         /\ ~lost => /\ LastLink(Tail(queue), phy)
                     /\ NoLink(Tail(queue)) /\ IsLink(Msg) => (Msg.ev = "UP" <=> phy)
                     /\ NoLink(Tail(queue)) /\ ~IsLink(Msg)
                          => (conn.state # "DISCONNECTED" <=> phy)
<1>1. queue \in Seq(Messages) /\ Len(queue) <= QUEUE /\ phy \in BOOLEAN
  BY TypeFacts
<1>2. Tail(queue) \in Seq(Messages) /\ Len(Tail(queue)) <= QUEUE /\ Msg \in Messages
  BY <1>1, Bounds DEF Msg
<1>3. ASSUME ~lost
      PROVE  /\ LastLink(Tail(queue), phy)
             /\ NoLink(Tail(queue)) /\ IsLink(Msg) => (Msg.ev = "UP" <=> phy)
             /\ NoLink(Tail(queue)) /\ ~IsLink(Msg) => NoLink(queue)
  BY <1>1, <1>3, LinkTaken DEF LinkInv, Msg
<1> QED BY <1>2, <1>3 DEF LinkInv

\* A subscription is no link event.
LEMMA SubscribeInv == IInv /\ Subscribe => IInv'
<1> SUFFICES ASSUME IInv, Subscribe PROVE IInv'
  OBVIOUS
<1>1. TypeOK /\ TaskInv /\ LinkInv /\ queue # << >> /\ Msg.cmd = "sub"
  BY DEF IInv, TaskInv, Subscribe
<1>d. UNCHANGED <<epc, conn, nif, phy, flaps, app, ok, lost, raced, halted>> /\ queue' = Tail(queue)
  BY DEF Subscribe
<1>2. ~IsLink(Msg)
  BY <1>1 DEF IsLink
<1>3. LinkInv'
  BY <1>1, <1>2, <1>d, TakeFacts DEF LinkInv
<1>4. TaskInv'
  BY <1>1, <1>d DEF TaskInv, AppInv, ConnInv, UpInv, DhcpInv, StaticInv, HonestInv, Off, Overridden
<1>s. subs' \subseteq [ev : Events, who : Who]
  <2>1. Msg \in Messages /\ subs \subseteq [ev : Events, who : Who]
    BY <1>1, TakeFacts, TypeFacts
  <2>2. [ev |-> Msg.ev, who |-> Msg.who] \in [ev : Events, who : Who]
    BY <2>1 DEF Messages
  <2>3. subs' = subs \cup {[ev |-> Msg.ev, who |-> Msg.who]}
    BY DEF Subscribe
  <2> QED BY <2>1, <2>2, <2>3
<1>5. TypeOK'
  BY <1>1, <1>4, <1>d, <1>s, TypeFacts, TakeFacts, TypeStep DEF TaskInv
<1> QED BY <1>3, <1>4, <1>5 DEF IInv, TaskInv

\* Posting after a message was taken.
LEMMA TakenPost ==
  ASSUME TypeOK, LinkInv, queue # << >>,
         NEW ms, ms = << >> \/ ms = <<Pub("NSUCC")>>, Post(Tail(queue), ms)
  PROVE  /\ queue' \in Seq(Messages) /\ Len(queue') <= QUEUE /\ lost' \in BOOLEAN
         /\ ~lost' => /\ ~lost
                      /\ LastLink(Tail(queue), phy) => LastLink(queue', phy)
                      /\ NoLink(queue') => NoLink(Tail(queue))
<1>1. Tail(queue) \in Seq(Messages) /\ Len(Tail(queue)) <= QUEUE /\ phy \in BOOLEAN
  BY TakeFacts, TypeFacts
<1>2. ms \in Seq(Messages) /\ NoLink(ms)
  <2>1. << >> \o ms \in Seq(Messages) /\ NoLink(<< >> \o ms)
    <3>1. "NSUCC" \in Events \ {"UP", "DOWN"}
      BY DEF Events
    <3>2. ms = << >> \/ \E ev \in Events \ {"UP", "DOWN"} : ms = <<Pub(ev)>>
      BY <3>1
    <3> QED BY <3>2, PlainFacts
  <2>2. Pub("NSUCC") \in Messages
    BY MessageFacts DEF Events
  <2>5. << >> \in Seq(Messages) /\ \A m \in Messages : <<m>> \in Seq(Messages)
    OBVIOUS
  <2>3. ms \in Seq(Messages)
    BY <2>2, <2>5, Zenon
  <2>4. << >> \o ms = ms
    BY <2>3
  <2> QED BY <2>1, <2>3, <2>4
<1>3. /\ queue' \in Seq(Messages) /\ Len(queue') <= QUEUE /\ lost' \in BOOLEAN
      /\ ~lost' => ~lost /\ queue' = Tail(queue) \o ms
  BY <1>1, <1>2, PostFacts
<1>4. /\ NoLink(Tail(queue) \o ms) => NoLink(Tail(queue))
      /\ LastLink(Tail(queue), phy) => LastLink(Tail(queue) \o ms, phy)
  BY <1>1, <1>2, LinkConcat
<1> QED BY <1>3, <1>4

\* A link event moves the manager to where the cable is; a success keeps it
\* there, because between two messages it is never merely CONNECTED, so that
\* only a success that comes after the link was lost is turned away.
LEMMA PublishInv == IInv /\ Publish => IInv'
<1> SUFFICES ASSUME IInv, Publish PROVE IInv'
  OBVIOUS
<1>1. /\ TypeOK /\ TaskInv /\ LinkInv /\ conn \in Conns /\ epc = "idle"
      /\ queue # << >> /\ Msg.cmd = "pub"
  BY TypeFacts DEF IInv, TaskInv, Publish
<1>i. AppInv /\ ConnInv /\ UpInv /\ DhcpInv /\ StaticInv /\ HonestInv
  BY <1>1 DEF TaskInv
<1>d. UNCHANGED <<subs, nif, phy, flaps, app, raced, halted>>
  BY DEF Publish
<1>o. ok' \in BOOLEAN
  <2>1. ok' = (ok \/ Heard("app"))
    BY DEF Publish, AppCallback
  <2> QED BY <2>1, Zenon
<1> DEFINE Goal == /\ LinkInv' /\ TaskInv' /\ conn' \in Conns /\ epc' \in EventSteps
                   /\ queue' \in Seq(Messages) /\ Len(queue') <= QUEUE /\ lost' \in BOOLEAN
<1>2. ASSUME OnUp PROVE Goal
  <2>1. Msg.ev = "UP" /\ IsLink(Msg) /\ epc' = "link" /\ Post(Tail(queue), << >>)
    BY <1>1, <1>2 DEF OnUp, IsLink
  <2>2. /\ conn' \in Conns /\ conn'.netif /\ conn'.state \in {"CONNECTED", "OBTAINING_IP"}
        /\ conn'.mode = conn.mode /\ conn'.static = conn.static
    BY <1>1, <1>2 DEF OnUp, Conns
  <2>3. LinkInv'
    BY <1>1, <1>d, <2>1, <2>2, TakeFacts, TakenPost DEF LinkInv
  <2>4. TaskInv'
    BY <1>i, <1>1, <1>d, <2>1, <2>2 DEF TaskInv, AppInv, ConnInv, UpInv, DhcpInv, StaticInv,
       HonestInv, Off, Overridden, AutoSteps, StaticSteps, DownSteps
  <2> QED BY <1>1, <2>1, <2>2, <2>3, <2>4, TakenPost DEF EventSteps
<1>3. ASSUME OnDown PROVE Goal
  <2>1. Msg.ev = "DOWN" /\ IsLink(Msg) /\ epc' = "stop" /\ Post(Tail(queue), << >>)
    BY <1>1, <1>3 DEF OnDown, IsLink
  <2>2. /\ conn' \in Conns /\ conn'.netif = conn.netif /\ conn'.state = "DISCONNECTED"
        /\ conn'.mode = conn.mode /\ conn'.static = conn.static
    BY <1>1, <1>3 DEF OnDown, Conns
  <2>3. LinkInv'
    BY <1>1, <1>d, <2>1, <2>2, TakeFacts, TakenPost DEF LinkInv
  <2>4. TaskInv'
    BY <1>i, <1>1, <1>d, <2>1, <2>2 DEF TaskInv, AppInv, ConnInv, UpInv, DhcpInv, StaticInv,
       HonestInv, Off, Overridden, AutoSteps, StaticSteps, DownSteps
  <2> QED BY <1>1, <2>1, <2>2, <2>3, <2>4, TakenPost DEF EventSteps, DownSteps
<1>4. ASSUME OnSuccess PROVE Goal
  <2>1. Msg.ev = "SUCC" /\ ~IsLink(Msg)
    BY <1>4 DEF OnSuccess, IsLink
  <2>2. CASE conn.state \in SuccessStates
    <3>1. epc' = "idle" /\ Post(Tail(queue), <<Pub("NSUCC")>>)
      BY <1>4, <2>2 DEF OnSuccess
    <3>2. /\ conn' \in Conns /\ conn'.netif = conn.netif /\ conn'.state = "NETWORK_CONNECTED"
          /\ conn'.mode = conn.mode /\ conn'.static = conn.static
          /\ conn.state # "DISCONNECTED"
      BY <1>1, <1>4, <2>2 DEF OnSuccess, Conns, SuccessStates
    <3>3. LinkInv'
      BY <1>1, <1>d, <2>1, <3>1, <3>2, TakeFacts, TakenPost DEF LinkInv
    <3>4. TaskInv'
      BY <1>i, <1>1, <1>d, <3>1, <3>2 DEF TaskInv, AppInv, ConnInv, UpInv, DhcpInv, StaticInv,
         HonestInv, Off, Overridden, AutoSteps, StaticSteps, DownSteps
    <3> QED BY <1>1, <3>1, <3>2, <3>3, <3>4, TakenPost DEF EventSteps
  <2>3. CASE conn.state \notin SuccessStates
    <3>1. epc' = "stop" /\ Post(Tail(queue), << >>)
      BY <1>4, <2>3 DEF OnSuccess
    <3>2. /\ conn' \in Conns /\ conn'.netif = conn.netif /\ conn'.state = "DISCONNECTED"
          /\ conn'.mode = conn.mode /\ conn'.static = conn.static
      BY <1>1, <1>4, <2>3 DEF OnSuccess, Conns
    <3>5. conn.state = "DISCONNECTED"
      BY <1>1, <1>i, <2>3 DEF ConnInv, SuccessStates, Conns
    <3>3. LinkInv'
      BY <1>1, <1>d, <2>1, <3>1, <3>2, <3>5, TakeFacts, TakenPost DEF LinkInv
    <3>4. TaskInv'
      BY <1>i, <1>1, <1>d, <3>1, <3>2 DEF TaskInv, AppInv, ConnInv, UpInv, DhcpInv, StaticInv,
         HonestInv, Off, Overridden, AutoSteps, StaticSteps, DownSteps
    <3> QED BY <1>1, <3>1, <3>2, <3>3, <3>4, TakenPost DEF EventSteps, DownSteps
  <2> QED BY <2>2, <2>3
<1>5. ASSUME queue' = Tail(queue), lost' = (lost \/ Msg.ev \in {"UP", "DOWN"}),
             UNCHANGED <<conn, epc>>
      PROVE  Goal
  <2>1. lost' \in BOOLEAN /\ (~lost' => ~lost /\ Msg.ev \notin {"UP", "DOWN"})
    BY <1>5, Zenon
  <2>2. ~lost' => ~IsLink(Msg)
    BY <2>1 DEF IsLink
  <2>3. LinkInv'
    BY <1>1, <1>5, <1>d, <2>1, <2>2, TakeFacts DEF LinkInv
  <2>4. TaskInv'
    BY <1>i, <1>1, <1>d, <1>5 DEF TaskInv, AppInv, ConnInv, UpInv, DhcpInv, StaticInv,
       HonestInv, Off, Overridden
  <2>5. epc' \in EventSteps
    BY <1>1, <1>5, TypeFacts
  <2> QED BY <1>1, <1>5, <2>1, <2>3, <2>4, <2>5, TakeFacts
<1>6. Goal
  <2>1. \/ OnUp \/ OnDown \/ OnSuccess
        \/ /\ queue' = Tail(queue)
           /\ lost' = (lost \/ Msg.ev \in {"UP", "DOWN"})
           /\ UNCHANGED <<conn, epc>>
    BY Zenon DEF Publish
  <2> QED BY <1>2, <1>3, <1>4, <1>5, <2>1, Zenon
<1>7. TypeOK'
  BY <1>1, <1>6, <1>d, <1>o, TypeFacts, TypeStep DEF TaskInv
<1> QED BY <1>6, <1>7 DEF IInv, TaskInv


\* Link up: the interface is up and the manager waits for an address.
LEMMA EthLinkUpInv == IInv /\ EthLinkUp => IInv'
<1> SUFFICES ASSUME IInv, EthLinkUp PROVE IInv'
  OBVIOUS
<1>1. TypeOK /\ TaskInv /\ LinkInv /\ conn \in Conns /\ nif \in Netifs /\ epc = "link"
  BY TypeFacts DEF IInv, TaskInv, EthLinkUp, At
<1>i. AppInv /\ ConnInv /\ DhcpInv /\ StaticInv
  BY <1>1 DEF TaskInv
<1>d. UNCHANGED <<subs, phy, flaps, app, ok, raced>> /\ epc' = "obtain"
  BY DEF EthLinkUp, Unshared
<1>n. /\ LinkUp(nif) \in Netifs /\ LinkUp(nif).up
      /\ nif.dhcp \in {"null", "off"} => LinkUp(nif).dhcp \in {"null", "off"}
  BY <1>1 DEF LinkUp, Netifs
<1>2. nif' = LinkUp(nif) /\ halted' \in BOOLEAN /\ QueueStep
  <2>1. (~nif.up) \in BOOLEAN
    OBVIOUS
  <2> QED BY <1>1, <1>n, <2>1, NetifFacts DEF EthLinkUp
<1>e. /\ conn' \in Conns /\ conn'.state = "OBTAINING_IP" /\ conn'.netif = conn.netif
      /\ conn'.mode = conn.mode /\ conn'.static = conn.static
  BY <1>1 DEF EthLinkUp, Conns
<1>3. LinkInv'
  <2>1. conn.state # "DISCONNECTED"
    BY <1>1, <1>i DEF ConnInv
  <2> QED BY <1>1, <1>2, <1>d, <1>e, <2>1, LinkStep
<1>4. TaskInv'
  <2>1. nif'.up /\ (Off => Off')
    BY <1>2, <1>n DEF Off
  <2> QED BY <1>i, <1>1, <1>d, <1>e, <2>1 DEF TaskInv, AppInv, ConnInv, UpInv, DhcpInv, StaticInv,
       HonestInv, Overridden, AutoSteps, StaticSteps, DownSteps, Early
<1>5. TypeOK'
  <2>1. epc' \in EventSteps /\ nif' \in Netifs
    BY <1>2, <1>d, <1>n DEF EventSteps
  <2> QED BY <1>1, <1>2, <1>4, <1>d, <1>e, <2>1, TypeFacts, TypeStep DEF TaskInv, QueueStep
<1> QED BY <1>3, <1>4, <1>5 DEF IInv, TaskInv

\* The event task reads the mode: on AUTO its interface is up.
LEMMA EthObtainingIpInv == IInv /\ EthObtainingIp => IInv'
<1> SUFFICES ASSUME IInv, EthObtainingIp PROVE IInv'
  OBVIOUS
<1>1. TypeOK /\ TaskInv /\ LinkInv /\ conn \in Conns /\ epc = "obtain"
  BY TypeFacts DEF IInv, TaskInv, EthObtainingIp, At
<1>d. UNCHANGED <<queue, lost, nif, conn, halted, subs, phy, flaps, app, ok, raced>>
  BY DEF EthObtainingIp, Unshared
<1>e. \/ conn.mode = "STATIC" /\ epc' = "static_down"
      \/ conn.mode = "AUTO" /\ epc' = "addr0"
  BY <1>1 DEF EthObtainingIp, ObtainStep, Conns
<1>2. QueueStep
  BY <1>1, <1>d, IdleQueue
<1>3. LinkInv'
  BY <1>1, <1>2, <1>d, LinkStep
<1>4. TaskInv'
  BY <1>1, <1>d, <1>e DEF TaskInv, AppInv, ConnInv, UpInv, DhcpInv, StaticInv,
     HonestInv, Off, Overridden, AutoSteps, StaticSteps, DownSteps, Early
<1>5. TypeOK'
  <2>1. epc' \in EventSteps
    BY <1>e DEF EventSteps, AutoSteps, StaticSteps
  <2> QED BY <1>1, <1>2, <1>4, <1>d, <2>1, TypeFacts, TypeStep DEF TaskInv, QueueStep
<1> QED BY <1>3, <1>4, <1>5 DEF IInv, TaskInv

\* The static branch ends with the stored address, which the application has
\* stored once its override is over.
LEMMA StaticIpInv == IInv /\ StaticIp => IInv'
<1> SUFFICES ASSUME IInv, StaticIp PROVE IInv'
  OBVIOUS
<1>1. TypeOK /\ TaskInv /\ LinkInv /\ conn \in Conns /\ nif \in Netifs
  BY TypeFacts DEF IInv, TaskInv
<1>i. AppInv /\ ConnInv /\ UpInv /\ DhcpInv /\ StaticInv
  BY <1>1 DEF TaskInv
<1>d. UNCHANGED <<conn, subs, phy, flaps, app, ok, raced>>
  BY DEF StaticIp, Unshared
<1>s. conn.static \in {"none", "dhcp", "static"}
  BY <1>1 DEF Conns
<1>r. \/ epc = "static_down" /\ NetifTo([nif EXCEPT !.up = FALSE]) /\ epc' = "static_up"
      \/ epc = "static_up" /\ NetifTo([nif EXCEPT !.up = TRUE]) /\ epc' = "static_addr"
      \/ epc = "static_addr" /\ NetifTo([nif EXCEPT !.addr = conn.static]) /\ epc' = "idle"
  BY <1>1, <1>s, CallFacts DEF StaticIp, At
<1>2. QueueStep /\ halted' \in BOOLEAN /\ nif' \in Netifs
  BY <1>r DEF NetifTo
<1>3. LinkInv'
  BY <1>1, <1>2, <1>d, LinkStep
<1>f. /\ nif'.dhcp = nif.dhcp
      /\ epc' = "idle" => nif'.addr = conn.static
      /\ epc \in StaticSteps /\ epc' \in {"static_up", "static_addr", "idle"}
  BY <1>1, <1>r DEF NetifTo, Netifs, StaticSteps
<1>m. conn.mode = "STATIC" /\ conn.netif /\ conn.state = "OBTAINING_IP" /\ app.pc \notin Early
  BY <1>i, <1>f DEF ConnInv, AppInv
<1>4. TaskInv'
  BY <1>i, <1>d, <1>f, <1>m DEF TaskInv, AppInv, ConnInv, UpInv, DhcpInv, StaticInv,
     HonestInv, Off, Overridden, AutoSteps, StaticSteps, DownSteps, Early, Stores
<1>5. TypeOK'
  <2>1. epc' \in EventSteps
    BY <1>f DEF EventSteps, StaticSteps
  <2> QED BY <1>1, <1>2, <1>4, <1>d, <2>1, TypeFacts, TypeStep DEF TaskInv, QueueStep
<1> QED BY <1>3, <1>4, <1>5 DEF IInv, TaskInv

\* The DHCP branch ends with a client that tries, since the interface is up;
\* with the mode already STATIC it is the race that StaticInv excepts.
LEMMA EthDhcpStartInv == IInv /\ EthDhcpStart => IInv'
<1> SUFFICES ASSUME IInv, EthDhcpStart PROVE IInv'
  OBVIOUS
<1>1. TypeOK /\ TaskInv /\ LinkInv /\ conn \in Conns /\ nif \in Netifs
  BY TypeFacts DEF IInv, TaskInv
<1>i. AppInv /\ ConnInv /\ UpInv /\ DhcpInv /\ StaticInv
  BY <1>1 DEF TaskInv
<1>d. UNCHANGED <<conn, subs, phy, flaps, app, ok, raced>>
  BY DEF EthDhcpStart, Unshared
<1>r. \/ epc = "addr0" /\ NetifTo([nif EXCEPT !.addr = "none"]) /\ epc' = "callback"
      \/ epc = "callback" /\ NetifTo([nif EXCEPT !.cb = TRUE]) /\ epc' = "start"
      \/ /\ epc = "start"
         /\ NetifTo(IF nif.up THEN [nif EXCEPT !.dhcp = "trying"] ELSE nif)
         /\ epc' = "idle"
  <2>1. [nif EXCEPT !.cb = TRUE] \in Netifs
    BY <1>1 DEF Netifs
  <2>2. (IF nif.up THEN [nif EXCEPT !.dhcp = "trying"] ELSE nif) \in Netifs
    BY <1>1 DEF Netifs
  <2>3. ASSUME NEW n \in Netifs, Netif(n, FALSE, << >>) PROVE NetifTo(n)
    BY <1>1, <2>3, NetifFacts DEF NetifTo
  <2> QED BY <1>1, <2>1, <2>2, <2>3, CallFacts DEF EthDhcpStart, At
<1>2. QueueStep /\ halted' \in BOOLEAN /\ nif' \in Netifs
  BY <1>r DEF NetifTo
<1>3. LinkInv'
  BY <1>1, <1>2, <1>d, LinkStep
<1>f. /\ nif'.up = nif.up
      /\ epc' # "idle" => nif'.dhcp = nif.dhcp
      /\ epc' = "idle" => nif'.dhcp = IF nif.up THEN "trying" ELSE nif.dhcp
      /\ epc \in AutoSteps /\ epc' \in {"callback", "start", "idle"}
  BY <1>1, <1>r DEF NetifTo, Netifs, AutoSteps
<1>m. /\ conn.netif /\ conn.state = "OBTAINING_IP"
      /\ ~raced => conn.mode = "AUTO" /\ app.pc \in Early
  BY <1>1, <1>i, <1>f DEF ConnInv, AppInv, StaticInv, Conns
<1>4. TaskInv'
  BY <1>i, <1>d, <1>f, <1>m DEF TaskInv, AppInv, ConnInv, UpInv, DhcpInv, StaticInv,
     HonestInv, Off, Overridden, AutoSteps, StaticSteps, DownSteps, Early
<1>5. TypeOK'
  <2>1. epc' \in EventSteps
    BY <1>f DEF EventSteps, AutoSteps
  <2> QED BY <1>1, <1>2, <1>4, <1>d, <2>1, TypeFacts, TypeStep DEF TaskInv, QueueStep
<1> QED BY <1>3, <1>4, <1>5 DEF IInv, TaskInv

\* Disconnecting stops DHCP on an interface that is up; one that is down, or
\* not attached, has none before the override.
LEMMA EthDisconnectedInv == IInv /\ EthDisconnected => IInv'
<1> SUFFICES ASSUME IInv, EthDisconnected PROVE IInv'
  OBVIOUS
<1>1. TypeOK /\ TaskInv /\ LinkInv /\ conn \in Conns /\ nif \in Netifs
  BY TypeFacts DEF IInv, TaskInv
<1>i. AppInv /\ ConnInv /\ UpInv /\ DhcpInv /\ StaticInv
  BY <1>1 DEF TaskInv
<1>d. UNCHANGED <<subs, phy, flaps, app, ok, raced>>
  BY DEF EthDisconnected, Unshared
<1> DEFINE stopped == CASE ~conn.netif           -> nif
                        [] conn.netif /\ nif.up  -> Stopped(LinkDown(nif))
                        [] conn.netif /\ ~nif.up -> LinkDown(nif)
<1>n. /\ stopped \in Netifs
      /\ stopped.up = nif.up /\ stopped.addr = nif.addr
      /\ nif.dhcp \in {"null", "off"} => stopped.dhcp \in {"null", "off"}
      /\ conn.netif /\ nif.up => stopped.dhcp \in {"null", "off"}
  <2>1. conn.netif \in BOOLEAN /\ nif.up \in BOOLEAN
    BY <1>1 DEF Conns, Netifs
  <2>2. CASE ~conn.netif
    BY <1>1, <2>1, <2>2
  <2>3. CASE conn.netif /\ nif.up
    <3>1. stopped = Stopped(LinkDown(nif))
      BY <2>3
    <3> HIDE DEF stopped
    <3> QED BY <1>1, <2>3, <3>1 DEF Stopped, LinkDown, Netifs
  <2>4. CASE conn.netif /\ ~nif.up
    <3>1. stopped = LinkDown(nif)
      BY <2>4
    <3> HIDE DEF stopped
    <3> QED BY <1>1, <2>4, <3>1 DEF LinkDown, Netifs
  <2> QED BY <2>1, <2>2, <2>3, <2>4
<1>r. \/ /\ epc = "stop" /\ NetifTo(stopped) /\ conn' = conn
         /\ epc' = IF conn.netif /\ nif.up THEN "down" ELSE "forget"
      \/ epc = "down" /\ NetifTo([nif EXCEPT !.up = FALSE]) /\ epc' = "forget" /\ conn' = conn
      \/ epc = "forget" /\ NetifTo(nif) /\ epc' = "idle" /\ conn' = [conn EXCEPT !.netif = FALSE]
  <2>1. ASSUME NEW n \in Netifs, Netif(n, FALSE, << >>) PROVE NetifTo(n)
    BY <1>1, <2>1, NetifFacts DEF NetifTo
  <2>2. ASSUME Netif(nif, FALSE, <<Pub("DISCON")>>) PROVE NetifTo(nif)
    <3>1. "DISCON" \in Events \ {"UP", "DOWN"}
      BY DEF Events
    <3>2. \E ev \in Events \ {"UP", "DOWN"} : <<Pub("DISCON")>> = <<Pub(ev)>>
      BY <3>1
    <3> QED BY <1>1, <2>2, <3>2, NetifFacts DEF NetifTo
  <2>3. \/ /\ epc = "stop" /\ Netif(stopped, FALSE, << >>) /\ conn' = conn
           /\ epc' = IF conn.netif /\ nif.up THEN "down" ELSE "forget"
        \/ epc = "down" /\ SetDown /\ epc' = "forget" /\ conn' = conn
        \/ /\ epc = "forget" /\ Netif(nif, FALSE, <<Pub("DISCON")>>)
           /\ epc' = "idle" /\ conn' = [conn EXCEPT !.netif = FALSE]
    BY DEF EthDisconnected, At
  <2> HIDE DEF stopped
  <2> QED BY <1>1, <1>n, <2>1, <2>2, <2>3, CallFacts
<1> HIDE DEF stopped
<1>2. QueueStep /\ halted' \in BOOLEAN /\ nif' \in Netifs
  BY <1>r DEF NetifTo
<1>e. /\ conn' \in Conns /\ conn'.state = conn.state /\ conn'.mode = conn.mode
      /\ conn'.static = conn.static
      /\ epc' # "idle" => conn'.netif = conn.netif
      /\ epc' = "idle" => ~conn'.netif
  BY <1>1, <1>r DEF Conns
<1>f. /\ nif'.addr = nif.addr
      /\ Off => Off'
      /\ epc = "stop" => (epc' = IF conn.netif /\ nif.up THEN "down" ELSE "forget") /\ nif'.up = nif.up
      /\ epc = "stop" /\ conn.netif /\ nif.up => Off'
      /\ epc = "down" => epc' = "forget"
      /\ epc = "forget" => epc' = "idle" /\ nif'.up = nif.up
      /\ epc \in DownSteps
  BY <1>1, <1>n, <1>r DEF NetifTo, Netifs, DownSteps, Off
<1>3. LinkInv'
  BY <1>1, <1>2, <1>d, <1>e, LinkStep
<1>4. TaskInv'
  BY <1>i, <1>d, <1>e, <1>f DEF TaskInv, AppInv, ConnInv, UpInv, DhcpInv, StaticInv,
     HonestInv, Overridden, AutoSteps, StaticSteps, DownSteps, Early
<1>5. TypeOK'
  <2>1. epc' \in EventSteps
    BY <1>f DEF EventSteps, DownSteps
  <2> QED BY <1>1, <1>2, <1>4, <1>d, <1>e, <2>1, TypeFacts, TypeStep DEF TaskInv, QueueStep
<1> QED BY <1>3, <1>4, <1>5 DEF IInv, TaskInv


-----------------------------------------------------------------------------
(* The cable and the DHCP server *)

\* A link change that reaches the queue becomes its last link event.
LEMMA PhyChangeInv == IInv /\ PhyChange => IInv'
<1> SUFFICES ASSUME IInv, PhyChange PROVE IInv'
  OBVIOUS
<1>1. TypeOK /\ TaskInv /\ queue \in Seq(Messages) /\ Len(queue) <= QUEUE /\ phy \in BOOLEAN
  BY TypeFacts DEF IInv, TaskInv
<1>d. UNCHANGED <<subs, epc, conn, nif, app, ok, raced>> /\ phy' = ~phy
  BY DEF PhyChange
<1>f. flaps' \in 0 .. MaxFlaps
  <2>1. flaps \in 0 .. MaxFlaps /\ MaxFlaps \in Nat
    BY <1>1, TypeFacts, Bounds
  <2>2. flaps < MaxFlaps /\ flaps' = flaps + 1
    BY DEF PhyChange
  <2> QED BY <2>1, <2>2
<1> DEFINE ev == IF phy THEN "DOWN" ELSE "UP"
<1>2. /\ LinkInv' /\ queue' \in Seq(Messages) /\ Len(queue') <= QUEUE
      /\ lost' \in BOOLEAN /\ halted' \in BOOLEAN
  <2>1. CASE lost' = TRUE /\ halted' \in BOOLEAN /\ queue' = queue
    BY <1>1, <2>1 DEF LinkInv
  <2>2. CASE Post(queue, <<Pub(ev)>>) /\ halted' = halted
    <3>1. ev \in Events /\ (ev = "UP" <=> ~phy) /\ ev \in {"UP", "DOWN"}
      BY <1>1 DEF Events
    <3> HIDE DEF ev
    <3>2. Pub(ev) \in Messages /\ IsLink(Pub(ev)) /\ Pub(ev).ev = ev
      BY <3>1, MessageFacts DEF IsLink
    <3>5. \A m \in Messages : <<m>> \in Seq(Messages)
      OBVIOUS
    <3>6. <<Pub(ev)>> \in Seq(Messages)
      BY <3>2, <3>5
    <3>3. /\ queue' \in Seq(Messages) /\ Len(queue') <= QUEUE /\ lost' \in BOOLEAN
          /\ ~lost' => queue' = queue \o <<Pub(ev)>>
      BY <1>1, <2>2, <3>6, PostFacts
    <3>4. ~NoLink(queue \o <<Pub(ev)>>) /\ LastLink(queue \o <<Pub(ev)>>, Pub(ev).ev = "UP")
      BY <1>1, <3>2, LinkPosted
    <3>7. LastLink(queue \o <<Pub(ev)>>, phy')
      BY <1>d, <3>1, <3>2, <3>4 DEF LastLink
    <3>8. halted' \in BOOLEAN
      BY <1>1, <2>2, TypeFacts
    <3> QED BY <3>3, <3>4, <3>7, <3>8 DEF LinkInv
  <2> QED BY <2>1, <2>2, Zenon DEF PhyChange
<1>3. TaskInv'
  BY <1>1, <1>d DEF TaskInv, AppInv, ConnInv, UpInv, DhcpInv, StaticInv, HonestInv, Off, Overridden
<1>4. TypeOK'
  <2>1. phy' \in BOOLEAN
    BY <1>d
  <2> QED BY <1>1, <1>2, <1>3, <1>d, <1>f, <2>1, TypeFacts, TypeStep DEF TaskInv
<1> QED BY <1>2, <1>3, <1>4 DEF IInv, TaskInv

\* A lease is bound only where a client tries, which the invariant excludes once
\* DHCP is off.
LEMMA DhcpBindInv == IInv /\ DhcpBind => IInv'
<1> SUFFICES ASSUME IInv, DhcpBind PROVE IInv'
  OBVIOUS
<1>1. TypeOK /\ TaskInv /\ LinkInv /\ nif \in Netifs /\ conn \in Conns
  BY TypeFacts DEF IInv, TaskInv
<1>d. UNCHANGED <<subs, epc, conn, phy, flaps, app, ok, raced>>
  BY DEF DhcpBind
<1>n. [nif EXCEPT !.dhcp = "bound", !.addr = "dhcp"] \in Netifs
  BY <1>1 DEF Netifs
<1>2. /\ nif' = [nif EXCEPT !.dhcp = "bound", !.addr = "dhcp"]
      /\ halted' \in BOOLEAN /\ QueueStep
  <2>1. (nif.addr # "dhcp") \in BOOLEAN
    OBVIOUS
  <2> QED BY <1>1, <1>n, <2>1, NetifFacts DEF DhcpBind
<1>f. ~Off /\ nif.up /\ nif'.up /\ nif'.addr = "dhcp"
  BY <1>1, <1>2 DEF DhcpBind, Off, Netifs
<1>3. LinkInv'
  BY <1>1, <1>2, <1>d, LinkStep
<1>4. TaskInv'
  <2>1. AppInv' /\ ConnInv' /\ UpInv' /\ HonestInv'
    BY <1>1, <1>d, <1>f DEF TaskInv, AppInv, ConnInv, UpInv, HonestInv
  <2>2. DhcpInv'
    BY <1>1, <1>d, <1>f DEF TaskInv, DhcpInv
  <2>3. StaticInv'
    <3>1. Overridden => conn.mode = "STATIC" /\ app.pc # "stop1"
      BY <1>1 DEF TaskInv, AppInv, Overridden, Early
    <3>2. ~raced /\ conn.mode = "STATIC" => app.pc = "stop1" /\ epc \notin AutoSteps
      BY <1>1, <1>f DEF TaskInv, StaticInv
    <3> QED BY <1>d, <3>1, <3>2 DEF StaticInv, Overridden
  <2> QED BY <2>1, <2>2, <2>3 DEF TaskInv
<1>5. TypeOK'
  <2>1. nif' \in Netifs
    BY <1>2, <1>n
  <2> QED BY <1>1, <1>2, <1>4, <1>d, <2>1, TypeFacts, TypeStep DEF TaskInv, QueueStep
<1> QED BY <1>3, <1>4, <1>5 DEF IInv, TaskInv

-----------------------------------------------------------------------------
(* The theorems *)

\* The invariant is inductive.
LEMMA IInvStep == IInv /\ [Next]_vars => IInv'
<1> SUFFICES ASSUME IInv, [Next]_vars PROVE IInv'
  OBVIOUS
<1>1. CASE App
  BY <1>1, EventServiceInitInv, EventSubscribeInv, WaitForAddressInv, SetIpModeInv,
     SetStaticIpInv, ReconfigureInv, PollInv DEF App
<1>2. CASE EventTask
  BY <1>2, SubscribeInv, PublishInv, EthLinkUpInv, EthObtainingIpInv, StaticIpInv,
     EthDhcpStartInv, EthDisconnectedInv DEF EventTask
<1>3. CASE PhyChange
  BY <1>3, PhyChangeInv
<1>4. CASE DhcpBind
  BY <1>4, DhcpBindInv
<1>5. CASE UNCHANGED vars
  <2>1. UNCHANGED <<queue, subs, epc, conn, nif, phy, flaps, app, ok, lost, raced, halted>>
    BY <1>5 DEF vars
  <2>2. TypeOK'
    BY <2>1 DEF IInv, TypeOK
  <2>3. LinkInv'
    BY <2>1 DEF IInv, LinkInv
  <2>4. AppInv' /\ ConnInv' /\ UpInv'
    BY <2>1 DEF IInv, AppInv, ConnInv, UpInv
  <2>5. DhcpInv' /\ StaticInv' /\ HonestInv'
    BY <2>1 DEF IInv, DhcpInv, StaticInv, HonestInv, Off, Overridden
  <2> QED BY <2>2, <2>3, <2>4, <2>5 DEF IInv
<1> QED BY <1>1, <1>2, <1>3, <1>4, <1>5 DEF Next

\* Every behaviour of the composed firmware keeps the invariant.
THEOREM Inductive == Spec => []IInv
  BY InitIInv, IInvStep, PTL DEF Spec

\* The variables keep their types; the event queue never outgrows its room.
THEOREM TypeCorrect == Spec => []TypeOK
<1>1. IInv => TypeOK
  BY DEF IInv
<1> QED BY <1>1, Inductive, PTL

\* The manager ends up where the cable is, whatever order link changes and
\* lease announcements are queued in, unless a link event was lost.
THEOREM ManagerFollows == Spec => []ManagerFollowsLink
<1>1. IInv => ManagerFollowsLink
  <2> SUFFICES ASSUME IInv, Quiet, ~lost
               PROVE  (conn.state # "DISCONNECTED") = phy /\ conn.netif = phy
    BY DEF ManagerFollowsLink
  <2>1. epc = "idle" /\ queue = << >>
    BY DEF Quiet
  <2>2. NoLink(queue)
    BY <2>1 DEF NoLink
  <2>3. conn.state # "DISCONNECTED" <=> phy
    BY <2>2 DEF IInv, LinkInv
  <2>4. conn.netif <=> conn.state # "DISCONNECTED"
    BY <2>1 DEF IInv, ConnInv
  <2>5. phy \in BOOLEAN /\ conn.netif \in BOOLEAN
    BY TypeFacts DEF IInv, Conns
  <2> QED BY <2>3, <2>4, <2>5
<1> QED BY <1>1, Inductive, PTL

\* A connection called connected has an address or a client that asks for one.
THEOREM ConnectedHonest == Spec => []ConnectedIsHonest
<1>1. IInv => ConnectedIsHonest
  <2> SUFFICES ASSUME IInv, Quiet, conn.state = "NETWORK_CONNECTED", app.pc \notin Override
               PROVE  nif.addr # "none" \/ nif.dhcp = "trying"
    BY DEF ConnectedIsHonest
  <2>1. epc = "idle" /\ conn.netif
    BY DEF IInv, ConnInv, Quiet
  <2>2. app.pc \in Early \cup {"poll", "served"}
    BY DEF IInv, TypeOK, AppSteps, Early
  <2> QED BY <2>1, <2>2 DEF IInv, HonestInv
<1> QED BY <1>1, Inductive, PTL

\* After the override an attached interface keeps the static address and no
\* DHCP client runs, unless the event task had already decided for DHCP.
THEOREM StaticStaysStatic == Spec => []StaticStays
<1>1. IInv => StaticStays
  <2> SUFFICES ASSUME IInv, Quiet, Overridden, conn.netif, ~raced
               PROVE  nif.addr = "static" /\ nif.dhcp \in {"null", "off"}
    BY DEF StaticStays
  <2>1. epc = "idle" /\ epc \notin {"link", "obtain"} \cup StaticSteps
    BY DEF Quiet, StaticSteps
  <2>2. conn.mode = "STATIC" /\ app.pc # "stop1"
    BY DEF IInv, AppInv, Overridden, Early
  <2> QED BY <2>1, <2>2 DEF IInv, StaticInv, Off
<1> QED BY <1>1, Inductive, PTL
=============================================================================
