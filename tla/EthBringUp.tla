----------------------------- MODULE EthBringUp -----------------------------
(***************************************************************************)
(* How the Ethernet firmware comes up: solutions/eth_http/src/app_main.c,  *)
(* the event service (components/uservice), the Ethernet half of the       *)
(* network manager (components/netmgr) and the link events of the CH395    *)
(* driver, composed.  Four threads meet here:                              *)
(*                                                                         *)
(*   app     the main task: starts the services, subscribes, waits for an  *)
(*           address, overrides it by a static one, starts the web server; *)
(*   epc     the event task: takes one rpc after the other from its queue  *)
(*           and runs the callbacks, the network manager's among them;     *)
(*   driver  the CH395 task: turns PHY changes into events (phy, flaps);   *)
(*   tcpip   lwIP's thread: owns the interface (nif) and its DHCP client;  *)
(*           every netifapi_... call of another thread is one step of it.  *)
(*                                                                         *)
(* The application and the event task share conn, the manager's record of  *)
(* the connection, without a lock.                                         *)
(***************************************************************************)
EXTENDS Naturals, Sequences, FiniteSets

CONSTANTS
  TRIES,    \* rounds the application waits for an address (300 in the code)
  POLLS,    \* rounds it then polls for the address to show (20)
  QUEUE,    \* rpcs the queue of the event task holds (8 * 5)
  MaxFlaps  \* bound: PHY changes the driver reports

ASSUME Bounds == {TRIES, POLLS, QUEUE, MaxFlaps} \subseteq Nat

VARIABLES
  queue,    \* the event task's rpcs, oldest first
  subs,     \* ev_service.event: who is called for which event
  epc,      \* where the event task is
  conn,     \* g_eth_conn_info: state, netif set?, use_ip_mode, static_ip set?
  nif,      \* eth_lwip_netif: up?, link up?, address, status callback set?, its dhcp
  phy,      \* gst_lwipch395info.phystate: is the cable linked?
  flaps,    \* PHY changes so far
  app,      \* the application: pc, loop counter n
  ok,       \* g_dhcp_ok
  lost,     \* history: a message met no service, no subscriber or no room
  raced,    \* history: the mode became STATIC after the event task read AUTO
  halted    \* a null pointer was read and the board faulted

vars == <<queue, subs, epc, conn, nif, phy, flaps, app, ok, lost, raced, halted>>

Events == {"UP", "DOWN", "SUCC", "NSUCC", "DISCON"}
Who == {"netmgr", "app"}
Sub(ev, who) == [cmd |-> "sub", ev |-> ev, who |-> who]
Pub(ev) == [cmd |-> "pub", ev |-> ev, who |-> "netmgr"]
Messages == [cmd : {"sub", "pub"}, ev : Events, who : Who]

\* The subscriptions in the order application_start() brings them about: the
\* manager's three from netmgr_eth_init(), then the application's own two.
Subscriptions == << Sub("UP", "netmgr"), Sub("DOWN", "netmgr"),
                    Sub("SUCC", "netmgr"), Sub("NSUCC", "app"), Sub("SUCC", "app") >>

AutoSteps == {"addr0", "callback", "start"}
StaticSteps == {"static_down", "static_up", "static_addr"}
DownSteps == {"stop", "down", "forget"}
EventSteps == {"idle", "link", "obtain"} \cup AutoSteps \cup StaticSteps \cup DownSteps

Override == {"mode", "stop1", "down1", "up1", "addr1",
             "store", "stop2", "down2", "up2", "addr2"}
AppSteps == {"boot", "subscribe", "wait", "poll", "served"} \cup Override

Init ==
  /\ queue = << >>
  /\ subs = {}
  /\ epc = "idle"
  /\ conn = [state |-> "DISCONNECTED", netif |-> FALSE, mode |-> "AUTO", static |-> "none"]
  /\ nif = [up |-> TRUE, link |-> FALSE, addr |-> "none", cb |-> FALSE, dhcp |-> "null"]
  /\ phy = FALSE
  /\ flaps = 0
  /\ app = [pc |-> "boot", n |-> 0]
  /\ ok = FALSE
  /\ lost = FALSE
  /\ raced = FALSE
  /\ halted = FALSE

-----------------------------------------------------------------------------
(* The event service *)

\* event_call(): an rpc that waits for no answer.  uservice_call() tries a full
\* queue ten times and then gives up, and nobody looks at the result; q is the
\* queue the messages ms are added to.
EnqueuedVariant(q, ms) == q \o ms
Enqueued(q, ms) == IF Len(q) + Len(ms) <= QUEUE THEN q \o ms
                                                ELSE SubSeq(q \o ms, 1, QUEUE)
Post(q, ms) == /\ queue' = Enqueued(q, ms)
               /\ lost' = (lost \/ Len(q) + Len(ms) > QUEUE)

-----------------------------------------------------------------------------
(* lwIP: the interface and its DHCP client *)

\* tcpip_dhcpc_cb(), the status callback: it announces an address whenever the
\* interface n is up, has one and DHCP is bound.  Before the first dhcp_start()
\* there is no DHCP record and its state is read through a null pointer: any
\* value may come back, or the board faults (halted).
Announced(n) ==
  LET shows == n.up /\ n.addr # "none"
  IN  CASE ~n.cb                       -> {<< >>}
        [] n.cb /\ n.dhcp = "null"     -> {<< >>} \cup {ms \in {<<Pub("SUCC")>>} : shows}
        [] n.cb /\ n.dhcp # "null"     ->
             {IF shows /\ n.dhcp = "bound" THEN <<Pub("SUCC")>> ELSE << >>}

\* The interface becomes n; changed says that lwIP calls the status callback.
\* after is what the calling thread publishes next.
Netif(n, changed, after) ==
  /\ nif' = n
  /\ \E ms \in IF changed THEN Announced(n) ELSE {<< >>} : Post(queue, ms \o after)
  /\ halted' \in IF changed /\ n.cb /\ n.dhcp = "null" THEN BOOLEAN ELSE {FALSE}

SetUp == Netif([nif EXCEPT !.up = TRUE], ~nif.up, << >>)
SetDown == Netif([nif EXCEPT !.up = FALSE], nif.up, << >>)
SetAddr(a, after) == Netif([nif EXCEPT !.addr = a], a # nif.addr, after)

StoppedVariant(n) == n
Stopped(n) == [n EXCEPT !.dhcp = IF @ = "null" THEN @ ELSE "off"]
DhcpStop == Netif(Stopped(nif), FALSE, << >>)

\* netif_set_link_up() starts a lease anew: dhcp_network_changed().
LinkUp(n) == [n EXCEPT !.up = TRUE, !.link = TRUE,
                       !.dhcp = IF @ = "bound" /\ ~n.link THEN "trying" ELSE @]
LinkDown(n) == [n EXCEPT !.link = FALSE]

\* A DHCP server answers, at any time or never.
DhcpBind ==
  /\ nif.dhcp = "trying" /\ nif.up /\ phy
  /\ Netif([nif EXCEPT !.dhcp = "bound", !.addr = "dhcp"], nif.addr # "dhcp", << >>)
  /\ UNCHANGED <<subs, epc, conn, phy, flaps, app, ok, raced>>

-----------------------------------------------------------------------------
(* The CH395 task: only a change of phystate is published.  Before          *)
(* event_service_init() there is no service to call: uservice_call() reads   *)
(* through a null pointer, and the event is gone or the board faults.        *)

PhyChange ==
  /\ flaps < MaxFlaps
  /\ flaps' = flaps + 1
  /\ phy' = ~phy
  /\ \/ /\ app.pc = "boot"
        /\ lost' = TRUE
        /\ halted' \in BOOLEAN
        /\ UNCHANGED queue
     \/ /\ app.pc # "boot"
        /\ Post(queue, <<Pub(IF phy THEN "DOWN" ELSE "UP")>>)
        /\ UNCHANGED halted
  /\ UNCHANGED <<subs, epc, conn, nif, app, ok, raced>>

-----------------------------------------------------------------------------
(* The event task: process_rpc() and the callbacks it runs *)

Msg == Head(queue)
Heard(who) == Msg.cmd = "pub" /\ [ev |-> Msg.ev, who |-> who] \in subs

\* __yoc_event_subscribe(): a second subscription of the same callback is none.
Subscribe ==
  /\ epc = "idle" /\ queue # << >> /\ Msg.cmd = "sub"
  /\ subs' = subs \cup {[ev |-> Msg.ev, who |-> Msg.who]}
  /\ queue' = Tail(queue)
  /\ UNCHANGED <<epc, conn, nif, phy, flaps, app, ok, lost, raced, halted>>

\* netmgr_dhcp_event_cb() of the application.
AppCallback == ok' = (ok \/ Heard("app"))

\* conn_connected(), conn_disconnected() and conn_network_connected() up to
\* their callbacks: the state the manager moves to and where the task goes on.
\* A success in any other state than these is a failure, and eth_failed()
\* disconnects.
SuccessStatesVariant == {"OBTAINING_IP", "NETWORK_CONNECTED", "DISCONNECTED"}
SuccessStates == {"OBTAINING_IP", "NETWORK_CONNECTED"}

\* eth_event_cb(EVENT_ETHERNET_LINK_UP): the event carries the interface.
OnUp ==
  /\ Msg.ev = "UP"
  /\ conn' = [conn EXCEPT !.netif = TRUE,
                          !.state = IF @ = "OBTAINING_IP" THEN @ ELSE "CONNECTED"]
  /\ epc' = "link"
  /\ Post(Tail(queue), << >>)

OnDown ==
  /\ Msg.ev = "DOWN"
  /\ conn' = [conn EXCEPT !.state = "DISCONNECTED"]
  /\ epc' = "stop"
  /\ Post(Tail(queue), << >>)

OnSuccess ==
  /\ Msg.ev = "SUCC"
  /\ \/ /\ conn.state \in SuccessStates
        /\ conn' = [conn EXCEPT !.state = "NETWORK_CONNECTED"]
        /\ epc' = "idle"
        /\ Post(Tail(queue), <<Pub("NSUCC")>>)
     \/ /\ conn.state \notin SuccessStates
        /\ conn' = [conn EXCEPT !.state = "DISCONNECTED"]
        /\ epc' = "stop"
        /\ Post(Tail(queue), << >>)

\* CMD_PUBLISH_EVENT: every subscriber is called; one nobody subscribed to yet
\* is forgotten.
Publish ==
  /\ epc = "idle" /\ queue # << >> /\ Msg.cmd = "pub"
  /\ AppCallback
  /\ \/ Heard("netmgr") /\ (OnUp \/ OnDown \/ OnSuccess)
     \/ /\ ~Heard("netmgr")
        /\ queue' = Tail(queue)
        /\ lost' = (lost \/ Msg.ev \in {"UP", "DOWN"})
        /\ UNCHANGED <<conn, epc>>
  /\ UNCHANGED <<subs, nif, phy, flaps, app, raced, halted>>

At(pc) == epc = pc
Unshared == UNCHANGED <<subs, phy, flaps, app, ok, raced>>

\* eth_link_up(), which ends in conn_obtaining_ip().
EthLinkUp ==
  /\ At("link")
  /\ Netif(LinkUp(nif), ~nif.up, << >>)
  /\ conn' = [conn EXCEPT !.state = "OBTAINING_IP"]
  /\ epc' = "obtain"
  /\ Unshared

\* eth_obtaining_ip() reads use_ip_mode once and acts on it in several steps.
ObtainStepVariant(mode) == "addr0"
ObtainStep(mode) == IF mode = "STATIC" THEN "static_down" ELSE "addr0"
EthObtainingIp ==
  /\ At("obtain")
  /\ epc' = ObtainStep(conn.mode)
  /\ UNCHANGED <<queue, lost, nif, conn, halted>>
  /\ Unshared

\* ... STATIC: down, up, the address, and a success of its own.
StaticIp ==
  /\ \/ At("static_down") /\ SetDown /\ epc' = "static_up"
     \/ At("static_up") /\ SetUp /\ epc' = "static_addr"
     \/ At("static_addr") /\ SetAddr(conn.static, <<Pub("SUCC")>>) /\ epc' = "idle"
  /\ UNCHANGED conn
  /\ Unshared

\* ... AUTO: eth_dhcp_start().
EthDhcpStart ==
  /\ \/ At("addr0") /\ SetAddr("none", << >>) /\ epc' = "callback"
     \/ At("callback") /\ Netif([nif EXCEPT !.cb = TRUE], FALSE, << >>) /\ epc' = "start"
     \/ /\ At("start")
        /\ Netif(IF nif.up THEN [nif EXCEPT !.dhcp = "trying"] ELSE nif, FALSE, << >>)
        /\ epc' = "idle"
  /\ UNCHANGED conn
  /\ Unshared

\* eth_disconnected().
EthDisconnected ==
  /\ \/ /\ At("stop")
        /\ Netif(CASE ~conn.netif           -> nif
                   [] conn.netif /\ nif.up  -> Stopped(LinkDown(nif))
                   [] conn.netif /\ ~nif.up -> LinkDown(nif), FALSE, << >>)
        /\ epc' = IF conn.netif /\ nif.up THEN "down" ELSE "forget"
        /\ UNCHANGED conn
     \/ /\ At("down") /\ SetDown
        /\ epc' = "forget"
        /\ UNCHANGED conn
     \/ /\ At("forget")
        /\ Netif(nif, FALSE, <<Pub("DISCON")>>)
        /\ conn' = [conn EXCEPT !.netif = FALSE]
        /\ epc' = "idle"
  /\ Unshared

EventTask == \/ Subscribe \/ Publish \/ EthLinkUp \/ EthObtainingIp
             \/ StaticIp \/ EthDhcpStart \/ EthDisconnected

-----------------------------------------------------------------------------
(* The application *)

AppAt(pc) == app.pc = pc
AppGoto(pc) == app' = [pc |-> pc, n |-> 0]
AppRest == UNCHANGED <<subs, epc, phy, flaps, ok>>

EventServiceInit ==
  /\ AppAt("boot")
  /\ AppGoto("subscribe")
  /\ UNCHANGED <<queue, conn, nif, lost, raced, halted>>
  /\ AppRest

\* netmgr_eth_init() and the application's own subscriptions, one rpc each.
EventSubscribe ==
  /\ AppAt("subscribe")
  /\ Post(queue, <<Subscriptions[app.n + 1]>>)
  /\ IF app.n + 1 = Len(Subscriptions) THEN AppGoto("wait")
                                       ELSE app' = [app EXCEPT !.n = @ + 1]
  /\ UNCHANGED <<conn, nif, raced, halted>>
  /\ AppRest

WaitOverVariant == ok
WaitOver == ok \/ app.n = TRIES
WaitForAddress ==
  /\ AppAt("wait")
  /\ \/ WaitOver /\ AppGoto("mode")
     \/ ~WaitOver /\ app.n < TRIES /\ app' = [app EXCEPT !.n = @ + 1]
  /\ UNCHANGED <<queue, conn, nif, lost, raced, halted>>
  /\ AppRest

\* netmgr_eth_set_ip_mode(STATIC): without an interface only the mode changes.
SetIpMode ==
  /\ AppAt("mode")
  /\ conn' = [conn EXCEPT !.mode = "STATIC"]
  /\ AppGoto(IF conn.netif THEN "stop1" ELSE "store")
  /\ raced' = (raced \/ epc \in AutoSteps)
  /\ UNCHANGED <<queue, nif, lost, halted>>
  /\ AppRest

\* netmgr_eth_set_static_ip_stat(): the address is stored in any case.
StoredVariant(c) == [c EXCEPT !.static = IF c.netif THEN "static" ELSE @]
Stored(c) == [c EXCEPT !.static = "static"]
SetStaticIp ==
  /\ AppAt("store")
  /\ conn' = Stored(conn)
  /\ AppGoto(IF conn.netif THEN "stop2" ELSE "poll")
  /\ UNCHANGED <<queue, nif, lost, raced, halted>>
  /\ AppRest

\* Both functions then stop DHCP, take the interface down and up and give it
\* the stored address, which in the first round is still 0.0.0.0.
Reconfigure ==
  /\ \/ AppAt("stop1") /\ DhcpStop /\ AppGoto("down1")
     \/ AppAt("down1") /\ SetDown /\ AppGoto("up1")
     \/ AppAt("up1") /\ SetUp /\ AppGoto("addr1")
     \/ AppAt("addr1") /\ SetAddr(conn.static, << >>) /\ AppGoto("store")
     \/ AppAt("stop2") /\ DhcpStop /\ AppGoto("down2")
     \/ AppAt("down2") /\ SetDown /\ AppGoto("up2")
     \/ AppAt("up2") /\ SetUp /\ AppGoto("addr2")
     \/ AppAt("addr2") /\ SetAddr(conn.static, << >>) /\ AppGoto("poll")
  /\ UNCHANGED <<conn, raced>>
  /\ AppRest

\* netmgr_eth_get_ip_stat() until it shows an address; the web server is started
\* either way.
Shows == conn.netif /\ nif.addr # "none"
Poll ==
  /\ AppAt("poll")
  /\ IF Shows \/ app.n = POLLS THEN AppGoto("served") ELSE app' = [app EXCEPT !.n = @ + 1]
  /\ UNCHANGED <<queue, conn, nif, lost, raced, halted>>
  /\ AppRest

App == \/ EventServiceInit \/ EventSubscribe \/ WaitForAddress \/ SetIpMode
       \/ SetStaticIp \/ Reconfigure \/ Poll

-----------------------------------------------------------------------------
Next == ~halted /\ (App \/ EventTask \/ PhyChange \/ DhcpBind)

\* The kernel runs both tasks again and again; nothing makes a cable be plugged
\* or a DHCP server answer.
Spec == /\ Init /\ [][Next]_vars
        /\ WF_vars(~halted /\ App)
        /\ WF_vars(~halted /\ EventTask)

-----------------------------------------------------------------------------
(* Properties *)

\* The types of the variables; the queue never holds more than it has room for.
TypeOK ==
  /\ queue \in Seq(Messages) /\ Len(queue) <= QUEUE
  /\ subs \subseteq [ev : Events, who : Who]
  /\ epc \in EventSteps
  /\ conn \in [state : {"DISCONNECTED", "CONNECTED", "OBTAINING_IP", "NETWORK_CONNECTED"},
              netif : BOOLEAN, mode : {"AUTO", "STATIC"}, static : {"none", "static"}]
  /\ nif \in [up : BOOLEAN, link : BOOLEAN, cb : BOOLEAN,
              addr : {"none", "dhcp", "static"}, dhcp : {"null", "off", "trying", "bound"}]
  /\ phy \in BOOLEAN
  /\ flaps \in 0..MaxFlaps
  /\ app.pc \in AppSteps /\ app.n \in 0..(TRIES + POLLS + Len(Subscriptions))
  /\ {ok, lost, raced, halted} \subseteq BOOLEAN

\* The event task has nothing left to do.
Quiet == epc = "idle" /\ queue = << >> /\ ~halted
Overridden == app.pc \in {"poll", "served"}

\* Whatever order link changes, lease announcements and late successes are
\* queued in, the manager ends up where the cable is: once the event task has
\* worked off its queue, the connection is disconnected and without interface
\* exactly when the cable is unplugged (unless a link event was lost).
ManagerFollowsLink ==
  Quiet /\ ~lost => /\ (conn.state # "DISCONNECTED") = phy
                    /\ conn.netif = phy

\* A connection the manager calls connected has an address or a DHCP client
\* that still tries for one, although the success that made it so may stem from
\* before the last unplugging or from a STATIC mode whose address was not yet
\* stored; only while the application rebuilds the address may it be missing.
ConnectedIsHonest ==
  Quiet /\ conn.state = "NETWORK_CONNECTED" /\ app.pc \notin Override
    => nif.addr # "none" \/ nif.dhcp = "trying"

\* After the override an attached interface has the static address and no DHCP
\* client that could replace it, through every later unplugging and plugging,
\* unless the event task had already decided for DHCP when the mode was set.
StaticStays ==
  Quiet /\ Overridden /\ conn.netif /\ ~raced
    => nif.addr = "static" /\ nif.dhcp \in {"null", "off"}

\* The comment of application_start() read literally: after the override the
\* interface has the static address instead of the one DHCP assigns.
StaticWins == Quiet /\ Overridden /\ conn.netif => nif.addr # "dhcp"

\* The web server is started whether or not there is a cable, a DHCP server or
\* a success event that found its subscriber in time.
ServerStarts == <>(app.pc = "served" \/ halted)

\* A cable that is plugged for good ends in the static address for good, even
\* when it was plugged in the middle of the override.
UpLinkGetsStatic ==
  <>[]phy => <>[](nif.addr = "static" \/ lost \/ raced \/ halted)
=============================================================================
