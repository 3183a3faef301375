------------------------------- MODULE LedTab --------------------------------
(***************************************************************************)
(* The LED tab of the web page (e_server/web/app.js): every open page has  *)
(* a copy of the LED states, the checkboxes drawn from it, at most one     *)
(* POST of its own setLed() loop and any number of GETs of loadLeds() in   *)
(* flight.  Each fetch uses its own connection, so requests and replies of *)
(* one page overtake each other; a fetch may fail before or after the      *)
(* server acted on it.  The server is api_leds() of e_server/server.c in a *)
(* thread per connection: a POST stores its LEDs one by one, then the      *)
(* reply is read one by one, without a lock, so that requests of several   *)
(* pages mix.  The board, which serves one connection at a time, does no   *)
(* more than that.                                                         *)
(***************************************************************************)
EXTENDS Integers, FiniteSets

CONSTANTS
    Pages,      \* open pages
    N,          \* number of LEDs; 5 in the code
    Slots,      \* GETs a page may have in flight: the bound on loadLeds()
    MaxClicks,  \* clicks in a behaviour: the bound on the users
    None        \* no vector

Led == 1 .. N
Vector == [Led -> {0, 1}]
Zero == [i \in Led |-> 0]

ASSUME LedTabAssumption == N \in Nat \ {0} /\ MaxClicks \in Nat

VARIABLES
    leds,       \* the server's LED vector
    ledStates,  \* per page: ledStates
    box,        \* per page: the checkboxes on display, None before the first draw
    ledBusy,    \* per page
    ledDirty,   \* per page
    post,       \* per page: the POST in flight, see Posts
    get,        \* per page and slot: the GET in flight, see Gets
    status,     \* per page: "", "sending", "ok" or "err" (led-status)
    orphans,    \* number of POSTs of each form that their page has given up and
                \* a thread of the server has yet to store, see Orphans
    clicks,     \* clicks so far
    intent,     \* per page: the value the user last gave each LED since the
                \* page was last loaded, or None
    muddled     \* per page: since it was last loaded, a click or a fetch began
                \* while a fetch of the page was in flight, a fetch failed, or
                \* another page's POST stored an LED

vars == <<leds, ledStates, box, ledBusy, ledDirty, post, get, status, orphans,
          clicks, intent, muddled>>

\* A request is "sent" until its LEDs are stored, then "stored" until the reply
\* is read (a GET is "sent" until then), then "served": the reply is under way.
\* i is the LED its thread comes to next.
Posts == [st : {"none", "sent", "stored", "served"}, i : Led, sent : Vector, reply : Vector]
Gets == [st : {"none", "sent", "served"}, i : Led, reply : Vector]
Orphans == [i : Led, sent : Vector]
PostOf(v) == [st |-> "sent", i |-> 1, sent |-> v, reply |-> Zero]
GetOf == [st |-> "sent", i |-> 1, reply |-> Zero]
NoPost == [PostOf(Zero) EXCEPT !.st = "none"]
NoGet == [GetOf EXCEPT !.st = "none"]
NoOrphans == [o \in Orphans |-> 0]

TypeOK ==
    /\ leds \in Vector
    /\ ledStates \in [Pages -> Vector]
    /\ box \in [Pages -> Vector \cup {None}]
    /\ ledBusy \in [Pages -> BOOLEAN]
    /\ ledDirty \in [Pages -> BOOLEAN]
    /\ post \in [Pages -> Posts]
    /\ get \in [Pages -> [Slots -> Gets]]
    /\ status \in [Pages -> {"", "sending", "ok", "err"}]
    /\ orphans \in [Orphans -> Nat]
    /\ clicks \in 0 .. MaxClicks
    /\ intent \in [Pages -> [Led -> {0, 1, None}]]
    /\ muddled \in [Pages -> BOOLEAN]

\* init() shows the LED tab, which calls loadLeds(); the server may have any
\* LEDs on.
Init ==
    /\ leds \in Vector
    /\ ledStates = [p \in Pages |-> Zero]
    /\ box = [p \in Pages |-> None]
    /\ ledBusy = [p \in Pages |-> FALSE]
    /\ ledDirty = [p \in Pages |-> FALSE]
    /\ post = [p \in Pages |-> NoPost]
    /\ \E s \in Slots :
          get = [p \in Pages |-> [t \in Slots |->
                    IF t = s THEN GetOf ELSE NoGet]]
    /\ status = [p \in Pages |-> ""]
    /\ orphans = NoOrphans
    /\ clicks = 0
    /\ intent = [p \in Pages |-> [i \in Led |-> None]]
    /\ muddled = [p \in Pages |-> FALSE]

Quiet(p) == post[p].st = "none" /\ \A s \in Slots : get[p][s].st = "none"

-----------------------------------------------------------------------------
(* The page *)

\* loadLeds() up to its await: a GET in a free slot
SendGet(p) ==
    \E s \in Slots :
        /\ get[p][s].st = "none"
        /\ get' = [get EXCEPT ![p][s] = GetOf]

\* showTab('led')
ShowTab(p) ==
    /\ SendGet(p)
    /\ IF Quiet(p) /\ orphans = NoOrphans
       THEN /\ muddled' = [muddled EXCEPT ![p] = FALSE]
            /\ intent' = [intent EXCEPT ![p] = [i \in Led |-> None]]
       ELSE /\ muddled' = [muddled EXCEPT ![p] = TRUE]
            /\ UNCHANGED intent
    /\ UNCHANGED <<leds, ledStates, box, ledBusy, ledDirty, post, status, orphans, clicks>>

\* setLed(i, cb.checked): the new value of a checkbox that was x
ToggledVariant(x) == x + 1
Toggled(x) == 1 - x

\* A click flips the checkbox and calls setLed(i, checked).  While a POST is
\* in flight the call only notes the new state, otherwise it starts the loop.
Click(p, i) ==
    /\ clicks < MaxClicks /\ clicks' = clicks + 1
    /\ box[p] # None
    /\ box' = [box EXCEPT ![p][i] = Toggled(@)]
    /\ ledStates' = [ledStates EXCEPT ![p][i] = Toggled(box[p][i])]
    /\ IF ledBusy[p]
       THEN /\ ledDirty' = [ledDirty EXCEPT ![p] = TRUE]
            /\ UNCHANGED <<ledBusy, post, status>>
       ELSE /\ ledBusy' = [ledBusy EXCEPT ![p] = TRUE]
            /\ ledDirty' = [ledDirty EXCEPT ![p] = FALSE]
            /\ post' = [post EXCEPT ![p] = PostOf(ledStates'[p])]
            /\ status' = [status EXCEPT ![p] = "sending"]
    /\ intent' = [intent EXCEPT ![p][i] = Toggled(box[p][i])]
    /\ muddled' = [muddled EXCEPT ![p] = @ \/ ~Quiet(p)]
    /\ UNCHANGED <<leds, get, orphans>>

\* JSON.stringify(sent) !== JSON.stringify(ledStates)
Dirty(p) == post[p].sent # post[p].reply

\* The reply to the POST: adopt it, and send again if it is not what was sent
PostReply(p) ==
    /\ post[p].st = "served"
    /\ ledStates' = [ledStates EXCEPT ![p] = post[p].reply]
    /\ ledDirty' = [ledDirty EXCEPT ![p] = Dirty(p)]
    /\ IF ledDirty'[p]
       THEN /\ post' = [post EXCEPT ![p] = PostOf(ledStates'[p])]
            /\ UNCHANGED <<box, ledBusy, status>>
       ELSE /\ post' = [post EXCEPT ![p] = NoPost]
            /\ box' = [box EXCEPT ![p] = ledStates'[p]]
            /\ ledBusy' = [ledBusy EXCEPT ![p] = FALSE]
            /\ status' = [status EXCEPT ![p] = "ok"]
    /\ UNCHANGED <<leds, get, orphans, clicks, intent, muddled>>

\* A request whose connection broke off is lost on its way to the server, or
\* the thread that serves it stores its LEDs all the same.
Abandon(r) ==
    \/ /\ r.i = 1 \/ r.st # "sent"
       /\ UNCHANGED orphans
    \/ /\ r.st = "sent"
       /\ orphans' = [orphans EXCEPT ![[i |-> r.i, sent |-> r.sent]] = @ + 1]

PostFailsVariant(p) ==
    /\ post[p].st # "none"
    /\ status' = [status EXCEPT ![p] = "err"]
    /\ SendGet(p)
    /\ post' = [post EXCEPT ![p] = NoPost]
    /\ Abandon(post[p])
    /\ muddled' = [muddled EXCEPT ![p] = TRUE]
    /\ UNCHANGED <<leds, ledStates, box, ledBusy, ledDirty, clicks, intent>>

\* postJSON() throws: report, load the LEDs again, leave the loop.
PostFails(p) ==
    /\ post[p].st # "none"
    /\ status' = [status EXCEPT ![p] = "err"]
    /\ SendGet(p)
    /\ ledBusy' = [ledBusy EXCEPT ![p] = FALSE]
    /\ post' = [post EXCEPT ![p] = NoPost]
    /\ Abandon(post[p])
    /\ muddled' = [muddled EXCEPT ![p] = TRUE]
    /\ UNCHANGED <<leds, ledStates, box, ledDirty, clicks, intent>>

GetReplyVariant(p, s) ==
    /\ get[p][s].st = "served"
    /\ box' = [box EXCEPT ![p] = get[p][s].reply]
    /\ get' = [get EXCEPT ![p][s] = NoGet]
    /\ UNCHANGED <<leds, ledStates, ledBusy, ledDirty, post, status, orphans, clicks,
                   intent, muddled>>

\* loadLeds() after its await: adopt the reply and draw it
GetReply(p, s) ==
    /\ get[p][s].st = "served"
    /\ ledStates' = [ledStates EXCEPT ![p] = get[p][s].reply]
    /\ box' = [box EXCEPT ![p] = get[p][s].reply]
    /\ get' = [get EXCEPT ![p][s] = NoGet]
    /\ UNCHANGED <<leds, ledBusy, ledDirty, post, status, orphans, clicks, intent, muddled>>

GetFails(p, s) ==
    /\ get[p][s].st # "none"
    /\ status' = [status EXCEPT ![p] = "err"]
    /\ get' = [get EXCEPT ![p][s] = NoGet]
    /\ muddled' = [muddled EXCEPT ![p] = TRUE]
    /\ UNCHANGED <<leds, ledStates, box, ledBusy, ledDirty, post, orphans, clicks, intent>>

-----------------------------------------------------------------------------
(* The server: a thread for each request *)

\* The thread of a request goes on to the next LED, or to the stage st.
Turn(r, st) == IF r.i = N THEN [r EXCEPT !.i = 1, !.st = st] ELSE [r EXCEPT !.i = @ + 1]

\* for (i ...) leds[i] = a[i] ? 1 : 0
StoreLed(p) ==
    /\ post[p].st = "sent"
    /\ leds' = [leds EXCEPT ![post[p].i] = post[p].sent[post[p].i]]
    /\ post' = [post EXCEPT ![p] = Turn(@, "stored")]
    /\ muddled' = [q \in Pages |-> q # p \/ muddled[q]]
    /\ UNCHANGED <<ledStates, box, ledBusy, ledDirty, get, status, orphans, clicks, intent>>

StoreOrphan(o) ==
    /\ orphans[o] > 0
    /\ leds' = [leds EXCEPT ![o.i] = o.sent[o.i]]
    /\ orphans' = [x \in Orphans |->
                     CASE x = o -> orphans[x] - 1
                       [] x.i = o.i + 1 /\ x.sent = o.sent -> orphans[x] + 1
                       [] OTHER -> orphans[x]]
    /\ muddled' = [q \in Pages |-> TRUE]
    /\ UNCHANGED <<ledStates, box, ledBusy, ledDirty, post, get, status, clicks, intent>>

\* snprintf() takes the arguments of the reply from leds[] one after the other.
Loaded(r) == [r EXCEPT !.reply = [@ EXCEPT ![r.i] = leds[r.i]]]

LoadLed(p) ==
    /\ post[p].st = "stored"
    /\ post' = [post EXCEPT ![p] = Turn(Loaded(@), "served")]
    /\ UNCHANGED <<leds, ledStates, box, ledBusy, ledDirty, get, status, orphans,
                   clicks, intent, muddled>>

ServeGet(p, s) ==
    /\ get[p][s].st = "sent"
    /\ get' = [get EXCEPT ![p][s] = Turn(Loaded(@), "served")]
    /\ UNCHANGED <<leds, ledStates, box, ledBusy, ledDirty, post, status, orphans,
                   clicks, intent, muddled>>

-----------------------------------------------------------------------------
User(p) == ShowTab(p) \/ \E i \in Led : Click(p, i)
PostStep(p) == StoreLed(p) \/ LoadLed(p) \/ PostReply(p) \/ PostFails(p)
GetStep(p) == \E s \in Slots : ServeGet(p, s) \/ GetReply(p, s) \/ GetFails(p, s)

Next == \/ \E o \in Orphans : StoreOrphan(o)
        \/ \E p \in Pages : User(p) \/ PostStep(p) \/ GetStep(p)

\* A fetch always ends, with a reply or with an error, and its callback runs;
\* users promise nothing.
Spec == /\ Init /\ [][Next]_vars
        /\ \A p \in Pages : WF_vars(PostStep(p)) /\ WF_vars(GetStep(p))

-----------------------------------------------------------------------------
(* Properties *)

\* A page that is not muddled shows, once all its fetches have ended, what
\* the server has, and the user's clicks have reached the server.
CalmPageIsFaithful ==
    \A p \in Pages :
        (Quiet(p) /\ ~muddled[p] /\ box[p] # None) =>
            /\ box[p] = leds /\ ledStates[p] = leds
            /\ \A i \in Led : intent[p][i] \in {leds[i], None}

\* setLed() does not get stuck, whatever fails and however the server mixes the
\* requests of two pages: a page whose reply shows LEDs of the other page sends
\* them again, and the two soon agree.  Three pages may repeat each other's LEDs
\* for ever.
SetLedEnds == \A p \in Pages : ledBusy[p] ~> ~ledBusy[p]

\* The comment of setLed() and e_server/README.md: clicks made while a POST
\* is in flight are coalesced, so when all is quiet and the page reports ok,
\* the server has the value the user gave each LED last.
ClicksAreCoalesced ==
    \A p \in Pages :
        (Quiet(p) /\ status[p] = "ok") =>
            \A i \in Led : intent[p][i] \in {leds[i], None}
=============================================================================
