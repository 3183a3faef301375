---------------------------- MODULE WebPageProofs -----------------------------
(***************************************************************************)
(* The web page (e_server/web/app.js).  LED tab: for any number of pages,  *)
(* LEDs, overlapping GETs and clicks, a page that has not been disturbed   *)
(* shows the server's LEDs and has delivered its user's clicks.  ADC tab:  *)
(* for any number of plots, points and overlapping fetches, the plots have *)
(* one point per fetch and end in the last reading.                        *)
(***************************************************************************)
EXTENDS LedTab, AdcTab, FiniteSetTheorems, TLAPS

\* ledBusy is set exactly while a POST is in flight.
FetchInv == \A p \in Pages : ledBusy[p] <=> post[p].st # "none"

\* The user's clicks are in the vector v.
Intends(p, v) == \A i \in Led : intent[p][i] \in {v[i], None}

\* The vectors v and w have the same values for the LEDs before i: those the
\* thread of a request has stored or read.
Agrees(v, w, i) == \A j \in Led : j < i => v[j] = w[j]

\* The page has one fetch in flight, or none.
OneFetch(p) ==
    /\ post[p].st # "none" => \A s \in Slots : get[p][s].st = "none"
    /\ \A s, t \in Slots : get[p][s].st # "none" /\ get[p][t].st # "none" => s = t

\* A page that is not muddled: what is on its way will bring page and server
\* to the same vector, and that is the one the user wants.
Calm(p) ==
    /\ OneFetch(p)
    /\ (Quiet(p) /\ box[p] # None) =>
          box[p] = leds /\ ledStates[p] = leds /\ Intends(p, leds)
    /\ post[p].st = "sent" =>
          Intends(p, post[p].sent) /\ Agrees(post[p].sent, leds, post[p].i)
    /\ post[p].st \in {"stored", "served"} => post[p].sent = leds /\ Intends(p, leds)
    /\ post[p].st = "stored" => Agrees(post[p].reply, leds, post[p].i)
    /\ post[p].st = "served" => post[p].reply = leds
    /\ \A s \in Slots : get[p][s].st # "none" => \A i \in Led : intent[p][i] = None
    /\ \A s \in Slots : get[p][s].st = "sent" => Agrees(get[p][s].reply, leds, get[p][s].i)
    /\ \A s \in Slots : get[p][s].st = "served" => get[p][s].reply = leds

CalmInv == \A p \in Pages : ~muddled[p] => Calm(p)

IInv == TypeOK /\ FetchInv /\ CalmInv
-----------------------------------------------------------------------------
\* What a fetch is set to has its type.
LEMMA FetchForms ==
    /\ NoGet \in Gets /\ NoGet.st = "none" /\ NoPost \in Posts /\ NoPost.st = "none"
    /\ GetOf \in Gets /\ GetOf.st = "sent" /\ GetOf.i = 1
    /\ \A v \in Vector : /\ PostOf(v) \in Posts /\ PostOf(v).st = "sent"
                        /\ PostOf(v).sent = v /\ PostOf(v).i = 1
<1>1. 1 \in Led /\ Zero \in Vector
  BY LedTabAssumption DEF Led, Zero, Vector
<1> QED BY <1>1 DEF NoGet, GetOf, Gets, NoPost, Posts, PostOf

\* The thread of a POST or of a GET goes on.
LEMMA PostTurns ==
    ASSUME NEW r \in Posts, NEW st \in {"stored", "served"}
    PROVE  /\ Turn(r, st) \in Posts
           /\ Turn(r, st).sent = r.sent /\ Turn(r, st).reply = r.reply
           /\ r.i = N => Turn(r, st).st = st /\ Turn(r, st).i = 1
           /\ r.i # N => Turn(r, st).st = r.st /\ Turn(r, st).i = r.i + 1
<1>1. r.i \in Led /\ (r.i # N => r.i + 1 \in Led) /\ 1 \in Led
  BY LedTabAssumption DEF Posts, Led
<1>2. CASE r.i = N
  BY <1>1, <1>2 DEF Turn, Posts
<1>3. CASE r.i # N
  BY <1>1, <1>3 DEF Turn, Posts
<1> QED BY <1>2, <1>3

LEMMA GetTurns ==
    ASSUME NEW r \in Gets
    PROVE  /\ Turn(r, "served") \in Gets /\ Turn(r, "served").reply = r.reply
           /\ r.i = N => Turn(r, "served").st = "served" /\ Turn(r, "served").i = 1
           /\ r.i # N => Turn(r, "served").st = r.st /\ Turn(r, "served").i = r.i + 1
<1>1. r.i \in Led /\ (r.i # N => r.i + 1 \in Led) /\ 1 \in Led
  BY LedTabAssumption DEF Gets, Led
<1>2. CASE r.i = N
  BY <1>1, <1>2 DEF Turn, Gets
<1>3. CASE r.i # N
  BY <1>1, <1>3 DEF Turn, Gets
<1> QED BY <1>2, <1>3

\* It has read one more LED.
LEMMA PostLoads ==
    ASSUME leds \in Vector, NEW r \in Posts
    PROVE  /\ Loaded(r) \in Posts
           /\ Loaded(r).st = r.st /\ Loaded(r).i = r.i /\ Loaded(r).sent = r.sent
           /\ Loaded(r).reply = [r.reply EXCEPT ![r.i] = leds[r.i]]
<1>1. r.i \in Led /\ r.reply \in Vector
  BY DEF Posts
<1>2. [r.reply EXCEPT ![r.i] = leds[r.i]] \in Vector
  BY <1>1 DEF Vector
<1> QED BY <1>2 DEF Loaded, Posts

LEMMA GetLoads ==
    ASSUME leds \in Vector, NEW r \in Gets
    PROVE  /\ Loaded(r) \in Gets /\ Loaded(r).st = r.st /\ Loaded(r).i = r.i
           /\ Loaded(r).reply = [r.reply EXCEPT ![r.i] = leds[r.i]]
<1>1. r.i \in Led /\ r.reply \in Vector
  BY DEF Gets
<1>2. [r.reply EXCEPT ![r.i] = leds[r.i]] \in Vector
  BY <1>1 DEF Vector
<1> QED BY <1>2 DEF Loaded, Gets

\* A vector that agrees with another before i, and is given its value at i,
\* agrees with it before i + 1, and is the same after the last LED.
LEMMA OneMore ==
    ASSUME NEW v \in Vector, NEW w \in Vector, NEW i \in Led, Agrees(v, w, i)
    PROVE  /\ Agrees([v EXCEPT ![i] = w[i]], w, i + 1)
           /\ i = N => [v EXCEPT ![i] = w[i]] = w
<1> DEFINE x == [v EXCEPT ![i] = w[i]]
<1>1. x \in Vector /\ \A j \in Led : x[j] = IF j = i THEN w[i] ELSE v[j]
  BY DEF Vector
<1>2. \A j \in Led : j < i + 1 => j = i \/ j < i
  BY DEF Led
<1>3. Agrees(x, w, i + 1)
  BY <1>1, <1>2 DEF Agrees
<1>4. ASSUME i = N PROVE x = w
  <2>1. \A j \in Led : j < i + 1
    BY <1>4, LedTabAssumption DEF Led
  <2>2. \A j \in Led : x[j] = w[j]
    BY <1>3, <2>1 DEF Agrees
  <2> QED BY <1>1, <2>2 DEF Vector
<1> QED BY <1>3, <1>4

\* The initial state satisfies the invariant.
LEMMA InitIInv == Init => IInv
<1> SUFFICES ASSUME Init PROVE IInv
  OBVIOUS
<1> PICK s \in Slots :
      get = [p \in Pages |-> [t \in Slots |->
                IF t = s THEN GetOf ELSE NoGet]]
  BY DEF Init
<1>1. \A p \in Pages, t \in Slots :
         get[p][t] = IF t = s THEN GetOf ELSE NoGet
  OBVIOUS
<1>2. TypeOK
  <2>1. get \in [Pages -> [Slots -> Gets]]
    BY FetchForms
  <2>2. post \in [Pages -> Posts]
    BY FetchForms DEF Init
  <2>3. ledStates \in [Pages -> Vector]
    BY DEF Init, Zero, Vector
  <2>4. box \in [Pages -> Vector \cup {None}]
    BY DEF Init
  <2>5. intent \in [Pages -> [Led -> {0, 1, None}]]
    BY DEF Init
  <2>6. /\ leds \in Vector /\ orphans \in [Orphans -> Nat]
        /\ status \in [Pages -> {"", "sending", "ok", "err"}]
    BY DEF Init, NoOrphans
  <2>7. /\ ledBusy \in [Pages -> BOOLEAN] /\ ledDirty \in [Pages -> BOOLEAN]
        /\ muddled \in [Pages -> BOOLEAN]
    <3>1. /\ ledBusy = [p \in Pages |-> FALSE] /\ ledDirty = [p \in Pages |-> FALSE]
          /\ muddled = [p \in Pages |-> FALSE]
      BY DEF Init
    <3> QED BY <3>1, Zenon
  <2>8. clicks \in 0 .. MaxClicks
    <3>1. clicks = 0
      BY DEF Init
    <3> QED BY <3>1, LedTabAssumption
  <2> QED BY <2>1, <2>2, <2>3, <2>4, <2>5, <2>6, <2>7, <2>8 DEF TypeOK
<1>3. FetchInv
  <2>1. \A p \in Pages : post[p] = NoPost /\ ledBusy[p] = FALSE
    BY DEF Init
  <2> QED BY <2>1, FetchForms DEF FetchInv
<1>4. CalmInv
  <2> SUFFICES ASSUME NEW p \in Pages PROVE Calm(p)
    BY DEF CalmInv
  <2>1. post[p].st = "none" /\ box[p] = None /\ \A i \in Led : intent[p][i] = None
    BY FetchForms DEF Init
  <2>2. \A t \in Slots : get[p][t].st = IF t = s THEN "sent" ELSE "none"
    BY <1>1, FetchForms
  <2>3. get[p][s].i = 1
    BY <1>1, FetchForms
  <2>4. Agrees(get[p][s].reply, leds, get[p][s].i)
    BY <2>3 DEF Agrees, Led
  <2> QED BY <2>1, <2>2, <2>4 DEF Calm, OneFetch, Quiet
<1> QED BY <1>2, <1>3, <1>4 DEF IInv

\* A page none of whose variables change stays calm while the server's LEDs
\* stay as they are.
LEMMA OthersCalm ==
    ASSUME CalmInv, NEW q \in Pages, ~muddled'[q], ~muddled[q], leds' = leds,
           post'[q] = post[q], get'[q] = get[q], box'[q] = box[q],
           ledStates'[q] = ledStates[q], intent'[q] = intent[q]
    PROVE  Calm(q)'
  BY DEF CalmInv, Calm, OneFetch, Quiet, Intends, Agrees

\* A new GET takes a slot that was free.
LEMMA SendGetFacts ==
    ASSUME TypeOK, NEW p \in Pages, SendGet(p)
    PROVE  /\ get' \in [Pages -> [Slots -> Gets]]
           /\ \A q \in Pages \ {p} : get'[q] = get[q]
           /\ \E s \in Slots :
                /\ get[p][s].st = "none" /\ get'[p][s].st = "sent" /\ get'[p][s].i = 1
                /\ \A t \in Slots \ {s} : get'[p][t] = get[p][t]
<1> PICK s \in Slots : /\ get[p][s].st = "none"
                       /\ get' = [get EXCEPT ![p][s] = GetOf]
  BY DEF SendGet
<1>1. GetOf \in Gets /\ GetOf.st = "sent" /\ GetOf.i = 1
  BY FetchForms
<1>2. get \in [Pages -> [Slots -> Gets]]
  BY DEF TypeOK
<1>3. get' \in [Pages -> [Slots -> Gets]]
  BY <1>1, <1>2
<1>4. /\ get'[p][s] = GetOf
      /\ \A t \in Slots \ {s} : get'[p][t] = get[p][t]
      /\ \A q \in Pages \ {p} : get'[q] = get[q]
  BY <1>2
<1> QED BY <1>1, <1>3, <1>4

\* A GET that gets the form g stays among the GETs, and the others stay.
LEMMA GetFacts ==
    ASSUME TypeOK, NEW p \in Pages, NEW s \in Slots, NEW g \in Gets,
           get' = [get EXCEPT ![p][s] = g]
    PROVE  /\ get' \in [Pages -> [Slots -> Gets]]
           /\ \A q \in Pages \ {p} : get'[q] = get[q]
           /\ get'[p][s] = g
           /\ \A t \in Slots \ {s} : get'[p][t] = get[p][t]
<1>1. get \in [Pages -> [Slots -> Gets]]
  BY DEF TypeOK
<1> QED BY <1>1

-----------------------------------------------------------------------------
\* showTab('led') keeps the invariant.
LEMMA ShowTabIInv == ASSUME IInv, NEW p \in Pages, ShowTab(p) PROVE IInv'
<1>0. TypeOK /\ FetchInv /\ CalmInv /\ SendGet(p)
  BY DEF IInv, ShowTab
<1>1. PICK s \in Slots : /\ get[p][s].st = "none" /\ get'[p][s].st = "sent" /\ get'[p][s].i = 1
                         /\ \A t \in Slots \ {s} : get'[p][t] = get[p][t]
  BY <1>0, SendGetFacts
<1>2. /\ get' \in [Pages -> [Slots -> Gets]]
      /\ \A q \in Pages \ {p} : get'[q] = get[q]
  BY <1>0, SendGetFacts
<1>3. TypeOK'
  <2>1. muddled' \in [Pages -> BOOLEAN]
    BY <1>0 DEF ShowTab, TypeOK
  <2>2. intent' \in [Pages -> [Led -> {0, 1, None}]]
    <3>1. intent \in [Pages -> [Led -> {0, 1, None}]]
      BY <1>0 DEF TypeOK
    <3>2. \/ intent' = [intent EXCEPT ![p] = [j \in Led |-> None]]
          \/ intent' = intent
      BY DEF ShowTab
    <3> QED BY <3>1, <3>2
  <2> QED BY <1>0, <1>2, <2>1, <2>2 DEF ShowTab, TypeOK
<1>4. FetchInv'
  BY <1>0, <1>1, <1>2 DEF ShowTab, FetchInv
<1>5. CalmInv'
  <2> SUFFICES ASSUME NEW q \in Pages, ~muddled'[q] PROVE Calm(q)'
    BY DEF CalmInv
  <2>1. CASE q = p
    <3>1. Quiet(p) /\ muddled \in [Pages -> BOOLEAN] /\ intent \in [Pages -> [Led -> {0, 1, None}]]
      BY <1>0, <2>1 DEF ShowTab, TypeOK
    <3>2. \A i \in Led : intent'[p][i] = None
      BY <2>1, <3>1 DEF ShowTab
    <3>3. post'[p].st = "none" /\ \A t \in Slots \ {s} : get'[p][t].st = "none"
      BY <1>1, <3>1 DEF ShowTab, Quiet
    <3>4. Agrees(get'[p][s].reply, leds', get'[p][s].i)
      BY <1>1 DEF Agrees, Led
    <3> QED BY <1>1, <2>1, <3>2, <3>3, <3>4 DEF Calm, OneFetch, Quiet
  <2>2. CASE q # p
    <3>1. muddled'[q] = muddled[q] /\ intent'[q] = intent[q]
      BY <1>0, <2>2 DEF ShowTab, TypeOK
    <3> QED BY <1>0, <1>2, <2>2, <3>1, OthersCalm DEF ShowTab
  <2> QED BY <2>1, <2>2
<1> QED BY <1>3, <1>4, <1>5 DEF IInv

\* A click keeps the invariant.
LEMMA ClickIInv ==
    ASSUME IInv, NEW p \in Pages, NEW i \in Led, Click(p, i) PROVE IInv'
<1>0. TypeOK /\ FetchInv /\ CalmInv
  BY DEF IInv
<1>1. box[p] \in Vector /\ Toggled(box[p][i]) \in {0, 1} /\ ledStates[p] \in Vector
  <2>1. box[p] \in Vector /\ ledStates[p] \in Vector
    BY <1>0 DEF Click, TypeOK
  <2>2. box[p][i] \in {0, 1}
    BY <2>1 DEF Vector
  <2> QED BY <2>1, <2>2 DEF Toggled
<1>2. /\ box' = [box EXCEPT ![p] = [box[p] EXCEPT ![i] = Toggled(box[p][i])]]
      /\ ledStates' = [ledStates EXCEPT ![p] = [ledStates[p] EXCEPT ![i] = Toggled(box[p][i])]]
      /\ intent' = [intent EXCEPT ![p] = [intent[p] EXCEPT ![i] = Toggled(box[p][i])]]
  BY <1>0 DEF Click, TypeOK
<1>3. box'[p] \in Vector /\ ledStates'[p] \in Vector
  BY <1>0, <1>1, <1>2 DEF Vector, TypeOK
<1>4. TypeOK'
  <2>1. box' \in [Pages -> Vector \cup {None}] /\ ledStates' \in [Pages -> Vector]
    BY <1>0, <1>2, <1>3 DEF TypeOK
  <2>2. intent' \in [Pages -> [Led -> {0, 1, None}]]
    BY <1>0, <1>1, <1>2 DEF TypeOK
  <2>3. post' \in [Pages -> Posts]
    <3>1. post \in [Pages -> Posts]
      BY <1>0 DEF TypeOK
    <3>2. post' = post \/ post' = [post EXCEPT ![p] = PostOf(ledStates'[p])]
      BY DEF Click
    <3> QED BY <1>3, <3>1, <3>2, FetchForms
  <2>4. /\ ledBusy' \in [Pages -> BOOLEAN] /\ ledDirty' \in [Pages -> BOOLEAN]
        /\ status' \in [Pages -> {"", "sending", "ok", "err"}]
    BY <1>0 DEF Click, TypeOK
  <2>5. clicks' \in 0 .. MaxClicks
    <3>1. clicks < MaxClicks /\ clicks' = clicks + 1 /\ clicks \in 0 .. MaxClicks
      BY <1>0 DEF Click, TypeOK
    <3> QED BY <3>1, LedTabAssumption
  <2>6. muddled' \in [Pages -> BOOLEAN]
    <3>1. /\ muddled' = [muddled EXCEPT ![p] = muddled[p] \/ ~Quiet(p)]
          /\ muddled \in [Pages -> BOOLEAN]
      BY <1>0 DEF Click, TypeOK
    <3>2. (muddled[p] \/ ~Quiet(p)) \in BOOLEAN
      OBVIOUS
    <3> QED BY <3>1, <3>2, Zenon
  <2> QED BY <1>0, <2>1, <2>2, <2>3, <2>4, <2>5, <2>6 DEF Click, TypeOK
<1>5. FetchInv'
  <2>1. CASE ledBusy[p]
    BY <1>0, <2>1 DEF Click, FetchInv
  <2>2. CASE ~ledBusy[p]
    <3>1. /\ post' = [post EXCEPT ![p] = PostOf(ledStates'[p])] /\ get' = get
          /\ ledBusy' = [ledBusy EXCEPT ![p] = TRUE]
      BY <2>2 DEF Click
    <3> QED BY ZenonT(60), <1>0, <1>3, <3>1, FetchForms DEF FetchInv, TypeOK
  <2> QED BY <2>1, <2>2
<1>6. CalmInv'
  <2> SUFFICES ASSUME NEW q \in Pages, ~muddled'[q] PROVE Calm(q)'
    BY DEF CalmInv
  <2>1. CASE q = p
    <3>1. ~muddled[p] /\ Quiet(p) /\ ~ledBusy[p]
      BY <1>0, <2>1 DEF Click, TypeOK, Quiet, FetchInv
    <3>2. ledStates[p] = leds /\ Intends(p, leds) /\ OneFetch(p)
      BY <1>0, <3>1 DEF Click, CalmInv, Calm
    <3>3. /\ post' = [post EXCEPT ![p] = PostOf(ledStates'[p])] /\ get' = get
      BY <3>1 DEF Click
    <3>4. post'[p].st = "sent" /\ post'[p].sent = ledStates'[p] /\ post'[p].i = 1
      BY <1>0, <1>3, <3>3, FetchForms DEF TypeOK
    <3>5. \A s \in Slots : get'[p][s].st = "none"
      BY <3>1, <3>3 DEF Quiet
    <3>6. Intends(p, ledStates[p])'
      BY <1>0, <1>2, <3>2 DEF Intends, TypeOK, Vector
    <3>7. Agrees(post'[p].sent, leds', post'[p].i)
      BY <3>4 DEF Agrees, Led
    <3> QED BY <2>1, <3>4, <3>5, <3>6, <3>7 DEF Calm, OneFetch, Quiet, Intends
  <2>2. CASE q # p
    <3>1. muddled'[q] = muddled[q]
      BY <1>0, <2>2 DEF Click, TypeOK
    <3>2. intent'[q] = intent[q] /\ box'[q] = box[q] /\ ledStates'[q] = ledStates[q]
      BY <1>0, <1>2, <2>2 DEF TypeOK
    <3>3. post'[q] = post[q]
      BY <1>0, <2>2 DEF Click, TypeOK
    <3> QED BY <1>0, <3>1, <3>2, <3>3, OthersCalm DEF Click
  <2> QED BY <2>1, <2>2
<1> QED BY <1>4, <1>5, <1>6 DEF IInv

\* The reply to a POST keeps the invariant: a calm page gets what it sent.
LEMMA PostReplyIInv == ASSUME IInv, NEW p \in Pages, PostReply(p) PROVE IInv'
<1>0. TypeOK /\ FetchInv /\ CalmInv
  BY DEF IInv
<1>1. post[p].st = "served" /\ post[p].reply \in Vector
  BY <1>0 DEF PostReply, TypeOK, Posts
<1>2. ledStates' = [ledStates EXCEPT ![p] = post[p].reply] /\ ledStates'[p] = post[p].reply
  BY <1>0 DEF PostReply, TypeOK
<1>3. /\ ledDirty' = [ledDirty EXCEPT ![p] = Dirty(p)]
      /\ ledDirty'[p] = Dirty(p)
  BY <1>0 DEF PostReply, TypeOK
<1>4. CASE Dirty(p)
  <2>0. post' = [post EXCEPT ![p] = PostOf(ledStates'[p])] /\ UNCHANGED <<box, ledBusy, status>>
    BY <1>3, <1>4 DEF PostReply
  <2>1. TypeOK'
    <3>1. post' \in [Pages -> Posts] /\ ledStates' \in [Pages -> Vector]
      BY <1>0, <1>1, <1>2, <2>0, FetchForms DEF TypeOK
    <3>2. ledDirty' \in [Pages -> BOOLEAN]
      BY <1>0, <1>3, <1>4 DEF TypeOK
    <3> QED BY <1>0, <2>0, <3>1, <3>2 DEF PostReply, TypeOK
  <2>2. FetchInv'
    <3>1. /\ post'[p].st = "sent" /\ post'[p].sent = post[p].reply
          /\ \A q \in Pages \ {p} : post'[q] = post[q]
      BY <1>0, <1>1, <1>2, <2>0, FetchForms DEF TypeOK
    <3>2. ledBusy' = ledBusy /\ get' = get
      BY <2>0 DEF PostReply
    <3> QED BY <1>0, <1>1, <3>1, <3>2 DEF FetchInv
  <2>3. CalmInv'
    <3> SUFFICES ASSUME NEW q \in Pages, ~muddled'[q] PROVE Calm(q)'
      BY DEF CalmInv
    <3>1. q # p
      BY <1>0, <1>1, <1>4 DEF PostReply, CalmInv, Calm, Dirty
    <3> QED BY <1>0, <1>2, <2>0, <3>1, OthersCalm DEF PostReply, TypeOK
  <2> QED BY <2>1, <2>2, <2>3 DEF IInv
<1>5. CASE ~Dirty(p)
  <2>0. /\ post' = [post EXCEPT ![p] = NoPost] /\ box' = [box EXCEPT ![p] = ledStates'[p]]
        /\ ledBusy' = [ledBusy EXCEPT ![p] = FALSE]
        /\ status' = [status EXCEPT ![p] = "ok"]
    BY <1>3, <1>5 DEF PostReply
  <2>1. TypeOK'
    <3>1. post' \in [Pages -> Posts] /\ ledStates' \in [Pages -> Vector]
      BY <1>0, <1>1, <1>2, <2>0, FetchForms DEF TypeOK
    <3>2. box' \in [Pages -> Vector \cup {None}]
      BY <1>0, <1>1, <1>2, <2>0 DEF TypeOK
    <3>3. ledDirty' \in [Pages -> BOOLEAN] /\ ledBusy' \in [Pages -> BOOLEAN]
      <4>1. ledDirty \in [Pages -> BOOLEAN] /\ ledBusy \in [Pages -> BOOLEAN]
        BY <1>0 DEF TypeOK
      <4>2. Dirty(p) \in BOOLEAN
        BY DEF Dirty
      <4> QED BY <1>3, <2>0, <4>1, <4>2
    <3>4. status' \in [Pages -> {"", "sending", "ok", "err"}]
      BY <1>0, <2>0 DEF TypeOK
    <3> QED BY <1>0, <3>1, <3>2, <3>3, <3>4 DEF PostReply, TypeOK
  <2>2. FetchInv'
    BY ZenonT(60), <1>0, <2>0, FetchForms DEF PostReply, FetchInv, TypeOK
  <2>3. CalmInv'
    <3> SUFFICES ASSUME NEW q \in Pages, ~muddled'[q] PROVE Calm(q)'
      BY DEF CalmInv
    <3>1. CASE q = p
      <4>1. Calm(p) /\ UNCHANGED <<leds, get, intent>>
        BY <1>0, <3>1 DEF PostReply, CalmInv
      <4>2. post'[p].st = "none" /\ box'[p] = post[p].reply /\ ledStates'[p] = post[p].reply
        BY <1>0, <1>2, <2>0, FetchForms DEF TypeOK
      <4>3. post[p].reply = leds /\ Intends(p, leds) /\ \A s \in Slots : get[p][s].st = "none"
        BY <1>1, <4>1 DEF Calm, OneFetch
      <4>4. Intends(p, leds)'
        BY <4>1, <4>3 DEF Intends
      <4> QED BY <3>1, <4>1, <4>2, <4>3, <4>4 DEF Calm, OneFetch, Quiet
    <3>2. CASE q # p
      BY <1>0, <1>2, <2>0, <3>2, OthersCalm DEF PostReply, TypeOK
    <3> QED BY <3>1, <3>2
  <2> QED BY <2>1, <2>2, <2>3 DEF IInv
<1> QED BY <1>4, <1>5

\* A failed POST muddles its page; the other pages are not touched.
LEMMA PostFailsIInv == ASSUME IInv, NEW p \in Pages, PostFails(p) PROVE IInv'
<1>0. TypeOK /\ FetchInv /\ CalmInv /\ SendGet(p)
  BY DEF IInv, PostFails
<1>1. /\ get' \in [Pages -> [Slots -> Gets]]
      /\ \A q \in Pages \ {p} : get'[q] = get[q]
      /\ \A s \in Slots : get'[p][s] = get[p][s] \/ get'[p][s].st = "sent"
  BY <1>0, SendGetFacts
<1>2. /\ post' = [post EXCEPT ![p] = NoPost] /\ ledBusy' = [ledBusy EXCEPT ![p] = FALSE]
      /\ muddled' = [muddled EXCEPT ![p] = TRUE]
      /\ status' = [status EXCEPT ![p] = "err"]
      /\ UNCHANGED <<leds, ledStates, box, ledDirty, clicks, intent>>
  BY DEF PostFails
<1>3. TypeOK'
  <2>1. post' \in [Pages -> Posts]
    BY <1>0, <1>2, FetchForms DEF TypeOK
  <2>2. orphans' \in [Orphans -> Nat]
    <3>1. post[p] \in Posts /\ orphans \in [Orphans -> Nat]
      BY <1>0 DEF TypeOK
    <3>2. Abandon(post[p])
      BY DEF PostFails
    <3>3. /\ post[p].i \in Led /\ post[p].sent \in Vector
          /\ \/ orphans' = orphans
             \/ orphans' = [orphans EXCEPT ![[i |-> post[p].i, sent |-> post[p].sent]] = @ + 1]
      BY <3>1, <3>2 DEF Abandon, Posts
    <3>4. PICK k : k = [i |-> post[p].i, sent |-> post[p].sent]
      OBVIOUS
    <3>5. k \in Orphans
      BY <3>3, <3>4 DEF Orphans
    <3>6. orphans' = orphans \/ orphans' = [orphans EXCEPT ![k] = orphans[k] + 1]
      BY <3>3, <3>4
    <3> QED BY <3>1, <3>5, <3>6
  <2>3. ledBusy' \in [Pages -> BOOLEAN] /\ muddled' \in [Pages -> BOOLEAN]
    BY <1>0, <1>2 DEF TypeOK
  <2>4. status' \in [Pages -> {"", "sending", "ok", "err"}]
    BY <1>0, <1>2 DEF TypeOK
  <2> QED BY <1>0, <1>1, <1>2, <2>1, <2>2, <2>3, <2>4 DEF TypeOK
<1>4. FetchInv'
  <2>1. /\ post'[p].st = "none" /\ ~ledBusy'[p]
        /\ \A q \in Pages \ {p} : post'[q] = post[q] /\ ledBusy'[q] = ledBusy[q]
    BY <1>0, <1>2, FetchForms DEF TypeOK
  <2> QED BY <1>0, <1>1, <2>1 DEF FetchInv
<1>5. CalmInv'
  <2> SUFFICES ASSUME NEW q \in Pages, ~muddled'[q] PROVE Calm(q)'
    BY DEF CalmInv
  <2>1. q # p
    BY <1>0, <1>2 DEF TypeOK
  <2> QED BY <1>0, <1>1, <1>2, <2>1, OthersCalm DEF TypeOK
<1> QED BY <1>3, <1>4, <1>5 DEF IInv

\* The reply to a GET keeps the invariant: a calm page gets the server's LEDs.
LEMMA GetReplyIInv ==
    ASSUME IInv, NEW p \in Pages, NEW s \in Slots, GetReply(p, s) PROVE IInv'
<1>0. TypeOK /\ FetchInv /\ CalmInv
  BY DEF IInv
<1>1. get[p][s].st = "served" /\ get[p][s].reply \in Vector
  BY <1>0 DEF GetReply, TypeOK, Gets
<1>2. /\ ledStates' = [ledStates EXCEPT ![p] = get[p][s].reply]
      /\ box' = [box EXCEPT ![p] = get[p][s].reply]
      /\ UNCHANGED <<leds, ledBusy, ledDirty, post, status, orphans, clicks, intent, muddled>>
  BY DEF GetReply
<1>3. /\ get' \in [Pages -> [Slots -> Gets]]
      /\ \A q \in Pages \ {p} : get'[q] = get[q]
      /\ get'[p][s].st = "none"
      /\ \A t \in Slots \ {s} : get'[p][t] = get[p][t]
  BY ZenonT(60), <1>0, GetFacts, FetchForms DEF GetReply
<1>4. TypeOK'
  <2>1. ledStates' \in [Pages -> Vector] /\ box' \in [Pages -> Vector \cup {None}]
    BY <1>0, <1>1, <1>2 DEF TypeOK
  <2> QED BY <1>0, <1>2, <1>3, <2>1 DEF TypeOK
<1>5. FetchInv'
  BY <1>0, <1>2, <1>3 DEF FetchInv
<1>6. CalmInv'
  <2> SUFFICES ASSUME NEW q \in Pages, ~muddled'[q] PROVE Calm(q)'
    BY DEF CalmInv
  <2>1. CASE q = p
    <3>1. Calm(p)
      BY <1>0, <1>2, <2>1 DEF CalmInv
    <3>2. /\ get[p][s].reply = leds /\ \A i \in Led : intent[p][i] = None
          /\ post[p].st = "none" /\ \A t \in Slots \ {s} : get[p][t].st = "none"
      BY <1>1, <3>1 DEF Calm, OneFetch
    <3>3. box'[p] = leds /\ ledStates'[p] = leds
      BY <1>0, <1>2, <3>2 DEF TypeOK
    <3> QED BY <1>2, <1>3, <2>1, <3>2, <3>3 DEF Calm, OneFetch, Quiet, Intends
  <2>2. CASE q # p
    <3>1. ledStates'[q] = ledStates[q] /\ box'[q] = box[q] /\ get'[q] = get[q]
      BY <1>0, <1>2, <1>3, <2>2 DEF TypeOK
    <3> QED BY <1>0, <1>2, <3>1, OthersCalm
  <2> QED BY <2>1, <2>2
<1> QED BY <1>4, <1>5, <1>6 DEF IInv

\* A failed GET muddles its page.
LEMMA GetFailsIInv ==
    ASSUME IInv, NEW p \in Pages, NEW s \in Slots, GetFails(p, s) PROVE IInv'
<1>0. TypeOK /\ FetchInv /\ CalmInv
  BY DEF IInv
<1>1. /\ status' = [status EXCEPT ![p] = "err"] /\ muddled' = [muddled EXCEPT ![p] = TRUE]
      /\ UNCHANGED <<leds, ledStates, box, ledBusy, ledDirty, post, orphans, clicks, intent>>
  BY DEF GetFails
<1>2. /\ get' \in [Pages -> [Slots -> Gets]]
      /\ \A q \in Pages \ {p} : get'[q] = get[q]
      /\ get'[p][s].st = "none"
      /\ \A t \in Slots \ {s} : get'[p][t] = get[p][t]
  BY ZenonT(60), <1>0, GetFacts, FetchForms DEF GetFails
<1>3. TypeOK'
  <2>1. status' \in [Pages -> {"", "sending", "ok", "err"}] /\ muddled' \in [Pages -> BOOLEAN]
    BY <1>0, <1>1 DEF TypeOK
  <2> QED BY <1>0, <1>1, <1>2, <2>1 DEF TypeOK
<1>4. FetchInv'
  BY <1>0, <1>1, <1>2 DEF FetchInv
<1>5. CalmInv'
  <2> SUFFICES ASSUME NEW q \in Pages, ~muddled'[q] PROVE Calm(q)'
    BY DEF CalmInv
  <2>1. q # p /\ ~muddled[q]
    BY <1>0, <1>1 DEF TypeOK
  <2> QED BY <1>0, <1>1, <1>2, <2>1, OthersCalm
<1> QED BY <1>3, <1>4, <1>5 DEF IInv

\* A POST that stores an LED muddles all other pages; its own will get what
\* it sent.
LEMMA StoreLedIInv == ASSUME IInv, NEW p \in Pages, StoreLed(p) PROVE IInv'
<1>0. TypeOK /\ FetchInv /\ CalmInv
  BY DEF IInv
<1> DEFINE r == post[p]
           t == Turn(r, "stored")
<1>1. /\ r \in Posts /\ post \in [Pages -> Posts] /\ leds \in Vector
      /\ r.st = "sent" /\ r.i \in Led /\ r.sent \in Vector
  BY <1>0 DEF StoreLed, TypeOK, Posts
<1>2. /\ leds' = [leds EXCEPT ![r.i] = r.sent[r.i]] /\ post' = [post EXCEPT ![p] = t]
      /\ muddled' = [q \in Pages |-> q # p \/ muddled[q]]
      /\ UNCHANGED <<ledStates, box, ledBusy, ledDirty, get, status, orphans, clicks, intent>>
  BY DEF StoreLed
<1>3. /\ t \in Posts /\ t.sent = r.sent /\ t.reply = r.reply
      /\ r.i = N => t.st = "stored" /\ t.i = 1
      /\ r.i # N => t.st = "sent" /\ t.i = r.i + 1
  BY <1>1, PostTurns
<1>4. post'[p] = t /\ \A q \in Pages \ {p} : post'[q] = post[q]
  BY <1>1, <1>2
<1>5. leds' \in Vector
  BY <1>1, <1>2 DEF Vector
<1>6. TypeOK'
  <2>1. post' \in [Pages -> Posts]
    BY <1>1, <1>2, <1>3
  <2>2. muddled' \in [Pages -> BOOLEAN]
    BY <1>2
  <2> QED BY <1>0, <1>2, <1>5, <2>1, <2>2 DEF TypeOK
<1>7. FetchInv'
  BY <1>0, <1>1, <1>2, <1>3, <1>4 DEF FetchInv
<1>8. CalmInv'
  <2> SUFFICES ASSUME NEW q \in Pages, ~muddled'[q] PROVE Calm(q)'
    BY DEF CalmInv
  <2>1. q = p /\ ~muddled[p]
    BY <1>2
  <2>2. /\ OneFetch(p) /\ Intends(p, r.sent) /\ Agrees(r.sent, leds, r.i)
        /\ \A s \in Slots : get[p][s].st = "none"
    BY <1>0, <1>1, <2>1 DEF CalmInv, Calm, OneFetch
  <2>3. Agrees(leds, r.sent, r.i)
    BY <2>2 DEF Agrees
  <2>4. Agrees(leds', r.sent, r.i + 1) /\ (r.i = N => leds' = r.sent)
    <3>1. PICK v \in Vector, w \in Vector, i \in Led : v = leds /\ w = r.sent /\ i = r.i
      BY <1>1
    <3>2. Agrees([v EXCEPT ![i] = w[i]], w, i + 1) /\ (i = N => [v EXCEPT ![i] = w[i]] = w)
      BY <2>3, <3>1, OneMore
    <3>3. leds' = [v EXCEPT ![i] = w[i]]
      BY <1>2, <3>1
    <3> QED BY <3>1, <3>2, <3>3
  <2>5. CASE r.i = N
    <3>1. post'[p].st = "stored" /\ post'[p].i = 1 /\ post'[p].sent = leds'
      BY <1>3, <1>4, <2>4, <2>5
    <3>2. Agrees(post'[p].reply, leds', post'[p].i)
      BY <3>1 DEF Agrees, Led
    <3>3. Intends(p, leds)'
      BY <1>2, <2>2, <2>4, <2>5 DEF Intends
    <3> QED BY <1>2, <2>1, <2>2, <3>1, <3>2, <3>3 DEF Calm, OneFetch, Quiet
  <2>6. CASE r.i # N
    <3>1. post'[p].st = "sent" /\ post'[p].i = r.i + 1 /\ post'[p].sent = r.sent
      BY <1>3, <1>4, <2>6
    <3>2. Agrees(post'[p].sent, leds', post'[p].i)
      BY <2>4, <3>1 DEF Agrees
    <3>3. Intends(p, post[p].sent)'
      BY <1>2, <2>2, <3>1 DEF Intends
    <3> QED BY <1>2, <2>1, <2>2, <3>1, <3>2, <3>3 DEF Calm, OneFetch, Quiet
  <2> QED BY <2>5, <2>6
<1> QED BY <1>6, <1>7, <1>8 DEF IInv

\* A POST that reads an LED for its reply changes no other page, and its own
\* gets what the server has.
LEMMA LoadLedIInv == ASSUME IInv, NEW p \in Pages, LoadLed(p) PROVE IInv'
<1>0. TypeOK /\ FetchInv /\ CalmInv
  BY DEF IInv
<1> DEFINE r == post[p]
           l == Loaded(r)
           t == Turn(l, "served")
<1>1. /\ r \in Posts /\ post \in [Pages -> Posts] /\ leds \in Vector
      /\ r.st = "stored" /\ r.i \in Led /\ r.reply \in Vector
  BY <1>0 DEF LoadLed, TypeOK, Posts
<1>2. /\ post' = [post EXCEPT ![p] = t]
      /\ UNCHANGED <<leds, ledStates, box, ledBusy, ledDirty, get, status, orphans, clicks,
                     intent, muddled>>
  BY DEF LoadLed
<1>3. /\ l \in Posts /\ l.st = "stored" /\ l.i = r.i /\ l.sent = r.sent
      /\ l.reply = [r.reply EXCEPT ![r.i] = leds[r.i]]
  BY <1>1, PostLoads
<1>4. /\ t \in Posts /\ t.sent = r.sent /\ t.reply = l.reply
      /\ r.i = N => t.st = "served"
      /\ r.i # N => t.st = "stored" /\ t.i = r.i + 1
  BY <1>3, PostTurns
<1>5. post'[p] = t /\ \A q \in Pages \ {p} : post'[q] = post[q]
  BY <1>1, <1>2
<1>6. TypeOK'
  <2>1. post' \in [Pages -> Posts]
    BY <1>1, <1>2, <1>4
  <2> QED BY <1>0, <1>2, <2>1 DEF TypeOK
<1>7. FetchInv'
  BY <1>0, <1>1, <1>2, <1>4, <1>5 DEF FetchInv
<1>8. CalmInv'
  <2> SUFFICES ASSUME NEW q \in Pages, ~muddled'[q] PROVE Calm(q)'
    BY DEF CalmInv
  <2>1. CASE q = p
    <3>1. /\ OneFetch(p) /\ Intends(p, leds) /\ r.sent = leds /\ Agrees(r.reply, leds, r.i)
          /\ \A s \in Slots : get[p][s].st = "none"
      BY <1>0, <1>1, <1>2, <2>1 DEF CalmInv, Calm, OneFetch
    <3>2. Agrees(l.reply, leds, r.i + 1) /\ (r.i = N => l.reply = leds)
      BY <1>1, <1>3, <3>1, OneMore
    <3>3. Intends(p, leds)' /\ post'[p].sent = leds'
      BY <1>2, <1>4, <1>5, <3>1 DEF Intends
    <3>4. /\ post'[p].st = "stored" => Agrees(post'[p].reply, leds', post'[p].i)
          /\ post'[p].st = "served" => post'[p].reply = leds'
          /\ post'[p].st \in {"stored", "served"}
      BY <1>2, <1>4, <1>5, <3>2 DEF Agrees
    <3> QED BY <1>2, <2>1, <3>1, <3>3, <3>4 DEF Calm, OneFetch, Quiet
  <2>2. CASE q # p
    BY <1>0, <1>2, <1>5, <2>2, OthersCalm
  <2> QED BY <2>1, <2>2
<1> QED BY <1>6, <1>7, <1>8 DEF IInv

\* A POST its page has given up muddles every page.
LEMMA StoreOrphanIInv == ASSUME IInv, NEW o \in Orphans, StoreOrphan(o) PROVE IInv'
<1>1. TypeOK /\ FetchInv /\ o.i \in Led /\ o.sent \in Vector
  BY DEF IInv, Orphans
<1>2. /\ orphans[o] > 0 /\ leds' = [leds EXCEPT ![o.i] = o.sent[o.i]]
      /\ muddled' = [q \in Pages |-> TRUE]
      /\ UNCHANGED <<ledStates, box, ledBusy, ledDirty, post, get, status, clicks, intent>>
  BY DEF StoreOrphan
<1>3. TypeOK'
  <2>1. muddled' \in [Pages -> BOOLEAN]
    BY <1>2
  <2>2. leds' \in Vector
    BY <1>1, <1>2 DEF TypeOK, Vector
  <2>3. orphans' \in [Orphans -> Nat]
    <3>0. orphans \in [Orphans -> Nat]
      BY <1>1 DEF TypeOK
    <3>1. orphans[o] - 1 \in Nat
      <4>1. orphans[o] \in Nat
        BY <3>0
      <4>2. orphans[o] > 0
        BY <1>2
      <4> QED BY <4>1, <4>2
    <3> QED BY <3>0, <3>1 DEF StoreOrphan
  <2> QED BY <1>1, <1>2, <2>1, <2>2, <2>3 DEF TypeOK
<1>4. FetchInv' /\ CalmInv'
  BY <1>1, <1>2 DEF FetchInv, CalmInv
<1> QED BY <1>3, <1>4 DEF IInv

\* A GET that reads an LED takes the server's.
LEMMA ServeGetIInv ==
    ASSUME IInv, NEW p \in Pages, NEW s \in Slots, ServeGet(p, s) PROVE IInv'
<1>0. TypeOK /\ FetchInv /\ CalmInv
  BY DEF IInv
<1> DEFINE r == get[p][s]
           l == Loaded(r)
           g == Turn(l, "served")
<1>1. r \in Gets /\ leds \in Vector /\ r.st = "sent" /\ r.i \in Led /\ r.reply \in Vector
  BY <1>0 DEF ServeGet, TypeOK, Gets
<1>2. /\ get' = [get EXCEPT ![p][s] = g]
      /\ UNCHANGED <<leds, ledStates, box, ledBusy, ledDirty, post, status, orphans, clicks,
                     intent, muddled>>
  BY <1>0 DEF ServeGet, TypeOK
<1>3. /\ l \in Gets /\ l.st = "sent" /\ l.i = r.i
      /\ l.reply = [r.reply EXCEPT ![r.i] = leds[r.i]]
  BY <1>1, GetLoads
<1>4. /\ g \in Gets /\ g.reply = l.reply
      /\ r.i = N => g.st = "served"
      /\ r.i # N => g.st = "sent" /\ g.i = r.i + 1
  BY <1>3, GetTurns
<1>5. /\ get' \in [Pages -> [Slots -> Gets]]
      /\ \A q \in Pages \ {p} : get'[q] = get[q]
      /\ get'[p][s] = g
      /\ \A t \in Slots \ {s} : get'[p][t] = get[p][t]
  BY <1>0, <1>2, <1>4, GetFacts
<1>6. TypeOK'
  BY <1>0, <1>2, <1>5 DEF TypeOK
<1>7. FetchInv'
  BY <1>0, <1>2 DEF FetchInv
<1>8. CalmInv'
  <2> SUFFICES ASSUME NEW q \in Pages, ~muddled'[q] PROVE Calm(q)'
    BY DEF CalmInv
  <2>1. CASE q = p
    <3>1. Calm(p) /\ Agrees(r.reply, leds, r.i)
      BY <1>0, <1>1, <1>2, <2>1 DEF CalmInv, Calm
    <3>2. Agrees(l.reply, leds, r.i + 1) /\ (r.i = N => l.reply = leds)
      BY <1>1, <1>3, <3>1, OneMore
    <3>3. /\ post[p].st = "none" /\ \A t \in Slots \ {s} : get[p][t].st = "none"
          /\ \A i \in Led : intent[p][i] = None
      BY <1>1, <3>1 DEF Calm, OneFetch
    <3>4. /\ g.st = "sent" => Agrees(g.reply, leds, g.i)
          /\ g.st = "served" => g.reply = leds
          /\ g.st # "none"
      BY <1>4, <3>2 DEF Agrees
    <3>5. \A t \in Slots : get'[p][t].st # "none" => t = s /\ get'[p][t] = g
      BY <1>5, <3>3
    <3> QED BY <1>2, <1>5, <2>1, <3>3, <3>4, <3>5 DEF Calm, OneFetch, Quiet
  <2>2. CASE q # p
    BY <1>0, <1>2, <1>5, <2>2, OthersCalm
  <2> QED BY <2>1, <2>2
<1> QED BY <1>6, <1>7, <1>8 DEF IInv

\* Every step keeps the invariant.
LEMMA NextIInv == IInv /\ [Next]_vars => IInv'
<1> SUFFICES ASSUME IInv, [Next]_vars PROVE IInv'
  OBVIOUS
<1>1. CASE UNCHANGED vars
  <2>1. TypeOK' /\ FetchInv'
    BY <1>1 DEF vars, IInv, TypeOK, FetchInv
  <2>2. CalmInv'
    BY <1>1 DEF vars, IInv, CalmInv, Calm, OneFetch, Quiet, Intends, Agrees
  <2> QED BY <2>1, <2>2 DEF IInv
<1> QED
  BY <1>1, ShowTabIInv, ClickIInv, PostReplyIInv, PostFailsIInv, GetReplyIInv, GetFailsIInv,
     StoreLedIInv, LoadLedIInv, StoreOrphanIInv, ServeGetIInv
  DEF Next, User, PostStep, GetStep

-----------------------------------------------------------------------------
\* The variables of pages and server keep their types.
THEOREM TypeCorrect == Spec => []TypeOK
<1>1. IInv => TypeOK
  BY DEF IInv
<1> QED BY <1>1, InitIInv, NextIInv, PTL DEF Spec

\* Once the fetches of a page have ended, it shows the server's LEDs and the
\* server has the user's clicks, unless fetches of the page overlapped or
\* failed or another page's POST came in between (setLed(), loadLeds()).
THEOREM CalmPagesAreFaithful == Spec => []CalmPageIsFaithful
<1>1. IInv => CalmPageIsFaithful
  BY DEF IInv, CalmInv, Calm, Intends, CalmPageIsFaithful
<1> QED BY <1>1, InitIInv, NextIInv, PTL DEF Spec

-----------------------------------------------------------------------------
(* The ADC tab *)

\* The fetches the server has yet to serve, and those that have not ended.
Unserved == {s \in Samples : fetch[s].st = "sent"}
InFlight == {s \in Samples : fetch[s].st # "none"}

\* Each fetch stands for at most one reading and one point.
CountInv ==
    /\ IsFiniteSet(Unserved) /\ IsFiniteSet(InFlight)
    /\ taken + Cardinality(Unserved) <= asked
    /\ points + Cardinality(InFlight) <= asked

AdcInv == AdcTypeOK /\ CountInv /\ SeriesContinues /\ LastPointIsLastReading

\* No fetch, no reading and no point yet.
LEMMA InitAdc == AdcInit => AdcInv
<1> SUFFICES ASSUME AdcInit PROVE AdcInv
  OBVIOUS
<1>1. AdcTypeOK
  BY AdcTabAssumption DEF AdcInit, AdcTypeOK, Fetches, NoFetch, AdcTabAssumption
<1>2. Unserved = {} /\ InFlight = {}
  BY DEF AdcInit, Unserved, InFlight, NoFetch
<1>3. CountInv
  BY <1>2, FS_EmptySet DEF AdcInit, CountInv
<1>4. SeriesContinues
  <2>1. Len(<<>>) = 0 /\ MAX_SAMPLES \in Nat \ {0}
    BY AdcTabAssumption DEF AdcTabAssumption
  <2>2. \A p \in Plots : buf[p] = <<>>
    BY DEF AdcInit
  <2>3. \A p \in Plots : Len(buf[p]) = 0
    BY <2>1, <2>2, Zenon
  <2>4. points = 0
    BY DEF AdcInit
  <2> QED BY <2>1, <2>3, <2>4 DEF SeriesContinues
<1>5. LastPointIsLastReading
  BY DEF AdcInit, LastPointIsLastReading
<1> QED BY <1>1, <1>3, <1>4, <1>5 DEF AdcInv

\* What pushSample() does to a plot.
LEMMA PushFacts ==
  ASSUME NEW b \in Seq(Value), NEW x \in Value \cup {Bad},
         Len(b) <= MAX_SAMPLES
  PROVE  /\ PushSample(b, x) \in Seq(Value)
         /\ Len(PushSample(b, x)) = IF Len(b) < MAX_SAMPLES THEN Len(b) + 1 ELSE MAX_SAMPLES
         /\ x # Bad => PushSample(b, x)[Len(PushSample(b, x))] = x
<1> DEFINE y == IF x = Bad THEN (IF b = <<>> THEN MIN ELSE b[Len(b)]) ELSE x
           c == Append(b, y)
<1>1. MAX_SAMPLES \in Nat \ {0} /\ Len(b) \in Nat
  BY AdcTabAssumption DEF AdcTabAssumption
<1>2. y \in Value
  <2>1. MIN \in Value
    BY AdcTabAssumption DEF MIN, Value, AdcTabAssumption
  <2>2. b # <<>> => b[Len(b)] \in Value
    OBVIOUS
  <2> QED BY <2>1, <2>2
<1>3. c \in Seq(Value) /\ Len(c) = Len(b) + 1 /\ c[Len(c)] = y
  BY <1>2
<1>4. PushSample(b, x) = IF Len(c) > MAX_SAMPLES THEN Tail(c) ELSE c
  BY DEF PushSample, Shifted
<1>5. CASE Len(b) < MAX_SAMPLES
  <2>1. PushSample(b, x) = c
    BY <1>1, <1>3, <1>4, <1>5
  <2> QED BY <1>3, <1>5, <2>1
<1>6. CASE Len(b) = MAX_SAMPLES
  <2> HIDE DEF c
  <2>1. PushSample(b, x) = Tail(c) /\ c # <<>> /\ Len(c) >= 2
    BY <1>1, <1>3, <1>4, <1>6
  <2>2. /\ Tail(c) \in Seq(Value) /\ Len(Tail(c)) = Len(c) - 1
        /\ Tail(c)[Len(c) - 1] = c[Len(c)]
    BY <1>3, <2>1
  <2> QED BY <1>1, <1>3, <1>6, <2>1, <2>2
<1> QED BY <1>1, <1>5, <1>6

\* One more fetch.
LEMMA SendAdc ==
  ASSUME AdcInv, SendFetch, taken' = taken, points' = points
  PROVE  fetch' \in [Samples -> Fetches] /\ asked' \in 0 .. MaxFetches /\ CountInv'
<1>1. PICK s \in Samples : /\ asked < MaxFetches /\ asked' = asked + 1
                         /\ fetch[s].st = "none"
                         /\ fetch' = [fetch EXCEPT ![s] = [st |-> "sent", v |-> Null]]
  BY DEF SendFetch
<1>2. /\ fetch \in [Samples -> Fetches] /\ MaxFetches \in Nat
      /\ asked \in Nat /\ taken \in Nat /\ points \in Nat
  BY AdcTabAssumption DEF AdcInv, AdcTypeOK, AdcTabAssumption
<1>3. /\ Unserved' = Unserved \cup {s} /\ s \notin Unserved
      /\ InFlight' = InFlight \cup {s} /\ s \notin InFlight
  BY <1>1, <1>2 DEF Unserved, InFlight
<1>4. CountInv'
  <2>1. /\ IsFiniteSet(Unserved) /\ Cardinality(Unserved) \in Nat
        /\ IsFiniteSet(InFlight) /\ Cardinality(InFlight) \in Nat
    BY FS_CardinalityType DEF AdcInv, CountInv
  <2>2. /\ IsFiniteSet(Unserved') /\ Cardinality(Unserved') = Cardinality(Unserved) + 1
        /\ IsFiniteSet(InFlight') /\ Cardinality(InFlight') = Cardinality(InFlight) + 1
    BY <1>3, <2>1, FS_AddElement
  <2> QED BY <1>1, <1>2, <2>1, <2>2 DEF AdcInv, CountInv
<1>5. fetch' \in [Samples -> Fetches]
  BY <1>1, <1>2 DEF Fetches
<1> QED BY <1>1, <1>2, <1>4, <1>5

\* A new timer and a fetch.
LEMMA StartFacts ==
  ASSUME AdcInv, StartAdc, UNCHANGED <<taken, lastAdc, buf, points>>,
         tab' \in {"led", "adc", "board"}
  PROVE  AdcInv'
<1>1. SendFetch /\ starts < MaxStarts /\ starts' = starts + 1 /\ adcTimer' = starts'
      /\ timers' = (timers \ {adcTimer}) \cup {adcTimer'}
  BY DEF StartAdc, Stopped
<1>2. fetch' \in [Samples -> Fetches] /\ asked' \in 0 .. MaxFetches /\ CountInv'
  BY <1>1, SendAdc
<1>3. starts' \in 1 .. MaxStarts
  BY <1>1, AdcTabAssumption DEF AdcInv, AdcTypeOK, AdcTabAssumption
<1>4. AdcTypeOK'
  BY <1>1, <1>2, <1>3 DEF AdcInv, AdcTypeOK
<1> QED BY <1>2, <1>4 DEF AdcInv, SeriesContinues, LastPointIsLastReading

\* The end of a fetch, with or without a point.
LEMMA EndAdc ==
  ASSUME AdcInv, NEW s \in Samples, fetch[s].st # "none", FetchEnds(s),
         NEW v \in Reading \cup {Null}, Show(v)
  PROVE  AdcInv'
<1>1. AdcTypeOK /\ CountInv /\ SeriesContinues /\ LastPointIsLastReading
  BY DEF AdcInv
<1>2. /\ fetch' = [fetch EXCEPT ![s] = NoFetch]
      /\ UNCHANGED <<tab, adcTimer, timers, starts, asked, taken>>
  BY DEF FetchEnds
<1>3. /\ IsFiniteSet(Unserved') /\ Cardinality(Unserved') \in Nat
      /\ IsFiniteSet(InFlight') /\ Cardinality(InFlight') \in Nat
      /\ taken + Cardinality(Unserved') <= asked
      /\ points + Cardinality(InFlight') + 1 <= asked
  <2>1. Unserved' = Unserved \ {s} /\ InFlight' = InFlight \ {s} /\ s \in InFlight
    BY <1>1, <1>2 DEF AdcTypeOK, NoFetch, Unserved, InFlight
  <2>2. /\ IsFiniteSet(Unserved) /\ Cardinality(Unserved) \in Nat
        /\ IsFiniteSet(InFlight) /\ Cardinality(InFlight) \in Nat
    BY <1>1, FS_CardinalityType DEF CountInv
  <2>3. /\ IsFiniteSet(Unserved') /\ Cardinality(Unserved') <= Cardinality(Unserved)
        /\ IsFiniteSet(InFlight') /\ Cardinality(InFlight') = Cardinality(InFlight) - 1
    <3>1. /\ IsFiniteSet(Unserved \ {s})
          /\ Cardinality(Unserved \ {s}) = IF s \in Unserved THEN Cardinality(Unserved) - 1
                                                            ELSE Cardinality(Unserved)
      BY <2>2, FS_RemoveElement
    <3>2. /\ IsFiniteSet(InFlight \ {s})
          /\ Cardinality(InFlight \ {s}) = Cardinality(InFlight) - 1
      BY <2>1, <2>2, FS_RemoveElement
    <3> QED BY <2>1, <2>2, <3>1, <3>2
  <2>4. Cardinality(Unserved') \in Nat /\ Cardinality(InFlight') \in Nat
    BY <2>3, FS_CardinalityType
  <2> QED BY <1>1, <2>2, <2>3, <2>4, AdcTabAssumption DEF AdcTypeOK, CountInv, AdcTabAssumption
<1>4. fetch' \in [Samples -> Fetches]
  BY <1>1, <1>2 DEF AdcTypeOK, Fetches, NoFetch
<1>5. CASE v = Null
  <2>1. UNCHANGED <<lastAdc, buf, points>>
    BY <1>5 DEF Show
  <2>2. CountInv'
    BY <1>1, <1>2, <1>3, <2>1 DEF CountInv, AdcTypeOK
  <2> QED BY <1>1, <1>2, <1>4, <2>1, <2>2
          DEF AdcInv, AdcTypeOK, SeriesContinues, LastPointIsLastReading
<1>6. CASE v # Null
  <2>1. lastAdc' = v /\ points' = points + 1 /\ v \in Reading
        /\ buf' = [p \in Plots |-> PushSample(buf[p], v[p])]
    BY <1>6 DEF Show
  <2>2. CountInv'
    BY <1>1, <1>2, <1>3, <2>1 DEF CountInv, AdcTypeOK
  <2>3. points' \in 0 .. MaxFetches /\ points \in Nat
    BY <1>1, <1>3, <2>1, AdcTabAssumption DEF AdcTypeOK, AdcTabAssumption
  <2>4. \A p \in Plots :
           /\ buf'[p] \in Seq(Value)
           /\ Len(buf'[p]) = IF points' < MAX_SAMPLES THEN points' ELSE MAX_SAMPLES
           /\ v[p] # Bad => buf'[p][Len(buf'[p])] = v[p]
    <3> SUFFICES ASSUME NEW p \in Plots
                 PROVE  /\ buf'[p] \in Seq(Value)
                        /\ Len(buf'[p]) = IF points' < MAX_SAMPLES THEN points' ELSE MAX_SAMPLES
                        /\ v[p] # Bad => buf'[p][Len(buf'[p])] = v[p]
      OBVIOUS
    <3>1. /\ buf[p] \in Seq(Value) /\ v[p] \in Value \cup {Bad}
          /\ Len(buf[p]) = IF points < MAX_SAMPLES THEN points ELSE MAX_SAMPLES
      BY <1>1, <2>1 DEF AdcTypeOK, SeriesContinues, Reading
    <3>2. MAX_SAMPLES \in Nat /\ Len(buf[p]) <= MAX_SAMPLES
      BY <2>3, <3>1, AdcTabAssumption DEF AdcTabAssumption
    <3>3. buf'[p] = PushSample(buf[p], v[p])
      BY <2>1
    <3> DEFINE b == buf[p]
               x == v[p]
    <3>4. /\ b \in Seq(Value) /\ x \in Value \cup {Bad}
          /\ Len(b) <= MAX_SAMPLES /\ buf'[p] = PushSample(b, x)
      BY <3>1, <3>2, <3>3
    <3> HIDE DEF b, x
    <3>5. /\ buf'[p] \in Seq(Value)
          /\ Len(buf'[p]) = IF Len(b) < MAX_SAMPLES THEN Len(b) + 1 ELSE MAX_SAMPLES
          /\ x # Bad => buf'[p][Len(buf'[p])] = x
      BY <3>4, PushFacts
    <3> QED BY <2>1, <2>3, <3>1, <3>2, <3>5 DEF b, x
  <2>5. AdcTypeOK'
    <3>1. buf' \in [Plots -> Seq(Value)]
      BY <2>1, <2>4
    <3> QED BY <1>1, <1>2, <1>4, <2>1, <2>3, <3>1 DEF AdcTypeOK
  <2>6. SeriesContinues' /\ LastPointIsLastReading'
    BY <2>1, <2>4 DEF SeriesContinues, LastPointIsLastReading
  <2> QED BY <2>2, <2>5, <2>6 DEF AdcInv
<1> QED BY <1>5, <1>6

\* api_adc() answers.
LEMMA ServeAdc ==
  ASSUME AdcInv, NEW s \in Samples, Serve(s)
  PROVE  AdcInv'
<1>1. AdcTypeOK /\ CountInv /\ SeriesContinues /\ LastPointIsLastReading
  BY DEF AdcInv
<1>2. PICK bad \in SUBSET Plots :
         /\ fetch[s].st = "sent" /\ taken' = taken + 1
         /\ fetch' = [fetch EXCEPT ![s] =
               [st |-> "served", v |-> [p \in Plots |-> IF p \in bad THEN Bad ELSE taken']]]
         /\ UNCHANGED <<tab, adcTimer, timers, starts, asked, lastAdc, buf, points>>
  BY DEF Serve
<1>3. CountInv' /\ taken' \in Value
  <2>1. Unserved' = Unserved \ {s} /\ InFlight' = InFlight /\ s \in Unserved
    BY <1>1, <1>2 DEF AdcTypeOK, Unserved, InFlight
  <2>2. IsFiniteSet(Unserved) /\ Cardinality(Unserved) \in Nat
    BY <1>1, FS_CardinalityType DEF CountInv
  <2>3. IsFiniteSet(Unserved') /\ Cardinality(Unserved') = Cardinality(Unserved) - 1
    BY <2>1, <2>2, FS_RemoveElement
  <2>4. Cardinality(Unserved') \in Nat
    BY <2>3, FS_CardinalityType
  <2>5. taken \in Nat /\ asked \in 0 .. MaxFetches /\ MaxFetches \in Nat
    BY <1>1, AdcTabAssumption DEF AdcTypeOK, AdcTabAssumption
  <2>6. taken' + Cardinality(Unserved') <= asked
    BY <1>1, <1>2, <2>2, <2>3, <2>5 DEF CountInv
  <2>7. taken' \in Value
    BY <1>2, <2>4, <2>5, <2>6 DEF Value
  <2> QED BY <1>1, <1>2, <2>1, <2>3, <2>6, <2>7 DEF CountInv
<1>4. fetch' \in [Samples -> Fetches]
  <2>1. [p \in Plots |-> IF p \in bad THEN Bad ELSE taken'] \in Reading
    BY <1>3 DEF Reading
  <2> QED BY <1>1, <1>2, <2>1 DEF AdcTypeOK, Fetches
<1>5. AdcTypeOK'
  BY <1>1, <1>2, <1>3, <1>4 DEF AdcTypeOK, Value
<1> QED BY <1>1, <1>2, <1>3, <1>5 DEF AdcInv, SeriesContinues, LastPointIsLastReading

\* Every step keeps the invariant.
LEMMA NextAdc == AdcInv /\ [AdcNext]_adcVars => AdcInv'
<1> SUFFICES ASSUME AdcInv, [AdcNext]_adcVars PROVE AdcInv'
  OBVIOUS
<1>1. CASE UNCHANGED adcVars
  BY <1>1
  DEF adcVars, AdcInv, AdcTypeOK, CountInv, Unserved, InFlight, SeriesContinues,
      LastPointIsLastReading
<1>2. ASSUME NEW name \in {"led", "adc", "board"}, SelectTab(name) PROVE AdcInv'
  <2>1. tab' \in {"led", "adc", "board"} /\ UNCHANGED <<taken, lastAdc, buf, points>>
    BY <1>2 DEF SelectTab
  <2>2. CASE StartAdc
    BY <2>1, <2>2, StartFacts
  <2>3. CASE UNCHANGED <<adcTimer, timers, starts, asked, fetch>>
    BY <2>1, <2>3
    DEF AdcInv, AdcTypeOK, CountInv, Unserved, InFlight, SeriesContinues,
        LastPointIsLastReading
  <2> QED BY <1>2, <2>2, <2>3 DEF SelectTab
<1>3. CASE ChangeInterval
  <2>1. StartAdc /\ UNCHANGED <<taken, lastAdc, buf, points>> /\ tab' = tab
    BY <1>3 DEF ChangeInterval
  <2>2. tab \in {"led", "adc", "board"}
    BY DEF AdcInv, AdcTypeOK
  <2> QED BY <2>1, <2>2, StartFacts
<1>4. CASE Tick
  <2>1. SendFetch /\ UNCHANGED <<tab, adcTimer, timers, starts, taken, lastAdc, buf, points>>
    BY <1>4 DEF Tick
  <2>2. fetch' \in [Samples -> Fetches] /\ asked' \in 0 .. MaxFetches /\ CountInv'
    BY <2>1, SendAdc
  <2> QED BY <2>1, <2>2 DEF AdcInv, AdcTypeOK, SeriesContinues, LastPointIsLastReading
<1>5. ASSUME NEW s \in Samples, Serve(s) PROVE AdcInv'
  BY <1>5, ServeAdc
<1>6. ASSUME NEW s \in Samples, Reply(s) PROVE AdcInv'
  <2>1. fetch[s].st # "none" /\ fetch[s].v \in Reading \cup {Null}
    BY <1>6 DEF Reply, AdcInv, AdcTypeOK, Fetches
  <2> QED BY <1>6, <2>1, EndAdc DEF Reply
<1>7. ASSUME NEW s \in Samples, Fails(s) PROVE AdcInv'
  <2>1. lastAdc \in Reading \cup {Null}
    BY DEF AdcInv, AdcTypeOK
  <2> QED BY <1>7, <2>1, EndAdc DEF Fails
<1> QED BY <1>1, <1>2, <1>3, <1>4, <1>5, <1>6, <1>7 DEF AdcNext

-----------------------------------------------------------------------------
\* The variables of the ADC tab keep their types: in particular the server
\* takes at most one reading and the page draws at most one point per fetch.
THEOREM AdcTypeCorrect == AdcSpec => []AdcTypeOK
<1>1. AdcInv => AdcTypeOK
  BY DEF AdcInv
<1> QED BY <1>1, InitAdc, NextAdc, PTL DEF AdcSpec

\* Whatever order fetches of sampleAdc() end in, and however they end, every
\* plot has one point per fetch, up to MAX_SAMPLES (pushSample()).
THEOREM SeriesHasNoGaps == AdcSpec => []SeriesContinues
<1>1. AdcInv => SeriesContinues
  BY DEF AdcInv
<1> QED BY <1>1, InitAdc, NextAdc, PTL DEF AdcSpec

\* The last point of a plot is that of the reading the page received last
\* (sampleAdc(), pushSample()).
THEOREM LastPointIsCurrent == AdcSpec => []LastPointIsLastReading
<1>1. AdcInv => LastPointIsLastReading
  BY DEF AdcInv
<1> QED BY <1>1, InitAdc, NextAdc, PTL DEF AdcSpec
=============================================================================
