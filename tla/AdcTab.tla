------------------------------- MODULE AdcTab --------------------------------
(***************************************************************************)
(* The ADC tab of the web page (e_server/web/app.js): an interval timer    *)
(* starts a fetch of /api/adc per period whether or not the last one has   *)
(* ended, replies arrive in any order or not at all, and each finished     *)
(* fetch adds one point to every plot.                                     *)
(***************************************************************************)
EXTENDS Integers, Sequences

CONSTANTS
    Plots,        \* the plots; ch0, bat and ch2 in the code
    MAX_SAMPLES,  \* points a plot keeps; 60 in the code
    Samples,      \* fetches in flight: the bound on overlapping samples
    MaxFetches,   \* calls of sampleAdc(): a bound
    MaxStarts,    \* calls of startAdc(): a bound
    Bad,          \* a field of a reply that is not a finite number
    Null          \* null

ASSUME AdcTabAssumption ==
    MAX_SAMPLES \in Nat \ {0} /\ MaxFetches \in Nat /\ MaxStarts \in Nat

\* A reading is numbered by when the server took it; MIN is p.min.
MIN == 0
Value == 0 .. MaxFetches
Reading == [Plots -> Value \cup {Bad}]

\* st "none", "sent", or "served" with the reading on its way back
Fetches == [st : {"none", "sent", "served"}, v : Reading \cup {Null}]
NoFetch == [st |-> "none", v |-> Null]

VARIABLES
    tab,       \* the tab on display
    adcTimer,  \* adcTimer: a timer or null
    timers,    \* the intervals the browser is running
    starts,    \* timers created so far
    asked,     \* fetches started so far
    taken,     \* readings taken by the server so far
    fetch,     \* per slot: the fetch in flight, see Fetches
    lastAdc,   \* lastAdc
    buf,       \* per plot: p.buf
    points     \* fetches finished since there was a reading to show

adcVars == <<tab, adcTimer, timers, starts, asked, taken, fetch, lastAdc, buf, points>>

AdcTypeOK ==
    /\ tab \in {"led", "adc", "board"}
    /\ adcTimer \in 1 .. MaxStarts \cup {Null}
    /\ timers \subseteq 1 .. MaxStarts
    /\ starts \in 0 .. MaxStarts
    /\ asked \in 0 .. MaxFetches
    /\ taken \in 0 .. MaxFetches
    /\ fetch \in [Samples -> Fetches]
    /\ lastAdc \in Reading \cup {Null}
    /\ buf \in [Plots -> Seq(Value)]
    /\ points \in 0 .. MaxFetches

AdcInit ==
    /\ tab = "led"
    /\ adcTimer = Null /\ timers = {} /\ starts = 0
    /\ asked = 0 /\ taken = 0
    /\ fetch = [s \in Samples |-> NoFetch]
    /\ lastAdc = Null
    /\ buf = [p \in Plots |-> <<>>]
    /\ points = 0

-----------------------------------------------------------------------------
(* Timer and tabs *)

\* sampleAdc() up to its await
SendFetch ==
    \E s \in Samples :
        /\ asked < MaxFetches /\ asked' = asked + 1
        /\ fetch[s].st = "none"
        /\ fetch' = [fetch EXCEPT ![s] = [st |-> "sent", v |-> Null]]

\* stopAdc(): the intervals that go on
Stopped == timers \ {adcTimer}

\* startAdc(): stop the old timer, start a new one, take a sample at once
StartAdc ==
    /\ starts < MaxStarts
    /\ starts' = starts + 1
    /\ adcTimer' = starts'
    /\ timers' = Stopped \cup {adcTimer'}
    /\ SendFetch

\* showTab(name); only the ADC tab does something about the timer
SelectTab(name) ==
    /\ tab' = name
    /\ IF name = "adc" THEN StartAdc ELSE UNCHANGED <<adcTimer, timers, starts, asked, fetch>>
    /\ UNCHANGED <<taken, lastAdc, buf, points>>

\* another interval is picked while the timer runs
ChangeInterval ==
    /\ tab = "adc" /\ adcTimer # Null
    /\ StartAdc
    /\ UNCHANGED <<tab, taken, lastAdc, buf, points>>

\* an interval fires, whatever tab is on display
Tick ==
    /\ timers # {}
    /\ SendFetch
    /\ UNCHANGED <<tab, adcTimer, timers, starts, taken, lastAdc, buf, points>>

-----------------------------------------------------------------------------
(* Replies *)

\* api_adc(): one reading of all channels.  A field may be unusable.
Serve(s) ==
    /\ fetch[s].st = "sent"
    /\ taken' = taken + 1
    /\ \E bad \in SUBSET Plots :
          fetch' = [fetch EXCEPT ![s] =
              [st |-> "served", v |-> [p \in Plots |-> IF p \in bad THEN Bad ELSE taken']]]
    /\ UNCHANGED <<tab, adcTimer, timers, starts, asked, lastAdc, buf, points>>

ShiftedVariant(b) == IF Len(b) > MAX_SAMPLES + 1 THEN Tail(b) ELSE b
\* if (p.buf.length > MAX_SAMPLES) p.buf.shift()
Shifted(b) == IF Len(b) > MAX_SAMPLES THEN Tail(b) ELSE b

PushSampleVariant(b, x) == Shifted(Append(b, x))

\* pushSample(): a value that is no number repeats the previous point
PushSample(b, x) ==
    LET prev == IF b = <<>> THEN MIN ELSE b[Len(b)]
    IN  Shifted(Append(b, IF x = Bad THEN prev ELSE x))

\* sampleAdc() with v: nothing to show without a reading
Show(v) ==
    IF v = Null
    THEN UNCHANGED <<lastAdc, buf, points>>
    ELSE /\ lastAdc' = v
         /\ buf' = [p \in Plots |-> PushSample(buf[p], v[p])]
         /\ points' = points + 1

FetchEnds(s) ==
    /\ fetch' = [fetch EXCEPT ![s] = NoFetch]
    /\ UNCHANGED <<tab, adcTimer, timers, starts, asked, taken>>

Reply(s) ==
    /\ fetch[s].st = "served"
    /\ Show(fetch[s].v)
    /\ FetchEnds(s)

FailsVariant(s) ==
    /\ fetch[s].st # "none"
    /\ UNCHANGED <<lastAdc, points>>
    /\ buf' = [p \in Plots |-> IF lastAdc = Null THEN buf[p] ELSE PushSample(buf[p], MIN)]
    /\ FetchEnds(s)

\* timeout or error: v = lastAdc
Fails(s) ==
    /\ fetch[s].st # "none"
    /\ Show(lastAdc)
    /\ FetchEnds(s)

-----------------------------------------------------------------------------
AdcNext ==
    \/ \E name \in {"led", "adc", "board"} : SelectTab(name)
    \/ ChangeInterval \/ Tick
    \/ \E s \in Samples : Serve(s) \/ Reply(s) \/ Fails(s)

AdcSpec == AdcInit /\ [][AdcNext]_adcVars

-----------------------------------------------------------------------------
(* Properties *)

\* The plots stay in step and no fetch is left out of the series: each fetch
\* that ended when there was a reading to show gave every plot exactly one
\* point, and a plot never holds more than MAX_SAMPLES.
SeriesContinues ==
    \A p \in Plots : Len(buf[p]) = IF points < MAX_SAMPLES THEN points ELSE MAX_SAMPLES

\* A failed fetch keeps the previous value: the last point of a plot is always
\* the channel's value in the last reading, or older if that was unusable.
LastPointIsLastReading ==
    lastAdc # Null =>
        \A p \in Plots : lastAdc[p] # Bad => buf[p][Len(buf[p])] = lastAdc[p]
=============================================================================
