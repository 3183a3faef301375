------------------------------ MODULE LedStore -------------------------------
(***************************************************************************)
(* What a client of /api/leds may rely on when one task serves the         *)
(* requests: the LED vector is a register.  A request takes effect in one  *)
(* indivisible step, a POST overwrites the LEDs it lists and no other, and *)
(* the answer is the whole vector right after that step.  A request may    *)
(* also end without effect, and an answer may get lost after its effect.   *)
(***************************************************************************)
EXTENDS Integers, Sequences

CONSTANTS
    Clients,   \* the connections that may be in use at the same time
    N,         \* number of LEDs; 5 in the code
    LedVals,   \* lists of at most N integers a request may carry; <<>> for a GET
    None       \* no request, no answer

Led == 1 .. N
Vector == [Led -> {0, 1}]

\* a[i] ? 1 : 0
Norm(x) == IF x # 0 THEN 1 ELSE 0

\* the loop over the values sscanf() could read
Apply(v, vals) == [i \in Led |-> IF i <= Len(vals) THEN Norm(vals[i]) ELSE v[i]]

VARIABLES
    leds,   \* the LED vector
    call,   \* per connection: the values of its request, or None
    ans     \* per connection: the answer produced, or None

vars == <<leds, call, ans>>

TypeOK ==
    /\ leds \in Vector
    /\ call \in [Clients -> LedVals \cup {None}]
    /\ ans \in [Clients -> Vector \cup {None}]

Init ==
    /\ leds = [i \in Led |-> 0]
    /\ call = [c \in Clients |-> None]
    /\ ans = [c \in Clients |-> None]

Call(c) ==
    /\ call[c] = None
    /\ \E v \in LedVals : call' = [call EXCEPT ![c] = v]
    /\ UNCHANGED <<leds, ans>>

Serve(c) ==
    /\ call[c] # None /\ ans[c] = None
    /\ leds' = Apply(leds, call[c])
    /\ ans' = [ans EXCEPT ![c] = leds']
    /\ UNCHANGED call

\* the connection ends, served or not
End(c) ==
    /\ call[c] # None
    /\ call' = [call EXCEPT ![c] = None]
    /\ ans' = [ans EXCEPT ![c] = None]
    /\ UNCHANGED leds

Next == \E c \in Clients : Call(c) \/ Serve(c) \/ End(c)

Spec == Init /\ [][Next]_vars
=============================================================================
