---------------------------- MODULE ApiInfoProofs ----------------------------
(***************************************************************************)
(* What api_info(), http_get() and read_all() do with memory and sockets,  *)
(* proved for every chunk size and every bound on a response.              *)
(***************************************************************************)
EXTENDS ApiInfo, TLAPS

\* sockets and response buffers are held exactly in these places
Holding ==
    /\ sock = IF pc \in {"alloc", "grow", "recv"} THEN 1 ELSE 0
    /\ block = IF pc \in {"grow", "recv", "parse"} THEN 1 ELSE 0
    /\ pc = "idle" => bodies = {}
    /\ pc \notin {"idle", "answer"} => look \in Lookups

\* read_all() never shrinks its buffer, and may have filled it when it comes
\* round to ask whether it is full
Buffer ==
    /\ pc = "grow" => got <= cap
    /\ pc \in {"grow", "recv"} => cap >= 2 * CHUNK

IInv == TypeOK /\ Holding /\ Buffer /\ ReadAllStaysInside /\ OneRedirect

LEMMA InitIInv == Init => IInv
<1> SUFFICES ASSUME Init
             PROVE  IInv
    OBVIOUS
<1>1. resp \in Responses
    BY ApiInfoAssumption DEF Init, Responses, Kinds
<1>2. /\ value \in [Lookups -> Values] /\ due \in [Lookups -> Values]
      /\ outcome \in [Lookups -> Outcomes]
    BY DEF Init, Values, Outcomes
<1>3. redirected \in BOOLEAN /\ short \in BOOLEAN /\ oom \in BOOLEAN
    BY Zenon DEF Init
<1>4. TypeOK
    BY ApiInfoAssumption, <1>1, <1>2, <1>3 DEF Init, TypeOK
<1> QED
    BY <1>4 DEF Init, IInv, Holding, Buffer, ReadAllStaysInside, OneRedirect

\* http_get() returning to api_info(), with or without a body
LEMMA NextLookupFacts ==
    ASSUME look \in Lookups, NextLookup, ATTEMPTS \in Nat \ {0}
    PROVE  /\ look' \in 1 .. 4 /\ pc' \in {"connect", "answer"}
           /\ pc' = "connect" => look' \in Lookups
           /\ attempt' = 0 /\ redirected' = FALSE
           /\ attempt' \in 0 .. ATTEMPTS - 1
BY DEF NextLookup, Lookups

LEMMA GiveUpFacts ==
    ASSUME look \in Lookups, NEW o \in Outcomes, GiveUp(o), ATTEMPTS \in Nat \ {0},
           outcome \in [Lookups -> Outcomes]
    PROVE  /\ NextLookup /\ outcome' \in [Lookups -> Outcomes]
           /\ UNCHANGED <<bodies, value, due>>
BY DEF GiveUp

LEMMA Inductive == IInv /\ [Next]_vars => IInv'
<1> SUFFICES ASSUME IInv, [Next]_vars
             PROVE  IInv'
    OBVIOUS
<1> USE DEF IInv
<1>0. CHUNK \in Nat \ {0} /\ MAXLEN \in Nat \ {0} /\ ATTEMPTS \in Nat \ {0}
    BY ApiInfoAssumption
<1>1. CASE Begin
    <2>1. /\ value' \in [Lookups -> Values] /\ due' \in [Lookups -> Values]
          /\ outcome' \in [Lookups -> Outcomes]
        BY <1>1 DEF Begin, Values, Outcomes
    <2>2. redirected' \in BOOLEAN
        BY <1>1, Zenon DEF Begin
    <2>3. TypeOK'
        BY <1>0, <1>1, <2>1, <2>2 DEF Begin, reading, TypeOK
    <2> QED
        BY <1>1, <2>3
        DEF Begin, reading, Holding, Buffer, ReadAllStaysInside, OneRedirect, Lookups
<1>2. CASE ConnectFails
    <2>0. PICK o \in Outcomes : GiveUp(o)
        BY <1>2 DEF ConnectFails, Outcomes
    <2>1. /\ look \in Lookups /\ NextLookup /\ outcome' \in [Lookups -> Outcomes]
          /\ UNCHANGED <<bodies, value, due>>
        BY <1>0, <1>2, <2>0, GiveUpFacts DEF ConnectFails, Holding, TypeOK
    <2>2. TypeOK'
        BY <1>0, <1>2, <2>1, NextLookupFacts DEF ConnectFails, reading, TypeOK, Holding
    <2> QED
        BY <1>0, <1>2, <2>1, <2>2, NextLookupFacts
        DEF ConnectFails, reading, Holding, Buffer, ReadAllStaysInside, OneRedirect
<1>3. CASE Connect
    <2>1. Worth(resp') \in Values
        BY DEF Worth, Values
    <2>2. TypeOK'
        BY <1>0, <1>3, <2>1 DEF Connect, TypeOK, Holding
    <2> QED
        BY <1>0, <1>3, <2>2 DEF Connect, Holding, Buffer, ReadAllStaysInside, OneRedirect
<1>4. CASE AllocFails
    <2>0. PICK o \in Outcomes : GiveUp(o)
        BY <1>4 DEF AllocFails, Outcomes
    <2>1. /\ look \in Lookups /\ NextLookup /\ outcome' \in [Lookups -> Outcomes]
          /\ UNCHANGED <<bodies, value, due>>
        BY <1>0, <1>4, <2>0, GiveUpFacts DEF AllocFails, Holding, TypeOK
    <2>2. TypeOK'
        BY <1>0, <1>4, <2>1, NextLookupFacts DEF AllocFails, reading, TypeOK, Holding
    <2> QED
        BY <1>0, <1>4, <2>1, <2>2, NextLookupFacts
        DEF AllocFails, reading, Holding, Buffer, ReadAllStaysInside, OneRedirect
<1>5. CASE Alloc
    <2>1. short' \in BOOLEAN /\ oom' \in BOOLEAN
        BY <1>5, Zenon DEF Alloc
    <2>2. TypeOK'
        BY <1>0, <1>5, <2>1 DEF Alloc, TypeOK, Holding
    <2> QED
        BY <1>0, <1>5, <2>2 DEF Alloc, Holding, Buffer, ReadAllStaysInside, OneRedirect
<1>6. CASE GrowFails
    BY <1>0, <1>6
    DEF GrowFails, EndOfReading, TypeOK, Holding, Buffer, ReadAllStaysInside, OneRedirect
<1>7. CASE Grow
    BY <1>0, <1>7 DEF Grow, Full, TypeOK, Holding, Buffer, ReadAllStaysInside, OneRedirect
<1>8. CASE Recv
    <2>1. PICK r \in 1 .. CHUNK : got + r <= resp.len /\ got' = got + r
        BY <1>8 DEF Recv
    <2>2. resp.len \in 1 .. MAXLEN
        BY DEF TypeOK, Responses
    <2>3. got' \in 0 .. MAXLEN /\ got' <= cap
        BY <1>0, <1>8, <2>1, <2>2 DEF Recv, TypeOK, ReadAllStaysInside
    <2> QED
        BY <1>8, <2>3
        DEF Recv, TypeOK, Holding, Buffer, ReadAllStaysInside, OneRedirect
<1>9. CASE RecvEnds
    <2>0. short' \in BOOLEAN
        BY <1>9 DEF RecvEnds, EndOfReading
    <2>1. oom' \in BOOLEAN
        BY <1>9, Zenon DEF RecvEnds, EndOfReading
    <2>2. TypeOK'
        BY <1>9, <2>0, <2>1 DEF RecvEnds, EndOfReading, TypeOK, Holding
    <2>3. got' < cap'
        BY <1>0, <1>9 DEF RecvEnds, ReadAllStaysInside, TypeOK
    <2> QED
        BY <1>9, <2>2, <2>3
        DEF RecvEnds, EndOfReading, Holding, Buffer, ReadAllStaysInside, OneRedirect
<1>10. CASE Follow
    \* redirected is still FALSE, so this is the first attempt
    BY <1>0, <1>10
    DEF Follow, Follows, HasLoc, FreeResp, reading, TypeOK, Holding, Buffer,
        ReadAllStaysInside, OneRedirect
<1>11. CASE Discard
    <2>0. PICK o \in Outcomes : GiveUp(o)
        BY <1>11 DEF Discard, Outcomes
    <2>1. /\ look \in Lookups /\ NextLookup /\ outcome' \in [Lookups -> Outcomes]
          /\ UNCHANGED <<bodies, value, due>>
        BY <1>0, <1>11, <2>0, GiveUpFacts DEF Discard, Holding, TypeOK
    <2>2. TypeOK'
        BY <1>0, <1>11, <2>1, NextLookupFacts DEF Discard, FreeResp, reading, TypeOK, Holding
    <2> QED
        BY <1>0, <1>11, <2>1, <2>2, NextLookupFacts
        DEF Discard, FreeResp, reading, Holding, Buffer, ReadAllStaysInside, OneRedirect
<1>12. CASE DupFails
    <2>0. PICK o \in Outcomes : GiveUp(o)
        BY <1>12 DEF DupFails, Outcomes
    <2>1. /\ look \in Lookups /\ NextLookup /\ outcome' \in [Lookups -> Outcomes]
          /\ UNCHANGED <<bodies, value, due>>
        BY <1>0, <1>12, <2>0, GiveUpFacts DEF DupFails, Holding, TypeOK
    <2>2. TypeOK'
        BY <1>0, <1>12, <2>1, NextLookupFacts DEF DupFails, FreeResp, reading, TypeOK, Holding
    <2> QED
        BY <1>0, <1>12, <2>1, <2>2, NextLookupFacts
        DEF DupFails, FreeResp, reading, Holding, Buffer, ReadAllStaysInside, OneRedirect
<1>13. CASE Take
    <2>1. look \in Lookups /\ NextLookup
        BY <1>13 DEF Take, Holding
    <2>2. Found \subseteq Values /\ {"short", "done"} \subseteq Outcomes
        BY DEF Found, Values, Outcomes
    <2>3. TypeOK'
        BY <1>0, <1>13, <2>1, <2>2, NextLookupFacts DEF Take, FreeResp, reading, TypeOK, Holding
    <2> QED
        BY <1>0, <1>13, <2>1, <2>3, NextLookupFacts
        DEF Take, FreeResp, reading, Holding, Buffer, ReadAllStaysInside, OneRedirect
<1>14. CASE Answer
    BY <1>0, <1>14 DEF Answer, reading, TypeOK, Holding, Buffer, ReadAllStaysInside, OneRedirect
<1>15. CASE UNCHANGED vars
    BY <1>15 DEF vars, TypeOK, Holding, Buffer, ReadAllStaysInside, OneRedirect
<1> QED
    BY <1>1, <1>2, <1>3, <1>4, <1>5, <1>6, <1>7, <1>8, <1>9, <1>10, <1>11, <1>12,
       <1>13, <1>14, <1>15
    DEF Next, Step

LEMMA IInvAlways == Spec => []IInv
BY InitIInv, Inductive, PTL DEF Spec

\* The variables of api_info(), http_get() and read_all() keep their types.
THEOREM TypeCorrect == Spec => []TypeOK
<1>1. IInv => TypeOK
    BY DEF IInv
<1> QED
    BY IInvAlways, <1>1, PTL

\* read_all() writes only inside its buffer, whatever sizes recv() returns,
\* as long as realloc() has not failed.
THEOREM ReadAllIsSafe == Spec => []ReadAllStaysInside
<1>1. IInv => ReadAllStaysInside
    BY DEF IInv
<1> QED
    BY IInvAlways, <1>1, PTL

\* /api/info returns every socket and buffer it took, on every path.
THEOREM InfoCleansUp == Spec => []InfoLeavesNothing
<1>1. IInv => InfoLeavesNothing
    BY DEF IInv, Holding, InfoLeavesNothing
<1> QED
    BY IInvAlways, <1>1, PTL

\* A lookup follows at most one redirect, for every number of attempts.
THEOREM RedirectsOnce == Spec => []OneRedirect
<1>1. IInv => OneRedirect
    BY DEF IInv
<1> QED
    BY IInvAlways, <1>1, PTL

-----------------------------------------------------------------------------
(* What the lookups have found *)

\* A lookup has an outcome once it is over and finds nothing before that; one
\* that failed has found nothing, and one that is done what it was due.
TriedOf(k) ==
    /\ outcome[k] # "untried" <=> k < look
    /\ outcome[k] \in {"untried", "failed"} => value[k] = "null"
    /\ outcome[k] = "done" => value[k] = due[k]

Tried ==
    pc # "idle" =>
        /\ pc = "answer" => look = 4
        /\ \A k \in Lookups : TriedOf(k)

\* The lookup under way is due what its present response is worth, and has
\* read all of that response unless it knows that it has not.
Reading ==
    /\ pc \in {"alloc", "grow", "recv", "parse"} => due[look] = Worth(resp)
    /\ pc \in {"grow", "recv", "parse"} => got <= resp.len
    /\ pc = "parse" /\ ~short => got = resp.len

\* A lookup that ends, with the value v and the outcome o; it is the one that
\* look names, and the others keep what they have.
LEMMA LookupEnds ==
    ASSUME TypeOK, look \in Lookups, NextLookup, pc # "idle", Tried,
           NEW v \in Values, NEW o \in Outcomes \ {"untried"}, UNCHANGED due,
           value' = [value EXCEPT ![look] = v], outcome' = [outcome EXCEPT ![look] = o],
           o = "failed" => v = "null", o = "done" => v = due[look]
    PROVE  Tried'
<1>1. look' = look + 1 /\ pc' = IF look + 1 \in Lookups THEN "connect" ELSE "answer"
    BY DEF NextLookup
<1>2. pc' = "answer" => look' = 4
    BY <1>1 DEF Lookups
<1>3. ASSUME NEW k \in Lookups PROVE TriedOf(k)'
    <2>1. TriedOf(k)
        BY DEF Tried
    <2>2. CASE k = look
        <3>1. value'[k] = v /\ outcome'[k] = o
            BY <2>2 DEF TypeOK
        <3>2. k < look'
            BY <1>1, <2>2 DEF Lookups
        <3> QED
            BY <2>2, <3>1, <3>2 DEF TriedOf
    <2>3. CASE k # look
        <3>1. value'[k] = value[k] /\ outcome'[k] = outcome[k]
            BY <2>3 DEF TypeOK
        <3>2. k < look' <=> k < look
            BY <1>1, <2>3 DEF Lookups
        <3> QED
            BY <2>1, <3>1, <3>2 DEF TriedOf
    <2> QED
        BY <2>2, <2>3
<1> QED
    BY <1>2, <1>3 DEF Tried

\* http_get() returns NULL: the lookup reports null, which is what it is due
\* if nothing of its own went wrong.
LEMMA LookupFails ==
    ASSUME TypeOK, look \in Lookups, NEW o \in Outcomes \ {"untried"}, GiveUp(o),
           pc # "idle", Tried, o = "done" => due[look] = "null"
    PROVE  Tried'
<1>1. NextLookup /\ value' = value /\ outcome' = [outcome EXCEPT ![look] = o] /\ due' = due
    BY DEF GiveUp
<1>2. value[look] = "null"
    BY DEF Tried, TriedOf, TypeOK, Lookups
<1>3. value' = [value EXCEPT ![look] = "null"]
    BY <1>1, <1>2 DEF TypeOK
<1>4. "null" \in Values
    BY DEF Values
<1> QED
    BY <1>1, <1>3, <1>4, LookupEnds

\* A response that was read whole and yields no body is worth nothing, and one
\* that yields a body is worth what is found in it.
LEMMA WorthOfResponse ==
    ASSUME IInv, Reading, pc = "parse", ~short
    PROVE  /\ ~Follows /\ ~HasBody => due[look] = "null"
           /\ HasBody => Found = {due[look]}
<1>1. due[look] = Worth(resp) /\ got = resp.len /\ got \in Nat
    BY DEF Reading, IInv, TypeOK
<1>2. ~HasBody => Worth(resp) = "null"
    BY <1>1 DEF HasBody, Worth, BLANK
<1>3. HasBody => Found = {Worth(resp)}
    BY <1>1 DEF HasBody, Found, Worth, BLANK
<1> QED
    BY <1>1, <1>2, <1>3

\* Every step keeps what the lookups have found, and adds one outcome at most.
LEMMA TriedStep == IInv /\ Tried /\ Reading /\ [Next]_vars => Tried'
<1> SUFFICES ASSUME IInv, Tried, Reading, [Next]_vars
             PROVE  Tried'
    OBVIOUS
<1>1. TypeOK /\ (pc \notin {"idle", "answer"} => look \in Lookups)
    BY DEF IInv, Holding
<1>2. CASE Begin
    <2>1. /\ pc' = "connect" /\ look' = 1
          /\ \A k \in Lookups : value'[k] = "null" /\ outcome'[k] = "untried"
        BY <1>2 DEF Begin
    <2> QED
        BY <2>1 DEF Tried, TriedOf, Lookups
<1>3. CASE ConnectFails \/ AllocFails \/ DupFails
    <2>1. GiveUp("failed") /\ pc \notin {"idle", "answer"}
        BY <1>3 DEF ConnectFails, AllocFails, DupFails
    <2>2. "failed" \in Outcomes \ {"untried"}
        BY DEF Outcomes
    <2> QED
        BY <1>1, <2>1, <2>2, LookupFails
<1>4. CASE Discard
    <2>1. PICK o \in {"short", "done"} : o = (IF short THEN "short" ELSE "done")
        OBVIOUS
    <2>2. GiveUp(o) /\ pc = "parse"
        BY <1>4, <2>1 DEF Discard
    <2>3. o \in Outcomes \ {"untried"}
        BY DEF Outcomes
    <2>4. o = "done" => due[look] = "null"
        BY <1>4, <2>1, WorthOfResponse DEF Discard
    <2> QED
        BY <1>1, <2>2, <2>3, <2>4, LookupFails
<1>5. CASE Take
    <2>1. PICK v \in Found : value' = [value EXCEPT ![look] = v]
        BY <1>5 DEF Take
    <2>2. v \in Values
        BY <2>1 DEF Found, Values
    <2>3. PICK o \in {"short", "done"} : o = (IF short THEN "short" ELSE "done")
        OBVIOUS
    <2>4. /\ pc = "parse" /\ NextLookup /\ UNCHANGED due
          /\ outcome' = [outcome EXCEPT ![look] = o]
        BY <1>5, <2>3 DEF Take
    <2>5. o = "done" => v = due[look]
        BY <1>5, <2>1, <2>3, WorthOfResponse DEF Take
    <2>6. o \in Outcomes \ {"untried"} /\ o # "failed"
        BY DEF Outcomes
    <2> QED
        BY <1>1, <2>1, <2>2, <2>4, <2>5, <2>6, LookupEnds
<1>6. CASE Connect
    <2>1. look \in Lookups /\ pc = "connect" /\ pc' = "alloc" /\ UNCHANGED <<look, value, outcome>>
        BY <1>1, <1>6 DEF Connect
    <2>2. ASSUME NEW k \in Lookups PROVE TriedOf(k)'
        <3>1. TriedOf(k)
            BY <2>1 DEF Tried
        <3>2. k # look => due'[k] = due[k]
            BY <1>6 DEF Connect, TypeOK
        <3>3. k = look => outcome[k] = "untried"
            BY <3>1, <2>1 DEF TriedOf, Lookups
        <3> QED
            BY <2>1, <3>1, <3>2, <3>3 DEF TriedOf
    <2> QED
        BY <2>1, <2>2 DEF Tried
<1>7. CASE Alloc \/ GrowFails \/ Grow \/ Recv \/ RecvEnds \/ Follow
    <2>1. pc # "idle" /\ pc' # "answer" /\ UNCHANGED <<look, value, outcome, due>>
        BY <1>7 DEF Alloc, GrowFails, Grow, Recv, RecvEnds, EndOfReading, Follow
    <2> QED
        BY <2>1 DEF Tried, TriedOf
<1>8. CASE Answer
    BY <1>8 DEF Answer, Tried
<1>9. CASE UNCHANGED vars
    BY <1>9 DEF vars, Tried, TriedOf
<1> QED
    BY <1>2, <1>3, <1>4, <1>5, <1>6, <1>7, <1>8, <1>9 DEF Next, Step

\* Only Connect changes the response and what the lookup is due, and
\* read_all() ends with everything or knows that it has not.
LEMMA ReadingStep == IInv /\ Reading /\ [Next]_vars => Reading'
<1> SUFFICES ASSUME IInv, Reading, [Next]_vars
             PROVE  Reading'
    OBVIOUS
<1>1. TypeOK /\ (pc \notin {"idle", "answer"} => look \in Lookups)
    BY DEF IInv, Holding
<1>2. resp.len \in Nat /\ got \in Nat
    BY <1>1, ApiInfoAssumption DEF TypeOK, Responses
<1>3. CASE Begin \/ Follow \/ Answer
    BY <1>3 DEF Begin, Follow, Answer, Reading
<1>4. CASE ConnectFails \/ AllocFails \/ Discard \/ DupFails \/ Take
    <2>1. pc' \in {"connect", "answer"}
        BY <1>4 DEF ConnectFails, AllocFails, Discard, DupFails, Take, GiveUp, NextLookup
    <2> QED
        BY <2>1 DEF Reading
<1>5. CASE Connect
    <2>1. due'[look'] = Worth(resp')
        BY <1>1, <1>5 DEF Connect, TypeOK
    <2> QED
        BY <1>5, <2>1 DEF Connect, Reading
<1>6. CASE Alloc
    <2>1. pc' = "grow" /\ got' = 0 /\ UNCHANGED <<resp, look, due>> /\ pc = "alloc"
        BY <1>6 DEF Alloc
    <2> QED
        BY <1>2, <2>1 DEF Reading, Worth
<1>7. CASE GrowFails \/ RecvEnds
    <2>1. /\ pc \in {"grow", "recv"} /\ pc' = "parse" /\ short' = (got < resp.len)
          /\ UNCHANGED <<resp, look, due, got>>
        BY <1>7 DEF GrowFails, RecvEnds, EndOfReading
    <2>2. due'[look'] = Worth(resp')
        BY <2>1 DEF Reading, Worth
    <2>3. got <= resp.len
        BY <2>1 DEF Reading
    <2>4. ~(got < resp.len) => got = resp.len
        BY <1>2, <2>3
    <2>5. ~short' => got' = resp'.len
        BY <2>1, <2>4
    <2> QED
        BY <2>1, <2>2, <2>3, <2>5 DEF Reading
<1>8. CASE Grow
    BY <1>8 DEF Grow, Reading, Worth
<1>9. CASE Recv
    BY <1>9 DEF Recv, Reading, Worth
<1>10. CASE UNCHANGED vars
    BY <1>10 DEF vars, Reading, Worth
<1> QED
    BY <1>3, <1>4, <1>5, <1>6, <1>7, <1>8, <1>9, <1>10 DEF Next, Step

\* The answer of /api/info is made of three lookups that do not depend on each
\* other: none is left out, and one whose own calls succeed and whose response
\* does not break off reports what that response is worth.
THEOREM LookupsIndependent == Spec => []LookupsAreIndependent
<1>1. Init => Tried /\ Reading
    BY DEF Init, Tried, Reading
<1>2. TypeOK /\ Tried => LookupsAreIndependent
    <2> SUFFICES ASSUME Tried, pc = "answer", NEW k \in Lookups
                 PROVE  /\ outcome[k] # "untried"
                        /\ outcome[k] = "failed" => value[k] = "null"
                        /\ outcome[k] = "done" => value[k] = due[k]
        BY DEF LookupsAreIndependent
    <2>1. TriedOf(k) /\ look = 4 /\ k < 4
        BY DEF Tried, Lookups
    <2> QED
        BY <2>1 DEF TriedOf
<1> QED
    BY IInvAlways, TypeCorrect, TriedStep, ReadingStep, <1>1, <1>2, PTL DEF Spec
=============================================================================
