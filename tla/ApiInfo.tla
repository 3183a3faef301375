------------------------------- MODULE ApiInfo -------------------------------
(***************************************************************************)
(* GET /api/info on the host server (e_server/server.c): api_info() looks  *)
(* up the public address, the location and the weather one after the other *)
(* with http_get(), which connects, reads the whole response into a        *)
(* growing buffer with read_all() and may go on to the target of a         *)
(* redirect.  Each lookup may fail in many places; the answer is built     *)
(* from what succeeded, cut to fields of a fixed size.                     *)
(*                                                                         *)
(* A response is a number of blocks: the status line, the headers with     *)
(* Location, the blank line, and the body.                                 *)
(***************************************************************************)
EXTENDS Integers

CONSTANTS
    CHUNK,     \* what one recv() asks for; 4096 in the code
    MAXLEN,    \* blocks of a response: a bound
    ATTEMPTS   \* attempts of http_get; 3 in the code

ASSUME ApiInfoAssumption ==
    CHUNK \in Nat \ {0} /\ MAXLEN \in Nat \ {0} /\ ATTEMPTS \in Nat \ {0}

Lookups == 1 .. 3     \* pub, geo, wtr

STATUS == 1           \* the blocks of a response
LOCATION == 2
BLANK == 3

\* "ok", "long" and "bare" are 200: with the text looked for, with one that is
\* longer than the array it is copied to (pub_ip, city, country, wdesc), and
\* without it; "moved" and "far" are redirects to http:// with a host name that
\* fits nh and that does not, "away" is a redirect elsewhere or without Location,
\* "error" any other status
Kinds == {"ok", "long", "bare", "moved", "far", "away", "error"}
Responses == [kind : Kinds, len : 1 .. MAXLEN]
Values == {"null", "cut", "whole"}
Outcomes == {"untried", "failed", "short", "done"}

VARIABLES
    pc,          \* "idle", "connect", "alloc", "grow", "recv", "parse", "answer"
    look,        \* the lookup under way; 4 when all are done
    attempt,     \* attempt
    redirected,  \* redirected
    resp,        \* the response of the peer
    got, cap,    \* read_all(): blocks read, size of the buffer
    short,       \* read_all() gave up before the end of the response
    oom,         \* ... because realloc() failed
    sock,        \* sockets open
    block,       \* response buffers allocated
    bodies,      \* lookups whose body is allocated
    value,       \* per lookup: what it found, "null", "cut" or "whole"
    outcome,     \* per lookup: "untried", "failed" (a call of http_get() failed),
                 \* "short" (its last response broke off) or "done"
    due          \* per lookup: what its last response is worth if it arrives whole

reading == <<resp, got, cap, short, oom>>
vars == <<pc, look, attempt, redirected, resp, got, cap, short, oom, sock,
          block, bodies, value, outcome, due>>

TypeOK ==
    /\ pc \in {"idle", "connect", "alloc", "grow", "recv", "parse", "answer"}
    /\ look \in 1 .. 4
    /\ attempt \in 0 .. ATTEMPTS - 1
    /\ redirected \in BOOLEAN
    /\ resp \in Responses
    /\ got \in 0 .. MAXLEN
    /\ cap \in Nat
    /\ short \in BOOLEAN /\ oom \in BOOLEAN
    /\ sock \in 0 .. 1
    /\ block \in 0 .. 1
    /\ bodies \subseteq Lookups
    /\ value \in [Lookups -> Values]
    /\ outcome \in [Lookups -> Outcomes]
    /\ due \in [Lookups -> Values]

Init ==
    /\ pc = "idle" /\ look = 1 /\ attempt = 0 /\ redirected = FALSE
    /\ resp = [kind |-> "error", len |-> 1]
    /\ got = 0 /\ cap = 0 /\ short = FALSE /\ oom = FALSE
    /\ sock = 0 /\ block = 0 /\ bodies = {}
    /\ value = [k \in Lookups |-> "null"]
    /\ outcome = [k \in Lookups |-> "untried"]
    /\ due = [k \in Lookups |-> "null"]

-----------------------------------------------------------------------------
\* route() calls api_info()
Begin ==
    /\ pc = "idle" /\ pc' = "connect"
    /\ look' = 1 /\ attempt' = 0 /\ redirected' = FALSE
    /\ value' = [k \in Lookups |-> "null"]
    /\ outcome' = [k \in Lookups |-> "untried"]
    /\ due' = [k \in Lookups |-> "null"]
    /\ UNCHANGED <<reading, sock, block, bodies>>

\* http_get() returns; the next lookup starts with variables of its own
NextLookup ==
    /\ look' = look + 1
    /\ pc' = IF look + 1 \in Lookups THEN "connect" ELSE "answer"
    /\ attempt' = 0 /\ redirected' = FALSE

\* http_get() returns NULL, with the outcome o
GiveUp(o) ==
    /\ NextLookup
    /\ outcome' = [outcome EXCEPT ![look] = o]
    /\ UNCHANGED <<bodies, value, due>>

\* tcp_connect() tries the addresses of the host; the last one fails too
ConnectFails ==
    /\ pc = "connect"
    /\ GiveUp("failed")
    /\ UNCHANGED <<reading, sock, block>>

\* What a whole response is worth to its lookup: the text behind the blank line
Worth(r) == IF r.len <= BLANK \/ r.kind \notin {"ok", "long"} THEN "null"
            ELSE IF r.kind = "ok" THEN "whole" ELSE "cut"

\* the request is sent, or not: send_all() does not tell, recv() will
Connect ==
    /\ pc = "connect"
    /\ sock' = sock + 1
    /\ resp' \in Responses
    /\ due' = [due EXCEPT ![look] = Worth(resp')]
    /\ pc' = "alloc"
    /\ UNCHANGED <<look, attempt, redirected, got, cap, short, oom, block,
                   bodies, value, outcome>>

\* malloc() fails: XCLOSE(s), return NULL
AllocFails ==
    /\ pc = "alloc"
    /\ sock' = sock - 1
    /\ GiveUp("failed")
    /\ UNCHANGED <<reading, block>>

Alloc ==
    /\ pc = "alloc"
    /\ block' = block + 1
    /\ got' = 0 /\ cap' = 2 * CHUNK /\ short' = FALSE /\ oom' = FALSE
    /\ pc' = "grow"
    /\ UNCHANGED <<look, attempt, redirected, resp, sock, bodies, value, outcome, due>>

EndOfReadingVariant(failed) ==
    /\ short' = (got < resp.len)
    /\ oom' = failed
    /\ sock' = IF got = 0 THEN sock ELSE sock - 1
    /\ pc' = "parse"
\* read_all() leaves its loop, and http_get() closes the socket
EndOfReading(failed) ==
    /\ short' = (got < resp.len)
    /\ oom' = failed
    /\ sock' = sock - 1
    /\ pc' = "parse"

FullVariant == got + CHUNK > cap + 1
Full == got + CHUNK > cap

GrowFails ==
    /\ pc = "grow" /\ Full
    /\ EndOfReading(TRUE)
    /\ UNCHANGED <<look, attempt, redirected, resp, got, cap, block, bodies,
                   value, outcome, due>>

Grow ==
    /\ pc = "grow"
    /\ cap' = IF Full THEN 2 * cap ELSE cap
    /\ pc' = "recv"
    /\ UNCHANGED <<look, attempt, redirected, resp, got, short, oom, sock,
                   block, bodies, value, outcome, due>>

Recv ==
    /\ pc = "recv"
    /\ \E r \in 1 .. CHUNK : got + r <= resp.len /\ got' = got + r
    /\ pc' = "grow"
    /\ UNCHANGED <<look, attempt, redirected, resp, cap, short, oom, sock,
                   block, bodies, value, outcome, due>>

RecvEndsVariant ==
    /\ pc = "recv"
    /\ \/ got < resp.len /\ EndOfReading(FALSE)
       \/ got = resp.len /\ pc' = "grow" /\ UNCHANGED <<short, oom, sock>>
    /\ UNCHANGED <<look, attempt, redirected, resp, got, cap, block, bodies,
                   value, outcome, due>>
\* recv() returns 0 or less: the end, an error, or five seconds of silence
RecvEnds ==
    /\ pc = "recv"
    /\ EndOfReading(FALSE)
    /\ UNCHANGED <<look, attempt, redirected, resp, got, cap, block, bodies,
                   value, outcome, due>>

-----------------------------------------------------------------------------
(* What http_get() makes of the response *)

Redirects == got >= STATUS /\ resp.kind \in {"moved", "far", "away"}
\* has_loc: a Location at http://, and no redirect followed yet
HasLoc == got >= LOCATION /\ resp.kind \in {"moved", "far"} /\ ~redirected

Follows == Redirects /\ HasLoc /\ resp.kind = "moved" /\ attempt + 1 < ATTEMPTS
HasBodyVariant == got >= BLANK /\ ~redirected /\ resp.kind \in {"ok", "long", "bare"}
HasBody == got >= BLANK /\ resp.kind \in {"ok", "long", "bare"}

FreeResp == block' = block - 1

\* host, path and port come from Location; what is asked for is left out
Follow ==
    /\ pc = "parse" /\ Follows
    /\ FreeResp
    /\ redirected' = TRUE
    /\ attempt' = attempt + 1
    /\ pc' = "connect"
    /\ UNCHANGED <<look, reading, sock, bodies, value, outcome, due>>

\* every return NULL of http_get() after the response is there: a redirect
\* that is not followed, the last attempt, another status or no blank line
Discard ==
    /\ pc = "parse" /\ ~Follows /\ ~HasBody
    /\ FreeResp
    /\ GiveUp(IF short THEN "short" ELSE "done")
    /\ UNCHANGED <<reading, sock>>

\* xstrdup() of the body fails
DupFails ==
    /\ pc = "parse" /\ HasBody
    /\ FreeResp
    /\ GiveUp("failed")
    /\ UNCHANGED <<reading, sock>>

\* What the body yields: nothing if it is empty or lacks the field, and what
\* fits the array of a field that is too long; a field that is short is lost,
\* cut or untouched.
Found == IF got = BLANK \/ resp.kind = "bare" THEN {"null"}
         ELSE IF short THEN Values
         ELSE IF resp.kind = "long" THEN {"cut"} ELSE {"whole"}

Take ==
    /\ pc = "parse" /\ HasBody
    /\ FreeResp
    /\ bodies' = bodies \cup {look}
    /\ \E v \in Found : value' = [value EXCEPT ![look] = v]
    /\ outcome' = [outcome EXCEPT ![look] = IF short THEN "short" ELSE "done"]
    /\ NextLookup
    /\ UNCHANGED <<reading, sock, due>>

AnswerVariant ==
    /\ pc = "answer" /\ pc' = "idle"
    /\ bodies' = IF bodies = Lookups THEN {} ELSE bodies
    /\ UNCHANGED <<look, attempt, redirected, reading, sock, block, value, outcome, due>>
\* the answer goes out and the bodies are freed
Answer ==
    /\ pc = "answer" /\ pc' = "idle"
    /\ bodies' = {}
    /\ UNCHANGED <<look, attempt, redirected, reading, sock, block, value, outcome, due>>

Step ==
    \/ ConnectFails \/ Connect \/ AllocFails \/ Alloc \/ GrowFails \/ Grow \/ Recv
    \/ RecvEnds \/ Follow \/ Discard \/ DupFails \/ Take \/ Answer

Next == Begin \/ Step

\* The worker thread runs; connect() and recv() end, by an answer or a timeout.
Spec == Init /\ [][Next]_vars /\ WF_vars(Step)

-----------------------------------------------------------------------------
(* Properties *)

\* read_all() stays inside its buffer: recv() has room for all it asks for,
\* and so has the terminating zero, unless realloc() has failed.
ReadAllStaysInside ==
    /\ pc = "recv" => got + CHUNK <= cap
    /\ pc = "parse" /\ ~oom => got < cap

\* Whichever lookups fail, and wherever, /api/info leaves no socket open and
\* no buffer allocated.
InfoLeavesNothing == pc = "idle" => sock = 0 /\ block = 0 /\ bodies = {}

\* http_get() follows at most one redirect of a lookup, so a lookup makes at
\* most two connections and ATTEMPTS is never what stops it.
OneRedirect == attempt <= 1 /\ (attempt = 1 <=> redirected)

\* The lookups do not depend on each other: all of them are made, and whatever
\* became of the others and however often a request was redirected, a lookup
\* reports what its own last response is worth (the whole text, the part that
\* fits its array, or null) unless that response broke off or a call of its own
\* http_get() failed; then a failed call reports null.
LookupsAreIndependent ==
    pc = "answer" =>
        \A k \in Lookups :
            /\ outcome[k] # "untried"
            /\ outcome[k] = "failed" => value[k] = "null"
            /\ outcome[k] = "done" => value[k] = due[k]

\* /api/info is answered, with lookups that redirect, stall or fail.
InfoAnswers == pc = "connect" ~> pc = "idle"
=============================================================================
