------------------------------ MODULE UService -------------------------------
(***************************************************************************)
(* Remote calls to a service task (components/uservice: uservice.c, rpc.c, *)
(* utask.c).  A caller puts an rpc into the task's queue and may wait for  *)
(* the semaphore in its buffer; the task runs the handler and replies.     *)
(* Caller and task each call rpc_deinit() once, in any order: the first    *)
(* leaves the buffer in rpc_buffer_gc_cache, the second takes it out and   *)
(* frees it, both under the task's mutex.                                  *)
(*                                                                         *)
(* A member of Calls is one use of uservice_call(), made by a task of its  *)
(* own or by a handler that runs in the service task itself (netmgr's      *)
(* event callbacks publish events that way).                               *)
(***************************************************************************)
EXTENDS Integers, Sequences

CONSTANTS
    Calls,   \* the calls of a behaviour
    QUEUE,   \* queue_count
    Kinds,   \* the kinds of call tasks make
    TRIES,   \* count in uservice_call; 10 in the code
    Server,  \* the service task, as owner of the mutex
    None

ASSUME UServiceAssumption ==
    /\ QUEUE \in Nat \ {0} /\ TRIES \in Nat \ {0}
    /\ Kinds \subseteq {"sync", "timed", "async", "empty"}
    /\ None \notin Calls /\ Server \notin Calls /\ None # Server

VARIABLES
    kind,    \* per call: "sync" waits for ever, "timed" for timeout_ms, "async"
             \* does not wait, "empty" is async without a buffer; or "none"
    pc,      \* per call: "idle", "send", "wait", "deinit", "locked", "done"
    tries,   \* per call: sends left
    ret,     \* per call: "ok", "timeout", "nosend" (-1), "nomem", or "none"
    sem,     \* per call: the semaphore in its buffer
    buf,     \* per call: "none", "live" or "freed"
    cache,   \* calls whose buffer is in rpc_buffer_gc_cache
    queue,   \* the task's queue
    srv,     \* per call: the task's copy is "none", "queued", "busy" or "out"
    spc,     \* the task: "recv", "process", "signal", "deinit", "locked"
    cur,     \* the call it handles, or None
    nested,  \* the call its handler is making, or None
    lock,    \* TASK_LOCK: a call (its caller), Server or None
    found    \* per owner: rpc_deinit() has found the buffer in the cache

callers == <<kind, pc, tries, ret>>
vars == <<kind, pc, tries, ret, sem, buf, cache, queue, srv, spc, cur, nested,
          lock, found>>

Waits(c) == kind[c] \in {"sync", "timed"}       \* the semaphore is valid
HasBuf(c) == kind[c] \in {"sync", "timed", "async"}

TypeOK ==
    /\ kind \in [Calls -> {"sync", "timed", "async", "empty", "none"}]
    /\ pc \in [Calls -> {"idle", "send", "wait", "deinit", "locked", "done"}]
    /\ tries \in [Calls -> 0 .. TRIES]
    /\ ret \in [Calls -> {"ok", "timeout", "nosend", "nomem", "none"}]
    /\ sem \in [Calls -> 0 .. 1]
    /\ buf \in [Calls -> {"none", "live", "freed"}]
    /\ cache \subseteq Calls
    /\ queue \in Seq(Calls) /\ Len(queue) <= QUEUE
    /\ srv \in [Calls -> {"none", "queued", "busy", "out"}]
    /\ spc \in {"recv", "process", "signal", "deinit", "locked"}
    /\ cur \in Calls \cup {None}
    /\ nested \in Calls \cup {None}
    /\ lock \in Calls \cup {Server, None}
    /\ found \in [Calls \cup {Server} -> BOOLEAN]

Init ==
    /\ kind = [c \in Calls |-> "none"]
    /\ pc = [c \in Calls |-> "idle"]
    /\ tries = [c \in Calls |-> 0]
    /\ ret = [c \in Calls |-> "none"]
    /\ sem = [c \in Calls |-> 0]
    /\ buf = [c \in Calls |-> "none"]
    /\ cache = {} /\ queue = <<>>
    /\ srv = [c \in Calls |-> "none"]
    /\ spc = "recv" /\ cur = None /\ nested = None
    /\ lock = None
    /\ found = [a \in Calls \cup {Server} |-> FALSE]

-----------------------------------------------------------------------------
(* The caller *)

\* rpc_init() and rpc_put_buffer(): a buffer, unless there is nothing to put
NewRpc(c, k) ==
    /\ pc[c] = "idle"
    /\ pc' = [pc EXCEPT ![c] = "send"]
    /\ kind' = [kind EXCEPT ![c] = k]
    /\ tries' = [tries EXCEPT ![c] = TRIES]
    /\ buf' = [buf EXCEPT ![c] = IF k = "empty" THEN "none" ELSE "live"]
    /\ UNCHANGED <<ret, sem, cache, queue, srv, spc, cur, lock, found>>

Call(c) ==
    /\ \E k \in Kinds : NewRpc(c, k)
    /\ UNCHANGED nested

\* a handler in the service task; it may not wait for itself
CallFromHandler(c) ==
    /\ spc = "process" /\ nested = None
    /\ \E k \in Kinds \cap {"async", "empty"} : NewRpc(c, k)
    /\ nested' = c

\* rpc_init() finds no memory
InitFails(c) ==
    /\ pc[c] = "idle"
    /\ pc' = [pc EXCEPT ![c] = "done"]
    /\ ret' = [ret EXCEPT ![c] = "nomem"]
    /\ UNCHANGED <<kind, tries, sem, buf, cache, queue, srv, spc, cur, nested, lock, found>>

RoomVariant == Len(queue) <= QUEUE
Room == Len(queue) < QUEUE

\* aos_queue_send() copies the rpc; rpc_wait() comes next
Send(c) ==
    /\ pc[c] = "send" /\ Room
    /\ queue' = Append(queue, c)
    /\ srv' = [srv EXCEPT ![c] = "queued"]
    /\ tries' = [tries EXCEPT ![c] = 0]
    /\ pc' = [pc EXCEPT ![c] = "wait"]
    /\ UNCHANGED <<kind, ret, sem, buf, cache, spc, cur, nested, lock, found>>

\* the queue is full: sleep and try again, or give up with -1
SendFull(c) ==
    /\ pc[c] = "send" /\ ~Room
    /\ tries' = [tries EXCEPT ![c] = @ - 1]
    /\ IF tries[c] > 1
       THEN UNCHANGED <<pc, ret>>
       ELSE /\ pc' = [pc EXCEPT ![c] = "deinit"]
            /\ ret' = [ret EXCEPT ![c] = "nosend"]
    /\ UNCHANGED <<kind, sem, buf, cache, queue, srv, spc, cur, nested, lock, found>>

WaitOkVariant(c) ==
    /\ pc[c] = "wait"
    /\ pc' = [pc EXCEPT ![c] = "deinit"]
    /\ ret' = [ret EXCEPT ![c] = "ok"]
    /\ UNCHANGED <<kind, tries, sem, buf, cache, queue, srv, spc, cur, nested, lock, found>>

\* rpc_wait(): at once without a semaphore
WaitOk(c) ==
    /\ pc[c] = "wait" /\ (Waits(c) => sem[c] = 1)
    /\ sem' = [sem EXCEPT ![c] = 0]
    /\ pc' = [pc EXCEPT ![c] = "deinit"]
    /\ ret' = [ret EXCEPT ![c] = "ok"]
    /\ UNCHANGED <<kind, tries, buf, cache, queue, srv, spc, cur, nested, lock, found>>

WaitTimesOut(c) ==
    /\ pc[c] = "wait" /\ kind[c] = "timed"
    /\ pc' = [pc EXCEPT ![c] = "deinit"]
    /\ ret' = [ret EXCEPT ![c] = "timeout"]
    /\ UNCHANGED <<kind, tries, sem, buf, cache, queue, srv, spc, cur, nested, lock, found>>

-----------------------------------------------------------------------------
(* rpc_deinit(), by the caller of c or by the service task *)

FreeVariant == TRUE
Free == lock = None

\* TASK_LOCK and the search of rpc_buffer_gc_cache
LockAndSearch(c, who) ==
    /\ Free
    /\ lock' = who
    /\ found' = [found EXCEPT ![who] = c \in cache]
    /\ UNCHANGED <<kind, tries, ret, sem, buf, cache, queue, srv, cur, nested>>

FreeOrKeepVariant(c, who) ==
    /\ buf' = [buf EXCEPT ![c] = "freed"]
    /\ cache' = cache \ {c}
    /\ lock' = None /\ found' = [found EXCEPT ![who] = FALSE]
    /\ UNCHANGED <<kind, tries, ret, sem, queue>>

\* found: take it out and free it; not found: put it in; TASK_UNLOCK
FreeOrKeep(c, who) ==
    /\ IF found[who]
       THEN cache' = cache \ {c} /\ buf' = [buf EXCEPT ![c] = "freed"]
       ELSE cache' = cache \cup {c} /\ UNCHANGED buf
    /\ lock' = None /\ found' = [found EXCEPT ![who] = FALSE]
    /\ UNCHANGED <<kind, tries, ret, sem, queue>>

\* the call has returned, to the handler if it was the handler's
Returned(c) ==
    /\ pc' = [pc EXCEPT ![c] = "done"]
    /\ nested' = IF nested = c THEN None ELSE nested

\* rpc->data == NULL: rpc_deinit() returns at once
DeinitEmpty(c) ==
    /\ pc[c] = "deinit" /\ ~HasBuf(c)
    /\ Returned(c)
    /\ UNCHANGED <<kind, tries, ret, sem, buf, cache, queue, srv, spc, cur, lock, found>>

DeinitLock(c) ==
    /\ pc[c] = "deinit" /\ HasBuf(c)
    /\ LockAndSearch(c, c)
    /\ pc' = [pc EXCEPT ![c] = "locked"]
    /\ UNCHANGED spc

DeinitUnlock(c) ==
    /\ pc[c] = "locked"
    /\ FreeOrKeep(c, c)
    /\ Returned(c)
    /\ UNCHANGED <<srv, spc, cur>>

Caller(c) ==
    \/ Send(c) \/ SendFull(c) \/ WaitOk(c) \/ WaitTimesOut(c)
    \/ DeinitEmpty(c) \/ DeinitLock(c) \/ DeinitUnlock(c)

-----------------------------------------------------------------------------
(* The service task: utask_entry() and rpc_reply() *)

Recv ==
    /\ spc = "recv" /\ queue # <<>>
    /\ cur' = Head(queue)
    /\ queue' = Tail(queue)
    /\ srv' = [srv EXCEPT ![cur'] = "busy"]
    /\ spc' = "process"
    /\ UNCHANGED <<callers, sem, buf, cache, nested, lock, found>>

\* the task is through with the call and waits for the next
Finished ==
    /\ srv' = [srv EXCEPT ![cur] = "out"]
    /\ cur' = None
    /\ spc' = "recv"

\* process_rpc() ends and replies; without a buffer there is nothing to do
Process ==
    /\ spc = "process" /\ nested = None
    /\ IF HasBuf(cur)
       THEN spc' = "signal" /\ UNCHANGED <<srv, cur>>
       ELSE Finished
    /\ UNCHANGED <<callers, sem, buf, cache, queue, nested, lock, found>>

SignalVariant ==
    /\ spc = "signal"
    /\ sem' = [sem EXCEPT ![cur] = IF kind[cur] = "timed" THEN 1 ELSE @]
    /\ spc' = "deinit"
    /\ UNCHANGED <<callers, buf, cache, queue, srv, cur, nested, lock, found>>

\* rpc_reply(): signal a caller that has a semaphore
Signal ==
    /\ spc = "signal"
    /\ sem' = [sem EXCEPT ![cur] = IF Waits(cur) THEN 1 ELSE @]
    /\ spc' = "deinit"
    /\ UNCHANGED <<callers, buf, cache, queue, srv, cur, nested, lock, found>>

ReplyLock ==
    /\ spc = "deinit"
    /\ LockAndSearch(cur, Server)
    /\ spc' = "locked"
    /\ UNCHANGED pc

ReplyUnlock ==
    /\ spc = "locked"
    /\ FreeOrKeep(cur, Server)
    /\ Finished
    /\ UNCHANGED <<pc, nested>>

Service == Recv \/ Process \/ Signal \/ ReplyLock \/ ReplyUnlock

-----------------------------------------------------------------------------
Next ==
    \/ Service
    \/ \E c \in Calls : Call(c) \/ CallFromHandler(c) \/ InitFails(c) \/ Caller(c)

\* Every task that can run is scheduled; a handler that makes no more calls ends.
Spec == /\ Init /\ [][Next]_vars
        /\ WF_vars(Service) /\ \A c \in Calls : WF_vars(Caller(c))

-----------------------------------------------------------------------------
(* Properties *)

\* the parties that will still touch the buffer of c
CallerHolds(c) == pc[c] \in {"send", "wait", "deinit", "locked"}
TaskHolds(c) == srv[c] \in {"queued", "busy"}

\* Nobody uses a buffer after it is freed, and nobody frees it twice: as long
\* as the caller or the service task has yet to go through rpc_deinit(), the
\* buffer is allocated, even when a timeout, a reply and a search of the cache
\* by other calls fall between any two steps.
NoUseAfterFree ==
    \A c \in Calls :
        HasBuf(c) /\ (CallerHolds(c) \/ TaskHolds(c)) => buf[c] = "live"

\* No buffer of a call that got into the queue is lost: once both sides are
\* done with it, it is freed and out of the cache.
SentBuffersReclaimed ==
    \A c \in Calls :
        (HasBuf(c) /\ pc[c] = "done" /\ srv[c] = "out") =>
            buf[c] = "freed" /\ c \notin cache

\* A synchronous call that reports success was handled first: it never takes
\* the reply of another call for its own.
OkMeansHandled ==
    \A c \in Calls :
        (Waits(c) /\ ret[c] = "ok") =>
            \/ srv[c] = "out"
            \/ cur = c /\ spc \in {"deinit", "locked"}

\* Every call returns, also one made by a handler while the queue is full,
\* which nobody else could drain: it gives up after TRIES sends.
CallsReturn == \A c \in Calls : pc[c] = "send" ~> pc[c] = "done"
=============================================================================
