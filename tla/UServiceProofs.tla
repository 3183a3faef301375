--------------------------- MODULE UServiceProofs ----------------------------
(***************************************************************************)
(* The buffer protocol of rpc_deinit() is safe for any number of calls,    *)
(* any queue length and any number of retries.                             *)
(***************************************************************************)
EXTENDS UService, TLAPS

\* The queue holds each call once, exactly those the task has yet to receive.
QueueInv ==
    /\ \A i \in 1 .. Len(queue) : srv[queue[i]] = "queued"
    /\ \A i, j \in 1 .. Len(queue) : queue[i] = queue[j] => i = j

\* The task works on one call; its step tells how far it is.
TaskInv ==
    /\ \A c \in Calls : srv[c] = "busy" <=> cur = c
    /\ spc = "recv" <=> cur = None
    /\ spc \in {"signal", "deinit", "locked"} => HasBuf(cur)

\* Before a call is sent the task knows nothing of it.
SentInv ==
    \A c \in Calls :
        /\ pc[c] = "idle" => kind[c] = "none"
        /\ pc[c] \in {"idle", "send"} => srv[c] = "none" /\ sem[c] = 0 /\ ret[c] = "none"
        /\ pc[c] = "send" => tries[c] > 0
        /\ kind[c] = "none" => srv[c] = "none" /\ pc[c] \in {"idle", "done"}
        /\ HasBuf(c) \/ buf[c] = "none"

\* A buffer is in the cache when exactly one side has been through
\* rpc_deinit(), freed when both have, and allocated otherwise.
CallerOut(c) == pc[c] = "done"
TaskOut(c) == srv[c] = "out"
BufferInv ==
    \A c \in Calls :
        /\ c \in cache => HasBuf(c)
        /\ HasBuf(c) =>
              /\ buf[c] = IF CallerOut(c) /\ TaskOut(c) THEN "freed" ELSE "live"
              /\ c \in cache <=> (CallerOut(c) # TaskOut(c))

\* What a search under the mutex found stays true until the mutex is released.
LockInv ==
    /\ \A c \in Calls : pc[c] = "locked" =>
          lock = c /\ HasBuf(c) /\ (found[c] <=> c \in cache)
    /\ spc = "locked" => lock = Server /\ (found[Server] <=> cur \in cache)

\* A semaphore is signalled, and a wait for it succeeds, after the handler ran.
Handled(c) == srv[c] = "out" \/ (cur = c /\ spc \in {"deinit", "locked"})
SemInv ==
    \A c \in Calls :
        /\ sem[c] = 1 => Handled(c)
        /\ (Waits(c) /\ ret[c] = "ok") => Handled(c)

Inv == TypeOK /\ QueueInv /\ TaskInv /\ SentInv /\ BufferInv /\ LockInv /\ SemInv
-----------------------------------------------------------------------------
LEMMA InitInv == Init => Inv
<1> SUFFICES ASSUME Init PROVE Inv
  OBVIOUS
<1>1. TypeOK
  BY UServiceAssumption DEF Init, TypeOK
<1>2. QueueInv /\ SemInv /\ SentInv
  BY DEF Init, QueueInv, SemInv, SentInv
<1>3. TaskInv /\ LockInv
  BY UServiceAssumption DEF Init, TaskInv, LockInv
<1>4. BufferInv
  BY DEF Init, BufferInv, HasBuf
<1> QED
  BY <1>1, <1>2, <1>3, <1>4 DEF Inv

LEMMA NextInv == Inv /\ [Next]_vars => Inv'
<1> SUFFICES ASSUME Inv, [Next]_vars PROVE Inv'
  OBVIOUS
<1> USE UServiceAssumption DEF Inv
<1>1. ASSUME Recv PROVE Inv'
  <2>0. /\ cur' = queue[1] /\ cur' \in Calls /\ 1 \in 1 .. Len(queue)
        /\ srv[cur'] = "queued"
    BY <1>1 DEF Recv, TypeOK, QueueInv
  <2>1. TypeOK'
    BY <1>1 DEF Recv, callers, TypeOK
  <2>2. QueueInv'
    BY <1>1 DEF Recv, QueueInv
  <2>3. TaskInv'
    BY <1>1 DEF Recv, TypeOK, TaskInv
  <2>4. SentInv'
    BY <1>1, <2>0 DEF Recv, callers, SentInv, HasBuf
  <2>5. BufferInv'
    BY <1>1, <2>0 DEF Recv, callers, BufferInv, HasBuf, CallerOut, TaskOut
  <2>6. LockInv'
    BY <1>1 DEF Recv, callers, LockInv, HasBuf
  <2>7. SemInv'
    BY <1>1, <2>0 DEF Recv, callers, SemInv, Handled, Waits
  <2> QED BY <2>1, <2>2, <2>3, <2>4, <2>5, <2>6, <2>7
<1>2. ASSUME Process PROVE Inv'
  <2>0. cur \in Calls
    BY <1>2 DEF Process, TypeOK, TaskInv
  <2>1. TypeOK'
    BY <1>2 DEF Process, Finished, callers, TypeOK
  <2>2. QueueInv'
    BY <1>2 DEF Process, Finished, TypeOK, QueueInv, TaskInv
  <2>3. TaskInv'
    <3>1. CASE HasBuf(cur)
      BY <1>2, <3>1 DEF Process, callers, TaskInv, HasBuf
    <3>2. CASE ~HasBuf(cur)
      BY SMTT(40), <1>2, <2>0, <3>2 DEF Process, Finished, callers, TypeOK, TaskInv
    <3> QED BY <3>1, <3>2
  <2>4. SentInv'
    BY <1>2 DEF Process, Finished, callers, TypeOK, SentInv, TaskInv, HasBuf
  <2>5. BufferInv'
    BY <1>2 DEF Process, Finished, callers, TypeOK, BufferInv, HasBuf, CallerOut, TaskOut
  <2>6. LockInv'
    BY <1>2 DEF Process, Finished, callers, LockInv, HasBuf
  <2>7. SemInv'
    BY <1>2 DEF Process, Finished, callers, TypeOK, SemInv, Handled, Waits
  <2> QED BY <2>1, <2>2, <2>3, <2>4, <2>5, <2>6, <2>7
<1>3. ASSUME Signal PROVE Inv'
  <2>0. cur \in Calls
    BY <1>3 DEF Signal, TypeOK, TaskInv
  <2>1. TypeOK'
    BY <1>3, <2>0 DEF Signal, callers, TypeOK
  <2>2. QueueInv'
    BY <1>3 DEF Signal, QueueInv
  <2>3. TaskInv'
    BY <1>3 DEF Signal, callers, TaskInv, HasBuf
  <2>4. SentInv'
    BY <1>3 DEF Signal, callers, SentInv, TaskInv, HasBuf
  <2>5. BufferInv'
    BY <1>3 DEF Signal, callers, BufferInv, HasBuf, CallerOut, TaskOut
  <2>6. LockInv'
    BY <1>3 DEF Signal, callers, LockInv, HasBuf
  <2>7. SemInv'
    BY <1>3 DEF Signal, callers, SemInv, Handled, Waits
  <2> QED BY <2>1, <2>2, <2>3, <2>4, <2>5, <2>6, <2>7
<1>4. ASSUME ReplyLock PROVE Inv'
  <2>0. cur \in Calls
    BY <1>4 DEF ReplyLock, TypeOK, TaskInv
  <2>1. TypeOK'
    BY <1>4 DEF ReplyLock, LockAndSearch, TypeOK
  <2>2. QueueInv'
    BY <1>4 DEF ReplyLock, LockAndSearch, QueueInv
  <2>3. TaskInv'
    BY <1>4 DEF ReplyLock, LockAndSearch, TaskInv, HasBuf
  <2>4. SentInv'
    BY <1>4 DEF ReplyLock, LockAndSearch, SentInv, HasBuf
  <2>5. BufferInv'
    BY <1>4 DEF ReplyLock, LockAndSearch, BufferInv, HasBuf, CallerOut, TaskOut
  <2>6. LockInv'
    <3>1. lock = None /\ \A d \in Calls : pc[d] # "locked"
      BY <1>4 DEF ReplyLock, LockAndSearch, Free, LockInv
    <3>2. found'[Server] = (cur \in cache)
      BY <1>4 DEF ReplyLock, LockAndSearch, TypeOK
    <3>3. lock' = Server /\ cache' = cache /\ cur' = cur /\ pc' = pc
      BY <1>4 DEF ReplyLock, LockAndSearch
    <3> QED BY <3>1, <3>2, <3>3 DEF LockInv
  <2>7. SemInv'
    BY <1>4 DEF ReplyLock, LockAndSearch, SemInv, Handled, Waits
  <2> QED BY <2>1, <2>2, <2>3, <2>4, <2>5, <2>6, <2>7
<1>5. ASSUME ReplyUnlock PROVE Inv'
  <2>0. cur \in Calls
    BY <1>5 DEF ReplyUnlock, TypeOK, TaskInv
  <2>1. TypeOK'
    BY ZenonT(60), <1>5, <2>0 DEF ReplyUnlock, FreeOrKeep, Finished, TypeOK
  <2>2. QueueInv'
    BY <1>5, <2>0 DEF ReplyUnlock, FreeOrKeep, Finished, QueueInv, TaskInv
  <2>3. TaskInv'
    BY <1>5 DEF ReplyUnlock, Finished, TypeOK, TaskInv
  <2>4. SentInv'
    BY <1>5 DEF ReplyUnlock, FreeOrKeep, Finished, TypeOK, SentInv, TaskInv, HasBuf
  <2>5. BufferInv'
    BY <1>5 DEF ReplyUnlock, FreeOrKeep, Finished, TypeOK, BufferInv, TaskInv, LockInv,
            HasBuf, CallerOut, TaskOut
  <2>6. LockInv'
    BY <1>5 DEF ReplyUnlock, Finished, LockInv
  <2>7. SemInv'
    BY <1>5 DEF ReplyUnlock, FreeOrKeep, Finished, TypeOK, SemInv, Handled, Waits
  <2> QED BY <2>1, <2>2, <2>3, <2>4, <2>5, <2>6, <2>7
<1>6. ASSUME NEW c \in Calls, Call(c) PROVE Inv'
  <2>1. TypeOK'
    BY <1>6 DEF Call, NewRpc, TypeOK
  <2>2. QueueInv'
    BY <1>6 DEF Call, NewRpc, QueueInv
  <2>3. TaskInv'
    BY <1>6 DEF Call, NewRpc, TaskInv, SentInv, HasBuf
  <2>4. SentInv'
    BY <1>6 DEF Call, NewRpc, TypeOK, SentInv, HasBuf
  <2>5. BufferInv'
    BY <1>6 DEF Call, NewRpc, TypeOK, BufferInv, SentInv, HasBuf, CallerOut, TaskOut
  <2>6. LockInv'
    BY <1>6 DEF Call, NewRpc, LockInv, HasBuf
  <2>7. SemInv'
    BY <1>6 DEF Call, NewRpc, SemInv, SentInv, Handled, Waits
  <2> QED BY <2>1, <2>2, <2>3, <2>4, <2>5, <2>6, <2>7
<1>7. ASSUME NEW c \in Calls, CallFromHandler(c) PROVE Inv'
  <2>1. TypeOK'
    BY <1>7 DEF CallFromHandler, NewRpc, TypeOK
  <2>2. QueueInv'
    BY <1>7 DEF CallFromHandler, NewRpc, QueueInv
  <2>3. TaskInv'
    BY <1>7 DEF CallFromHandler, NewRpc, TaskInv
  <2>4. SentInv'
    BY <1>7 DEF CallFromHandler, NewRpc, TypeOK, SentInv, HasBuf
  <2>5. BufferInv'
    BY <1>7 DEF CallFromHandler, NewRpc, TypeOK, BufferInv, SentInv, HasBuf, CallerOut, TaskOut
  <2>6. LockInv'
    BY <1>7 DEF CallFromHandler, NewRpc, LockInv, HasBuf
  <2>7. SemInv'
    BY <1>7 DEF CallFromHandler, NewRpc, SemInv, Handled, Waits
  <2> QED BY <2>1, <2>2, <2>3, <2>4, <2>5, <2>6, <2>7
<1>8. ASSUME NEW c \in Calls, InitFails(c) PROVE Inv'
  <2>1. TypeOK'
    BY <1>8 DEF InitFails, TypeOK
  <2>2. QueueInv'
    BY <1>8 DEF InitFails, QueueInv
  <2>3. TaskInv'
    BY <1>8 DEF InitFails, TaskInv, HasBuf
  <2>4. SentInv'
    BY <1>8 DEF InitFails, TypeOK, SentInv, HasBuf
  <2>5. BufferInv'
    BY <1>8 DEF InitFails, BufferInv, SentInv, HasBuf, CallerOut, TaskOut
  <2>6. LockInv'
    BY <1>8 DEF InitFails, LockInv, HasBuf
  <2>7. SemInv'
    BY <1>8 DEF InitFails, SemInv, Handled, Waits
  <2> QED BY <2>1, <2>2, <2>3, <2>4, <2>5, <2>6, <2>7
<1>9. ASSUME NEW c \in Calls, Send(c) PROVE Inv'
  <2>1. TypeOK'
    BY <1>9 DEF Send, Room, TypeOK
  <2>2. QueueInv'
    BY <1>9 DEF Send, Room, TypeOK, QueueInv, TaskInv, SentInv
  <2>3. TaskInv'
    BY <1>9 DEF Send, TaskInv, SentInv, HasBuf
  <2>4. SentInv'
    BY <1>9 DEF Send, TypeOK, SentInv, HasBuf
  <2>5. BufferInv'
    BY <1>9 DEF Send, BufferInv, SentInv, HasBuf, CallerOut, TaskOut
  <2>6. LockInv'
    BY <1>9 DEF Send, LockInv, HasBuf
  <2>7. SemInv'
    BY <1>9 DEF Send, SemInv, SentInv, Handled, Waits
  <2> QED BY <2>1, <2>2, <2>3, <2>4, <2>5, <2>6, <2>7
<1>10. ASSUME NEW c \in Calls, SendFull(c) PROVE Inv'
  <2>1. TypeOK'
    <3>1. tries[c] - 1 \in 0 .. TRIES
      BY <1>10 DEF SendFull, TypeOK, SentInv
    <3>2. tries' \in [Calls -> 0 .. TRIES]
      BY <1>10, <3>1 DEF SendFull, TypeOK
    <3> QED BY ZenonT(60), <1>10, <3>2 DEF SendFull, TypeOK
  <2>2. QueueInv'
    BY <1>10 DEF SendFull, QueueInv
  <2>3. TaskInv'
    BY <1>10 DEF SendFull, TaskInv, HasBuf
  <2>4. SentInv'
    BY <1>10 DEF SendFull, TypeOK, SentInv, HasBuf
  <2>5. BufferInv'
    BY <1>10 DEF SendFull, TypeOK, BufferInv, HasBuf, CallerOut, TaskOut
  <2>6. LockInv'
    BY <1>10 DEF SendFull, TypeOK, LockInv, HasBuf
  <2>7. SemInv'
    BY <1>10 DEF SendFull, TypeOK, SemInv, Handled, Waits
  <2> QED BY <2>1, <2>2, <2>3, <2>4, <2>5, <2>6, <2>7
<1>11. ASSUME NEW c \in Calls, WaitOk(c) PROVE Inv'
  <2>1. TypeOK'
    BY <1>11 DEF WaitOk, TypeOK
  <2>2. QueueInv'
    BY <1>11 DEF WaitOk, QueueInv
  <2>3. TaskInv'
    BY <1>11 DEF WaitOk, TaskInv, HasBuf
  <2>4. SentInv'
    BY <1>11 DEF WaitOk, SentInv, HasBuf
  <2>5. BufferInv'
    BY <1>11 DEF WaitOk, BufferInv, HasBuf, CallerOut, TaskOut
  <2>6. LockInv'
    BY <1>11 DEF WaitOk, LockInv, HasBuf
  <2>7. SemInv'
    BY <1>11 DEF WaitOk, SemInv, Handled, Waits
  <2> QED BY <2>1, <2>2, <2>3, <2>4, <2>5, <2>6, <2>7
<1>12. ASSUME NEW c \in Calls, WaitTimesOut(c) PROVE Inv'
  <2>1. TypeOK'
    BY <1>12 DEF WaitTimesOut, TypeOK
  <2>2. QueueInv'
    BY <1>12 DEF WaitTimesOut, QueueInv
  <2>3. TaskInv'
    BY <1>12 DEF WaitTimesOut, TaskInv, HasBuf
  <2>4. SentInv'
    BY <1>12 DEF WaitTimesOut, SentInv, HasBuf
  <2>5. BufferInv'
    BY <1>12 DEF WaitTimesOut, BufferInv, HasBuf, CallerOut, TaskOut
  <2>6. LockInv'
    BY <1>12 DEF WaitTimesOut, LockInv, HasBuf
  <2>7. SemInv'
    BY <1>12 DEF WaitTimesOut, SemInv, Handled, Waits
  <2> QED BY <2>1, <2>2, <2>3, <2>4, <2>5, <2>6, <2>7
<1>13. ASSUME NEW c \in Calls, DeinitEmpty(c) PROVE Inv'
  <2>1. TypeOK'
    BY <1>13 DEF DeinitEmpty, Returned, TypeOK
  <2>2. QueueInv'
    BY <1>13 DEF DeinitEmpty, QueueInv
  <2>3. TaskInv'
    BY <1>13 DEF DeinitEmpty, TaskInv, HasBuf
  <2>4. SentInv'
    BY <1>13 DEF DeinitEmpty, Returned, SentInv, HasBuf
  <2>5. BufferInv'
    BY <1>13 DEF DeinitEmpty, Returned, BufferInv, HasBuf, CallerOut, TaskOut
  <2>6. LockInv'
    BY <1>13 DEF DeinitEmpty, Returned, LockInv, HasBuf
  <2>7. SemInv'
    BY <1>13 DEF DeinitEmpty, SemInv, Handled, Waits
  <2> QED BY <2>1, <2>2, <2>3, <2>4, <2>5, <2>6, <2>7
<1>14. ASSUME NEW c \in Calls, DeinitLock(c) PROVE Inv'
  <2>1. TypeOK'
    BY <1>14 DEF DeinitLock, LockAndSearch, TypeOK
  <2>2. QueueInv'
    BY <1>14 DEF DeinitLock, LockAndSearch, QueueInv
  <2>3. TaskInv'
    BY <1>14 DEF DeinitLock, LockAndSearch, TaskInv, HasBuf
  <2>4. SentInv'
    BY <1>14 DEF DeinitLock, LockAndSearch, SentInv, HasBuf
  <2>5. BufferInv'
    BY <1>14 DEF DeinitLock, LockAndSearch, BufferInv, HasBuf, CallerOut, TaskOut
  <2>6. LockInv'
    <3>1. lock = None /\ spc # "locked" /\ \A d \in Calls : pc[d] # "locked"
      BY <1>14 DEF DeinitLock, LockAndSearch, Free, LockInv
    <3>2. found'[c] = (c \in cache)
      BY <1>14 DEF DeinitLock, LockAndSearch, TypeOK
    <3>3. /\ lock' = c /\ HasBuf(c)' /\ cache' = cache /\ spc' # "locked"
          /\ \A d \in Calls : pc'[d] = "locked" => d = c
      BY <1>14, <3>1 DEF DeinitLock, LockAndSearch, HasBuf
    <3> QED BY <3>2, <3>3 DEF LockInv
  <2>7. SemInv'
    BY <1>14 DEF DeinitLock, LockAndSearch, SemInv, Handled, Waits
  <2> QED BY <2>1, <2>2, <2>3, <2>4, <2>5, <2>6, <2>7
<1>15. ASSUME NEW c \in Calls, DeinitUnlock(c) PROVE Inv'
  <2>1. TypeOK'
    BY <1>15 DEF DeinitUnlock, FreeOrKeep, Returned, TypeOK
  <2>2. QueueInv'
    BY <1>15 DEF DeinitUnlock, FreeOrKeep, QueueInv
  <2>3. TaskInv'
    BY <1>15 DEF DeinitUnlock, FreeOrKeep, TaskInv, HasBuf
  <2>4. SentInv'
    BY <1>15 DEF DeinitUnlock, FreeOrKeep, Returned, TypeOK, SentInv, LockInv, HasBuf
  <2>5. BufferInv'
    BY <1>15 DEF DeinitUnlock, FreeOrKeep, Returned, TypeOK, BufferInv, LockInv, HasBuf,
            CallerOut, TaskOut
  <2>6. LockInv'
    BY <1>15 DEF DeinitUnlock, Returned, TypeOK, LockInv
  <2>7. SemInv'
    BY <1>15 DEF DeinitUnlock, FreeOrKeep, SemInv, Handled, Waits
  <2> QED BY <2>1, <2>2, <2>3, <2>4, <2>5, <2>6, <2>7
<1>16. ASSUME UNCHANGED vars PROVE Inv'
  BY <1>16 DEF vars, TypeOK, QueueInv, TaskInv, SentInv, BufferInv, LockInv, SemInv,
              HasBuf, Waits, CallerOut, TaskOut, Handled
<1> QED
  BY <1>1, <1>2, <1>3, <1>4, <1>5, <1>6, <1>7, <1>8, <1>9, <1>10, <1>11, <1>12, <1>13,
          <1>14, <1>15, <1>16 DEF Next, Service, Caller

LEMMA InvHolds == Spec => []Inv
<1>1. Init => Inv
  BY InitInv
<1>2. Inv /\ [Next]_vars => Inv'
  BY NextInv
<1> QED BY <1>1, <1>2, PTL DEF Spec

-----------------------------------------------------------------------------
(* The theorems *)

\* Type correctness of uservice.c and rpc.c: in particular the queue never
\* holds more than queue_count calls.
THEOREM TypeCorrect == Spec => []TypeOK
<1>1. Inv => TypeOK
  BY DEF Inv
<1> QED BY <1>1, InvHolds, PTL

\* rpc_deinit() never frees a buffer the caller or the service task still
\* uses, and never frees one twice.
THEOREM NobodyUsesAFreedBuffer == Spec => []NoUseAfterFree
<1>1. Inv => NoUseAfterFree
  BY DEF Inv, NoUseAfterFree, BufferInv, CallerHolds, TaskHolds, CallerOut, TaskOut
<1> QED BY <1>1, InvHolds, PTL

\* rpc_deinit() frees the buffer of every call that got into the queue.
THEOREM SentBuffersAreReclaimed == Spec => []SentBuffersReclaimed
<1>1. Inv => SentBuffersReclaimed
  BY DEF Inv, SentBuffersReclaimed, BufferInv, CallerOut, TaskOut
<1> QED BY <1>1, InvHolds, PTL

\* uservice_call() of a synchronous call returns 0 only after process_rpc().
THEOREM OkIsHandled == Spec => []OkMeansHandled
<1>1. Inv => OkMeansHandled
  BY DEF Inv, OkMeansHandled, SemInv, Handled
<1> QED BY <1>1, InvHolds, PTL
=============================================================================
