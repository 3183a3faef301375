--------------------------------- MODULE Kv ----------------------------------
(***************************************************************************)
(* The key-value store on NOR flash (components/kv: kv.c).  Items are      *)
(* appended to a block and deleted by overwriting their state byte; when   *)
(* the block is nearly full a garbage collection task copies the live      *)
(* items to the spare block and erases the first.  After a power failure   *)
(* kv_init() repairs what was left half done.                              *)
(*                                                                         *)
(* The shipped configuration has 8 KB in blocks of 4 KB: two blocks, one   *)
(* of them reserved, so the loop over further blocks in kv_calc_position() *)
(* is not compiled.  Items have length 1; a position is a block and an     *)
(* index in it.  A write of an item may be cut anywhere by a power         *)
(* failure, a write of a state byte and an erase happen or do not.  Every  *)
(* allocation may fail, that of the collection task included; a search     *)
(* that fails in kv_item_get() or kv_item_delete() changes nothing.  The   *)
(* flash itself works: reads and writes return no errors, and the CRC of a *)
(* value that was cut never matches.                                       *)
(***************************************************************************)
EXTENDS Integers, Sequences, FiniteSets

CONSTANTS
    Keys, Vals,
    Groups,     \* sets of keys with a common prefix
    Tasks,      \* tasks that use the store
    SIZE,       \* length of a block without its header
    MAXLEN,     \* KV_ITEM_MAX_LEN
    Faults,     \* a subset of {"power", "memory"}
    MaxFaults,  \* bound on faults in a behaviour, outside kv_init()
    MaxSem,     \* bound on the value of gc_sem when a set starts
    MaxPosting, \* bound on posting
    Gc,         \* the garbage collection task, as owner of the lock
    None

Blocks == {0, 1}
Other(b) == 1 - b
Positions == Blocks \X (1 .. SIZE)

ASSUME KvAssumption ==
    /\ SIZE \in Nat /\ MAXLEN \in 1 .. SIZE /\ MaxFaults \in Nat /\ MaxSem \in Nat
    /\ MaxPosting \in Nat \ {0}
    /\ Groups \subseteq SUBSET Keys
    /\ Faults \subseteq {"power", "memory"}
    /\ None \notin Vals \cup Tasks \cup Positions /\ Gc \notin Tasks /\ Gc # None

\* of an item that is deleted or cut short nothing else is ever used
Items == [key : Keys, val : Vals, st : {"normal"}, origin : Positions \cup {None}]
         \cup [st : {"deleted", "header", "body"}]
Waste(s) == [st |-> s]

VARIABLES
    flash,    \* per block: the state in its header, "blank" without a valid
              \* one, and its items; of a "header" or "body" the write was cut
    info,     \* block_info[].state, "none" while the block is not yet read
    clean,    \* clean_blk_nums
    wblk,     \* the block of write_pos, which is the end of its items
    lock,     \* owner of the mutex: a task, Gc or None
    trigger,  \* gc_trigger
    waiter,   \* gc_waiter
    sem,      \* count of gc_sem
    gc,       \* the collection task: its pc, "none" when it could not be
              \* started, and the item it copies
    posting,  \* collection tasks between kv_unlock() and reading gc_waiter
    boot,     \* kv_init(): block, item and phase, "up" when it has returned,
              \* "astray" when write_pos will not be the end of the items
    pc, op,   \* per task: where it is, and the operation it performs
    may,      \* per key: the values a read may return
    exposed,  \* keys whose value the code does not protect (see below)
    stale,    \* tasks that wait for a collection that is already over
    faults

store == <<flash, info, clean, wblk>>
gcvars == <<trigger, waiter, sem, gc, posting, stale>>
tasks == <<pc, op>>
ghosts == <<may, exposed, faults>>
vars == <<flash, info, clean, wblk, lock, trigger, waiter, sem, gc, posting, boot,
          pc, op, may, exposed, stale, faults>>

NoOp == [kind |-> "none", keys |-> {}, key |-> None, val |-> None, old |-> None]
Idle == [pc |-> "off", i |-> 0]
Up == [ph |-> "up", b |-> 0, i |-> 0]

TypeOK ==
    /\ flash \in [Blocks -> [state : {"blank", "clean", "used", "dirty"},
                             items : Seq(Items)]]
    /\ \A b \in Blocks : Len(flash[b].items) < SIZE
    /\ info \in [Blocks -> {"none", "clean", "used", "dirty"}]
    /\ clean \in 0 .. 2 /\ wblk \in Blocks
    /\ lock \in Tasks \cup {Gc, None}
    /\ trigger \in BOOLEAN /\ waiter \in Nat /\ sem \in Nat
    /\ gc.pc \in {"off", "none", "lock", "copy", "erase", "header", "use"}
    /\ gc.i \in 0 .. SIZE
    /\ posting \in 0 .. MaxPosting
    /\ boot.ph \in {"head", "items", "unclean", "astray", "up"} /\ boot.b \in 0 .. 2
    /\ pc \in [Tasks -> {"idle", "count", "take", "blocked", "lock", "append",
                         "delete", "mark", "prefix"}]
    /\ \A t \in Tasks : op[t].old \in Positions \cup {None}
    /\ may \in [Keys -> SUBSET (Vals \cup {None})]
    /\ exposed \subseteq Keys /\ stale \subseteq Tasks /\ faults \in 0 .. MaxFaults

Init ==
    /\ flash = [b \in Blocks |-> [state |-> "blank", items |-> <<>>]]
    /\ info = [b \in Blocks |-> "none"]
    /\ clean = 0 /\ wblk = 0 /\ lock = None
    /\ trigger = FALSE /\ waiter = 0 /\ sem = 0 /\ gc = Idle /\ posting = 0
    /\ boot = [ph |-> "head", b |-> 0, i |-> 1]
    /\ pc = [t \in Tasks |-> "idle"] /\ op = [t \in Tasks |-> NoOp]
    /\ may = [k \in Keys |-> {None}]
    /\ exposed = {} /\ stale = {} /\ faults = 0

-----------------------------------------------------------------------------
(* Flash and the search in it *)

ItemAt(p) == flash[p[1]].items[p[2]]
Written(p) == p[2] <= Len(flash[p[1]].items)
Live(p, k) == Written(p) /\ ItemAt(p).st = "normal" /\ ItemAt(p).key = k
Before(p, q) == p[1] < q[1] \/ (p[1] = q[1] /\ p[2] <= q[2])

FirstOf(S) == IF S = {} THEN None ELSE CHOOSE p \in S : \A q \in S : Before(p, q)

\* kv_item_search(): blocks in order, CLEAN ones skipped
Find(k) == FirstOf({p \in Positions : info[p[1]] # "clean" /\ Live(p, k)})
ValueOf(k) == LET p == Find(k) IN IF p = None THEN None ELSE ItemAt(p).val

SpaceVariant(b) == SIZE - Len(flash[b].items) + 1

Space(b) == SIZE - Len(flash[b].items)

Appended(b, it) == [flash EXCEPT ![b].items = Append(@, it)]
Formatted(b) == [flash EXCEPT ![b] = [state |-> "clean", items |-> <<>>]]
DeletedAt(p) == [flash EXCEPT ![p[1]].items[p[2]] = Waste("deleted")]

\* kv_set_block_state(b, DIRTY) if the block is USED, on flash f and in info
MarkFlash(f, b) == IF info[b] = "used" THEN [f EXCEPT ![b].state = "dirty"] ELSE f

MarkInfoVariant(b) == info

MarkInfo(b) == IF info[b] = "used" THEN [info EXCEPT ![b] = "dirty"] ELSE info

IsUp == boot = Up

\* an allocation fails; those of kv_init() are few and not counted
NoMemory(f) ==
    /\ "memory" \in Faults
    /\ IF IsUp THEN f < MaxFaults /\ faults' = f + 1 ELSE faults' = f

\* kv_trigger_gc(), when cond holds, after f faults; nobody asks whether
\* kv_start_task() had the memory for the task
TriggerGc(cond, f) ==
    IF cond /\ ~trigger
    THEN /\ trigger' = TRUE /\ waiter' = 0
         /\ \/ gc' = [pc |-> "lock", i |-> 1] /\ faults' = f
            \/ gc' = [pc |-> "none", i |-> 0] /\ NoMemory(f)
         /\ stale' = stale \cup {u \in Tasks : posting > 0 /\ pc[u] \in {"take", "blocked"}}
         /\ UNCHANGED <<sem, posting>>
    ELSE faults' = f /\ UNCHANGED gcvars

-----------------------------------------------------------------------------
(* kv_init() *)

NextBlock == [ph |-> IF boot.b = 1 THEN "unclean" ELSE "head", b |-> boot.b + 1, i |-> 1]

\* a block without a valid header is formatted
BootHead ==
    /\ boot.ph = "head"
    /\ LET b == boot.b IN
       IF flash[b].state = "blank"
       THEN /\ flash' = Formatted(b)
            /\ info' = [info EXCEPT ![b] = "clean"]
            /\ clean' = clean + 1 /\ boot' = NextBlock
       ELSE /\ info' = [info EXCEPT ![b] = flash[b].state]
            /\ boot' = [boot EXCEPT !.ph = "items"]
            /\ UNCHANGED <<flash, clean>>
    /\ UNCHANGED <<wblk, lock, gcvars, tasks, ghosts>>

\* kv_item_del(item, KV_UPDATE_FLAG): the item this one has replaced
ReplacedVariant(p) == None

Replaced(p) ==
    LET q == ItemAt(p).origin IN
    IF q # None /\ q # p /\ Live(q, ItemAt(p).key) THEN q ELSE None

\* __item_recovery_cb(), and what kv_item_traverse() does to other items
BootItem ==
    /\ boot.ph = "items" /\ Written(<<boot.b, boot.i>>)
    /\ LET p == <<boot.b, boot.i>>
           q == CASE ItemAt(p).st = "normal" -> Replaced(p)
                  [] ItemAt(p).st = "body" -> p
                  [] OTHER -> None
           b == IF q = None THEN p[1] ELSE q[1] IN
       IF q = None /\ ItemAt(p).st = "normal"
       THEN UNCHANGED <<flash, info>>
       ELSE /\ flash' = MarkFlash(IF q = None THEN flash ELSE DeletedAt(q), b)
            /\ info' = MarkInfo(b)
    /\ boot' = [boot EXCEPT !.i = @ + 1]
    /\ UNCHANGED <<clean, wblk, lock, gcvars, tasks, ghosts>>

\* no memory for the item that replaced another: both stay
BootReplaceFails ==
    /\ boot.ph = "items" /\ Written(<<boot.b, boot.i>>)
    /\ LET p == <<boot.b, boot.i>> IN
       /\ ItemAt(p).st = "normal" /\ Replaced(p) # None
       /\ exposed' = exposed \cup {ItemAt(p).key}
    /\ NoMemory(faults)
    /\ boot' = [boot EXCEPT !.i = @ + 1]
    /\ UNCHANGED <<store, lock, gcvars, tasks, may>>

\* No memory for an item or in the callback: the traversal of the block ends, and
\* block_info[].space stays 0, which is not what an empty block has.  A CLEAN
\* block beside one in use is formatted anyway.  Any other comes to be the block
\* of write_pos, which is then its end; what the store does after that, writing
\* over the header of the next block or behind the last, is not followed.
BootItemFails ==
    /\ boot.ph = "items"
    /\ NoMemory(faults)
    /\ IF flash[boot.b].state = "clean" /\ flash[Other(boot.b)].state \in {"used", "dirty"}
       THEN /\ clean' = IF flash[boot.b].items = <<>> THEN clean + 1 ELSE clean
            /\ boot' = NextBlock
       ELSE boot' = [boot EXCEPT !.ph = "astray"] /\ UNCHANGED clean
    /\ UNCHANGED <<flash, info, wblk, lock, gcvars, tasks, may, exposed>>

BootBlockDoneVariant ==
    /\ boot.ph = "items" /\ ~Written(<<boot.b, boot.i>>)
    /\ clean' = IF flash[boot.b].state = "clean" THEN clean + 1 ELSE clean
    /\ boot' = NextBlock
    /\ UNCHANGED <<flash, info, wblk, lock, gcvars, tasks, ghosts>>

\* a CLEAN block counts only when it is empty
BootBlockDone ==
    /\ boot.ph = "items" /\ ~Written(<<boot.b, boot.i>>)
    /\ clean' = IF flash[boot.b].state = "clean" /\ boot.i = 1 THEN clean + 1 ELSE clean
    /\ boot' = NextBlock
    /\ UNCHANGED <<flash, info, wblk, lock, gcvars, tasks, ghosts>>

\* CLEAN blocks that hold items: a collection was interrupted
Unclean == {b \in Blocks : info[b] = "clean" /\ Len(flash[b].items) > 0}

\* with another clean block the copies are all there is, without one the
\* originals are still there
KeepCopiesVariant == clean > 1

KeepCopies == clean >= 1

BootUnclean ==
    /\ boot.ph = "unclean" /\ Unclean # {}
    /\ LET b == CHOOSE c \in Unclean : \A d \in Unclean : d <= c IN
       IF KeepCopies
       THEN /\ flash' = [flash EXCEPT ![b].state = "dirty"]
            /\ info' = [info EXCEPT ![b] = "dirty"]
            /\ UNCHANGED clean
       ELSE /\ flash' = Formatted(b)
            /\ clean' = clean + 1
            /\ UNCHANGED info
    /\ UNCHANGED <<wblk, lock, gcvars, boot, tasks, ghosts>>

\* without any clean block, block 0 is given up
WithSpare == IF clean = 0 THEN Formatted(0) ELSE flash
SpareInfo == IF clean = 0 THEN [info EXCEPT ![0] = "clean"] ELSE info

BootReady ==
    /\ boot.ph = "unclean" /\ Unclean = {}
    /\ LET n == IF clean = 0 THEN 1 ELSE clean IN
       IF n = 2
       THEN /\ wblk' = 0 /\ clean' = 1
            /\ flash' = [WithSpare EXCEPT ![0].state = "used"]
            /\ info' = [SpareInfo EXCEPT ![0] = "used"]
       ELSE /\ wblk' = CHOOSE b \in Blocks : SpareInfo[b] # "clean"
            /\ clean' = n /\ flash' = WithSpare /\ info' = SpareInfo
    /\ TriggerGc(SIZE - Len(flash'[wblk'].items) < MAXLEN, faults)
    /\ boot' = Up
    /\ may' = [k \in Keys |-> IF ValueOf(k) \in may[k] THEN {ValueOf(k)} ELSE may[k]]
    /\ UNCHANGED <<lock, tasks, exposed>>

-----------------------------------------------------------------------------
(* kv_item_set(), kv_item_delete(), kv_item_delete_by_prefix() *)

Goto(t, l) == pc' = [pc EXCEPT ![t] = l]
Return(t) == Goto(t, "idle") /\ op' = [op EXCEPT ![t] = NoOp]

SetEnter(t, k, v) ==
    /\ IsUp /\ pc[t] = "idle" /\ sem <= MaxSem
    /\ op' = [op EXCEPT ![t] = [kind |-> "set", keys |-> {}, key |-> k, val |-> v,
                                old |-> None]]
    /\ Goto(t, IF trigger THEN "count" ELSE "lock")
    /\ UNCHANGED <<store, lock, gcvars, boot, ghosts>>

SetCount(t) ==
    /\ pc[t] = "count"
    /\ waiter' = waiter + 1
    /\ Goto(t, "take")
    /\ UNCHANGED <<store, lock, trigger, sem, gc, posting, boot, op, ghosts, stale>>

\* krhino_sem_take()
SetTake(t) ==
    /\ pc[t] = "take"
    /\ IF sem > 0
       THEN sem' = sem - 1 /\ Goto(t, "lock") /\ stale' = stale \ {t}
       ELSE Goto(t, "blocked") /\ UNCHANGED <<sem, stale>>
    /\ UNCHANGED <<store, lock, trigger, waiter, gc, posting, boot, op, ghosts>>

NewItem(t) == [key |-> op[t].key, val |-> op[t].val, st |-> "normal", origin |-> op[t].old]

\* kv_item_store() up to the write, after f faults: kv_calc_position() finds
\* room or starts a collection; p is the item to replace
Store(t, p, f) ==
    /\ TriggerGc(Space(wblk) - 1 < MAXLEN /\ clean <= 1, f)
    /\ IF Space(wblk) > 1
       THEN /\ lock' = t /\ Goto(t, "append")
            /\ op' = [op EXCEPT ![t].old = p]
       ELSE /\ Return(t) /\ UNCHANGED lock
    /\ UNCHANGED <<store, boot, may>>

SetLock(t) ==
    /\ pc[t] = "lock" /\ lock = None
    /\ IF ValueOf(op[t].key) = op[t].val
       THEN Return(t) /\ UNCHANGED <<store, lock, gcvars, boot, ghosts>>
       ELSE Store(t, Find(op[t].key), faults) /\ UNCHANGED exposed

\* no memory while searching: the key is taken for a new one
SearchFails(t) ==
    /\ pc[t] = "lock" /\ lock = None
    /\ "memory" \in Faults /\ faults < MaxFaults /\ Find(op[t].key) # None
    /\ exposed' = exposed \cup {op[t].key}
    /\ Store(t, None, faults + 1)

\* no memory for the item to write: an error, and nothing is changed
SetFails(t) ==
    /\ pc[t] = "lock" /\ lock = None /\ ValueOf(op[t].key) # op[t].val
    /\ NoMemory(faults)
    /\ Return(t)
    /\ UNCHANGED <<store, lock, gcvars, boot, may, exposed>>

AppendItem(t) ==
    /\ pc[t] = "append"
    /\ flash' = Appended(wblk, NewItem(t))
    /\ IF op[t].old = None
       THEN /\ may' = [may EXCEPT ![op[t].key] = {op[t].val}]
            /\ Return(t) /\ lock' = None
       ELSE /\ may' = [may EXCEPT ![op[t].key] = @ \cup {op[t].val}]
            /\ Goto(t, "delete") /\ UNCHANGED <<op, lock>>
    /\ UNCHANGED <<info, clean, wblk, gcvars, boot, exposed, faults>>

\* kv_item_del(item, KV_DELETE_FLAG): the item's state byte
DeleteItem(t) ==
    /\ pc[t] = "delete"
    /\ flash' = DeletedAt(op[t].old)
    /\ Goto(t, "mark")
    /\ may' = [may EXCEPT ![op[t].key] = @ \cup {op[t].val}]
    /\ UNCHANGED <<info, clean, wblk, lock, gcvars, boot, op, exposed, faults>>

\* ... and the block's state byte
MarkDirty(t) ==
    /\ pc[t] = "mark"
    /\ LET b == op[t].old[1] IN
       flash' = MarkFlash(flash, b) /\ info' = MarkInfo(b)
    /\ may' = [may EXCEPT ![op[t].key] = {op[t].val}]
    /\ IF op[t].kind = "prefix"
       THEN Goto(t, "prefix") /\ UNCHANGED <<op, lock>>
       ELSE Return(t) /\ lock' = None
    /\ UNCHANGED <<clean, wblk, gcvars, boot, exposed, faults>>

Delete(t, k) ==
    /\ IsUp /\ pc[t] = "idle" /\ lock = None
    /\ Find(k) # None
    /\ op' = [op EXCEPT ![t] = [kind |-> "delete", keys |-> {}, key |-> k, val |-> None,
                                old |-> Find(k)]]
    /\ lock' = t /\ Goto(t, "delete")
    /\ UNCHANGED <<store, gcvars, boot, ghosts>>

DeleteByPrefix(t, G) ==
    /\ IsUp /\ pc[t] = "idle" /\ lock = None
    /\ op' = [op EXCEPT ![t] = [kind |-> "prefix", keys |-> G, key |-> None, val |-> None,
                                old |-> None]]
    /\ lock' = t /\ Goto(t, "prefix")
    /\ UNCHANGED <<store, gcvars, boot, ghosts>>

\* __item_del_by_prefix_cb() on the next item that matches
PrefixNext(t) ==
    /\ pc[t] = "prefix"
    /\ LET p == FirstOf({q \in Positions : \E k \in op[t].keys : Live(q, k)}) IN
       IF p = None
       THEN Return(t) /\ lock' = None
       ELSE /\ op' = [op EXCEPT ![t].old = p, ![t].key = ItemAt(p).key]
            /\ Goto(t, "delete") /\ UNCHANGED lock
    /\ UNCHANGED <<store, gcvars, boot, ghosts>>

\* No memory for an item or its key: the traversal ends, and with it all that is
\* to be deleted since the other block is empty; KV_OK is returned all the same.
PrefixFails(t) ==
    /\ pc[t] = "prefix"
    /\ NoMemory(faults)
    /\ exposed' = exposed \cup {k \in op[t].keys : \E q \in Positions : Live(q, k)}
    /\ Return(t) /\ lock' = None
    /\ UNCHANGED <<store, gcvars, boot, may>>

-----------------------------------------------------------------------------
(* kv_gc_task() *)

\* trigger is reset and the lock released; gc_waiter is read afterwards
GcUnlock ==
    /\ gc' = Idle /\ trigger' = FALSE /\ lock' = None
    /\ posting' = posting + 1

\* only a DIRTY block is collected, into the clean one
GcLock ==
    /\ gc.pc = "lock" /\ lock = None /\ posting < MaxPosting
    /\ IF clean > 0 /\ \E b \in Blocks : info[b] = "dirty"
       THEN /\ wblk' = CHOOSE b \in Blocks : info[b] = "clean"
            /\ gc' = [pc |-> "copy", i |-> 1]
            /\ lock' = Gc
            /\ UNCHANGED <<trigger, posting>>
       ELSE GcUnlock /\ UNCHANGED wblk
    /\ UNCHANGED <<flash, info, clean, waiter, sem, stale, boot, tasks, ghosts>>

From == Other(wblk)    \* the block that is collected

\* __item_gc_cb(): the item as it is, origin_off included
GcCopy ==
    /\ gc.pc = "copy"
    /\ IF Written(<<From, gc.i>>)
       THEN /\ gc' = [gc EXCEPT !.i = @ + 1]
            /\ flash' = IF ItemAt(<<From, gc.i>>).st = "normal"
                        THEN Appended(wblk, ItemAt(<<From, gc.i>>)) ELSE flash
       ELSE /\ gc' = [gc EXCEPT !.pc = "erase"]
            /\ UNCHANGED flash
    /\ UNCHANGED <<info, clean, wblk, lock, trigger, waiter, sem, posting, stale, boot,
                   tasks, ghosts>>

\* no memory for a copy: the traversal ends, the block is erased all the same
GcCopyFails ==
    /\ gc.pc = "copy" /\ Written(<<From, gc.i>>)
    /\ NoMemory(faults)
    /\ exposed' = exposed \cup {k \in Keys : \E j \in gc.i .. SIZE : Live(<<From, j>>, k)}
    /\ gc' = [gc EXCEPT !.pc = "erase"]
    /\ UNCHANGED <<store, lock, trigger, waiter, sem, posting, stale, boot, tasks, may>>

\* kv_block_format()
GcErase ==
    /\ gc.pc = "erase"
    /\ flash' = [flash EXCEPT ![From] = [state |-> "blank", items |-> <<>>]]
    /\ gc' = [gc EXCEPT !.pc = "header"]
    /\ UNCHANGED <<info, clean, wblk, lock, trigger, waiter, sem, posting, stale, boot,
                   tasks, ghosts>>

GcHeader ==
    /\ gc.pc = "header"
    /\ flash' = Formatted(From)
    /\ info' = [info EXCEPT ![From] = "clean"]
    /\ clean' = clean + 1
    /\ gc' = [gc EXCEPT !.pc = "use"]
    /\ UNCHANGED <<wblk, lock, trigger, waiter, sem, posting, stale, boot, tasks, ghosts>>

GcUse ==
    /\ gc.pc = "use"
    /\ flash' = [flash EXCEPT ![wblk].state = "used"]
    /\ info' = [info EXCEPT ![wblk] = "used"]
    /\ clean' = clean - 1
    /\ GcUnlock
    /\ UNCHANGED <<wblk, waiter, sem, stale, boot, tasks, ghosts>>

WakesVariant == waiter > 1

Wakes == waiter > 0

\* krhino_sem_give_all() wakes the blocked tasks, or counts up by one
GcPost ==
    /\ posting > 0
    /\ posting' = posting - 1
    /\ LET blocked == {t \in Tasks : pc[t] = "blocked"}
           late    == {t \in Tasks : pc[t] \in {"count", "take"}} IN
       IF Wakes
       THEN /\ pc' = [t \in Tasks |-> IF t \in blocked THEN "lock" ELSE pc[t]]
            /\ sem' = IF blocked = {} THEN sem + 1 ELSE sem
            /\ stale' = (stale \ blocked) \cup late
       ELSE stale' = stale \cup late /\ UNCHANGED <<pc, sem>>
    /\ UNCHANGED <<store, lock, trigger, waiter, gc, boot, op, ghosts>>

-----------------------------------------------------------------------------
(* Power *)

\* an item is being written
Writing ==
    \/ \E t \in Tasks : pc[t] = "append"
    \/ /\ gc.pc = "copy" /\ Written(<<From, gc.i>>)
       /\ ItemAt(<<From, gc.i>>).st = "normal"

\* what a power failure leaves of it
Remains == {<<>>} \cup {<<Waste(s)>> : s \in IF Writing THEN {"header", "body"} ELSE {}}

\* keys with an item at its own origin_off and a copy of it in a CLEAN block:
\* recovery takes the copy for an update of the original
Undermined ==
    {k \in Keys : \E p \in Positions :
        /\ Live(p, k) /\ ItemAt(p).origin = p
        /\ \E q \in Positions :
              p[1] # q[1] /\ Live(q, k) /\ flash[q[1]].state = "clean"}

PowerFails ==
    /\ "power" \in Faults /\ faults < MaxFaults /\ boot.ph # "astray"
    /\ faults' = faults + 1
    /\ \E left \in Remains : flash' = [flash EXCEPT ![wblk].items = @ \o left]
    /\ info' = [b \in Blocks |-> "none"]
    /\ clean' = 0 /\ wblk' = 0 /\ lock' = None
    /\ trigger' = FALSE /\ waiter' = 0 /\ sem' = 0 /\ gc' = Idle /\ posting' = 0
    /\ boot' = [ph |-> "head", b |-> 0, i |-> 1]
    /\ pc' = [t \in Tasks |-> "idle"] /\ op' = [t \in Tasks |-> NoOp]
    /\ exposed' = exposed \cup Undermined
    /\ stale' = {}
    /\ UNCHANGED may

-----------------------------------------------------------------------------
Boot == BootHead \/ BootItem \/ BootReplaceFails \/ BootItemFails \/ BootBlockDone
        \/ BootUnclean \/ BootReady
Collect == GcLock \/ GcCopy \/ GcCopyFails \/ GcErase \/ GcHeader \/ GcUse \/ GcPost
Work(t) == SetCount(t) \/ SetTake(t) \/ SetLock(t) \/ SearchFails(t) \/ SetFails(t)
           \/ AppendItem(t) \/ DeleteItem(t) \/ MarkDirty(t) \/ PrefixNext(t) \/ PrefixFails(t)

Next ==
    \/ Boot
    \/ \E t \in Tasks :
        \/ \E k \in Keys, v \in Vals : SetEnter(t, k, v)
        \/ \E k \in Keys : Delete(t, k)
        \/ \E G \in Groups : DeleteByPrefix(t, G)
        \/ Work(t)
    \/ Collect
    \/ PowerFails

Spec == Init /\ [][Next]_vars

-----------------------------------------------------------------------------
Quiet == IsUp /\ lock = None

\* Whenever the store can be read, a key has the value of the last set or
\* delete that returned; an operation cut by a power failure has happened or
\* has not, and stays so.  Exempt are the exposed keys (a search, a copy, a
\* deletion by prefix or the end of an update found no memory, or recovery met
\* an item at its own origin_off) and a store that kv_init() has led astray,
\* which is never Quiet.
Durable == Quiet => \A k \in Keys \ exposed : ValueOf(k) \in may[k]

\* The same for every key: what persistent storage means.
Persistent == Quiet => \A k \in Keys : ValueOf(k) \in may[k]

\* No key has two live items once the store can be read: an update that was
\* cut has been finished by kv_init(), and a collection leaves no copy behind.
\* Exempt are the same keys and the same store.
OneLiveItem ==
    Quiet => \A k \in Keys \ exposed : \A p \in Positions :
                Live(p, k) => \A q \in Positions : Live(q, k) => p = q

\* One block is always clean and empty, the other takes the writes, the
\* counter and the headers agree, and no boot ever gives up block 0.
SpareBlock ==
    /\ Quiet => /\ clean = 1
                /\ \E b \in Blocks : /\ info[b] = "clean" /\ flash[b].items = <<>>
                                     /\ wblk = Other(b) /\ info[wblk] # "clean"
                /\ \A b \in Blocks : flash[b].state = info[b]
    /\ boot.ph = "unclean" /\ Unclean = {} => clean > 0

\* A block with a deleted item is DIRTY: the collection looks at no others, so
\* its space would be lost for ever.
GarbageIsMarked ==
    Quiet => \A b \in Blocks : info[b] = "used" =>
                \A i \in 1 .. Len(flash[b].items) : flash[b].items[i].st = "normal"

\* A task that stays blocked on gc_sem with no collection on its way got there too
\* late (it had seen gc_trigger, but was not yet blocked when the collection
\* posted, or the next collection had reset gc_waiter before that), or waits for
\* one that could not be started: kv_trigger_gc() leaves gc_trigger set, so that
\* every set is stranded from then on.
OnlyLateWaitersStrand ==
    \A t \in Tasks :
        pc[t] = "blocked" /\ gc.pc \in {"off", "none"} /\ posting = 0 =>
            t \in stale \/ gc.pc = "none"

-----------------------------------------------------------------------------
(* The map the store stands for *)

\* The value an item of key k has, or would have after a recovery: of an item
\* and the one that names it as replaced the latter is kept, and of two that
\* name each other the first.
ItemsOf(k) == {p \in Positions : Live(p, k)}
Outdates(q, p) == q # p /\ ItemAt(q).origin = p /\ ~(ItemAt(p).origin = q /\ Before(p, q))
Recovered(k) ==
    LET S == ItemsOf(k) IN
    IF S = {} THEN None ELSE ItemAt(CHOOSE p \in S : \A q \in S : ~Outdates(q, p)).val

Stored(k) == IF k \in exposed THEN None ELSE Recovered(k)

\* the changes task t has asked for and not made
Pending(t, k, v) ==
    \/ /\ pc[t] \in {"count", "take", "blocked", "lock", "append"}
       /\ k = op[t].key /\ v = op[t].val
    \/ /\ pc[t] = "delete" /\ op[t].kind \in {"set", "delete"}
       /\ k = op[t].key /\ v = op[t].val /\ Stored(k) # v
    \/ /\ pc[t] \in {"prefix", "delete", "mark"} /\ op[t].kind = "prefix"
       /\ k \in op[t].keys /\ v = None /\ Stored(k) # None
Todo(t) == {c \in Keys \X (Vals \cup {None}) : Pending(t, c[1], c[2])}

Map == INSTANCE KvMap
    WITH map <- [k \in Keys |-> Stored(k)], todo <- [t \in Tasks |-> Todo(t)], lost <- exposed

\* The store implements the map of KvMap: a set or delete takes effect in one
\* step, and neither a collection nor a power failure nor a recovery changes
\* the value of a key ...
StoreIsAMap == Map!Spec

\* ... and whenever the store can be read, the map is what is read.
ReadsTheMap == Quiet => \A k \in Keys \ exposed : ValueOf(k) = Stored(k)

=============================================================================
