------------------------------ MODULE KvProofs -------------------------------
(***************************************************************************)
(* The key-value store for every number of keys, values, tasks and faults  *)
(* and every block size: one block is always spare, garbage is always      *)
(* marked, and only a task that came too late, or whose collection could   *)
(* not be started, waits in vain.  The second part, from "What is stored"  *)
(* on, is about the items: what was stored is what is read, across power   *)
(* failures, recovery and collections, for the keys that are not exposed.  *)
(* The third, from "The map the store stands for" on, shows that the store *)
(* implements KvMap.  A store that kv_init() has led astray is followed no *)
(* further.                                                                *)
(***************************************************************************)
EXTENDS Kv, SequenceTheorems, FiniteSetTheorems, WellFoundedInduction, TLAPS

States == {"blank", "clean", "used", "dirty"}
Flash == [Blocks -> [state : States, items : Seq(Items)]]
Ops == [kind : {"none", "set", "delete", "prefix"}, keys : SUBSET Keys,
        key : Keys \cup {None}, val : Vals \cup {None}, old : Positions \cup {None}]

Setting == {"count", "take", "blocked", "lock", "append"}
Holding == {"append", "delete", "mark", "prefix"}
Collecting == {"copy", "erase", "header", "use"}

\* The operation a task performs has what its step needs.
OpInv ==
    /\ op \in [Tasks -> Ops]
    /\ \A t \in Tasks :
        /\ pc[t] \in Setting => op[t].key \in Keys /\ op[t].val \in Vals /\ op[t].kind = "set"
        /\ pc[t] \in {"delete", "mark"} => op[t].key \in Keys
        /\ op[t].kind \in {"delete", "prefix"} => op[t].val = None

\* Who holds the lock is in a critical section; while kv_init() runs there are
\* no other tasks.
LockInv ==
    /\ \A t \in Tasks : lock = t <=> pc[t] \in Holding
    /\ lock = Gc <=> gc.pc \in Collecting
    /\ gc \in [pc : {"off", "none", "lock"} \cup Collecting, i : Nat]
    /\ trigger <=> gc.pc # "off"
    /\ gc.pc \in Collecting => posting < MaxPosting
    /\ boot.ph # "up" => /\ pc = [t \in Tasks |-> "idle"]
                         /\ lock = None /\ gc.pc = "off" /\ posting = 0
    /\ boot.ph = "up" => boot = Up

\* A block without a header is empty, and never are both blocks in use.
DiskInv ==
    /\ \A b \in Blocks : flash[b].state = "blank" => flash[b].items = <<>>
    /\ flash[0].state \in {"blank", "clean"} \/ flash[1].state \in {"blank", "clean"}

Empty(b) == flash[b].state = "clean" /\ flash[b].items = <<>>
Count(b) == IF b < boot.b /\ Empty(b) THEN 1 ELSE 0
Read(b) == b < boot.b \/ (b = boot.b /\ boot.ph \in {"items", "astray"})

\* How far kv_init() has come: it knows the headers it has read, and has counted
\* the clean blocks.
BootInv ==
    boot.ph # "up" =>
        /\ boot \in [ph : {"head", "items", "unclean", "astray"}, b : 0 .. 2, i : Nat \ {0}]
        /\ boot.ph = "unclean" <=> boot.b = 2
        /\ boot.ph = "head" => boot.i = 1
        /\ boot.ph \in {"items", "astray"} => boot.i <= Len(flash[boot.b].items) + 1
        /\ \A b \in Blocks : Read(b) => info[b] = flash[b].state /\ flash[b].state # "blank"
        /\ \A b \in Blocks : ~Read(b) => info[b] = "none"
        /\ clean = Count(0) + Count(1)

\* The store between two collections: one block takes the writes, the other is
\* clean and empty.
Settled ==
    /\ clean = 1 /\ info[Other(wblk)] = "clean" /\ Empty(Other(wblk))
    /\ info[wblk] \in {"used", "dirty"} /\ flash[wblk].state = info[wblk]

\* ... and while a collection moves the items from From to wblk.
Moving ==
    /\ info[wblk] = "clean" /\ flash[wblk].state = "clean"
    /\ \A i \in 1 .. Len(flash[wblk].items) : flash[wblk].items[i].st = "normal"
    /\ gc.pc = "copy" => /\ gc.i \in 1 .. Len(flash[From].items) + 1
                         /\ Len(flash[wblk].items) < gc.i
    /\ gc.pc \in {"copy", "erase"} => flash[From].state = "dirty"
    /\ gc.pc = "header" => flash[From].state = "blank"
    /\ gc.pc = "use" => Empty(From) /\ clean = 2 /\ info[From] = "clean"
    /\ gc.pc # "use" => clean = 1 /\ info[From] = "dirty"

StoreInv ==
    boot.ph = "up" => /\ gc.pc \notin Collecting => Settled
                      /\ gc.pc \in Collecting => Moving

\* The item an operation replaces or deletes is in the block it writes to.
OldInv ==
    \A t \in Tasks :
        /\ pc[t] = "append" => Len(flash[wblk].items) + 1 < SIZE
        /\ (pc[t] = "append" /\ op[t].old # None) \/ pc[t] \in {"delete", "mark"}
             => op[t].old \in Positions /\ op[t].old[1] = wblk /\ Written(op[t].old)

\* Garbage in a USED block is about to be marked, or kv_init() has not come to
\* it yet.
Unmarked(b, i) ==
    \/ boot.ph # "up" /\ b = boot.b /\ i >= boot.i
    \/ \E t \in Tasks : pc[t] = "mark" /\ op[t].old = <<b, i>>
MarkInv ==
    \A b \in Blocks : info[b] = "used" =>
        \A i \in 1 .. Len(flash[b].items) : flash[b].items[i].st = "normal" \/ Unmarked(b, i)

\* A task that waits and is not too late has been counted, and a collection
\* or its post is still to come.
WaitInv ==
    \A t \in Tasks : t \notin stale =>
        /\ pc[t] \in {"count", "take", "blocked"} => trigger \/ posting > 0
        /\ pc[t] \in {"take", "blocked"} => waiter > 0

IInv == /\ TypeOK /\ OpInv /\ LockInv /\ DiskInv /\ BootInv /\ StoreInv
        /\ OldInv /\ MarkInv /\ WaitInv


-----------------------------------------------------------------------------
(* Blocks, positions and the search *)

Infos == [Blocks -> {"none", "clean", "used", "dirty"}]

\* The sizes are natural numbers, and a block has room for at least one item.
LEMMA SizeFacts ==
  /\ SIZE \in Nat /\ SIZE >= 1 /\ MAXLEN \in Nat
  /\ MaxFaults \in Nat /\ MaxPosting \in Nat /\ MaxPosting >= 1
  BY KvAssumption

\* There are two blocks, each the other one of the other.
LEMMA BlockFacts ==
  /\ 0 \in Blocks /\ 1 \in Blocks /\ Other(0) = 1 /\ Other(1) = 0
  /\ \A b \in Blocks : /\ Other(b) \in Blocks /\ Other(b) # b /\ Other(Other(b)) = b
                       /\ b = 0 \/ b = 1
                       /\ \A c \in Blocks : c # b => c = Other(b)
  BY DEF Blocks, Other

\* A position is a block and an index in it.
LEMMA PositionFacts ==
  /\ \A p \in Positions : p[1] \in Blocks /\ p[2] \in 1 .. SIZE /\ p = <<p[1], p[2]>>
  /\ \A b \in Blocks, i \in 1 .. SIZE : <<b, i>> \in Positions
  /\ \A b, i : <<b, i>>[1] = b /\ <<b, i>>[2] = i
  /\ None \notin Positions
  BY KvAssumption DEF Positions

\* A set of natural numbers that is not empty has a least element.  (The
\* intervals 0 .. n, for n in the set, are finite sets, and finite sets are well
\* founded under inclusion.)
LEMMA LeastNumber ==
  ASSUME NEW T, T \subseteq Nat, T # {}
  PROVE  \E x \in T : \A y \in T : x <= y
<1> DEFINE U == {0 .. n : n \in T}
           R == StrictSubsetOrdering(Nat)
           F == FiniteSubsetsOf(Nat)
<1>1. IsWellFoundedOn(R, F)
  BY FS_StrictSubsetOrderingWellFounded
<1>2. U \subseteq F
  <2>1. \A n \in Nat : IsFiniteSet(0 .. n) /\ 0 .. n \subseteq Nat
    BY FS_Interval
  <2> QED BY <2>1 DEF FiniteSubsetsOf
<1>3. U # {}
  OBVIOUS
<1> HIDE DEF U, R, F
<1>4. \E x \in U : \A y \in U : ~ (<<y, x>> \in R)
  BY <1>1, <1>2, <1>3, WFMin, Zenon
<1>5. PICK m \in T : \A y \in U : ~ (<<y, 0 .. m>> \in R)
  BY <1>4 DEF U
<1>6. ASSUME NEW y \in T, y < m PROVE FALSE
  <2>1. 0 .. y \in U
    BY DEF U
  <2>2. 0 .. y \subseteq 0 .. m /\ 0 .. y # 0 .. m
    <3>1. m \in 0 .. m /\ m \notin 0 .. y
      BY <1>6
    <3> QED BY <1>6, <3>1
  <2>3. <<0 .. y, 0 .. m>> \in R
    BY <2>2 DEF R, StrictSubsetOrdering
  <2> QED BY <1>5, <2>1, <2>3
<1> QED BY <1>6

\* The search finds one of the positions it looks for, if there is any.
LEMMA FirstFacts ==
  ASSUME NEW S, S \subseteq Positions, S # {}
  PROVE  FirstOf(S) \in S /\ FirstOf(S) # None
<1> DEFINE T == {p[1] * SIZE + p[2] : p \in S}
<1>1. \A p \in S : p[1] \in {0, 1} /\ p[2] \in 1 .. SIZE /\ SIZE \in Nat
  BY PositionFacts, SizeFacts DEF Blocks
<1>2. \A p \in S : p[1] * SIZE = IF p[1] = 0 THEN 0 ELSE SIZE
  BY <1>1
<1>3. T \subseteq Nat /\ T # {}
  BY <1>1, <1>2
<1>4. PICK p \in S : \A q \in S : p[1] * SIZE + p[2] <= q[1] * SIZE + q[2]
  <2>1. PICK x \in T : \A y \in T : x <= y
    BY <1>3, LeastNumber
  <2> QED BY <2>1
<1>5. \A q \in S : Before(p, q)
  <2> SUFFICES ASSUME NEW q \in S PROVE Before(p, q)
    OBVIOUS
  <2>1. p[1] * SIZE + p[2] <= q[1] * SIZE + q[2]
    BY <1>4
  <2> QED BY <1>1, <1>2, <2>1 DEF Before
<1>6. FirstOf(S) \in S
  BY <1>5 DEF FirstOf
<1> QED BY <1>6, PositionFacts

-----------------------------------------------------------------------------
(* Writes to the flash *)

\* Adding an item.
LEMMA AppendFacts ==
  ASSUME flash \in Flash, NEW b \in Blocks, NEW it \in Items
  PROVE  LET f == Appended(b, it)
             s == flash[b].items IN
         /\ f \in Flash
         /\ f[b].state = flash[b].state /\ Len(f[b].items) = Len(s) + 1
         /\ \A i \in 1 .. Len(s) : f[b].items[i] = s[i]
         /\ f[b].items[Len(s) + 1] = it
         /\ f[Other(b)] = flash[Other(b)]
<1> DEFINE s == flash[b].items
           f == Appended(b, it)
<1>1. s \in Seq(Items) /\ flash[b] \in [state : States, items : Seq(Items)]
  BY DEF Flash
<1>2. f = [flash EXCEPT ![b].items = Append(s, it)]
  BY DEF Appended
<1> HIDE DEF s
<1>3. /\ Append(s, it) \in Seq(Items) /\ Len(Append(s, it)) = Len(s) + 1
      /\ \A i \in 1 .. Len(s) : Append(s, it)[i] = s[i]
      /\ Append(s, it)[Len(s) + 1] = it
  BY <1>1
<1> DEFINE a == Append(s, it)
<1> HIDE DEF f, a
<1>4. f = [flash EXCEPT ![b].items = a] /\ a \in Seq(Items)
  BY <1>2, <1>3 DEF a
<1>5. f \in Flash /\ f[b].state = flash[b].state /\ f[b].items = a
  BY <1>1, <1>4 DEF Flash
<1>6. f[Other(b)] = flash[Other(b)]
  BY <1>4, BlockFacts DEF Flash
<1> QED BY <1>3, <1>5, <1>6 DEF s, f, a

\* Formatting a block.
LEMMA FormatFacts ==
  ASSUME flash \in Flash, NEW b \in Blocks, NEW s \in States
  PROVE  LET f == [flash EXCEPT ![b] = [state |-> s, items |-> <<>>]] IN
         /\ f \in Flash /\ f[b].state = s /\ f[b].items = <<>>
         /\ f[Other(b)] = flash[Other(b)]
<1>1. <<>> \in Seq(Items)
  OBVIOUS
<1> QED BY <1>1, BlockFacts DEF Flash

\* Writing the state byte of a block.
WithState(g, b, s) == [g EXCEPT ![b].state = s]
LEMMA StateFacts ==
  ASSUME NEW g \in Flash, NEW b \in Blocks, NEW s \in States,
         NEW f, f = WithState(g, b, s)
  PROVE  /\ f \in Flash /\ f[b].state = s /\ f[b].items = g[b].items
         /\ f[Other(b)] = g[Other(b)]
<1>1. f \in Flash
  BY DEF Flash, WithState
<1>2. f[b].state = s /\ f[b].items = g[b].items
  BY DEF Flash, WithState
<1>3. Other(b) \in Blocks /\ Other(b) # b
  BY BlockFacts
<1>4. f[Other(b)] = g[Other(b)]
  BY <1>3 DEF Flash, WithState
<1> QED BY <1>1, <1>2, <1>4

\* Writing the state byte of an item.
LEMMA DeleteFacts ==
  ASSUME flash \in Flash, NEW p \in Positions, Written(p)
  PROVE  LET f == DeletedAt(p) IN
         /\ f \in Flash
         /\ \A c \in Blocks :
              /\ f[c].state = flash[c].state /\ Len(f[c].items) = Len(flash[c].items)
              /\ \A i \in 1 .. Len(flash[c].items) :
                   f[c].items[i] = IF c = p[1] /\ i = p[2] THEN Waste("deleted")
                                                          ELSE flash[c].items[i]
<1> DEFINE b == p[1]
           n == p[2]
           s == flash[b].items
           f == DeletedAt(p)
           w == Waste("deleted")
<1>1. b \in Blocks /\ n \in 1 .. SIZE /\ SIZE \in Nat
  BY PositionFacts, SizeFacts
<1>2. s \in Seq(Items) /\ n \in 1 .. Len(s) /\ Len(s) \in Nat
  BY <1>1 DEF Flash, Written
<1>3. w \in Items
  BY DEF Waste, Items
<1>4. f = [flash EXCEPT ![b].items = [s EXCEPT ![n] = w]]
  BY DEF DeletedAt
<1> HIDE DEF b, n, s, f, w
<1> DEFINE a == [s EXCEPT ![n] = w]
<1>5. /\ a \in Seq(Items) /\ Len(a) = Len(s)
      /\ \A i \in 1 .. Len(s) : a[i] = IF i = n THEN w ELSE s[i]
  BY <1>2, <1>3, ExceptSeq
<1>6. f = [flash EXCEPT ![b].items = a]
  BY <1>4
<1> HIDE DEF a
<1>7. f \in Flash /\ f[b].state = flash[b].state /\ f[b].items = a
  BY <1>1, <1>5, <1>6 DEF Flash
<1>8. \A c \in Blocks : c # b => f[c] = flash[c]
  BY <1>6 DEF Flash
<1>9. ASSUME NEW c \in Blocks
      PROVE  /\ f[c].state = flash[c].state /\ Len(f[c].items) = Len(flash[c].items)
             /\ \A i \in 1 .. Len(flash[c].items) :
                  f[c].items[i] = IF c = b /\ i = n THEN w ELSE flash[c].items[i]
  <2>1. CASE c = b
    BY <1>5, <1>7, <2>1 DEF s
  <2>2. CASE c # b
    BY <1>8, <2>2
  <2> QED BY <2>1, <2>2
<1> QED BY <1>7, <1>9 DEF b, n, f, w

\* Marking a block: only a USED one becomes DIRTY.
LEMMA MarkFacts ==
  ASSUME NEW f \in Flash, info \in Infos, NEW b \in Blocks
  PROVE  /\ MarkFlash(f, b) \in Flash /\ MarkInfo(b) \in Infos
         /\ \A c \in Blocks :
              /\ MarkFlash(f, b)[c].items = f[c].items
              /\ MarkFlash(f, b)[c].state =
                   IF c = b /\ info[b] = "used" THEN "dirty" ELSE f[c].state
              /\ MarkInfo(b)[c] = IF c = b /\ info[b] = "used" THEN "dirty" ELSE info[c]
<1>1. CASE info[b] = "used"
  <2>1. MarkFlash(f, b) = [f EXCEPT ![b].state = "dirty"] /\ MarkInfo(b) = [info EXCEPT ![b] = "dirty"]
    BY <1>1 DEF MarkFlash, MarkInfo
  <2>2. MarkFlash(f, b) \in Flash /\ MarkInfo(b) \in Infos
    BY ZenonT(60), <2>1 DEF Flash, Infos, States
  <2> QED BY <1>1, <2>1, <2>2 DEF Flash, Infos
<1>2. CASE info[b] # "used"
  <2>1. MarkFlash(f, b) = f /\ MarkInfo(b) = info
    BY <1>2 DEF MarkFlash, MarkInfo
  <2> QED BY <1>2, <2>1
<1> QED BY <1>1, <1>2


-----------------------------------------------------------------------------
(* Types *)

\* The variables have their types.
LEMMA TypeFacts ==
  TypeOK => /\ flash \in Flash /\ info \in Infos
            /\ \A b \in Blocks : flash[b].items \in Seq(Items) /\ Len(flash[b].items) < SIZE
            /\ clean \in 0 .. 2 /\ wblk \in Blocks /\ Other(wblk) \in Blocks /\ From \in Blocks
            /\ lock \in Tasks \cup {Gc, None} /\ trigger \in BOOLEAN
            /\ waiter \in Nat /\ sem \in Nat /\ posting \in 0 .. MaxPosting
            /\ pc \in [Tasks -> {"idle", "count", "take", "blocked", "lock", "append",
                                 "delete", "mark", "prefix"}]
            /\ may \in [Keys -> SUBSET (Vals \cup {None})]
            /\ exposed \subseteq Keys /\ stale \subseteq Tasks /\ faults \in 0 .. MaxFaults
  BY BlockFacts DEF TypeOK, Flash, Infos, States, From

\* ... and have them after a step when each of them has.
LEMMA TypeStep ==
  ASSUME flash' \in Flash, \A b \in Blocks : Len(flash'[b].items) < SIZE,
         info' \in Infos, clean' \in 0 .. 2, wblk' \in Blocks,
         lock' \in Tasks \cup {Gc, None}, trigger' \in BOOLEAN, waiter' \in Nat, sem' \in Nat,
         gc'.pc \in {"off", "none", "lock"} \cup Collecting, gc'.i \in 0 .. SIZE,
         posting' \in 0 .. MaxPosting,
         boot'.ph \in {"head", "items", "unclean", "astray", "up"}, boot'.b \in 0 .. 2,
         pc' \in [Tasks -> {"idle", "count", "take", "blocked", "lock", "append",
                            "delete", "mark", "prefix"}],
         OpInv',
         may' \in [Keys -> SUBSET (Vals \cup {None})],
         exposed' \subseteq Keys, stale' \subseteq Tasks, faults' \in 0 .. MaxFaults
  PROVE  TypeOK'
<1>1. \A t \in Tasks : op'[t].old \in Positions \cup {None}
  BY DEF OpInv, Ops
<1>2. flash' \in [Blocks -> [state : {"blank", "clean", "used", "dirty"}, items : Seq(Items)]]
  BY DEF Flash, States
<1>3. info' \in [Blocks -> {"none", "clean", "used", "dirty"}]
  BY DEF Infos
<1> QED BY <1>1, <1>2, <1>3 DEF TypeOK, Collecting

\* The record of gc and boot.
LEMMA PhaseFacts ==
  TypeOK => /\ gc.pc \in {"off", "none", "lock"} \cup Collecting /\ gc.i \in 0 .. SIZE
            /\ boot.ph \in {"head", "items", "unclean", "astray", "up"} /\ boot.b \in 0 .. 2
  BY DEF TypeOK, Collecting

-----------------------------------------------------------------------------
(* The start *)

\* The invariant holds when the board starts for the first time.
LEMMA InitIInv == Init => IInv
<1> SUFFICES ASSUME Init PROVE IInv
  OBVIOUS
<1>0. <<>> \in Seq(Items) /\ Len(<<>>) = 0
  OBVIOUS
<1>1. flash \in Flash /\ \A b \in Blocks : flash[b].state = "blank" /\ flash[b].items = <<>>
  BY <1>0 DEF Init, Flash, States
<1>2. /\ pc = [t \in Tasks |-> "idle"] /\ lock = None /\ gc = [pc |-> "off", i |-> 0]
      /\ boot = [ph |-> "head", b |-> 0, i |-> 1] /\ posting = 0 /\ trigger = FALSE
      /\ info = [b \in Blocks |-> "none"] /\ clean = 0
  BY DEF Init, Idle
<1>3. OpInv
  <2>1. NoOp \in Ops /\ NoOp.kind = "none"
    BY DEF NoOp, Ops
  <2> HIDE DEF NoOp
  <2>2. op = [t \in Tasks |-> NoOp]
    BY DEF Init
  <2> QED BY <1>2, <2>1, <2>2 DEF OpInv, Setting
<1>4. LockInv
  BY <1>2, KvAssumption DEF LockInv, Holding, Collecting
<1>5. DiskInv
  BY <1>1, BlockFacts DEF DiskInv
<1>6. BootInv
  <2>1. Count(0) = 0 /\ Count(1) = 0 /\ \A b \in Blocks : ~Read(b)
    BY <1>2 DEF Count, Read, Blocks
  <2> QED BY <1>1, <1>2, <2>1 DEF BootInv
<1>7. StoreInv /\ OldInv /\ WaitInv
  BY <1>2 DEF StoreInv, OldInv, WaitInv
<1>8. MarkInv
  BY <1>2 DEF MarkInv
<1>9. TypeOK
  <2>1. \A b \in Blocks : Len(flash[b].items) < SIZE
    BY <1>0, <1>1, SizeFacts
  <2>2. \A t \in Tasks : op[t].old \in Positions \cup {None}
    BY <1>3 DEF OpInv, Ops
  <2>3. flash \in [Blocks -> [state : {"blank", "clean", "used", "dirty"}, items : Seq(Items)]]
    BY <1>1 DEF Flash, States
  <2>4. /\ waiter = 0 /\ sem = 0 /\ wblk = 0 /\ exposed = {} /\ stale = {} /\ faults = 0
        /\ may = [k \in Keys |-> {None}]
    BY DEF Init
  <2>5. may \in [Keys -> SUBSET (Vals \cup {None})]
    BY <2>4
  <2>6. pc \in [Tasks -> {"idle", "count", "take", "blocked", "lock", "append",
                           "delete", "mark", "prefix"}]
    BY <1>2
  <2>7. info \in [Blocks -> {"none", "clean", "used", "dirty"}]
    BY <1>2
  <2>8. gc.pc = "off" /\ gc.i = 0 /\ boot.ph = "head" /\ boot.b = 0
    BY <1>2
  <2>9. /\ clean \in 0 .. 2 /\ wblk \in Blocks /\ gc.i \in 0 .. SIZE /\ posting \in 0 .. MaxPosting
        /\ boot.b \in 0 .. 2 /\ faults \in 0 .. MaxFaults
    BY <1>2, <2>4, <2>8, SizeFacts, BlockFacts
  <2> QED BY <1>2, <2>1, <2>2, <2>3, <2>4, <2>5, <2>6, <2>7, <2>8, <2>9 DEF TypeOK
<1> QED BY <1>3, <1>4, <1>5, <1>6, <1>7, <1>8, <1>9 DEF IInv


-----------------------------------------------------------------------------
(* kv_init() *)

\* While kv_init() runs, the tasks and the collection stay as they are.
LEMMA BootRest ==
  ASSUME IInv, boot.ph # "up", boot'.ph # "up", UNCHANGED <<wblk, lock, gcvars, tasks>>
  PROVE  OpInv' /\ LockInv' /\ StoreInv' /\ OldInv' /\ WaitInv'
<1>1. OpInv /\ LockInv /\ OldInv /\ WaitInv
  BY DEF IInv
<1>2. UNCHANGED <<wblk, lock, trigger, waiter, sem, gc, posting, stale, pc, op>>
  BY DEF gcvars, tasks
<1>3. OpInv' /\ LockInv'
  BY <1>1, <1>2 DEF OpInv, LockInv
<1>4. \A t \in Tasks : pc'[t] = "idle"
  BY <1>3 DEF LockInv
<1>5. StoreInv' /\ OldInv' /\ WaitInv'
  BY <1>4 DEF StoreInv, OldInv, WaitInv
<1> QED BY <1>3, <1>5

\* What is left to show for a step of kv_init().
LEMMA BootStepF ==
  ASSUME IInv, boot.ph # "up", boot'.ph # "up", UNCHANGED <<wblk, lock, gcvars, tasks, may>>,
         exposed' \subseteq Keys, faults' \in 0 .. MaxFaults,
         flash' \in Flash, \A b \in Blocks : Len(flash'[b].items) < SIZE, info' \in Infos,
         DiskInv', BootInv', MarkInv'
  PROVE  IInv'
<1>1. OpInv' /\ LockInv' /\ StoreInv' /\ OldInv' /\ WaitInv'
  BY BootRest
<1>2. UNCHANGED <<wblk, lock, trigger, waiter, sem, gc, posting, stale, pc, op, may>>
  BY DEF gcvars, tasks
<1>3. boot'.ph \in {"head", "items", "unclean", "astray", "up"} /\ boot'.b \in 0 .. 2
  BY DEF BootInv
<1>4. clean' \in 0 .. 2
  BY DEF BootInv, Count
<1>5. TypeOK
  BY DEF IInv
<1>6. TypeOK'
  BY <1>1, <1>2, <1>3, <1>4, <1>5, TypeFacts, PhaseFacts, TypeStep
<1> QED BY <1>1, <1>6 DEF IInv

\* ... when no allocation fails.
LEMMA BootStep ==
  ASSUME IInv, boot.ph # "up", boot'.ph # "up", UNCHANGED <<wblk, lock, gcvars, tasks, ghosts>>,
         flash' \in Flash, \A b \in Blocks : Len(flash'[b].items) < SIZE, info' \in Infos,
         DiskInv', BootInv', MarkInv'
  PROVE  IInv'
<1>1. UNCHANGED <<may, exposed, faults>> /\ TypeOK
  BY DEF ghosts, IInv
<1> QED BY <1>1, TypeFacts, BootStepF

\* A failed allocation keeps the count of faults in its bounds.
LEMMA NoMemoryFacts ==
  ASSUME TypeOK, NoMemory(faults)
  PROVE  faults' \in 0 .. MaxFaults
<1>1. faults \in 0 .. MaxFaults /\ MaxFaults \in Nat
  BY TypeFacts, KvAssumption
<1> QED BY <1>1 DEF NoMemory

\* While kv_init() runs, garbage in a block it has read is marked.
LEMMA BootMarks ==
  ASSUME IInv, boot.ph # "up", NEW b \in Blocks, info[b] = "used",
         NEW i \in 1 .. Len(flash[b].items), b # boot.b \/ i < boot.i
  PROVE  flash[b].items[i].st = "normal"
<1>1. MarkInv /\ LockInv /\ BootInv /\ TypeOK
  BY DEF IInv
<1>2. \A t \in Tasks : pc[t] = "idle"
  BY <1>1 DEF LockInv
<1>3. Len(flash[b].items) \in Nat /\ boot.i \in Nat
  BY <1>1, TypeFacts DEF BootInv
<1>4. ~Unmarked(b, i)
  BY <1>2, <1>3 DEF Unmarked
<1> QED BY <1>1, <1>4 DEF MarkInv

\* A header is read or written.
LEMMA BootHeadInv == IInv /\ BootHead => IInv'
<1> SUFFICES ASSUME IInv, BootHead PROVE IInv'
  OBVIOUS
<1>1. /\ boot.ph = "head" /\ TypeOK /\ BootInv /\ DiskInv
      /\ UNCHANGED <<wblk, lock, gcvars, tasks, ghosts>>
  BY DEF IInv, BootHead
<1>a. /\ boot \in [ph : {"head", "items", "unclean", "astray"}, b : 0 .. 2, i : Nat \ {0}]
      /\ boot.b \in Blocks /\ boot.i = 1
  BY <1>1 DEF BootInv, Blocks
<1>b. PICK b \in Blocks : b = boot.b
  BY <1>a
<1>2. /\ boot \in [ph : {"head", "items", "unclean", "astray"}, b : 0 .. 2, i : Nat \ {0}]
      /\ b \in Blocks /\ boot.b = b /\ boot.i = 1
  BY <1>a, <1>b
<1>c. PICK o \in Blocks : o = Other(b)
  BY BlockFacts
<1>3. o \in Blocks /\ o # b /\ o = Other(b) /\ \A c \in Blocks : c = b \/ c = o
  BY <1>2, <1>c, BlockFacts
<1>4. /\ flash \in Flash /\ info \in Infos
      /\ \A c \in Blocks : flash[c].items \in Seq(Items) /\ Len(flash[c].items) < SIZE
  BY <1>1, TypeFacts
<1>5. CASE flash[b].state = "blank"
  <2>1. /\ flash' = Formatted(b) /\ info' = [info EXCEPT ![b] = "clean"]
        /\ clean' = clean + 1 /\ boot' = NextBlock
    BY <1>2, <1>5 DEF BootHead
  <2>2. /\ flash' \in Flash /\ flash'[b].state = "clean" /\ flash'[b].items = <<>>
        /\ flash'[o] = flash[o]
    <3>1. flash' = [flash EXCEPT ![b] = [state |-> "clean", items |-> <<>>]] /\ "clean" \in States
      BY <2>1 DEF Formatted, States
    <3> QED BY <1>3, <1>4, <3>1, FormatFacts
  <2>3. info' \in Infos /\ info'[b] = "clean" /\ info'[o] = info[o]
    BY <1>2, <1>3, <1>4, <2>1 DEF Infos
  <2>4. /\ boot' \in [ph : {"head", "unclean"}, b : 0 .. 2, i : Nat \ {0}]
        /\ boot'.b = b + 1 /\ boot'.i = 1 /\ (boot'.ph = "unclean" <=> boot'.b = 2)
    BY <1>2, <2>1 DEF NextBlock, Blocks
  <2>5. DiskInv'
    BY <1>1, <1>2, <1>3, <2>2, BlockFacts DEF DiskInv
  <2>6. BootInv'
    <3>1. (Read(o)' <=> Read(o)) /\ Read(b)' /\ ~Read(b)
      BY <1>1, <1>2, <1>3, <2>4 DEF Read, Blocks
    <3>2. clean' = Count(0)' + Count(1)'
      <4>1. CASE b = 0
        BY <1>1, <1>2, <2>1, <2>2, <2>4, <4>1 DEF BootInv, Count, Empty
      <4>2. CASE b = 1
        <5>1. o = 0 /\ flash'[0] = flash[0]
          BY <1>3, <2>2, <4>2, BlockFacts
        <5> QED BY <1>1, <1>2, <2>1, <2>2, <2>4, <4>2, <5>1 DEF BootInv, Count, Empty
      <4> QED BY <1>2, <4>1, <4>2, BlockFacts
    <3>3. \A c \in Blocks : Read(c)' => info'[c] = flash'[c].state /\ flash'[c].state # "blank"
      BY <1>1, <1>3, <2>2, <2>3, <3>1 DEF BootInv
    <3>4. \A c \in Blocks : ~Read(c)' => info'[c] = "none"
      BY <1>1, <1>3, <2>3, <3>1 DEF BootInv
    <3> QED BY <2>4, <3>2, <3>3, <3>4 DEF BootInv
  <2>7. MarkInv'
    <3> SUFFICES ASSUME NEW c \in Blocks, info'[c] = "used", NEW i \in 1 .. Len(flash'[c].items)
                 PROVE  flash'[c].items[i].st = "normal"
      BY DEF MarkInv
    <3>1. c = o /\ info[c] = "used" /\ flash'[c] = flash[c]
      BY <1>3, <2>2, <2>3
    <3> QED BY <1>1, <1>2, <1>3, <3>1, BootMarks
  <2>8. \A c \in Blocks : Len(flash'[c].items) < SIZE
    BY <1>3, <1>4, <2>2, SizeFacts
  <2> QED BY <1>1, <2>2, <2>3, <2>4, <2>5, <2>6, <2>7, <2>8, BootStep
<1>6. CASE flash[b].state # "blank"
  <2>1. /\ flash' = flash /\ info' = [info EXCEPT ![b] = flash[b].state]
        /\ clean' = clean /\ boot' = [boot EXCEPT !.ph = "items"]
    BY <1>2, <1>6 DEF BootHead
  <2>3. info' \in Infos /\ info'[b] = flash[b].state /\ info'[o] = info[o]
    <3>1. flash[b].state \in {"clean", "used", "dirty"}
      BY <1>2, <1>4, <1>6 DEF Flash, States
    <3> QED BY <1>2, <1>3, <1>4, <2>1, <3>1 DEF Infos
  <2>4. /\ boot' \in [ph : {"items"}, b : 0 .. 2, i : Nat \ {0}]
        /\ boot'.b = b /\ boot'.i = 1 /\ boot'.ph = "items"
    BY <1>2, <2>1
  <2>5. DiskInv'
    BY <1>1, <2>1 DEF DiskInv
  <2>6. BootInv'
    <3>1. (Read(o)' <=> Read(o)) /\ Read(b)' /\ ~Read(b)
      BY <1>1, <1>2, <1>3, <2>4 DEF Read, Blocks
    <3>2. clean' = Count(0)' + Count(1)'
      BY <1>1, <2>1, <2>4 DEF BootInv, Count, Empty
    <3>3. \A c \in Blocks : Read(c)' => info'[c] = flash'[c].state /\ flash'[c].state # "blank"
      BY <1>1, <1>3, <1>6, <2>1, <2>3, <3>1 DEF BootInv
    <3>4. \A c \in Blocks : ~Read(c)' => info'[c] = "none"
      BY <1>1, <1>3, <2>3, <3>1 DEF BootInv
    <3>5. boot'.i <= Len(flash'[boot'.b].items) + 1
      BY <1>2, <1>4, <2>1, <2>4
    <3>6. boot'.b # 2
      BY <1>2, <2>4 DEF Blocks
    <3> QED BY <2>4, <3>2, <3>3, <3>4, <3>5, <3>6 DEF BootInv
  <2>7. MarkInv'
    <3> SUFFICES ASSUME NEW c \in Blocks, info'[c] = "used", NEW i \in 1 .. Len(flash'[c].items),
                        ~Unmarked(c, i)'
                 PROVE  flash'[c].items[i].st = "normal"
      BY DEF MarkInv
    <3>0. i >= 1
      BY <1>4, <2>1
    <3>1. c = o /\ info[c] = "used" /\ flash'[c] = flash[c]
      BY <1>3, <2>1, <2>3, <2>4, <3>0 DEF Unmarked
    <3> QED BY <1>1, <1>2, <1>3, <3>1, BootMarks
  <2> QED BY <1>1, <1>4, <2>1, <2>3, <2>4, <2>5, <2>6, <2>7, BootStep
<1> QED BY <1>5, <1>6


\* An item that exists has its type, and its origin is a position or none.
LEMMA ItemFacts ==
  ASSUME TypeOK, NEW p \in Positions, Written(p)
  PROVE  /\ p[1] \in Blocks /\ p[2] \in 1 .. Len(flash[p[1]].items)
         /\ ItemAt(p) = flash[p[1]].items[p[2]] /\ ItemAt(p) \in Items
         /\ ItemAt(p).st \in {"normal", "deleted", "header", "body"}
         /\ ItemAt(p).st = "normal" => /\ ItemAt(p).key \in Keys /\ ItemAt(p).val \in Vals
                                       /\ ItemAt(p).origin \in Positions \cup {None}
<1>1. p[1] \in Blocks /\ p[2] \in 1 .. SIZE /\ SIZE \in Nat
  BY PositionFacts, SizeFacts
<1>2. flash[p[1]].items \in Seq(Items) /\ Len(flash[p[1]].items) \in Nat
  BY <1>1, TypeFacts
<1>3. p[2] \in 1 .. Len(flash[p[1]].items)
  BY <1>1, <1>2 DEF Written
<1>4. ItemAt(p) \in Items /\ ItemAt(p) = flash[p[1]].items[p[2]]
  BY <1>2, <1>3 DEF ItemAt
<1> HIDE DEF ItemAt
<1> QED BY <1>1, <1>3, <1>4 DEF Items

\* The item that kv_init() looks at may make it delete an item, q, and mark the
\* block of the deleted one.
LEMMA BootItemFacts ==
  ASSUME IInv, BootItem
  PROVE  \E b \in Blocks, i \in Nat \ {0} :
           /\ boot.ph = "items" /\ boot.b = b /\ boot.i = i /\ i <= Len(flash[b].items)
           /\ boot' = [boot EXCEPT !.i = i + 1] /\ clean' = clean
           /\ UNCHANGED <<wblk, lock, gcvars, tasks, ghosts>>
           /\ \/ /\ flash' = flash /\ info' = info /\ flash[b].items[i].st = "normal"
                 /\ Replaced(<<b, i>>) = None
              \/ \E m \in Blocks, f \in Flash :
                   /\ flash' = MarkFlash(f, m) /\ info' = MarkInfo(m)
                   /\ \/ m = b /\ f = flash /\ flash[b].items[i].st # "normal"
                      \/ \E q \in Positions :
                           /\ f = DeletedAt(q) /\ Written(q) /\ m = q[1]
                           /\ \/ flash[b].items[i].st = "body" /\ q = <<b, i>>
                              \/ /\ flash[b].items[i].st = "normal"
                                 /\ q = ItemAt(<<b, i>>).origin /\ q # <<b, i>>
                                 /\ Live(q, ItemAt(<<b, i>>).key)
<1>1. boot.ph = "items" /\ TypeOK /\ BootInv /\ UNCHANGED <<wblk, lock, gcvars, tasks, ghosts>>
  BY DEF IInv, BootItem
<1>2. boot \in [ph : {"head", "items", "unclean", "astray"}, b : 0 .. 2, i : Nat \ {0}] /\ boot.b \in Blocks
  BY <1>1 DEF BootInv, Blocks
<1>3. PICK b \in Blocks, i \in Nat \ {0} : b = boot.b /\ i = boot.i
  BY <1>2
<1>4. flash \in Flash /\ flash[b].items \in Seq(Items) /\ Len(flash[b].items) < SIZE /\ SIZE \in Nat
  BY <1>1, TypeFacts, SizeFacts
<1> DEFINE p == <<b, i>>
<1>5. Written(p) /\ i <= Len(flash[b].items)
  BY <1>3 DEF BootItem, Written
<1>6. p \in Positions /\ p[1] = b /\ p[2] = i
  BY <1>4, <1>5, PositionFacts
<1>7. /\ ItemAt(p) = flash[b].items[i]
      /\ ItemAt(p).st \in {"normal", "deleted", "header", "body"}
      /\ ItemAt(p).st = "normal" => ItemAt(p).origin \in Positions \cup {None}
  BY <1>1, <1>5, <1>6, ItemFacts
<1> DEFINE q == CASE ItemAt(p).st = "normal" -> Replaced(p)
                  [] ItemAt(p).st = "body" -> p
                  [] OTHER -> None
           m == IF q = None THEN p[1] ELSE q[1]
<1>8. /\ boot' = [boot EXCEPT !.i = i + 1] /\ clean' = clean
      /\ IF q = None /\ ItemAt(p).st = "normal"
         THEN flash' = flash /\ info' = info
         ELSE /\ flash' = MarkFlash(IF q = None THEN flash ELSE DeletedAt(q), m)
              /\ info' = MarkInfo(m)
  BY <1>3 DEF BootItem
<1>9. \/ q = None
      \/ ItemAt(p).st = "body" /\ q = p
      \/ /\ ItemAt(p).st = "normal" /\ q = ItemAt(p).origin /\ q # p
         /\ q \in Positions /\ Live(q, ItemAt(p).key)
  <2>1. CASE ItemAt(p).st = "normal"
    <3>1. q = Replaced(p)
      BY <2>1
    <3>2. CASE ItemAt(p).origin # None /\ ItemAt(p).origin # p /\ Live(ItemAt(p).origin, ItemAt(p).key)
      BY <1>7, <2>1, <3>1, <3>2 DEF Replaced
    <3>3. CASE ~(ItemAt(p).origin # None /\ ItemAt(p).origin # p /\ Live(ItemAt(p).origin, ItemAt(p).key))
      BY <3>1, <3>3 DEF Replaced
    <3> QED BY <3>2, <3>3
  <2>2. CASE ItemAt(p).st = "body"
    BY <2>2
  <2>3. CASE ItemAt(p).st # "normal" /\ ItemAt(p).st # "body"
    BY <2>3
  <2> QED BY <2>1, <2>2, <2>3
<1>10. CASE q = None
  <2>1. CASE ItemAt(p).st = "normal"
    <3>1. Replaced(<<b, i>>) = None
      BY <1>10, <2>1
    <3> QED BY <1>1, <1>3, <1>5, <1>7, <1>8, <1>10, <2>1, <3>1
  <2>2. CASE ItemAt(p).st # "normal"
    <3>1. flash' = MarkFlash(flash, b) /\ info' = MarkInfo(b)
      BY <1>6, <1>8, <1>10, <2>2
    <3> QED BY <1>1, <1>3, <1>4, <1>5, <1>7, <1>8, <2>2, <3>1
  <2> QED BY <2>1, <2>2
<1>11. CASE q # None
  <2>1. q \in Positions /\ Written(q)
    BY <1>5, <1>6, <1>9, <1>11 DEF Live
  <2>2. q[1] \in Blocks /\ DeletedAt(q) \in Flash
    BY <1>4, <2>1, PositionFacts, DeleteFacts
  <2>3. flash' = MarkFlash(DeletedAt(q), q[1]) /\ info' = MarkInfo(q[1])
    BY <1>8, <1>11
  <2>4. \/ flash[b].items[i].st = "body" /\ q = <<b, i>>
        \/ /\ flash[b].items[i].st = "normal"
           /\ q = ItemAt(<<b, i>>).origin /\ q # <<b, i>>
           /\ Live(q, ItemAt(<<b, i>>).key)
    BY <1>7, <1>9, <1>11
  <2> HIDE DEF q
  <2> QED BY <1>1, <1>3, <1>5, <1>8, <2>1, <2>2, <2>3, <2>4
<1> QED BY <1>10, <1>11


\* Recovery moves no item, and marks the block in which it deletes one.
LEMMA BootItemInv == IInv /\ BootItem => IInv'
<1> SUFFICES ASSUME IInv, BootItem PROVE IInv'
  OBVIOUS
<1>1. TypeOK /\ BootInv /\ DiskInv
  BY DEF IInv
<1>2. PICK b \in Blocks, i \in Nat \ {0} :
           /\ boot.ph = "items" /\ boot.b = b /\ boot.i = i /\ i <= Len(flash[b].items)
           /\ boot' = [boot EXCEPT !.i = i + 1] /\ clean' = clean
           /\ UNCHANGED <<wblk, lock, gcvars, tasks, ghosts>>
           /\ \/ /\ flash' = flash /\ info' = info /\ flash[b].items[i].st = "normal"
                 /\ Replaced(<<b, i>>) = None
              \/ \E m \in Blocks, f \in Flash :
                   /\ flash' = MarkFlash(f, m) /\ info' = MarkInfo(m)
                   /\ \/ m = b /\ f = flash /\ flash[b].items[i].st # "normal"
                      \/ \E q \in Positions :
                           /\ f = DeletedAt(q) /\ Written(q) /\ m = q[1]
                           /\ \/ flash[b].items[i].st = "body" /\ q = <<b, i>>
                              \/ /\ flash[b].items[i].st = "normal"
                                 /\ q = ItemAt(<<b, i>>).origin /\ q # <<b, i>>
                                 /\ Live(q, ItemAt(<<b, i>>).key)
  BY BootItemFacts
<1>3. /\ flash \in Flash /\ info \in Infos
      /\ \A c \in Blocks : flash[c].items \in Seq(Items) /\ Len(flash[c].items) < SIZE
  BY <1>1, TypeFacts
<1>4. /\ boot \in [ph : {"head", "items", "unclean", "astray"}, b : 0 .. 2, i : Nat \ {0}]
      /\ \A c \in Blocks : Read(c) => info[c] = flash[c].state /\ flash[c].state # "blank"
      /\ \A c \in Blocks : ~Read(c) => info[c] = "none"
  BY <1>1, <1>2 DEF BootInv
<1>5. /\ boot' \in [ph : {"items"}, b : 0 .. 2, i : Nat \ {0}]
      /\ boot'.ph = "items" /\ boot'.b = b /\ boot'.i = i + 1
  BY <1>2, <1>4
<1>6. PICK M \in SUBSET Blocks :
        /\ flash' \in Flash /\ info' \in Infos
        /\ \A c \in Blocks :
             /\ Len(flash'[c].items) = Len(flash[c].items)
             /\ c \notin M => flash'[c].items = flash[c].items
             /\ c \notin M \/ info[c] # "used" => info'[c] = info[c] /\ flash'[c].state = flash[c].state
             /\ c \in M /\ info[c] = "used" => info'[c] = "dirty" /\ flash'[c].state = "dirty"
        /\ b \in M \/ flash[b].items[i].st = "normal"
  <2>1. CASE flash' = flash /\ info' = info /\ flash[b].items[i].st = "normal"
    <3>1. {} \in SUBSET Blocks
      OBVIOUS
    <3> QED BY <1>3, <2>1, <3>1
  <2>2. ASSUME NEW m \in Blocks, NEW f \in Flash,
               flash' = MarkFlash(f, m), info' = MarkInfo(m),
               \A c \in Blocks : /\ Len(f[c].items) = Len(flash[c].items)
                                 /\ f[c].state = flash[c].state
                                 /\ c # m => f[c].items = flash[c].items,
               b = m \/ flash[b].items[i].st = "normal"
        PROVE  /\ {m} \in SUBSET Blocks
               /\ flash' \in Flash /\ info' \in Infos
               /\ \A c \in Blocks :
                    /\ Len(flash'[c].items) = Len(flash[c].items)
                    /\ c \notin {m} => flash'[c].items = flash[c].items
                    /\ c \notin {m} \/ info[c] # "used"
                         => info'[c] = info[c] /\ flash'[c].state = flash[c].state
                    /\ c \in {m} /\ info[c] = "used" => info'[c] = "dirty" /\ flash'[c].state = "dirty"
               /\ b \in {m} \/ flash[b].items[i].st = "normal"
    <3>1. /\ flash' \in Flash /\ info' \in Infos
          /\ \A c \in Blocks :
              /\ flash'[c].items = f[c].items
              /\ flash'[c].state = IF c = m /\ info[m] = "used" THEN "dirty" ELSE f[c].state
              /\ info'[c] = IF c = m /\ info[m] = "used" THEN "dirty" ELSE info[c]
      BY SMTT(40), <1>3, <2>2, MarkFacts
    <3> QED BY <2>2, <3>1
  <2>3. CASE flash' = MarkFlash(flash, b) /\ info' = MarkInfo(b)
    BY <1>3, <2>2, <2>3
  <2>4. ASSUME NEW q \in Positions, Written(q), flash' = MarkFlash(DeletedAt(q), q[1]),
               info' = MarkInfo(q[1]), b = q[1] \/ flash[b].items[i].st = "normal"
        PROVE  /\ {q[1]} \in SUBSET Blocks
               /\ flash' \in Flash /\ info' \in Infos
               /\ \A c \in Blocks :
                    /\ Len(flash'[c].items) = Len(flash[c].items)
                    /\ c \notin {q[1]} => flash'[c].items = flash[c].items
                    /\ c \notin {q[1]} \/ info[c] # "used"
                         => info'[c] = info[c] /\ flash'[c].state = flash[c].state
                    /\ c \in {q[1]} /\ info[c] = "used" => info'[c] = "dirty" /\ flash'[c].state = "dirty"
               /\ b \in {q[1]} \/ flash[b].items[i].st = "normal"
    <3>1. q[1] \in Blocks /\ q[2] \in 1 .. SIZE
      BY PositionFacts
    <3>2. /\ DeletedAt(q) \in Flash
          /\ \A c \in Blocks : /\ DeletedAt(q)[c].state = flash[c].state
                               /\ Len(DeletedAt(q)[c].items) = Len(flash[c].items)
      BY <1>3, <2>4, DeleteFacts
    <3>3. \A c \in Blocks : c # q[1] => DeletedAt(q)[c].items = flash[c].items
      BY <1>3, <3>1 DEF DeletedAt, Flash
    <3> QED BY <2>2, <2>4, <3>1, <3>2, <3>3
  <2>5. ASSUME NEW m \in Blocks, NEW f \in Flash,
               flash' = MarkFlash(f, m), info' = MarkInfo(m),
               \/ m = b /\ f = flash /\ flash[b].items[i].st # "normal"
               \/ \E q \in Positions :
                    /\ f = DeletedAt(q) /\ Written(q) /\ m = q[1]
                    /\ q = <<b, i>> \/ flash[b].items[i].st = "normal"
        PROVE  \/ flash' = MarkFlash(flash, b) /\ info' = MarkInfo(b)
               \/ \E q \in Positions :
                    /\ Written(q) /\ flash' = MarkFlash(DeletedAt(q), q[1])
                    /\ info' = MarkInfo(q[1]) /\ (b = q[1] \/ flash[b].items[i].st = "normal")
    BY <2>5, PositionFacts
  <2>6. \/ flash' = flash /\ info' = info /\ flash[b].items[i].st = "normal"
        \/ flash' = MarkFlash(flash, b) /\ info' = MarkInfo(b)
        \/ \E q \in Positions :
                    /\ Written(q) /\ flash' = MarkFlash(DeletedAt(q), q[1])
                    /\ info' = MarkInfo(q[1]) /\ (b = q[1] \/ flash[b].items[i].st = "normal")
    BY <1>2, <2>5
  <2> QED BY <2>1, <2>3, <2>4, <2>6
<1>7. \A c \in Blocks : c \in M /\ info[c] = "used" => flash[c].state = "used"
  BY <1>4
<1>8. \A c \in Blocks : flash[c].items = <<>> <=> flash'[c].items = <<>>
  <2> SUFFICES ASSUME NEW c \in Blocks PROVE flash[c].items = <<>> <=> flash'[c].items = <<>>
    OBVIOUS
  <2>1. flash[c].items \in Seq(Items) /\ flash'[c].items \in Seq(Items)
    BY <1>3, <1>6 DEF Flash
  <2>2. Len(flash'[c].items) = Len(flash[c].items)
    BY <1>6
  <2> QED BY <2>1, <2>2, EmptySeq
<1>9. DiskInv'
  <2>1. \A c \in Blocks : flash'[c].state = "blank" => flash'[c].items = <<>>
    BY <1>1, <1>6, <1>7, <1>8 DEF DiskInv
  <2>2. \A c \in Blocks : flash[c].state \in {"blank", "clean"} => flash'[c].state \in {"blank", "clean"}
    BY <1>6, <1>7
  <2> QED BY <1>1, <2>1, <2>2, BlockFacts DEF DiskInv
<1>10. BootInv'
  <2>1. \A c \in Blocks : Read(c)' <=> Read(c)
    BY <1>2, <1>5 DEF Read
  <2>2. \A c \in Blocks : Empty(c)' <=> Empty(c)
    BY <1>6, <1>7, <1>8 DEF Empty
  <2>3. Count(0)' = Count(0) /\ Count(1)' = Count(1)
    BY <1>2, <1>5, <2>2, BlockFacts DEF Count
  <2>4. \A c \in Blocks : Read(c)' => info'[c] = flash'[c].state /\ flash'[c].state # "blank"
    BY <1>4, <1>6, <2>1
  <2>5. \A c \in Blocks : ~Read(c)' => info'[c] = "none"
    BY <1>4, <1>6, <2>1
  <2>6. boot'.i <= Len(flash'[boot'.b].items) + 1
    <3>1. Len(flash'[b].items) = Len(flash[b].items) /\ Len(flash[b].items) \in Nat
      BY <1>3, <1>6
    <3> QED BY <1>2, <1>5, <3>1
  <2>7. boot'.b # 2
    BY <1>5 DEF Blocks
  <2> QED BY <1>1, <1>2, <1>5, <2>3, <2>4, <2>5, <2>6, <2>7 DEF BootInv
<1>11. MarkInv'
  <2> SUFFICES ASSUME NEW c \in Blocks, info'[c] = "used", NEW j \in 1 .. Len(flash'[c].items),
                      ~Unmarked(c, j)'
               PROVE  flash'[c].items[j].st = "normal"
    BY DEF MarkInv
  <2>1. c \notin M /\ info[c] = "used" /\ flash'[c].items = flash[c].items
    BY <1>6
  <2>2. j \in 1 .. Len(flash[c].items) /\ Len(flash[c].items) \in Nat
    BY <1>3, <2>1
  <2>3. c # b \/ j < i + 1
    BY <1>2, <1>5, <2>2 DEF Unmarked
  <2>4. CASE c # b \/ j < i
    BY <1>2, <2>1, <2>2, <2>4, BootMarks
  <2>5. CASE c = b /\ j = i
    BY <1>6, <2>1, <2>5
  <2> QED BY <1>2, <2>2, <2>3, <2>4, <2>5
<1>12. \A c \in Blocks : Len(flash'[c].items) < SIZE
  BY <1>3, <1>6
<1> QED BY <1>2, <1>5, <1>6, <1>9, <1>10, <1>11, <1>12, BootStep


\* The end of a block: a CLEAN one without items is counted.
LEMMA BootBlockDoneInv == IInv /\ BootBlockDone => IInv'
<1> SUFFICES ASSUME IInv, BootBlockDone PROVE IInv'
  OBVIOUS
<1>1. /\ boot.ph = "items" /\ TypeOK /\ BootInv /\ DiskInv
      /\ UNCHANGED <<wblk, lock, gcvars, tasks, ghosts>> /\ flash' = flash /\ info' = info
      /\ boot' = NextBlock
  BY DEF IInv, BootBlockDone
<1>2. boot \in [ph : {"head", "items", "unclean", "astray"}, b : 0 .. 2, i : Nat \ {0}] /\ boot.b \in Blocks
  BY <1>1 DEF BootInv, Blocks
<1>3. PICK b \in Blocks, i \in Nat \ {0} : b = boot.b /\ i = boot.i
  BY <1>2
<1>4. /\ flash \in Flash /\ info \in Infos
      /\ \A c \in Blocks : flash[c].items \in Seq(Items) /\ Len(flash[c].items) < SIZE
  BY <1>1, TypeFacts
<1>5. /\ boot' \in [ph : {"head", "unclean"}, b : 0 .. 2, i : Nat \ {0}]
      /\ boot'.b = b + 1 /\ boot'.i = 1 /\ (boot'.ph = "unclean" <=> boot'.b = 2)
  BY <1>1, <1>3 DEF NextBlock, Blocks
<1>6. i = Len(flash[b].items) + 1 /\ Len(flash[b].items) \in Nat
  <2>1. i <= Len(flash[b].items) + 1 /\ Len(flash[b].items) \in Nat
    BY <1>1, <1>3, <1>4 DEF BootInv
  <2>2. ~(i <= Len(flash[b].items))
    BY <1>3 DEF BootBlockDone, Written
  <2> QED BY <1>3, <2>1, <2>2
<1>7. i = 1 <=> flash[b].items = <<>>
  <2>1. flash[b].items \in Seq(Items)
    BY <1>4
  <2>2. Len(flash[b].items) = 0 <=> flash[b].items = <<>>
    BY <2>1, EmptySeq
  <2> QED BY <1>6, <2>2
<1>8. clean' = IF Empty(b) THEN clean + 1 ELSE clean
  BY <1>3, <1>7 DEF BootBlockDone, Empty
<1>9. BootInv'
  <2>1. \A c \in Blocks : Read(c)' <=> Read(c)
    BY <1>1, <1>3, <1>5 DEF Read, Blocks
  <2>2. \A c \in Blocks : Empty(c)' <=> Empty(c)
    BY <1>1 DEF Empty
  <2>3. clean' = Count(0)' + Count(1)'
    <3>1. clean = Count(0) + Count(1)
      BY <1>1 DEF BootInv
    <3>2. CASE b = 0
      BY <1>3, <1>5, <1>8, <2>2, <3>1, <3>2, BlockFacts DEF Count
    <3>3. CASE b = 1
      BY <1>3, <1>5, <1>8, <2>2, <3>1, <3>3, BlockFacts DEF Count
    <3> QED BY <3>2, <3>3, BlockFacts
  <2> QED BY <1>1, <1>5, <2>1, <2>3 DEF BootInv
<1>10. MarkInv'
  <2> SUFFICES ASSUME NEW c \in Blocks, info'[c] = "used", NEW j \in 1 .. Len(flash'[c].items)
               PROVE  flash'[c].items[j].st = "normal"
    BY DEF MarkInv
  <2>1. info[c] = "used" /\ j \in 1 .. Len(flash[c].items) /\ (c # b \/ j < i)
    BY <1>1, <1>4, <1>6
  <2> QED BY <1>1, <1>3, <2>1, BootMarks
<1>11. DiskInv'
  BY <1>1 DEF DiskInv
<1> QED BY <1>1, <1>4, <1>5, <1>9, <1>10, <1>11, BootStep

\* An update that cannot be finished leaves both items.
LEMMA BootReplaceFailsInv == IInv /\ BootReplaceFails => IInv'
<1> SUFFICES ASSUME IInv, BootReplaceFails PROVE IInv'
  OBVIOUS
<1>1. /\ boot.ph = "items" /\ Written(<<boot.b, boot.i>>) /\ NoMemory(faults)
      /\ boot' = [boot EXCEPT !.i = @ + 1]
      /\ exposed' = exposed \cup {ItemAt(<<boot.b, boot.i>>).key}
      /\ ItemAt(<<boot.b, boot.i>>).st = "normal"
      /\ UNCHANGED <<flash, info, clean, wblk, lock, gcvars, tasks, may>>
      /\ TypeOK /\ BootInv /\ DiskInv
  BY DEF IInv, BootReplaceFails, store
<1>2. /\ boot \in [ph : {"head", "items", "unclean", "astray"}, b : 0 .. 2, i : Nat \ {0}]
      /\ boot.b \in Blocks
  BY <1>1 DEF BootInv, Blocks
<1>3. PICK b \in Blocks, i \in Nat \ {0} : b = boot.b /\ i = boot.i
  BY <1>2
<1>4. /\ flash \in Flash /\ info \in Infos
      /\ \A c \in Blocks : flash[c].items \in Seq(Items) /\ Len(flash[c].items) < SIZE
  BY <1>1, TypeFacts
<1>5. i <= Len(flash[b].items) /\ Len(flash[b].items) \in Nat /\ SIZE \in Nat
  BY <1>1, <1>3, <1>4, SizeFacts DEF Written
<1>6. <<b, i>> \in Positions /\ ItemAt(<<b, i>>).key \in Keys
  <2>1. <<b, i>> \in Positions
    BY <1>4, <1>5, PositionFacts
  <2> QED BY <1>1, <1>3, <2>1, ItemFacts
<1>7. exposed' \subseteq Keys /\ faults' \in 0 .. MaxFaults
  BY <1>1, <1>3, <1>6, TypeFacts, NoMemoryFacts
<1>8. /\ boot' \in [ph : {"items"}, b : 0 .. 2, i : Nat \ {0}]
      /\ boot'.ph = "items" /\ boot'.b = b /\ boot'.i = i + 1
  BY <1>1, <1>2, <1>3
<1>9. DiskInv'
  BY <1>1 DEF DiskInv
<1>10. BootInv'
  <2>1. \A c \in Blocks : Read(c)' <=> Read(c)
    BY <1>1, <1>3, <1>8 DEF Read
  <2>2. Count(0)' = Count(0) /\ Count(1)' = Count(1)
    BY <1>1, <1>3, <1>8 DEF Count, Empty
  <2>3. boot'.b # 2 /\ boot'.i <= Len(flash'[boot'.b].items) + 1
    BY <1>1, <1>5, <1>8 DEF Blocks
  <2> QED BY <1>1, <1>8, <2>1, <2>2, <2>3 DEF BootInv
<1>11. MarkInv'
  <2> SUFFICES ASSUME NEW c \in Blocks, info[c] = "used", NEW j \in 1 .. Len(flash[c].items),
                      ~Unmarked(c, j)'
               PROVE  flash[c].items[j].st = "normal"
    BY <1>1 DEF MarkInv
  <2>1. c # b \/ j < i + 1
    BY <1>4, <1>8 DEF Unmarked
  <2>2. CASE c # b \/ j < i
    BY <1>1, <1>3, <2>2, BootMarks
  <2>3. CASE c = b /\ j = i
    BY <1>1, <1>3, <2>3 DEF ItemAt
  <2> QED BY <1>4, <2>1, <2>2, <2>3
<1> QED BY <1>1, <1>4, <1>7, <1>8, <1>9, <1>10, <1>11, BootStepF

\* A traversal that ends before its block does leads the store astray, or leaves
\* a CLEAN block that is formatted.
LEMMA BootItemFailsFacts ==
  ASSUME IInv, BootItemFails
  PROVE  /\ boot.ph = "items" /\ boot.b \in Blocks /\ info[boot.b] = flash[boot.b].state
         /\ UNCHANGED <<flash, info, wblk, lock, gcvars, tasks, may, exposed>>
         /\ faults' \in 0 .. MaxFaults
         /\ \/ boot' = [boot EXCEPT !.ph = "astray"] /\ clean' = clean
            \/ /\ flash[boot.b].state = "clean" /\ flash[Other(boot.b)].state \in {"used", "dirty"}
               /\ clean' = IF Empty(boot.b) THEN clean + 1 ELSE clean
               /\ boot' = NextBlock
<1>1. TypeOK /\ BootInv /\ boot.ph = "items" /\ NoMemory(faults)
  BY DEF IInv, BootItemFails
<1>2. boot.b \in Blocks /\ info[boot.b] = flash[boot.b].state
  BY <1>1 DEF BootInv, Blocks, Read
<1>3. faults' \in 0 .. MaxFaults
  BY <1>1, NoMemoryFacts
<1> QED BY <1>1, <1>2, <1>3 DEF BootItemFails, Empty

LEMMA BootItemFailsInv == IInv /\ BootItemFails => IInv'
<1> SUFFICES ASSUME IInv, BootItemFails PROVE IInv'
  OBVIOUS
<1>1. /\ boot.ph = "items" /\ boot.b \in Blocks /\ info[boot.b] = flash[boot.b].state
      /\ UNCHANGED <<flash, info, wblk, lock, gcvars, tasks, may, exposed>>
      /\ faults' \in 0 .. MaxFaults
      /\ \/ boot' = [boot EXCEPT !.ph = "astray"] /\ clean' = clean
         \/ /\ flash[boot.b].state = "clean" /\ flash[Other(boot.b)].state \in {"used", "dirty"}
            /\ clean' = IF Empty(boot.b) THEN clean + 1 ELSE clean
            /\ boot' = NextBlock
  BY BootItemFailsFacts
<1>2. /\ boot \in [ph : {"head", "items", "unclean", "astray"}, b : 0 .. 2, i : Nat \ {0}]
      /\ TypeOK /\ BootInv /\ DiskInv /\ exposed' \subseteq Keys
  BY <1>1, TypeFacts DEF BootInv, IInv
<1>3. PICK b \in Blocks, i \in Nat \ {0} : b = boot.b /\ i = boot.i
  BY <1>1, <1>2
<1>4. /\ flash \in Flash /\ info \in Infos
      /\ \A c \in Blocks : flash[c].items \in Seq(Items) /\ Len(flash[c].items) < SIZE
  BY <1>2, TypeFacts
<1>5. DiskInv'
  BY <1>1, <1>2 DEF DiskInv
<1>6. \A c \in Blocks : Empty(c)' <=> Empty(c)
  BY <1>1 DEF Empty
<1>7. CASE boot' = [boot EXCEPT !.ph = "astray"] /\ clean' = clean
  <2>1. /\ boot' \in [ph : {"astray"}, b : 0 .. 2, i : Nat \ {0}]
        /\ boot'.ph = "astray" /\ boot'.b = b /\ boot'.i = i
    BY <1>2, <1>3, <1>7
  <2>2. BootInv'
    <3>1. \A c \in Blocks : Read(c)' <=> Read(c)
      BY <1>1, <1>3, <2>1 DEF Read
    <3>2. Count(0)' = Count(0) /\ Count(1)' = Count(1)
      BY <1>3, <1>6, <2>1, BlockFacts DEF Count
    <3>3. boot'.b # 2 /\ boot'.i <= Len(flash'[boot'.b].items) + 1
      BY <1>1, <1>2, <1>3, <2>1 DEF Blocks, BootInv
    <3> QED BY <1>1, <1>2, <1>7, <2>1, <3>1, <3>2, <3>3 DEF BootInv
  <2>3. MarkInv'
    <3> SUFFICES ASSUME NEW c \in Blocks, info[c] = "used", NEW j \in 1 .. Len(flash[c].items),
                        ~Unmarked(c, j)'
                 PROVE  flash[c].items[j].st = "normal"
      BY <1>1 DEF MarkInv
    <3>1. c # boot.b \/ j < boot.i
      BY <1>3, <1>4, <2>1 DEF Unmarked
    <3> QED BY <1>1, <3>1, BootMarks
  <2> QED BY <1>1, <1>2, <1>4, <1>5, <2>1, <2>2, <2>3, BootStepF
<1>8. CASE /\ flash[b].state = "clean" /\ boot' = NextBlock
           /\ clean' = IF Empty(b) THEN clean + 1 ELSE clean
  <2>1. /\ boot' \in [ph : {"head", "unclean"}, b : 0 .. 2, i : Nat \ {0}]
        /\ boot'.b = b + 1 /\ boot'.i = 1 /\ (boot'.ph = "unclean" <=> boot'.b = 2)
    BY <1>3, <1>8 DEF NextBlock, Blocks
  <2>2. BootInv'
    <3>1. \A c \in Blocks : Read(c)' <=> Read(c)
      BY <1>1, <1>3, <2>1 DEF Read, Blocks
    <3>2. clean' = Count(0)' + Count(1)'
      <4>1. clean = Count(0) + Count(1)
        BY <1>1, <1>2 DEF BootInv
      <4>2. CASE b = 0
        BY <1>3, <1>6, <1>8, <2>1, <4>1, <4>2, BlockFacts DEF Count
      <4>3. CASE b = 1
        BY <1>3, <1>6, <1>8, <2>1, <4>1, <4>3, BlockFacts DEF Count
      <4> QED BY <4>2, <4>3, BlockFacts
    <3> QED BY <1>1, <1>2, <2>1, <3>1, <3>2 DEF BootInv
  <2>3. MarkInv'
    <3> SUFFICES ASSUME NEW c \in Blocks, info[c] = "used", NEW j \in 1 .. Len(flash[c].items)
                 PROVE  flash[c].items[j].st = "normal"
      BY <1>1 DEF MarkInv
    <3>1. c # boot.b
      BY <1>1, <1>3, <1>8
    <3> QED BY <1>1, <3>1, BootMarks
  <2> QED BY <1>1, <1>2, <1>4, <1>5, <2>1, <2>2, <2>3, BootStepF
<1> QED BY <1>1, <1>3, <1>7, <1>8

\* What kv_init() knows when it has read both blocks.
LEMMA UncleanFacts ==
  ASSUME IInv, boot.ph = "unclean"
  PROVE  /\ \A b \in Blocks : info[b] = flash[b].state /\ info[b] \in {"clean", "used", "dirty"}
         /\ clean = (IF Empty(0) THEN 1 ELSE 0) + (IF Empty(1) THEN 1 ELSE 0)
         /\ \A b \in Blocks : b \in Unclean <=> info[b] = "clean" /\ ~Empty(b)
         /\ info[0] = "clean" \/ info[1] = "clean"
<1>1. TypeOK /\ BootInv /\ DiskInv /\ boot.b = 2
  BY DEF IInv, BootInv
<1>2. \A b \in Blocks : info[b] = flash[b].state /\ flash[b].state # "blank"
  BY <1>1 DEF BootInv, Read, Blocks
<1>3. /\ flash \in Flash /\ info \in Infos
      /\ \A c \in Blocks : flash[c].items \in Seq(Items)
  BY <1>1, TypeFacts
<1>4. \A b \in Blocks : info[b] = flash[b].state /\ info[b] \in {"clean", "used", "dirty"}
  BY <1>2, <1>3 DEF Flash, States
<1>5. clean = (IF Empty(0) THEN 1 ELSE 0) + (IF Empty(1) THEN 1 ELSE 0)
  BY <1>1 DEF BootInv, Count
<1>6. \A b \in Blocks : Len(flash[b].items) > 0 <=> flash[b].items # <<>>
  <2> SUFFICES ASSUME NEW b \in Blocks PROVE Len(flash[b].items) > 0 <=> flash[b].items # <<>>
    OBVIOUS
  <2>1. flash[b].items \in Seq(Items)
    BY <1>3
  <2> QED BY <2>1, EmptySeq
<1>7. \A b \in Blocks : b \in Unclean <=> info[b] = "clean" /\ ~Empty(b)
  BY <1>4, <1>6 DEF Unclean, Empty
<1>8. info[0] = "clean" \/ info[1] = "clean"
  BY <1>1, <1>2, BlockFacts DEF DiskInv
<1> QED BY <1>4, <1>5, <1>7, <1>8

\* The block that kv_init() deals with is one of them.
LEMMA UncleanBlock ==
  ASSUME Unclean # {}
  PROVE  (CHOOSE c \in Unclean : \A d \in Unclean : d <= c) \in Unclean
<1>1. Unclean \subseteq {0, 1}
  BY DEF Unclean, Blocks
<1>2. \E c \in Unclean : \A d \in Unclean : d <= c
  <2>1. CASE 1 \in Unclean
    BY <1>1, <2>1
  <2>2. CASE 1 \notin Unclean
    <3>1. Unclean = {0}
      BY <1>1, <2>2
    <3> QED BY <3>1
  <2> QED BY <2>1, <2>2
<1> QED BY <1>2

\* A block with the items of an interrupted collection is kept, when the other
\* one is empty, or formatted.
LEMMA BootUncleanInv == IInv /\ BootUnclean => IInv'
<1> SUFFICES ASSUME IInv, BootUnclean PROVE IInv'
  OBVIOUS
<1>1. /\ boot.ph = "unclean" /\ Unclean # {} /\ TypeOK /\ BootInv /\ DiskInv
      /\ UNCHANGED <<wblk, lock, gcvars, tasks, ghosts>> /\ boot' = boot
  BY DEF IInv, BootUnclean
<1>2. PICK b \in Blocks : /\ b \in Unclean
                          /\ b = CHOOSE c \in Unclean : \A d \in Unclean : d <= c
  BY <1>1, UncleanBlock DEF Unclean
<1>3. PICK o \in Blocks : o = Other(b) /\ o # b /\ \A c \in Blocks : c = b \/ c = o
  BY BlockFacts
<1>4. /\ flash \in Flash /\ info \in Infos
      /\ \A c \in Blocks : flash[c].items \in Seq(Items) /\ Len(flash[c].items) < SIZE
  BY <1>1, TypeFacts
<1>5. /\ \A c \in Blocks : info[c] = flash[c].state /\ info[c] \in {"clean", "used", "dirty"}
      /\ clean = (IF Empty(0) THEN 1 ELSE 0) + (IF Empty(1) THEN 1 ELSE 0)
      /\ info[b] = "clean" /\ ~Empty(b) /\ flash[b].items # <<>>
  BY <1>1, <1>2, UncleanFacts DEF Empty
<1>6. boot.b = 2 /\ boot \in [ph : {"head", "items", "unclean", "astray"}, b : 0 .. 2, i : Nat \ {0}]
  BY <1>1 DEF BootInv
<1> DEFINE New(c) == /\ info'[c] = flash'[c].state /\ flash'[c].state # "blank"
<1>7. CASE KeepCopies
  <2>1. /\ flash' = WithState(flash, b, "dirty") /\ info' = [info EXCEPT ![b] = "dirty"]
        /\ clean' = clean
    BY <1>2, <1>7 DEF BootUnclean, WithState
  <2>2. /\ flash' \in Flash /\ flash'[b].state = "dirty" /\ flash'[b].items = flash[b].items
        /\ flash'[o] = flash[o]
    <3>1. "dirty" \in States
      BY DEF States
    <3>2. /\ flash' \in Flash /\ flash'[b].state = "dirty" /\ flash'[b].items = flash[b].items
          /\ flash'[Other(b)] = flash[Other(b)]
      BY <1>4, <2>1, <3>1, StateFacts
    <3> QED BY <1>3, <3>2
  <2>3. info' \in Infos /\ info'[b] = "dirty" /\ info'[o] = info[o]
    BY <1>3, <1>4, <2>1 DEF Infos
  <2>4. Empty(o)
    BY <1>3, <1>5, <1>7, BlockFacts DEF KeepCopies
  <2>5. DiskInv'
    BY <1>3, <2>2, <2>4, BlockFacts DEF DiskInv, Empty
  <2>6. BootInv'
    <3>1. \A c \in Blocks : New(c)
      BY <1>3, <1>5, <2>2, <2>3
    <3>2. \A c \in Blocks : Empty(c)' <=> Empty(c)
      BY <1>3, <1>5, <2>2 DEF Empty
    <3>3. Count(0)' = (IF Empty(0) THEN 1 ELSE 0) /\ Count(1)' = (IF Empty(1) THEN 1 ELSE 0)
      BY <1>1, <1>6, <3>2, BlockFacts DEF Count
    <3>4. \A c \in Blocks : Read(c)'
      BY <1>1, <1>6 DEF Read, Blocks
    <3> QED BY <1>1, <1>5, <1>6, <2>1, <3>1, <3>3, <3>4 DEF BootInv
  <2>7. MarkInv'
    <3> SUFFICES ASSUME NEW c \in Blocks, info'[c] = "used", NEW j \in 1 .. Len(flash'[c].items)
                 PROVE  flash'[c].items[j].st = "normal"
      BY DEF MarkInv
    <3>1. c = o /\ info[c] = "used" /\ flash'[c] = flash[c] /\ c # 2
      BY <1>3, <2>2, <2>3 DEF Blocks
    <3> QED BY <1>1, <1>6, <3>1, BootMarks
  <2>8. \A c \in Blocks : Len(flash'[c].items) < SIZE
    BY <1>3, <1>4, <2>2
  <2> QED BY <1>1, <2>2, <2>3, <2>5, <2>6, <2>7, <2>8, BootStep
<1>8. CASE ~KeepCopies
  <2>1. flash' = Formatted(b) /\ info' = info /\ clean' = clean + 1
    BY <1>2, <1>8 DEF BootUnclean
  <2>2. /\ flash' \in Flash /\ flash'[b].state = "clean" /\ flash'[b].items = <<>>
        /\ flash'[o] = flash[o]
    <3>1. flash' = [flash EXCEPT ![b] = [state |-> "clean", items |-> <<>>]] /\ "clean" \in States
      BY <2>1 DEF Formatted, States
    <3> QED BY <1>3, <1>4, <3>1, FormatFacts
  <2>5. DiskInv'
    BY <1>1, <1>3, <2>2, BlockFacts DEF DiskInv
  <2>6. BootInv'
    <3>1. \A c \in Blocks : New(c)
      BY <1>3, <1>5, <2>1, <2>2
    <3>2. Empty(b)' /\ ~Empty(b) /\ (Empty(o)' <=> Empty(o))
      BY <1>5, <2>2 DEF Empty
    <3>3. Count(0)' = (IF Empty(0)' THEN 1 ELSE 0) /\ Count(1)' = (IF Empty(1)' THEN 1 ELSE 0)
      BY <1>1, <1>6 DEF Count
    <3>4. \A c \in Blocks : Read(c)'
      BY <1>1, <1>6 DEF Read, Blocks
    <3>5. clean' = Count(0)' + Count(1)'
      <4>1. CASE b = 0 /\ o = 1
        BY <1>5, <2>1, <3>2, <3>3, <4>1
      <4>2. CASE b = 1 /\ o = 0
        BY <1>5, <2>1, <3>2, <3>3, <4>2
      <4> QED BY <1>3, <4>1, <4>2, BlockFacts
    <3> QED BY <1>1, <1>6, <3>1, <3>4, <3>5 DEF BootInv
  <2>7. MarkInv'
    <3> SUFFICES ASSUME NEW c \in Blocks, info'[c] = "used", NEW j \in 1 .. Len(flash'[c].items)
                 PROVE  flash'[c].items[j].st = "normal"
      BY DEF MarkInv
    <3>1. c = o /\ info[c] = "used" /\ flash'[c] = flash[c] /\ c # 2
      BY <1>3, <1>5, <2>1, <2>2 DEF Blocks
    <3> QED BY <1>1, <1>6, <3>1, BootMarks
  <2>8. \A c \in Blocks : Len(flash'[c].items) < SIZE
    BY <1>3, <1>4, <2>2, SizeFacts
  <2> QED BY <1>1, <1>4, <2>1, <2>2, <2>5, <2>6, <2>7, <2>8, BootStep
<1> QED BY <1>7, <1>8


\* A collection is triggered, or not.
TriggerStep ==
    \/ /\ ~trigger /\ trigger' = TRUE /\ waiter' = 0
       /\ gc' \in {[pc |-> "lock", i |-> 1], [pc |-> "none", i |-> 0]}
       /\ stale' = stale \cup {u \in Tasks : posting > 0 /\ pc[u] \in {"take", "blocked"}}
       /\ UNCHANGED <<sem, posting>>
    \/ UNCHANGED <<trigger, waiter, sem, gc, posting, stale>>

\* It resets the count of the waiting tasks: those of the last collection that
\* have not been posted yet are too late from now on.
LEMMA TriggerFacts ==
  ASSUME TypeOK, LockInv, WaitInv, gc.pc \notin Collecting, TriggerStep
  PROVE  /\ trigger' \in BOOLEAN /\ waiter' \in Nat /\ UNCHANGED <<sem, posting>>
         /\ stale' \subseteq Tasks
         /\ gc' \in [pc : {"off", "none", "lock"}, i : Nat] /\ gc'.i \in 0 .. SIZE
         /\ trigger' <=> gc'.pc # "off"
         /\ \A u \in Tasks : u \notin stale' =>
              /\ pc[u] \in {"count", "take", "blocked"} => trigger' \/ posting' > 0
              /\ pc[u] \in {"take", "blocked"} => waiter' > 0
<1>1. CASE UNCHANGED <<trigger, waiter, sem, gc, posting, stale>>
  BY <1>1, TypeFacts, PhaseFacts DEF LockInv, WaitInv
<1>2. CASE /\ ~trigger /\ trigger' = TRUE /\ waiter' = 0
           /\ gc' \in {[pc |-> "lock", i |-> 1], [pc |-> "none", i |-> 0]}
           /\ stale' = stale \cup {u \in Tasks : posting > 0 /\ pc[u] \in {"take", "blocked"}}
           /\ UNCHANGED <<sem, posting>>
  <2>1. stale \subseteq Tasks /\ stale' \subseteq Tasks /\ posting \in Nat
    BY <1>2, TypeFacts, SizeFacts
  <2>2. gc' \in [pc : {"off", "none", "lock"}, i : Nat] /\ gc'.i \in 0 .. SIZE /\ gc'.pc # "off"
    BY <1>2, SizeFacts
  <2>3. ASSUME NEW u \in Tasks, pc[u] \in {"take", "blocked"}
        PROVE  u \in stale'
    <3>1. CASE posting > 0
      BY <1>2, <2>3, <3>1
    <3>2. CASE ~(posting > 0)
      BY <1>2, <2>1, <2>3, <3>2 DEF WaitInv
    <3> QED BY <3>1, <3>2
  <2> QED BY <1>2, <2>1, <2>2, <2>3
<1> QED BY <1>1, <1>2 DEF TriggerStep

\* kv_trigger_gc() is such a step, and counts the failure to start the task.
LEMMA TriggerGcFacts ==
  ASSUME NEW c, NEW f \in 0 .. MaxFaults, TriggerGc(c, f)
  PROVE  TriggerStep /\ faults' \in 0 .. MaxFaults
<1>1. TriggerStep
  BY DEF TriggerGc, TriggerStep, gcvars
<1>2. faults' = f \/ NoMemory(f)
  BY DEF TriggerGc
<1>3. MaxFaults \in Nat
  BY KvAssumption
<1> QED BY <1>1, <1>2, <1>3 DEF NoMemory

\* A board that has read its blocks has a spare one: block 0 is never given up.
LEMMA SpareFacts ==
  ASSUME IInv, boot.ph = "unclean", Unclean = {}
  PROVE  /\ clean \in {1, 2}
         /\ clean = 2 => Empty(0) /\ Empty(1) /\ info[0] = "clean" /\ info[1] = "clean"
         /\ clean = 1 => \E b \in Blocks : /\ Empty(b) /\ info[b] = "clean"
                                           /\ info[Other(b)] \in {"used", "dirty"}
<1>1. /\ \A b \in Blocks : info[b] = flash[b].state /\ info[b] \in {"clean", "used", "dirty"}
      /\ clean = (IF Empty(0) THEN 1 ELSE 0) + (IF Empty(1) THEN 1 ELSE 0)
      /\ \A b \in Blocks : info[b] = "clean" => Empty(b)
      /\ info[0] = "clean" \/ info[1] = "clean"
  BY UncleanFacts
<1>2. \A b \in Blocks : Empty(b) => info[b] = "clean"
  BY <1>1 DEF Empty
<1>3. CASE Empty(0) /\ Empty(1)
  BY <1>1, <1>2, <1>3, BlockFacts
<1>4. CASE Empty(0) /\ ~Empty(1)
  BY <1>1, <1>2, <1>4, BlockFacts
<1>5. CASE ~Empty(0) /\ Empty(1)
  BY <1>1, <1>2, <1>5, BlockFacts
<1> QED BY <1>1, <1>3, <1>4, <1>5, BlockFacts

\* How kv_init() ends: with one empty block and one to write to.
LEMMA BootReadyFacts ==
  ASSUME IInv, BootReady
  PROVE  /\ boot.ph = "unclean" /\ boot' = Up /\ clean' = 1
         /\ UNCHANGED <<lock, pc, op, exposed>>
         /\ TriggerStep /\ faults' \in 0 .. MaxFaults
         /\ flash' \in Flash /\ info' \in Infos
         /\ \E w \in Blocks :
              /\ wblk' = w /\ info'[Other(w)] = "clean" /\ flash'[Other(w)] = flash[Other(w)]
              /\ Empty(Other(w)) /\ flash'[w].items = flash[w].items
              /\ flash'[w].state = info'[w]
              /\ \/ info[w] \in {"used", "dirty"} /\ flash' = flash /\ info' = info
                 \/ Empty(w) /\ info'[w] = "used"
<1>1. /\ boot.ph = "unclean" /\ Unclean = {} /\ TypeOK
      /\ boot' = Up /\ UNCHANGED <<lock, pc, op, exposed>>
  BY DEF IInv, BootReady, tasks
<1>2. /\ flash \in Flash /\ info \in Infos
  BY <1>1, TypeFacts
<1>3. /\ clean \in {1, 2}
      /\ clean = 2 => Empty(0) /\ Empty(1) /\ info[0] = "clean" /\ info[1] = "clean"
      /\ clean = 1 => \E b \in Blocks : /\ Empty(b) /\ info[b] = "clean"
                                        /\ info[Other(b)] \in {"used", "dirty"}
  BY <1>1, SpareFacts
<1>4. TriggerStep /\ faults' \in 0 .. MaxFaults
  <2>1. faults \in 0 .. MaxFaults
    BY <1>1, TypeFacts
  <2>2. TriggerGc(SIZE - Len(flash'[wblk'].items) < MAXLEN, faults)
    BY DEF BootReady
  <2> QED BY <2>1, <2>2, TriggerGcFacts
<1>5. WithSpare = flash /\ SpareInfo = info
  BY <1>3 DEF WithSpare, SpareInfo
<1>6. CASE clean = 2
  <2>1. /\ wblk' = 0 /\ clean' = 1 /\ flash' = WithState(flash, 0, "used")
        /\ info' = [info EXCEPT ![0] = "used"]
    BY <1>5, <1>6 DEF BootReady, WithState
  <2>2. "used" \in States /\ 0 \in Blocks /\ Other(0) = 1 /\ 1 \in Blocks
    BY BlockFacts DEF States
  <2>3. /\ flash' \in Flash /\ flash'[0].state = "used" /\ flash'[0].items = flash[0].items
        /\ flash'[1] = flash[1]
    <3>1. /\ flash' \in Flash /\ flash'[0].state = "used" /\ flash'[0].items = flash[0].items
          /\ flash'[Other(0)] = flash[Other(0)]
      BY <1>2, <2>1, <2>2, StateFacts
    <3> QED BY <2>2, <3>1
  <2>4. info' \in Infos /\ info'[0] = "used" /\ info'[1] = "clean"
    BY <1>2, <1>3, <1>6, <2>1, <2>2 DEF Infos
  <2> QED BY <1>1, <1>3, <1>4, <1>6, <2>1, <2>2, <2>3, <2>4
<1>7. CASE clean = 1
  <2>1. /\ wblk' = CHOOSE b \in Blocks : info[b] # "clean"
        /\ clean' = 1 /\ flash' = flash /\ info' = info
    BY <1>5, <1>7 DEF BootReady
  <2>2. PICK b \in Blocks : Empty(b) /\ info[b] = "clean" /\ info[Other(b)] \in {"used", "dirty"}
    BY <1>3, <1>7
  <2>3. PICK w \in Blocks : w = Other(b) /\ Other(w) = b /\ \A c \in Blocks : c = b \/ c = w
    BY BlockFacts
  <2>4. wblk' = w
    BY <2>1, <2>2, <2>3
  <2>5. flash[w].state = info[w]
    BY <1>1, UncleanFacts
  <2> QED BY <1>1, <1>2, <1>4, <2>1, <2>2, <2>3, <2>4, <2>5
<1> QED BY <1>3, <1>6, <1>7

\* The invariant when kv_init() returns.
LEMMA BootReadyInv == IInv /\ BootReady => IInv'
<1> SUFFICES ASSUME IInv, BootReady PROVE IInv'
  OBVIOUS
<1>1. /\ boot.ph = "unclean" /\ boot' = Up /\ clean' = 1
      /\ UNCHANGED <<lock, pc, op, exposed>> /\ faults' \in 0 .. MaxFaults
      /\ TriggerStep /\ flash' \in Flash /\ info' \in Infos
  BY BootReadyFacts
<1>2. PICK w \in Blocks :
        /\ wblk' = w /\ info'[Other(w)] = "clean" /\ flash'[Other(w)] = flash[Other(w)]
        /\ Empty(Other(w)) /\ flash'[w].items = flash[w].items
        /\ flash'[w].state = info'[w]
        /\ \/ info[w] \in {"used", "dirty"} /\ flash' = flash /\ info' = info
           \/ Empty(w) /\ info'[w] = "used"
  BY BootReadyFacts
<1>3. TypeOK /\ OpInv /\ LockInv /\ WaitInv /\ BootInv
  BY DEF IInv
<1>4. PICK o \in Blocks : o = Other(w) /\ o # w /\ \A c \in Blocks : c = w \/ c = o
  BY BlockFacts
<1>5. pc = [t \in Tasks |-> "idle"] /\ lock = None /\ gc.pc = "off" /\ posting = 0
  BY <1>1, <1>3 DEF LockInv
<1>6. /\ trigger' \in BOOLEAN /\ waiter' \in Nat /\ UNCHANGED <<sem, posting>>
      /\ stale' \subseteq Tasks
      /\ gc' \in [pc : {"off", "none", "lock"}, i : Nat] /\ gc'.i \in 0 .. SIZE
      /\ trigger' <=> gc'.pc # "off"
  BY <1>1, <1>3, <1>5, TriggerFacts DEF Collecting
<1>7. OpInv'
  BY <1>1, <1>3 DEF OpInv
<1>8. LockInv'
  BY <1>1, <1>3, <1>5, <1>6, KvAssumption DEF LockInv, Collecting, Holding, Up
<1>9. OldInv' /\ WaitInv'
  BY <1>1, <1>5 DEF OldInv, WaitInv
<1>10. BootInv' /\ boot'.ph = "up" /\ boot'.b = 0
  BY <1>1 DEF BootInv, Up
<1>11. flash'[o].state = "clean" /\ flash'[o].items = <<>> /\ flash'[w].state \in {"used", "dirty"}
  BY <1>2, <1>4 DEF Empty
<1>12. DiskInv'
  BY <1>4, <1>11, BlockFacts DEF DiskInv
<1>13. StoreInv'
  <2>1. Settled'
    BY <1>1, <1>2, <1>4, <1>11 DEF Settled, Empty
  <2>2. gc'.pc \notin Collecting
    BY <1>6 DEF Collecting
  <2> QED BY <2>1, <2>2 DEF StoreInv
<1>14. MarkInv'
  <2> SUFFICES ASSUME NEW c \in Blocks, info'[c] = "used", NEW j \in 1 .. Len(flash'[c].items)
               PROVE  flash'[c].items[j].st = "normal"
    BY DEF MarkInv
  <2>1. c = w /\ flash'[c].items = flash[c].items
    BY <1>2, <1>4
  <2>2. CASE info[w] = "used"
    <3>1. c # boot.b
      BY <1>1, <1>3 DEF BootInv, Blocks
    <3> QED BY <1>1, <2>1, <2>2, <3>1, BootMarks
  <2>3. CASE Empty(w)
    BY <2>1, <2>3 DEF Empty
  <2> QED BY <1>2, <2>1, <2>2, <2>3
<1>15. TypeOK'
  <2>1. \A c \in Blocks : Len(flash'[c].items) < SIZE
    BY <1>2, <1>3, <1>4, TypeFacts
  <2>2. may' \in [Keys -> SUBSET (Vals \cup {None})]
    <3>1. may \in [Keys -> SUBSET (Vals \cup {None})]
      BY <1>3, TypeFacts
    <3>2. may' = [k \in Keys |-> IF ValueOf(k) \in may[k] THEN {ValueOf(k)} ELSE may[k]]
      BY DEF BootReady
    <3>3. \A k \in Keys : (IF ValueOf(k) \in may[k] THEN {ValueOf(k)} ELSE may[k])
                            \in SUBSET (Vals \cup {None})
      BY <3>1
    <3> QED BY <3>2, <3>3
  <2>3. gc'.pc \in {"off", "none", "lock"} \cup Collecting
    BY <1>6
  <2> QED BY <1>1, <1>2, <1>3, <1>6, <1>7, <1>10, <2>1, <2>2, <2>3, TypeFacts, TypeStep
<1> QED BY <1>7, <1>8, <1>9, <1>10, <1>12, <1>13, <1>14, <1>15 DEF IInv


-----------------------------------------------------------------------------
(* The tasks, between writes *)

\* A step that leaves the blocks alone keeps what the invariant says of them.
LEMMA SameStore ==
  ASSUME IInv, UNCHANGED <<flash, info, clean, wblk, boot>>,
         gc' = gc \/ (gc.pc \notin Collecting /\ gc'.pc \notin Collecting),
         \A u \in Tasks : pc[u] = "mark" => pc'[u] = "mark" /\ op'[u].old = op[u].old
  PROVE  DiskInv' /\ BootInv' /\ StoreInv' /\ MarkInv'
<1>1. DiskInv /\ BootInv /\ StoreInv /\ MarkInv
  BY DEF IInv
<1>2. DiskInv'
  BY <1>1 DEF DiskInv
<1>3. BootInv'
  BY <1>1 DEF BootInv, Read, Count, Empty
<1>4. StoreInv'
  <2>1. Settled => Settled'
    BY DEF Settled, Empty
  <2>2. Moving /\ gc' = gc => Moving'
    BY DEF Moving, Empty, From
  <2> QED BY <1>1, <2>1, <2>2 DEF StoreInv
<1>5. MarkInv'
  <2>1. \A b, i : Unmarked(b, i) => Unmarked(b, i)'
    BY DEF Unmarked
  <2> QED BY <1>1, <2>1 DEF MarkInv
<1> QED BY <1>2, <1>3, <1>4, <1>5

\* What kv_item_search() finds while no collection runs is in the block that is
\* written to.
LEMMA FindFacts ==
  ASSUME IInv, boot.ph = "up", gc.pc \notin Collecting, NEW S,
         S \subseteq Positions, \A p \in S : \E k \in Keys : Live(p, k),
         NEW p, p = FirstOf(S), p # None
  PROVE  /\ p \in S /\ p \in Positions /\ p[1] = wblk /\ Written(p)
         /\ ItemAt(p).key \in Keys
<1>1. TypeOK /\ Settled
  BY DEF IInv, StoreInv
<1>2. S # {}
  BY DEF FirstOf
<1>3. p \in S /\ p \in Positions
  BY <1>2, FirstFacts
<1>4. PICK k \in Keys : Live(p, k)
  BY <1>3
<1>5. Written(p) /\ ItemAt(p).key = k
  BY <1>4 DEF Live
<1>6. p[1] \in Blocks /\ p[2] \in 1 .. Len(flash[p[1]].items)
  BY <1>1, <1>3, <1>5, ItemFacts
<1>7. p[1] # Other(wblk)
  <2>1. flash[Other(wblk)].items = <<>>
    BY <1>1 DEF Settled, Empty
  <2>2. Len(<<>>) = 0
    OBVIOUS
  <2> QED BY <1>6, <2>1, <2>2
<1>8. p[1] = wblk
  BY <1>1, <1>6, <1>7, TypeFacts, BlockFacts
<1> QED BY <1>3, <1>5, <1>8

\* ... for the search of one key.
LEMMA FindKey ==
  ASSUME IInv, boot.ph = "up", gc.pc \notin Collecting, NEW k \in Keys, Find(k) # None
  PROVE  Find(k) \in Positions /\ Find(k)[1] = wblk /\ Written(Find(k)) /\ Live(Find(k), k)
<1> DEFINE S == {p \in Positions : info[p[1]] # "clean" /\ Live(p, k)}
<1>1. S \subseteq Positions /\ (\A p \in S : \E j \in Keys : Live(p, j)) /\ Find(k) = FirstOf(S)
  BY DEF Find
<1>2. \A p \in S : Live(p, k)
  OBVIOUS
<1> HIDE DEF S
<1>3. Find(k) \in S /\ Find(k) \in Positions /\ Find(k)[1] = wblk /\ Written(Find(k))
  BY <1>1, FindFacts
<1> QED BY <1>2, <1>3

\* A task that is not idle runs on a board that is up, and one in a critical
\* section excludes a collection.
LEMMA UpFacts ==
  ASSUME IInv, NEW t \in Tasks
  PROVE  /\ pc[t] # "idle" => boot.ph = "up" /\ boot = Up
         /\ pc[t] \in Holding => lock = t /\ gc.pc \notin Collecting
         /\ lock = None => gc.pc \notin Collecting /\ \A u \in Tasks : pc[u] \notin Holding
         /\ \A u \in Tasks : pc[t] \in Holding /\ pc[u] \in Holding => u = t
<1>1. LockInv
  BY DEF IInv
<1> QED BY <1>1, KvAssumption DEF LockInv

\* What is left to show for a step of task t that leaves the blocks alone.
LEMMA TaskStep ==
  ASSUME IInv, NEW t \in Tasks, NEW l, UNCHANGED <<flash, info, clean, wblk, boot, may>>,
         boot.ph = "up",
         pc' = [pc EXCEPT ![t] = l],
         l \in {"idle", "count", "take", "blocked", "lock", "append", "delete", "mark", "prefix"},
         OpInv', lock' \in Tasks \cup {Gc, None},
         \/ gc' = gc /\ trigger' = trigger /\ posting' = posting
         \/ gc.pc \notin Collecting /\ TriggerStep,
         pc[t] # "mark",
         \A u \in Tasks \ {t} : op'[u] = op[u],
         \/ lock' = lock /\ (l \in Holding <=> pc[t] \in Holding)
         \/ lock = None /\ lock' = t /\ l \in Holding
         \/ lock = t /\ lock' = None /\ l \notin Holding,
         l = "append" => Len(flash[wblk].items) + 1 < SIZE,
         (l = "append" /\ op'[t].old # None) \/ l \in {"delete", "mark"}
             => op'[t].old \in Positions /\ op'[t].old[1] = wblk /\ Written(op'[t].old),
         WaitInv', waiter' \in Nat, sem' \in Nat, stale' \subseteq Tasks,
         exposed' \subseteq Keys, faults' \in 0 .. MaxFaults
  PROVE  IInv'
<1>1. TypeOK /\ LockInv /\ OldInv /\ WaitInv
  BY DEF IInv
<1>2. pc'[t] = l /\ \A u \in Tasks \ {t} : pc'[u] = pc[u]
  BY <1>1, TypeFacts
<1>3. pc' \in [Tasks -> {"idle", "count", "take", "blocked", "lock", "append",
                         "delete", "mark", "prefix"}]
  BY <1>1, TypeFacts
<1>4. /\ gc' \in [pc : {"off", "none", "lock"} \cup Collecting, i : Nat] /\ gc'.i \in 0 .. SIZE
      /\ trigger' \in BOOLEAN /\ posting' = posting /\ (trigger' <=> gc'.pc # "off")
      /\ gc'.pc \in Collecting <=> gc.pc \in Collecting
      /\ gc' = gc \/ (gc.pc \notin Collecting /\ gc'.pc \notin Collecting)
  <2>1. CASE gc' = gc /\ trigger' = trigger /\ posting' = posting
    BY <1>1, <2>1, TypeFacts, PhaseFacts DEF LockInv
  <2>2. CASE gc.pc \notin Collecting /\ TriggerStep
    <3>1. /\ trigger' \in BOOLEAN /\ posting' = posting
          /\ gc' \in [pc : {"off", "none", "lock"}, i : Nat] /\ gc'.i \in 0 .. SIZE
          /\ trigger' <=> gc'.pc # "off"
      BY <1>1, <2>2, TriggerFacts
    <3>2. gc'.pc \notin Collecting
      BY <3>1 DEF Collecting
    <3> QED BY <2>2, <3>1, <3>2
  <2> QED BY <2>1, <2>2
<1>5. DiskInv' /\ BootInv' /\ StoreInv' /\ MarkInv'
  BY <1>2, <1>4, SameStore
<1>6. LockInv'
  <2>1. \A u \in Tasks : lock' = u <=> pc'[u] \in Holding
    BY <1>1, <1>2, KvAssumption DEF LockInv
  <2>2. lock' = Gc <=> gc'.pc \in Collecting
    BY <1>1, <1>4, KvAssumption DEF LockInv
  <2>3. gc'.pc \in Collecting => posting' < MaxPosting
    BY <1>1, <1>4 DEF LockInv
  <2> QED BY <1>1, <1>4, <2>1, <2>2, <2>3 DEF LockInv
<1>7. OldInv'
  <2> SUFFICES ASSUME NEW u \in Tasks
               PROVE  /\ pc'[u] = "append" => Len(flash'[wblk'].items) + 1 < SIZE
                      /\ (pc'[u] = "append" /\ op'[u].old # None) \/ pc'[u] \in {"delete", "mark"}
                           => /\ op'[u].old \in Positions /\ op'[u].old[1] = wblk'
                              /\ Written(op[u].old)'
    BY DEF OldInv
  <2>1. Written(op[u].old)' <=> Written(op'[u].old)
    BY DEF Written
  <2>2. CASE u = t
    BY <1>2, <2>1, <2>2
  <2>3. CASE u # t
    BY <1>1, <1>2, <2>1, <2>3 DEF OldInv
  <2> QED BY <2>2, <2>3
<1>8. TypeOK'
  BY <1>1, <1>3, <1>4, TypeFacts, PhaseFacts, TypeStep
<1> QED BY <1>5, <1>6, <1>7, <1>8 DEF IInv


\* A task takes up an operation, or goes on with it.
LEMMA OpStep ==
  ASSUME IInv, NEW t \in Tasks, NEW l, NEW o \in Ops,
         pc' = [pc EXCEPT ![t] = l], op' = [op EXCEPT ![t] = o],
         l \in Setting => o.key \in Keys /\ o.val \in Vals /\ o.kind = "set",
         l \in {"delete", "mark"} => o.key \in Keys,
         o.kind \in {"delete", "prefix"} => o.val = None
  PROVE  OpInv' /\ op'[t] = o /\ \A u \in Tasks \ {t} : op'[u] = op[u]
<1>1. OpInv /\ TypeOK
  BY DEF IInv
<1>2. op \in [Tasks -> Ops]
  BY <1>1 DEF OpInv
<1>3. op' \in [Tasks -> Ops] /\ op'[t] = o /\ \A u \in Tasks \ {t} : op'[u] = op[u]
  BY <1>2
<1>4. pc'[t] = l /\ \A u \in Tasks \ {t} : pc'[u] = pc[u]
  BY <1>1, TypeFacts
<1> QED BY <1>1, <1>3, <1>4 DEF OpInv

\* An operation that returns leaves none behind.
LEMMA ReturnFacts ==
  ASSUME IInv, NEW t \in Tasks, Return(t)
  PROVE  /\ pc' = [pc EXCEPT ![t] = "idle"] /\ op' = [op EXCEPT ![t] = NoOp]
         /\ OpInv' /\ op'[t] = NoOp /\ \A u \in Tasks \ {t} : op'[u] = op[u]
<1>1. NoOp \in Ops /\ NoOp.kind = "none"
  BY DEF NoOp, Ops
<1>2. pc' = [pc EXCEPT ![t] = "idle"] /\ op' = [op EXCEPT ![t] = NoOp]
  BY DEF Return, Goto
<1> HIDE DEF NoOp
<1> QED BY <1>1, <1>2, OpStep DEF Setting

\* Who waits is counted before and after a step of a task that does not touch
\* the semaphore.
LEMMA WaitStep ==
  ASSUME IInv, NEW t \in Tasks, NEW l, pc' = [pc EXCEPT ![t] = l],
         UNCHANGED <<trigger, waiter, posting, stale>>,
         l = "count" => trigger, l \notin {"take", "blocked"}
  PROVE  WaitInv'
<1>1. WaitInv /\ TypeOK
  BY DEF IInv
<1>4. pc'[t] = l /\ \A u \in Tasks \ {t} : pc'[u] = pc[u]
  BY <1>1, TypeFacts
<1> QED BY <1>1, <1>4 DEF WaitInv

\* kv_item_set() is called.
LEMMA SetEnterInv ==
  ASSUME IInv, NEW t \in Tasks, NEW k \in Keys, NEW v \in Vals, SetEnter(t, k, v)
  PROVE  IInv'
<1> DEFINE o == [kind |-> "set", keys |-> {}, key |-> k, val |-> v, old |-> None]
           l == IF trigger THEN "count" ELSE "lock"
<1>1. /\ boot = Up /\ pc[t] = "idle" /\ op' = [op EXCEPT ![t] = o] /\ pc' = [pc EXCEPT ![t] = l]
      /\ UNCHANGED <<flash, info, clean, wblk, lock, trigger, waiter, sem, gc, posting, stale,
                     boot, may, exposed, faults>>
  BY DEF SetEnter, IsUp, Goto, store, gcvars, ghosts
<1>2. o \in Ops /\ o.key \in Keys /\ o.val \in Vals /\ o.kind = "set"
  BY DEF Ops
<1>3. l \in {"count", "lock"} /\ (l = "count" => trigger)
  OBVIOUS
<1> HIDE DEF o, l
<1>4. OpInv' /\ \A u \in Tasks \ {t} : op'[u] = op[u]
  BY <1>1, <1>2, <1>3, OpStep
<1>5. WaitInv'
  BY <1>1, <1>3, WaitStep
<1>6. boot.ph = "up" /\ TypeOK
  BY <1>1 DEF Up, IInv
<1>7. l \notin Holding /\ pc[t] \notin Holding
  BY <1>1, <1>3 DEF Holding
<1> QED BY <1>1, <1>3, <1>4, <1>5, <1>6, <1>7, TypeFacts, TaskStep

\* The operation a task is in stays as it is.
LEMMA SameOp ==
  ASSUME IInv, NEW t \in Tasks, NEW l, pc' = [pc EXCEPT ![t] = l], op' = op,
         pc[t] \in Setting, l \in Setting
  PROVE  OpInv'
<1>1. OpInv /\ TypeOK
  BY DEF IInv
<1>4. pc'[t] = l /\ \A u \in Tasks \ {t} : pc'[u] = pc[u]
  BY <1>1, TypeFacts
<1>5. l \notin {"delete", "mark"}
  BY DEF Setting
<1> QED BY <1>1, <1>4, <1>5 DEF OpInv

\* kv_item_set() is counted among the waiting tasks.
LEMMA SetCountInv == ASSUME IInv, NEW t \in Tasks, SetCount(t) PROVE IInv'
<1>1. /\ pc[t] = "count" /\ waiter' = waiter + 1 /\ pc' = [pc EXCEPT ![t] = "take"]
      /\ UNCHANGED <<flash, info, clean, wblk, lock, trigger, sem, gc, posting, stale,
                     boot, op, may, exposed, faults>>
  BY DEF SetCount, Goto, store, ghosts
<1>2. TypeOK /\ WaitInv /\ boot.ph = "up"
  BY <1>1, UpFacts DEF IInv
<1>3. OpInv'
  BY <1>1, SameOp DEF Setting
<1>4. pc'[t] = "take" /\ \A u \in Tasks \ {t} : pc'[u] = pc[u]
  BY <1>1, <1>2, TypeFacts
<1>5. waiter \in Nat /\ waiter' \in Nat /\ waiter' > 0
  BY <1>1, <1>2, TypeFacts
<1>6. WaitInv'
  BY <1>1, <1>2, <1>4, <1>5 DEF WaitInv
<1>7. "take" \notin Holding /\ pc[t] \notin Holding
  BY <1>1 DEF Holding
<1> QED BY <1>1, <1>2, <1>3, <1>5, <1>6, <1>7, TypeFacts, TaskStep

\* ... and takes the semaphore, or blocks on it.
LEMMA SetTakeInv == ASSUME IInv, NEW t \in Tasks, SetTake(t) PROVE IInv'
<1>1. /\ pc[t] = "take"
      /\ UNCHANGED <<flash, info, clean, wblk, lock, trigger, waiter, gc, posting,
                     boot, op, may, exposed, faults>>
  BY DEF SetTake, store, ghosts
<1>2. TypeOK /\ WaitInv /\ boot.ph = "up"
  BY <1>1, UpFacts DEF IInv
<1>7. pc[t] \notin Holding /\ "blocked" \notin Holding /\ "lock" \notin Holding
  BY <1>1 DEF Holding
<1>8. CASE sem > 0
  <2>1. sem' = sem - 1 /\ pc' = [pc EXCEPT ![t] = "lock"] /\ stale' = stale \ {t}
    BY <1>8 DEF SetTake, Goto
  <2>2. sem' \in Nat /\ stale' \subseteq Tasks
    BY <1>2, <1>8, <2>1, TypeFacts
  <2>3. pc'[t] = "lock" /\ \A u \in Tasks \ {t} : pc'[u] = pc[u]
    BY <1>2, <2>1, TypeFacts
  <2>4. WaitInv'
    BY <1>1, <1>2, <2>1, <2>3 DEF WaitInv
  <2>5. OpInv'
    BY <1>1, <2>1, SameOp DEF Setting
  <2> QED BY <1>1, <1>2, <1>7, <2>1, <2>2, <2>4, <2>5, TypeFacts, TaskStep
<1>9. CASE ~(sem > 0)
  <2>1. UNCHANGED <<sem, stale>> /\ pc' = [pc EXCEPT ![t] = "blocked"]
    BY <1>9 DEF SetTake, Goto
  <2>3. pc'[t] = "blocked" /\ \A u \in Tasks \ {t} : pc'[u] = pc[u]
    BY <1>2, <2>1, TypeFacts
  <2>4. WaitInv'
    BY <1>1, <1>2, <2>1, <2>3 DEF WaitInv
  <2>5. OpInv'
    BY <1>1, <2>1, SameOp DEF Setting
  <2> QED BY <1>1, <1>2, <1>7, <2>1, <2>4, <2>5, TypeFacts, TaskStep
<1> QED BY <1>8, <1>9


\* An operation ends without a write.
LEMMA LeaveInv ==
  ASSUME IInv, NEW t \in Tasks, Return(t), pc[t] \in {"lock", "prefix"},
         UNCHANGED <<flash, info, clean, wblk, trigger, waiter, sem, gc, posting, stale,
                     boot, may>>,
         exposed' \subseteq Keys, faults' \in 0 .. MaxFaults,
         IF pc[t] = "prefix" THEN lock' = None ELSE lock' = lock
  PROVE  IInv'
<1>1. /\ pc' = [pc EXCEPT ![t] = "idle"]
      /\ OpInv' /\ \A u \in Tasks \ {t} : op'[u] = op[u]
  BY ReturnFacts
<1>2. TypeOK /\ WaitInv /\ boot.ph = "up"
  BY UpFacts DEF IInv
<1>3. WaitInv'
  BY ZenonT(60), <1>1, WaitStep
<1>4. \/ lock' = lock /\ ("idle" \in Holding <=> pc[t] \in Holding)
      \/ lock = t /\ lock' = None /\ "idle" \notin Holding
  <2>1. CASE pc[t] = "prefix"
    BY <2>1, UpFacts DEF Holding
  <2>2. CASE pc[t] = "lock"
    BY <2>2 DEF Holding
  <2> QED BY <2>1, <2>2
<1>5. lock' \in Tasks \cup {Gc, None}
  BY <1>2, <1>4, TypeFacts
<1> QED BY <1>1, <1>2, <1>3, <1>4, <1>5, TypeFacts, TaskStep

\* kv_item_store() finds room, or gives up; it may trigger a collection.
LEMMA StoreStep ==
  ASSUME IInv, NEW t \in Tasks, NEW p \in Positions \cup {None}, pc[t] = "lock", lock = None,
         NEW f \in 0 .. MaxFaults, Store(t, p, f), p # None => p[1] = wblk /\ Written(p),
         exposed' \subseteq Keys
  PROVE  IInv'
<1>1. /\ UNCHANGED <<flash, info, clean, wblk, boot, may>>
      /\ TriggerStep /\ faults' \in 0 .. MaxFaults
  <2>1. TriggerGc(Space(wblk) - 1 < MAXLEN /\ clean <= 1, f)
    BY DEF Store
  <2>2. TriggerStep /\ faults' \in 0 .. MaxFaults
    BY <2>1, TriggerGcFacts
  <2> QED BY <2>2 DEF Store, store
<1>2. TypeOK /\ WaitInv /\ boot.ph = "up" /\ LockInv /\ OpInv /\ gc.pc \notin Collecting
  BY UpFacts DEF IInv
<1>3. /\ waiter' \in Nat /\ UNCHANGED <<sem, posting>> /\ stale' \subseteq Tasks
      /\ \A u \in Tasks : u \notin stale' =>
           /\ pc[u] \in {"count", "take", "blocked"} => trigger' \/ posting' > 0
           /\ pc[u] \in {"take", "blocked"} => waiter' > 0
  BY <1>1, <1>2, TriggerFacts
<1>4. pc[t] \notin Holding
  BY DEF Holding
<1>5. ASSUME NEW l, l \in {"append", "idle"}, pc' = [pc EXCEPT ![t] = l]
      PROVE  WaitInv'
  <2>1. pc'[t] = l /\ \A u \in Tasks \ {t} : pc'[u] = pc[u]
    BY <1>2, <1>5, TypeFacts
  <2> QED BY <1>3, <1>5, <2>1 DEF WaitInv
<1>6. CASE Space(wblk) > 1
  <2>1. lock' = t /\ pc' = [pc EXCEPT ![t] = "append"] /\ op' = [op EXCEPT ![t].old = p]
    BY <1>6 DEF Store, Goto
  <2>a. PICK o : o = [op[t] EXCEPT !.old = p]
    OBVIOUS
  <2>b. op[t] \in Ops
    BY <1>2 DEF OpInv
  <2>2. /\ o \in Ops /\ o.old = p
        /\ o.key = op[t].key /\ o.val = op[t].val /\ o.kind = op[t].kind
    BY <2>a, <2>b DEF Ops
  <2>3. op' = [op EXCEPT ![t] = o]
    BY <2>1, <2>a
  <2>4. o.key \in Keys /\ o.val \in Vals /\ o.kind = "set"
    BY <1>2, <2>2 DEF OpInv, Setting
  <2>c. lock' = t /\ pc' = [pc EXCEPT ![t] = "append"]
    BY <2>1
  <2>5. OpInv' /\ op'[t] = o /\ \A u \in Tasks \ {t} : op'[u] = op[u]
    BY <2>2, <2>3, <2>4, <2>c, OpStep
  <2>6. Len(flash[wblk].items) + 1 < SIZE
    BY <1>2, <1>6, TypeFacts, SizeFacts DEF Space
  <2>7. WaitInv'
    BY <1>5, <2>1
  <2>8. "append" \in Holding
    BY DEF Holding
  <2> QED BY <1>1, <1>2, <1>3, <1>4, <2>c, <2>2, <2>5, <2>6, <2>7, <2>8, TypeFacts, TaskStep
<1>7. CASE ~(Space(wblk) > 1)
  <2>1. Return(t) /\ lock' = lock
    BY <1>7 DEF Store
  <2>2. /\ pc' = [pc EXCEPT ![t] = "idle"]
        /\ OpInv' /\ \A u \in Tasks \ {t} : op'[u] = op[u]
    BY <2>1, ReturnFacts
  <2>3. WaitInv'
    BY <1>5, <2>2
  <2>4. "idle" \notin Holding
    BY DEF Holding
  <2> QED BY <1>1, <1>2, <1>3, <1>4, <2>1, <2>2, <2>3, <2>4, TypeFacts, TaskStep
<1> QED BY <1>6, <1>7

\* kv_item_set() has the lock and searches for its key.
LEMMA SetLockInv == ASSUME IInv, NEW t \in Tasks, SetLock(t) PROVE IInv'
<1>1. pc[t] = "lock" /\ lock = None
  BY DEF SetLock
<1>2. TypeOK /\ boot.ph = "up" /\ gc.pc \notin Collecting /\ op[t].key \in Keys
  BY <1>1, UpFacts DEF IInv, OpInv, Setting
<1>3. CASE ValueOf(op[t].key) = op[t].val
  <2>1. Return(t) /\ UNCHANGED <<store, lock, gcvars, boot, ghosts>>
    BY <1>3 DEF SetLock
  <2> QED BY <1>1, <1>2, <2>1, TypeFacts, LeaveInv DEF store, gcvars, ghosts
<1>4. CASE ValueOf(op[t].key) # op[t].val
  <2>1. Store(t, Find(op[t].key), faults) /\ UNCHANGED exposed
    BY <1>4 DEF SetLock
  <2>2. PICK p : p = Find(op[t].key)
    OBVIOUS
  <2>3. p # None => p \in Positions /\ p[1] = wblk /\ Written(p)
    BY <1>2, <2>2, FindKey
  <2> QED BY <1>1, <1>2, <2>1, <2>2, <2>3, TypeFacts, StoreStep
<1> QED BY <1>3, <1>4

\* ... which may fail for lack of memory.
LEMMA SearchFailsInv == ASSUME IInv, NEW t \in Tasks, SearchFails(t) PROVE IInv'
<1>1. /\ pc[t] = "lock" /\ lock = None /\ faults < MaxFaults
      /\ exposed' = exposed \cup {op[t].key} /\ Store(t, None, faults + 1)
  BY DEF SearchFails
<1>2. TypeOK /\ op[t].key \in Keys
  BY <1>1 DEF IInv, OpInv, Setting
<1>3. exposed' \subseteq Keys /\ faults + 1 \in 0 .. MaxFaults
  BY <1>1, <1>2, TypeFacts, SizeFacts
<1> QED BY <1>1, <1>3, StoreStep

\* There is no memory for the item to write.
LEMMA SetFailsInv == ASSUME IInv, NEW t \in Tasks, SetFails(t) PROVE IInv'
<1>1. /\ pc[t] = "lock" /\ NoMemory(faults) /\ Return(t)
      /\ UNCHANGED <<flash, info, clean, wblk, lock, trigger, waiter, sem, gc, posting, stale,
                     boot, may, exposed>>
      /\ TypeOK
  BY DEF SetFails, IInv, store, gcvars
<1>2. exposed' \subseteq Keys /\ faults' \in 0 .. MaxFaults
  BY <1>1, TypeFacts, NoMemoryFacts
<1> QED BY <1>1, <1>2, LeaveInv

\* kv_item_delete() has found its key.
LEMMA DeleteInv == ASSUME IInv, NEW t \in Tasks, NEW k \in Keys, Delete(t, k) PROVE IInv'
<1>1. PICK p : p = Find(k)
  OBVIOUS
<1> DEFINE o == [kind |-> "delete", keys |-> {}, key |-> k, val |-> None, old |-> p]
<1>2. /\ boot = Up /\ pc[t] = "idle" /\ lock = None /\ p # None
      /\ op' = [op EXCEPT ![t] = o] /\ lock' = t /\ pc' = [pc EXCEPT ![t] = "delete"]
      /\ UNCHANGED <<flash, info, clean, wblk, trigger, waiter, sem, gc, posting, stale,
                     boot, may, exposed, faults>>
  BY <1>1 DEF Delete, IsUp, Goto, store, gcvars, ghosts
<1>3. boot.ph = "up" /\ TypeOK /\ gc.pc \notin Collecting
  BY <1>2, UpFacts DEF Up, IInv
<1>4. p \in Positions /\ p[1] = wblk /\ Written(p)
  BY <1>1, <1>2, <1>3, FindKey
<1>5. o \in Ops /\ o.key \in Keys /\ o.val = None /\ o.kind = "delete" /\ o.old = p
  BY <1>4 DEF Ops
<1> HIDE DEF o
<1>6. OpInv' /\ op'[t] = o /\ \A u \in Tasks \ {t} : op'[u] = op[u]
  BY <1>2, <1>5, OpStep DEF Setting
<1>7. WaitInv'
  BY <1>2, WaitStep
<1>8. "delete" \in Holding
  BY DEF Holding
<1> QED BY <1>2, <1>3, <1>4, <1>5, <1>6, <1>7, <1>8, TypeFacts, TaskStep

\* kv_item_delete_by_prefix() has the lock.
LEMMA DeleteByPrefixInv ==
  ASSUME IInv, NEW t \in Tasks, NEW G \in Groups, DeleteByPrefix(t, G) PROVE IInv'
<1> DEFINE o == [kind |-> "prefix", keys |-> G, key |-> None, val |-> None, old |-> None]
<1>2. /\ boot = Up /\ pc[t] = "idle" /\ lock = None
      /\ op' = [op EXCEPT ![t] = o] /\ lock' = t /\ pc' = [pc EXCEPT ![t] = "prefix"]
      /\ UNCHANGED <<flash, info, clean, wblk, trigger, waiter, sem, gc, posting, stale,
                     boot, may, exposed, faults>>
  BY DEF DeleteByPrefix, IsUp, Goto, store, gcvars, ghosts
<1>3. boot.ph = "up" /\ TypeOK /\ gc.pc \notin Collecting
  BY <1>2, UpFacts DEF Up, IInv
<1>5. o \in Ops /\ o.val = None /\ o.kind = "prefix"
  BY KvAssumption DEF Ops
<1> HIDE DEF o
<1>6. OpInv' /\ op'[t] = o /\ \A u \in Tasks \ {t} : op'[u] = op[u]
  BY <1>2, <1>5, OpStep DEF Setting
<1>7. WaitInv'
  BY <1>2, WaitStep
<1>8. "prefix" \in Holding
  BY DEF Holding
<1> QED BY <1>2, <1>3, <1>6, <1>7, <1>8, TypeFacts, TaskStep

\* ... and finds the next item to delete, or is done.
LEMMA PrefixNextInv == ASSUME IInv, NEW t \in Tasks, PrefixNext(t) PROVE IInv'
<1> DEFINE S == {q \in Positions : \E k \in op[t].keys : Live(q, k)}
<1>1. PICK p : p = FirstOf(S)
  OBVIOUS
<1>2. /\ pc[t] = "prefix"
      /\ UNCHANGED <<flash, info, clean, wblk, trigger, waiter, sem, gc, posting, stale,
                     boot, may, exposed, faults>>
      /\ IF p = None THEN Return(t) /\ lock' = None
         ELSE /\ op' = [op EXCEPT ![t].old = p, ![t].key = ItemAt(p).key]
              /\ Goto(t, "delete") /\ UNCHANGED lock
  BY <1>1 DEF PrefixNext, store, gcvars, ghosts
<1>3. TypeOK /\ OpInv /\ boot.ph = "up" /\ gc.pc \notin Collecting /\ pc[t] \in Holding
  BY <1>2, UpFacts DEF IInv, Holding
<1>4. op[t] \in Ops /\ op[t].keys \subseteq Keys
  BY <1>3 DEF OpInv, Ops
<1>5. S \subseteq Positions /\ \A q \in S : \E k \in Keys : Live(q, k)
  BY <1>4
<1> HIDE DEF S
<1>6. CASE p = None
  BY <1>2, <1>3, <1>6, TypeFacts, LeaveInv
<1>7. CASE p # None
  <2>1. /\ op' = [op EXCEPT ![t].old = p, ![t].key = ItemAt(p).key]
        /\ pc' = [pc EXCEPT ![t] = "delete"] /\ lock' = lock
    BY <1>2, <1>7 DEF Goto
  <2>2. p \in Positions /\ p[1] = wblk /\ Written(p) /\ ItemAt(p).key \in Keys
    BY <1>1, <1>3, <1>5, <1>7, FindFacts
  <2>3. PICK j \in Keys : j = ItemAt(p).key
    BY <2>2
  <2>a. PICK o : o = [op[t] EXCEPT !.old = p, !.key = j]
    OBVIOUS
  <2>4. /\ o \in Ops /\ o.old = p /\ o.key = j
        /\ o.val = op[t].val /\ o.kind = op[t].kind
    BY <1>4, <2>2, <2>a DEF Ops
  <2>5. op' = [op EXCEPT ![t] = o]
    BY <2>1, <2>3, <2>a
  <2>6. o.kind \in {"delete", "prefix"} => o.val = None
    BY <1>3, <2>4 DEF OpInv
  <2>7. OpInv' /\ op'[t] = o /\ \A u \in Tasks \ {t} : op'[u] = op[u]
    <3>1. "delete" \notin Setting
      BY DEF Setting
    <3>2. pc' = [pc EXCEPT ![t] = "delete"]
      BY <2>1
    <3> QED BY <2>4, <2>5, <2>6, <3>1, <3>2, OpStep
  <2>c. pc' = [pc EXCEPT ![t] = "delete"] /\ lock' = lock
    BY <2>1
  <2>8. WaitInv'
    BY ZenonT(60), <1>2, <2>1, WaitStep
  <2>9. "delete" \in Holding
    BY DEF Holding
  <2> QED BY <1>2, <1>3, <2>2, <2>4, <2>7, <2>8, <2>9, <2>c, TypeFacts, TaskStep
<1> QED BY <1>6, <1>7

\* ... or has no memory for it.
LEMMA PrefixFailsInv == ASSUME IInv, NEW t \in Tasks, PrefixFails(t) PROVE IInv'
<1>1. /\ pc[t] = "prefix" /\ NoMemory(faults) /\ Return(t) /\ lock' = None
      /\ exposed' = exposed \cup {k \in op[t].keys : \E q \in Positions : Live(q, k)}
      /\ UNCHANGED <<flash, info, clean, wblk, trigger, waiter, sem, gc, posting, stale,
                     boot, may>>
      /\ TypeOK /\ OpInv
  BY DEF PrefixFails, IInv, store, gcvars
<1>2. op[t].keys \subseteq Keys
  BY <1>1 DEF OpInv, Ops
<1>3. exposed' \subseteq Keys /\ faults' \in 0 .. MaxFaults
  BY <1>1, <1>2, TypeFacts, NoMemoryFacts
<1> QED BY <1>1, <1>3, LeaveInv


-----------------------------------------------------------------------------
(* The tasks, writing *)

\* What is left to show for a step of the task t that holds the lock and writes
\* to the block wblk.
LEMMA WriteStep ==
  ASSUME IInv, NEW t \in Tasks, NEW l, pc[t] \in Holding,
         UNCHANGED <<clean, wblk, trigger, waiter, sem, gc, posting, stale, boot, exposed, faults>>,
         pc' = [pc EXCEPT ![t] = l], l \in {"idle", "delete", "mark", "prefix"}, OpInv',
         IF l = "idle" THEN lock' = None ELSE lock' = lock,
         flash' \in Flash, flash'[Other(wblk)] = flash[Other(wblk)],
         Len(flash'[wblk].items) < SIZE,
         info' \in Infos, info'[Other(wblk)] = info[Other(wblk)],
         info'[wblk] \in {"used", "dirty"}, flash'[wblk].state = info'[wblk],
         MarkInv', may' \in [Keys -> SUBSET (Vals \cup {None})],
         l \in {"delete", "mark"}
             => op'[t].old \in Positions /\ op'[t].old[1] = wblk
                /\ op'[t].old[2] <= Len(flash'[wblk].items)
  PROVE  IInv'
<1>1. /\ TypeOK /\ LockInv /\ Settled /\ boot.ph = "up" /\ lock = t
      /\ gc.pc \notin Collecting /\ \A u \in Tasks \ {t} : pc[u] \notin Holding
  <2>1. boot.ph = "up" /\ lock = t /\ gc.pc \notin Collecting
    BY UpFacts DEF Holding
  <2> QED BY <2>1, UpFacts DEF IInv, StoreInv
<1>2. pc'[t] = l /\ \A u \in Tasks \ {t} : pc'[u] = pc[u]
  BY <1>1, TypeFacts
<1>3. pc' \in [Tasks -> {"idle", "count", "take", "blocked", "lock", "append",
                         "delete", "mark", "prefix"}]
  BY <1>1, TypeFacts
<1>4. PICK w \in Blocks, o \in Blocks : w = wblk /\ o = Other(w) /\ w # o /\ \A c \in Blocks : c = w \/ c = o
  BY <1>1, TypeFacts, BlockFacts
<1>5. flash[o].state = "clean" /\ flash[o].items = <<>> /\ clean = 1 /\ info[o] = "clean"
  BY <1>1, <1>4 DEF Settled, Empty
<1>6. /\ flash'[o] = flash[o] /\ info'[o] = info[o] /\ flash'[w].state = info'[w]
      /\ info'[w] \in {"used", "dirty"} /\ wblk' = w
  BY <1>4
<1>7. DiskInv'
  BY <1>4, <1>5, <1>6, BlockFacts DEF DiskInv
<1>8. BootInv' /\ boot'.ph = "up"
  BY <1>1 DEF BootInv
<1>9. StoreInv'
  <2>1. Settled'
    BY <1>4, <1>5, <1>6 DEF Settled, Empty
  <2> QED BY <1>1, <2>1 DEF StoreInv
<1>10. LockInv'
  <2>1. \A u \in Tasks : lock' = u <=> pc'[u] \in Holding
    <3>1. \A u \in Tasks \ {t} : lock' # u /\ pc'[u] \notin Holding
      BY <1>1, <1>2, KvAssumption
    <3>2. lock' = t <=> pc'[t] \in Holding
      BY <1>1, <1>2, KvAssumption DEF Holding
    <3> QED BY <3>1, <3>2
  <2>2. lock' # Gc
    BY <1>1, KvAssumption
  <2> QED BY <1>1, <2>1, <2>2 DEF LockInv
<1>11. OldInv'
  <2> SUFFICES ASSUME NEW u \in Tasks
               PROVE  /\ pc'[u] = "append" => Len(flash'[wblk'].items) + 1 < SIZE
                      /\ (pc'[u] = "append" /\ op'[u].old # None) \/ pc'[u] \in {"delete", "mark"}
                           => /\ op'[u].old \in Positions /\ op'[u].old[1] = wblk'
                              /\ Written(op[u].old)'
    BY DEF OldInv
  <2>1. CASE u = t
    BY <1>2, <2>1 DEF Written
  <2>2. CASE u # t
    BY <1>1, <1>2, <2>2 DEF Holding
  <2> QED BY <2>1, <2>2
<1>12. WaitInv'
  BY WaitStep
<1>13. \A c \in Blocks : Len(flash'[c].items) < SIZE
  BY <1>1, <1>4, <1>6, TypeFacts
<1>14. lock' \in Tasks \cup {Gc, None}
  BY <1>1
<1>15. TypeOK'
  BY <1>1, <1>3, <1>13, <1>14, TypeFacts, PhaseFacts, TypeStep
<1> QED BY <1>7, <1>8, <1>9, <1>10, <1>11, <1>12, <1>15 DEF IInv

\* What holds when task t is about to write.
LEMMA WriteFacts ==
  ASSUME IInv, NEW t \in Tasks, pc[t] \in Holding
  PROVE  /\ TypeOK /\ flash \in Flash /\ info \in Infos /\ wblk \in Blocks
         /\ Other(wblk) \in Blocks /\ Other(wblk) # wblk
         /\ \A c \in Blocks : c = wblk \/ c = Other(wblk)
         /\ flash[wblk].items \in Seq(Items) /\ Len(flash[wblk].items) < SIZE
         /\ Len(flash[wblk].items) \in Nat /\ SIZE \in Nat
         /\ info[wblk] \in {"used", "dirty"} /\ flash[wblk].state = info[wblk]
         /\ info[Other(wblk)] = "clean" /\ Empty(Other(wblk))
         /\ pc[t] # "mark" /\ info[wblk] = "used" =>
              \A i \in 1 .. Len(flash[wblk].items) : flash[wblk].items[i].st = "normal"
         /\ boot.ph = "up" /\ gc.pc \notin Collecting
<1>1. /\ TypeOK /\ Settled /\ boot.ph = "up" /\ gc.pc \notin Collecting
      /\ MarkInv /\ \A u \in Tasks \ {t} : pc[u] \notin Holding
  <2>1. boot.ph = "up" /\ gc.pc \notin Collecting
    BY UpFacts DEF Holding
  <2> QED BY <2>1, UpFacts DEF IInv, StoreInv
<1>2. wblk \in Blocks /\ Other(wblk) \in Blocks /\ Other(wblk) # wblk
      /\ \A c \in Blocks : c = wblk \/ c = Other(wblk)
  BY <1>1, TypeFacts, BlockFacts
<1>3. flash[wblk].items \in Seq(Items) /\ Len(flash[wblk].items) < SIZE
  BY <1>1, <1>2, TypeFacts
<1>4. pc[t] # "mark" => \A b, i : ~Unmarked(b, i)
  BY <1>1 DEF Unmarked, Holding
<1>5. pc[t] # "mark" /\ info[wblk] = "used" =>
              \A i \in 1 .. Len(flash[wblk].items) : flash[wblk].items[i].st = "normal"
  BY <1>1, <1>2, <1>4 DEF MarkInv
<1>6. Len(flash[wblk].items) \in Nat /\ SIZE \in Nat
  BY <1>3, SizeFacts
<1> QED BY <1>1, <1>2, <1>3, <1>5, <1>6, TypeFacts DEF Settled

\* The item is written behind the others; without an old one to delete the
\* operation returns.
LEMMA AppendItemInv == ASSUME IInv, NEW t \in Tasks, AppendItem(t) PROVE IInv'
<1>1. /\ pc[t] = "append" /\ flash' = Appended(wblk, NewItem(t))
      /\ UNCHANGED <<info, clean, wblk, trigger, waiter, sem, gc, posting, stale, boot,
                     exposed, faults>>
      /\ IF op[t].old = None
         THEN /\ may' = [may EXCEPT ![op[t].key] = {op[t].val}]
              /\ Return(t) /\ lock' = None
         ELSE /\ may' = [may EXCEPT ![op[t].key] = @ \cup {op[t].val}]
              /\ Goto(t, "delete") /\ UNCHANGED <<op, lock>>
  BY DEF AppendItem, gcvars
<1>2. pc[t] \in Holding
  BY <1>1 DEF Holding
<1>3. OpInv /\ OldInv /\ TypeOK
  BY DEF IInv
<1>4. /\ op[t].key \in Keys /\ op[t].val \in Vals /\ op[t] \in Ops
      /\ op[t].old \in Positions \cup {None}
      /\ Len(flash[wblk].items) + 1 < SIZE
      /\ op[t].old # None => op[t].old[1] = wblk /\ Written(op[t].old)
  BY <1>1, <1>3 DEF OpInv, OldInv, Setting, Ops
<1>5. PICK n \in Items : n = NewItem(t) /\ n.st = "normal"
  <2>1. NewItem(t).st = "normal"
    BY DEF NewItem
  <2>2. NewItem(t) \in [key : Keys, val : Vals, st : {"normal"}, origin : Positions \cup {None}]
    BY <1>4 DEF NewItem
  <2> QED BY <2>1, <2>2 DEF Items
<1>6. /\ flash' \in Flash /\ flash'[wblk].state = flash[wblk].state
      /\ Len(flash'[wblk].items) = Len(flash[wblk].items) + 1
      /\ \A i \in 1 .. Len(flash[wblk].items) : flash'[wblk].items[i] = flash[wblk].items[i]
      /\ flash'[wblk].items[Len(flash[wblk].items) + 1] = n
      /\ flash'[Other(wblk)] = flash[Other(wblk)]
  BY <1>1, <1>2, <1>5, WriteFacts, AppendFacts
<1>7. /\ Len(flash[wblk].items) \in Nat /\ SIZE \in Nat
      /\ info[wblk] = "used" => \A i \in 1 .. Len(flash[wblk].items) : flash[wblk].items[i].st = "normal"
  BY <1>1, <1>2, WriteFacts
<1>8. MarkInv'
  <2> SUFFICES ASSUME NEW c \in Blocks, info'[c] = "used", NEW j \in 1 .. Len(flash'[c].items)
               PROVE  flash'[c].items[j].st = "normal"
    BY DEF MarkInv
  <2>1. c = wblk /\ info[wblk] = "used"
    BY <1>1, <1>2, WriteFacts
  <2>2. j \in 1 .. Len(flash[wblk].items) \/ j = Len(flash[wblk].items) + 1
    BY <1>6, <1>7, <2>1
  <2> QED BY <1>5, <1>6, <1>7, <2>1, <2>2
<1>9. may \in [Keys -> SUBSET (Vals \cup {None})]
  BY <1>3, TypeFacts
<1>10. may' \in [Keys -> SUBSET (Vals \cup {None})]
  BY <1>1, <1>4, <1>9
<1>11. Len(flash'[wblk].items) < SIZE
  BY <1>4, <1>6
<1>12. CASE op[t].old = None
  <2>1. /\ Return(t) /\ lock' = None
    BY <1>1, <1>12
  <2>2. pc' = [pc EXCEPT ![t] = "idle"] /\ OpInv'
    BY <2>1, ReturnFacts
  <2> QED BY <1>1, <1>2, <1>6, <1>8, <1>10, <1>11, <2>1, <2>2, WriteFacts, WriteStep
<1>13. CASE op[t].old # None
  <2>1. pc' = [pc EXCEPT ![t] = "delete"] /\ op' = op /\ lock' = lock
    BY <1>1, <1>13 DEF Goto
  <2>2. op' = [op EXCEPT ![t] = op[t]]
    BY <1>3, <2>1 DEF OpInv
  <2>3. OpInv'
    BY <1>1, <1>3, <1>4, <2>1, <2>2, OpStep DEF OpInv, Setting
  <2>4. op[t].old[2] <= Len(flash'[wblk].items)
    <3>1. op[t].old[2] <= Len(flash[wblk].items) /\ op[t].old[2] \in Nat
      BY <1>4, <1>13, SizeFacts, PositionFacts DEF Written
    <3> QED BY <1>6, <1>7, <3>1
  <2> QED BY <1>1, <1>2, <1>4, <1>6, <1>8, <1>10, <1>11, <1>13, <2>1, <2>3, <2>4,
             WriteFacts, WriteStep
<1> QED BY <1>12, <1>13


\* The state byte of the old item is overwritten.
LEMMA DeleteItemInv == ASSUME IInv, NEW t \in Tasks, DeleteItem(t) PROVE IInv'
<1>1. /\ pc[t] = "delete" /\ flash' = DeletedAt(op[t].old) /\ pc' = [pc EXCEPT ![t] = "mark"]
      /\ UNCHANGED <<info, clean, wblk, lock, trigger, waiter, sem, gc, posting, stale, boot,
                     op, exposed, faults>>
      /\ may' = [may EXCEPT ![op[t].key] = @ \cup {op[t].val}]
  BY DEF DeleteItem, Goto, gcvars
<1>2. pc[t] \in Holding
  BY <1>1 DEF Holding
<1>3. OpInv /\ OldInv /\ TypeOK
  BY DEF IInv
<1>4. /\ op[t].key \in Keys /\ op[t] \in Ops /\ op[t].val \in Vals \cup {None}
      /\ op[t].old \in Positions /\ op[t].old[1] = wblk /\ Written(op[t].old)
  BY <1>1, <1>3 DEF OpInv, OldInv, Ops
<1>5. PICK p \in Positions : p = op[t].old
  BY <1>4
<1>6. flash' = DeletedAt(p) /\ p[1] = wblk /\ Written(p)
  BY <1>1, <1>4, <1>5
<1>7. /\ flash' \in Flash
      /\ \A c \in Blocks :
           /\ flash'[c].state = flash[c].state /\ Len(flash'[c].items) = Len(flash[c].items)
           /\ \A i \in 1 .. Len(flash[c].items) :
                flash'[c].items[i] = IF c = p[1] /\ i = p[2] THEN Waste("deleted")
                                                             ELSE flash[c].items[i]
  BY <1>2, <1>6, WriteFacts, DeleteFacts
<1>8. flash'[Other(wblk)] = flash[Other(wblk)]
  <2>1. Other(wblk) \in Blocks /\ Other(wblk) # p[1] /\ flash \in Flash
    BY <1>2, <1>6, WriteFacts
  <2>2. flash' = [flash EXCEPT ![p[1]].items = [flash[p[1]].items EXCEPT ![p[2]] = Waste("deleted")]]
    BY <1>6 DEF DeletedAt
  <2> QED BY <2>1, <2>2 DEF Flash
<1>9. pc'[t] = "mark" /\ op'[t].old = p
  BY <1>1, <1>3, <1>5, TypeFacts
<1>10. MarkInv'
  <2> SUFFICES ASSUME NEW c \in Blocks, info'[c] = "used", NEW j \in 1 .. Len(flash'[c].items)
               PROVE  flash'[c].items[j].st = "normal" \/ Unmarked(c, j)'
    BY DEF MarkInv
  <2>1. c = wblk /\ info[wblk] = "used" /\ j \in 1 .. Len(flash[wblk].items)
    BY <1>1, <1>2, <1>7, WriteFacts
  <2>2. CASE j = p[2]
    <3>1. p = <<c, j>>
      BY <1>6, <2>1, <2>2, PositionFacts
    <3> QED BY <1>9, <3>1 DEF Unmarked
  <2>3. CASE j # p[2]
    <3>1. flash'[c].items[j] = flash[c].items[j] /\ flash[c].items[j].st = "normal"
      BY <1>1, <1>2, <1>7, <2>1, <2>3, WriteFacts
    <3> QED BY <3>1
  <2> QED BY <2>2, <2>3
<1>11. may \in [Keys -> SUBSET (Vals \cup {None})]
  BY <1>3, TypeFacts
<1>12. may' \in [Keys -> SUBSET (Vals \cup {None})]
  BY <1>1, <1>4, <1>11
<1>13. OpInv'
  <2>1. op' = [op EXCEPT ![t] = op[t]]
    BY <1>1, <1>3 DEF OpInv
  <2> QED BY <1>1, <1>3, <1>4, <2>1, OpStep DEF OpInv, Setting
<1>14. /\ Len(flash'[wblk].items) < SIZE /\ flash'[wblk].state = info'[wblk]
       /\ info'[wblk] \in {"used", "dirty"} /\ info' \in Infos
       /\ p[2] <= Len(flash'[wblk].items)
  BY <1>1, <1>2, <1>6, <1>7, WriteFacts DEF Written
<1> QED BY <1>1, <1>2, <1>6, <1>7, <1>8, <1>9, <1>10, <1>12, <1>13, <1>14, WriteStep

\* Its block is marked DIRTY.
LEMMA MarkDirtyInv == ASSUME IInv, NEW t \in Tasks, MarkDirty(t) PROVE IInv'
<1>3. OpInv /\ OldInv /\ TypeOK
  BY DEF IInv
<1>1. /\ pc[t] = "mark" /\ op[t].old[1] = wblk
      /\ flash' = MarkFlash(flash, wblk) /\ info' = MarkInfo(wblk)
      /\ UNCHANGED <<clean, wblk, trigger, waiter, sem, gc, posting, stale, boot, exposed, faults>>
      /\ may' = [may EXCEPT ![op[t].key] = {op[t].val}]
      /\ IF op[t].kind = "prefix"
         THEN Goto(t, "prefix") /\ UNCHANGED <<op, lock>>
         ELSE Return(t) /\ lock' = None
  <2>1. pc[t] = "mark" /\ op[t].old[1] = wblk
    BY <1>3 DEF MarkDirty, OldInv
  <2> QED BY <2>1 DEF MarkDirty, gcvars
<1>2. pc[t] \in Holding
  BY <1>1 DEF Holding
<1>4. op[t].key \in Keys /\ op[t] \in Ops /\ op[t].val \in Vals \cup {None}
  BY <1>1, <1>3 DEF OpInv, Ops
<1>5. flash \in Flash /\ info \in Infos /\ wblk \in Blocks /\ Other(wblk) \in Blocks /\ Other(wblk) # wblk
  BY <1>2, WriteFacts
<1>6. /\ flash' \in Flash /\ info' \in Infos
      /\ \A c \in Blocks :
           /\ flash'[c].items = flash[c].items
           /\ flash'[c].state = IF c = wblk /\ info[wblk] = "used" THEN "dirty" ELSE flash[c].state
           /\ info'[c] = IF c = wblk /\ info[wblk] = "used" THEN "dirty" ELSE info[c]
  BY SMTT(40), <1>1, <1>5, MarkFacts
<1>7. info'[wblk] = "dirty" /\ flash'[wblk].state = "dirty" /\ info'[Other(wblk)] = info[Other(wblk)]
  BY <1>2, <1>5, <1>6, WriteFacts
<1>8. flash'[Other(wblk)] = flash[Other(wblk)]
  <2>1. CASE info[wblk] = "used"
    <3>1. flash' = WithState(flash, wblk, "dirty") /\ "dirty" \in States
      BY <1>1, <2>1 DEF MarkFlash, WithState, States
    <3> QED BY <1>5, <3>1, StateFacts
  <2>2. CASE info[wblk] # "used"
    BY <1>1, <2>2 DEF MarkFlash
  <2> QED BY <2>1, <2>2
<1>9. MarkInv'
  <2>1. \A c \in Blocks : info'[c] # "used"
    BY <1>2, <1>6, <1>7, WriteFacts
  <2> QED BY <2>1 DEF MarkInv
<1>11. may \in [Keys -> SUBSET (Vals \cup {None})]
  BY <1>3, TypeFacts
<1>12. may' \in [Keys -> SUBSET (Vals \cup {None})]
  BY <1>1, <1>4, <1>11
<1>13. Len(flash'[wblk].items) < SIZE
  BY <1>2, <1>6, WriteFacts
<1>14. CASE op[t].kind = "prefix"
  <2>1. pc' = [pc EXCEPT ![t] = "prefix"] /\ op' = op /\ lock' = lock
    BY <1>1, <1>14 DEF Goto
  <2>2. op' = [op EXCEPT ![t] = op[t]]
    BY <1>3, <2>1 DEF OpInv
  <2>3. OpInv'
    BY <1>3, <1>4, <2>1, <2>2, OpStep DEF OpInv, Setting
  <2> QED BY <1>1, <1>2, <1>6, <1>7, <1>8, <1>9, <1>12, <1>13, <2>1, <2>3, WriteStep
<1>15. CASE op[t].kind # "prefix"
  <2>1. Return(t) /\ lock' = None
    BY <1>1, <1>15
  <2>2. pc' = [pc EXCEPT ![t] = "idle"] /\ OpInv'
    BY <2>1, ReturnFacts
  <2> QED BY <1>1, <1>2, <1>6, <1>7, <1>8, <1>9, <1>12, <1>13, <2>1, <2>2, WriteStep
<1> QED BY <1>14, <1>15

-----------------------------------------------------------------------------
(* kv_gc_task() *)

\* What is left to show for a step of the collection task.
LEMMA GcStep ==
  ASSUME IInv, boot.ph = "up", \A t \in Tasks : pc[t] \notin Holding,
         UNCHANGED <<waiter, sem, stale, boot, pc, op, may>>,
         exposed' \subseteq Keys, faults' \in 0 .. MaxFaults,
         gc' \in [pc : {"off", "none", "lock"} \cup Collecting, i : Nat], gc'.i \in 0 .. SIZE,
         trigger, posting < MaxPosting,
         \/ lock' = Gc /\ gc'.pc \in Collecting /\ trigger' = trigger /\ posting' = posting
         \/ lock' = None /\ gc'.pc = "off" /\ trigger' = FALSE /\ posting' = posting + 1,
         flash' \in Flash, \A b \in Blocks : Len(flash'[b].items) < SIZE, info' \in Infos,
         clean' \in 0 .. 2, wblk' \in Blocks, DiskInv', StoreInv', MarkInv'
  PROVE  IInv'
<1>1. TypeOK /\ OpInv /\ LockInv /\ WaitInv
  BY DEF IInv
<1>2. OpInv'
  BY <1>1 DEF OpInv
<1>3. BootInv' /\ boot'.ph = "up"
  BY DEF BootInv
<1>4. posting \in Nat /\ posting' \in 0 .. MaxPosting /\ trigger' \in BOOLEAN
      /\ (trigger' \/ posting' > 0) /\ (trigger' <=> gc'.pc # "off")
      /\ lock' \in Tasks \cup {Gc, None}
  <2>1. posting \in Nat /\ MaxPosting \in Nat
    BY <1>1, TypeFacts, SizeFacts
  <2>2. CASE lock' = Gc /\ gc'.pc \in Collecting /\ trigger' = trigger /\ posting' = posting
    <3>1. gc'.pc # "off" /\ trigger \in BOOLEAN
      BY <1>1, <2>2, TypeFacts DEF Collecting
    <3>2. trigger' \in BOOLEAN /\ trigger'
      BY <2>2, <3>1
    <3> QED BY <2>1, <2>2, <3>1, <3>2
  <2>3. CASE lock' = None /\ gc'.pc = "off" /\ trigger' = FALSE /\ posting' = posting + 1
    <3>1. posting' \in 0 .. MaxPosting /\ posting' > 0
      BY <2>1, <2>3
    <3>2. trigger' \in BOOLEAN /\ ~trigger' /\ gc'.pc = "off" /\ lock' = None
      BY <2>3, Zenon
    <3> QED BY <2>1, <3>1, <3>2
  <2> QED BY <2>2, <2>3
<1>5. LockInv'
  <2>1. \A t \in Tasks : lock' = t <=> pc'[t] \in Holding
    BY KvAssumption
  <2>2. lock' = Gc <=> gc'.pc \in Collecting
    BY KvAssumption DEF Collecting
  <2>3. gc'.pc \in Collecting => posting' < MaxPosting
    BY DEF Collecting
  <2> QED BY <1>1, <1>3, <1>4, <2>1, <2>2, <2>3 DEF LockInv
<1>6. OldInv'
  BY DEF OldInv, Holding
<1>7. WaitInv'
  BY <1>1, <1>4 DEF WaitInv
<1>8. TypeOK'
  BY <1>1, <1>2, <1>4, TypeFacts, PhaseFacts, TypeStep
<1> QED BY <1>2, <1>3, <1>5, <1>6, <1>7, <1>8 DEF IInv

\* What holds when the collection task is about to take a step.
LEMMA GcFacts ==
  ASSUME IInv, gc.pc \in {"lock"} \cup Collecting, gc.pc = "lock" => lock = None
  PROVE  /\ TypeOK /\ boot.ph = "up" /\ trigger /\ \A t \in Tasks : pc[t] \notin Holding
         /\ gc \in [pc : {"off", "none", "lock"} \cup Collecting, i : Nat]
         /\ \E w \in Blocks, o \in Blocks :
              /\ w = wblk /\ o = Other(w) /\ o = From /\ w = Other(o) /\ w # o
              /\ \A c \in Blocks : c = w \/ c = o
         /\ gc.pc = "lock" => Settled
         /\ gc.pc \in Collecting => posting < MaxPosting /\ lock = Gc /\ Moving
<1>1. TypeOK /\ LockInv /\ StoreInv
  BY DEF IInv
<1>2. boot.ph = "up" /\ trigger
  BY <1>1 DEF LockInv, Collecting
<1>3. gc.pc \in Collecting => posting < MaxPosting /\ lock = Gc
  BY <1>1 DEF LockInv
<1>4. \A t \in Tasks : pc[t] \notin Holding
  BY <1>1, <1>3, KvAssumption DEF LockInv
<1>5. \E w \in Blocks, o \in Blocks :
              /\ w = wblk /\ o = Other(w) /\ o = From /\ w = Other(o) /\ w # o
              /\ \A c \in Blocks : c = w \/ c = o
  BY <1>1, TypeFacts, BlockFacts DEF From
<1>6. gc \in [pc : {"off", "none", "lock"} \cup Collecting, i : Nat]
  BY <1>1 DEF LockInv
<1> QED BY <1>1, <1>2, <1>3, <1>4, <1>5, <1>6 DEF StoreInv, Collecting


\* The collection has the lock: it turns to the clean block, or has nothing to
\* do.
LEMMA GcLockInv == IInv /\ GcLock => IInv'
<1> SUFFICES ASSUME IInv, GcLock PROVE IInv'
  OBVIOUS
<1>1. /\ gc.pc = "lock" /\ lock = None /\ posting < MaxPosting
      /\ UNCHANGED <<flash, info, clean, waiter, sem, stale, boot, pc, op, may, exposed, faults>>
      /\ IF clean > 0 /\ \E b \in Blocks : info[b] = "dirty"
         THEN /\ wblk' = CHOOSE b \in Blocks : info[b] = "clean"
              /\ gc' = [pc |-> "copy", i |-> 1]
              /\ lock' = Gc
              /\ UNCHANGED <<trigger, posting>>
         ELSE /\ gc' = [pc |-> "off", i |-> 0] /\ trigger' = FALSE /\ lock' = None
              /\ posting' = posting + 1 /\ wblk' = wblk
  BY DEF GcLock, GcUnlock, Idle, tasks, ghosts
<1>2. /\ TypeOK /\ boot.ph = "up" /\ trigger /\ \A t \in Tasks : pc[t] \notin Holding
      /\ Settled /\ DiskInv /\ MarkInv
  BY <1>1, GcFacts DEF IInv
<1>3. PICK w \in Blocks, o \in Blocks :
              /\ w = wblk /\ o = Other(w) /\ o = From /\ w = Other(o) /\ w # o
              /\ \A c \in Blocks : c = w \/ c = o
  BY <1>1, GcFacts
<1>4. DiskInv'
  BY <1>1, <1>2 DEF DiskInv
<1>5. MarkInv'
  <2>1. \A b, i : Unmarked(b, i) => Unmarked(b, i)'
    BY <1>1 DEF Unmarked
  <2> QED BY <1>1, <1>2, <2>1 DEF MarkInv
<1>6. CASE clean > 0 /\ \E b \in Blocks : info[b] = "dirty"
  <2>1. /\ wblk' = CHOOSE b \in Blocks : info[b] = "clean"
        /\ gc' = [pc |-> "copy", i |-> 1] /\ lock' = Gc /\ trigger' = trigger /\ posting' = posting
    BY <1>1, <1>6
  <2>2. info[o] = "clean" /\ flash[o].state = "clean" /\ flash[o].items = <<>> /\ clean = 1
    BY <1>2, <1>3 DEF Settled, Empty
  <2>3. info[w] = "dirty" /\ flash[w].state = "dirty"
    BY <1>2, <1>3, <1>6, <2>2 DEF Settled
  <2>4. wblk' = o
    BY Zenon, <1>3, <2>1, <2>2, <2>3
  <2>5. From' = w
    BY Zenon, <1>3, <2>4 DEF From
  <2>6. /\ gc' \in [pc : {"off", "none", "lock"} \cup Collecting, i : Nat] /\ gc'.i = 1 /\ gc'.pc = "copy"
        /\ gc'.pc \in Collecting /\ gc'.i \in 0 .. SIZE
    BY <2>1, SizeFacts DEF Collecting
  <2>7. Len(flash[o].items) = 0 /\ Len(flash[w].items) \in Nat
    <3>1. Len(<<>>) = 0
      OBVIOUS
    <3> QED BY <1>2, <2>2, <3>1, TypeFacts
  <2>8. Moving'
    BY <1>1, <2>2, <2>3, <2>4, <2>5, <2>6, <2>7 DEF Moving
  <2>9. StoreInv'
    BY <2>6, <2>8 DEF StoreInv
  <2> QED BY <1>1, <1>2, <1>3, <1>4, <1>5, <2>1, <2>4, <2>6, <2>9, TypeFacts, GcStep
<1>7. CASE ~(clean > 0 /\ \E b \in Blocks : info[b] = "dirty")
  <2>1. /\ gc' = [pc |-> "off", i |-> 0] /\ trigger' = FALSE /\ lock' = None
        /\ posting' = posting + 1 /\ wblk' = wblk
    BY <1>1, <1>7
  <2>2. /\ gc' \in [pc : {"off", "none", "lock"} \cup Collecting, i : Nat] /\ gc'.i = 0 /\ gc'.pc = "off"
        /\ gc'.i \in 0 .. SIZE /\ gc'.pc \notin Collecting
    BY <2>1, SizeFacts DEF Collecting
  <2>3. StoreInv'
    <3>1. Settled'
      BY <1>1, <1>2, <2>1 DEF Settled, Empty
    <3> QED BY <2>2, <3>1 DEF StoreInv
  <2> QED BY <1>1, <1>2, <1>4, <1>5, <2>1, <2>2, <2>3, TypeFacts, GcStep
<1> QED BY <1>6, <1>7

\* While a collection moves the items no block is USED.
LEMMA NoneUsed ==
  ASSUME IInv, gc.pc \in {"copy", "erase", "header"}
  PROVE  \A b \in Blocks : info[b] # "used"
<1>1. gc.pc \in Collecting
  BY DEF Collecting
<1>2. Moving
  BY <1>1, GcFacts DEF Collecting
<1>3. \A b \in Blocks : b = wblk \/ b = From
  BY <1>1, GcFacts DEF Collecting
<1> QED BY <1>2, <1>3 DEF Moving

\* The next item is copied if it is live.
LEMMA GcCopyInv == IInv /\ GcCopy => IInv'
<1> SUFFICES ASSUME IInv, GcCopy PROVE IInv'
  OBVIOUS
<1>1. /\ gc.pc = "copy"
      /\ UNCHANGED <<info, clean, wblk, lock, trigger, waiter, sem, posting, stale, boot,
                     pc, op, may, exposed, faults>>
  BY DEF GcCopy, tasks, ghosts
<1>2. /\ TypeOK /\ boot.ph = "up" /\ trigger /\ \A t \in Tasks : pc[t] \notin Holding
      /\ posting < MaxPosting /\ lock = Gc /\ Moving /\ DiskInv
      /\ gc \in [pc : {"off", "none", "lock"} \cup Collecting, i : Nat]
  BY <1>1, GcFacts DEF IInv, Collecting
<1>3. PICK w \in Blocks, o \in Blocks :
              /\ w = wblk /\ o = Other(w) /\ o = From /\ w = Other(o) /\ w # o
              /\ \A c \in Blocks : c = w \/ c = o
  BY <1>1, GcFacts DEF Collecting
<1>4. /\ flash \in Flash /\ SIZE \in Nat
      /\ flash[o].items \in Seq(Items) /\ Len(flash[o].items) < SIZE /\ Len(flash[o].items) \in Nat
      /\ flash[w].items \in Seq(Items) /\ Len(flash[w].items) < SIZE /\ Len(flash[w].items) \in Nat
  BY SMTT(40), <1>2, TypeFacts, SizeFacts
<1>5. /\ info[w] = "clean" /\ flash[w].state = "clean"
      /\ \A j \in 1 .. Len(flash[w].items) : flash[w].items[j].st = "normal"
      /\ gc.i \in 1 .. Len(flash[o].items) + 1 /\ Len(flash[w].items) < gc.i
      /\ flash[o].state = "dirty" /\ clean = 1 /\ info[o] = "dirty"
  BY <1>1, <1>2, <1>3 DEF Moving
<1>6. PICK i \in Nat : i = gc.i
  BY <1>2
<1>7. wblk' = w /\ From' = o
  BY Zenon, <1>1, <1>3 DEF From
<1>8. MarkInv'
  BY <1>1, NoneUsed DEF MarkInv
<1>9. Written(<<o, i>>) <=> i <= Len(flash[o].items)
  BY DEF Written
<1>10. CASE i <= Len(flash[o].items)
  <2>1. /\ gc' = [gc EXCEPT !.i = i + 1]
        /\ flash' = IF ItemAt(<<o, i>>).st = "normal" THEN Appended(w, ItemAt(<<o, i>>)) ELSE flash
    BY <1>3, <1>6, <1>9, <1>10 DEF GcCopy
  <2>2. /\ gc' \in [pc : {"off", "none", "lock"} \cup Collecting, i : Nat] /\ gc'.i = i + 1 /\ gc'.pc = "copy"
        /\ gc'.i \in 0 .. SIZE /\ gc'.pc \in Collecting
    <3>1. i + 1 \in 0 .. SIZE
      BY <1>4, <1>10
    <3> QED BY <1>1, <1>2, <2>1, <3>1 DEF Collecting
  <2>3. PICK n \in Items : n = ItemAt(<<o, i>>)
    <3>1. <<o, i>> \in Positions
      BY <1>4, <1>5, <1>6, <1>10, PositionFacts
    <3> QED BY <1>2, <1>9, <1>10, <3>1, ItemFacts
  <2>4. /\ flash' \in Flash /\ flash'[w].state = "clean" /\ flash'[o] = flash[o]
        /\ Len(flash'[w].items) \in Nat /\ Len(flash'[w].items) <= Len(flash[w].items) + 1
        /\ \A j \in 1 .. Len(flash'[w].items) : flash'[w].items[j].st = "normal"
    <3>1. CASE n.st = "normal"
      <4>1. flash' = Appended(w, n)
        BY <2>1, <2>3, <3>1
      <4>2. /\ flash' \in Flash
            /\ flash'[w].state = flash[w].state /\ Len(flash'[w].items) = Len(flash[w].items) + 1
            /\ \A j \in 1 .. Len(flash[w].items) : flash'[w].items[j] = flash[w].items[j]
            /\ flash'[w].items[Len(flash[w].items) + 1] = n
            /\ flash'[Other(w)] = flash[Other(w)]
        BY <1>4, <4>1, AppendFacts
      <4>3. ASSUME NEW j \in 1 .. Len(flash'[w].items) PROVE flash'[w].items[j].st = "normal"
        <5>1. j \in 1 .. Len(flash[w].items) \/ j = Len(flash[w].items) + 1
          BY <1>4, <4>2
        <5> QED BY <1>5, <3>1, <4>2, <5>1
      <4> QED BY <1>3, <1>4, <1>5, <4>2, <4>3
    <3>2. CASE n.st # "normal"
      <4>1. flash' = flash
        BY <2>1, <2>3, <3>2
      <4> QED BY <1>4, <1>5, <4>1
    <3> QED BY <3>1, <3>2
  <2>5. DiskInv'
    BY <1>2, <1>3, <1>5, <2>4, BlockFacts DEF DiskInv
  <2>6. Len(flash'[w].items) < i + 1 /\ i + 1 \in 1 .. Len(flash'[o].items) + 1
    <3>1. Len(flash[w].items) < i /\ i >= 1
      BY <1>5, <1>6
    <3>2. /\ Len(flash'[w].items) \in Nat /\ Len(flash'[w].items) <= Len(flash[w].items) + 1
          /\ flash'[o] = flash[o] /\ Len(flash[w].items) \in Nat /\ Len(flash[o].items) \in Nat
      BY <1>4, <2>4
    <3> QED BY <1>10, <3>1, <3>2
  <2>7. Moving'
    BY <1>1, <1>5, <1>7, <2>2, <2>4, <2>6 DEF Moving
  <2>8. StoreInv'
    BY <2>2, <2>7 DEF StoreInv
  <2>9. \A b \in Blocks : Len(flash'[b].items) < SIZE
    <3>1. Len(flash'[w].items) < SIZE
      BY <1>4, <1>10, <2>4, <2>6
    <3> QED BY <1>3, <1>4, <2>4, <3>1
  <2> QED BY <1>1, <1>2, <1>8, <2>2, <2>4, <2>5, <2>8, <2>9, TypeFacts, GcStep
<1>11. CASE ~(i <= Len(flash[o].items))
  <2>1. gc' = [gc EXCEPT !.pc = "erase"] /\ flash' = flash
    BY <1>3, <1>6, <1>9, <1>11 DEF GcCopy
  <2>2. /\ gc' \in [pc : {"off", "none", "lock"} \cup Collecting, i : Nat] /\ gc'.pc = "erase"
        /\ gc'.i \in 0 .. SIZE /\ gc'.pc \in Collecting
    BY <1>2, <2>1, PhaseFacts DEF Collecting
  <2>5. DiskInv'
    BY <1>2, <2>1 DEF DiskInv
  <2>7. Moving'
    BY <1>1, <1>5, <1>7, <2>1, <2>2 DEF Moving
  <2>8. StoreInv'
    BY <2>2, <2>7 DEF StoreInv
  <2> QED BY <1>1, <1>2, <1>8, <2>1, <2>2, <2>5, <2>8, TypeFacts, GcStep
<1> QED BY <1>10, <1>11

\* ... or the copying ends for lack of memory.
LEMMA GcCopyFailsInv == IInv /\ GcCopyFails => IInv'
<1> SUFFICES ASSUME IInv, GcCopyFails PROVE IInv'
  OBVIOUS
<1>1. /\ gc.pc = "copy" /\ NoMemory(faults)
      /\ gc' = [gc EXCEPT !.pc = "erase"]
      /\ UNCHANGED <<flash, info, clean, wblk, lock, trigger, waiter, sem, posting, stale, boot,
                     pc, op, may>>
      /\ exposed' = exposed \cup {k \in Keys : \E j \in gc.i .. SIZE : Live(<<From, j>>, k)}
  BY DEF GcCopyFails, tasks, store
<1>2. /\ TypeOK /\ boot.ph = "up" /\ trigger /\ \A t \in Tasks : pc[t] \notin Holding
      /\ posting < MaxPosting /\ lock = Gc /\ Moving /\ DiskInv
      /\ gc \in [pc : {"off", "none", "lock"} \cup Collecting, i : Nat]
  BY <1>1, GcFacts DEF IInv, Collecting
<1>3. exposed' \subseteq Keys
  BY <1>1, <1>2, TypeFacts
<1>4. faults' \in 0 .. MaxFaults
  BY <1>1, <1>2, NoMemoryFacts
<1>5. /\ gc' \in [pc : {"off", "none", "lock"} \cup Collecting, i : Nat] /\ gc'.pc = "erase"
      /\ gc'.i \in 0 .. SIZE /\ gc'.pc \in Collecting
  BY <1>1, <1>2, PhaseFacts DEF Collecting
<1>6. MarkInv'
  BY <1>1, NoneUsed DEF MarkInv
<1>7. DiskInv'
  BY <1>1, <1>2 DEF DiskInv
<1>8. Moving'
  BY <1>1, <1>2, <1>5 DEF Moving, From, Empty
<1>9. StoreInv'
  BY <1>5, <1>8 DEF StoreInv
<1> QED BY <1>1, <1>2, <1>3, <1>4, <1>5, <1>6, <1>7, <1>9, TypeFacts, GcStep


\* The collected block is erased.
LEMMA GcEraseInv == IInv /\ GcErase => IInv'
<1> SUFFICES ASSUME IInv, GcErase PROVE IInv'
  OBVIOUS
<1>1. /\ gc.pc = "erase" /\ gc' = [gc EXCEPT !.pc = "header"]
      /\ flash' = [flash EXCEPT ![From] = [state |-> "blank", items |-> <<>>]]
      /\ UNCHANGED <<info, clean, wblk, lock, trigger, waiter, sem, posting, stale, boot,
                     pc, op, may, exposed, faults>>
  BY DEF GcErase, tasks, ghosts
<1>2. /\ TypeOK /\ boot.ph = "up" /\ trigger /\ \A t \in Tasks : pc[t] \notin Holding
      /\ posting < MaxPosting /\ lock = Gc /\ Moving
      /\ gc \in [pc : {"off", "none", "lock"} \cup Collecting, i : Nat]
  BY <1>1, GcFacts DEF IInv, Collecting
<1>3. PICK w \in Blocks, o \in Blocks :
              /\ w = wblk /\ o = Other(w) /\ o = From /\ w = Other(o) /\ w # o
              /\ \A c \in Blocks : c = w \/ c = o
  BY <1>1, GcFacts DEF Collecting
<1>4. /\ flash' \in Flash /\ flash'[o].state = "blank" /\ flash'[o].items = <<>>
      /\ flash'[w] = flash[w]
  <2>1. flash' = [flash EXCEPT ![o] = [state |-> "blank", items |-> <<>>]] /\ "blank" \in States
    BY <1>1, <1>3 DEF States
  <2>2. flash \in Flash
    BY <1>2, TypeFacts
  <2> QED BY ZenonT(60), <1>3, <2>1, <2>2, FormatFacts
<1>5. /\ gc' \in [pc : {"off", "none", "lock"} \cup Collecting, i : Nat] /\ gc'.pc = "header"
      /\ gc'.i \in 0 .. SIZE /\ gc'.pc \in Collecting
  BY <1>1, <1>2, PhaseFacts DEF Collecting
<1>6. /\ info[w] = "clean" /\ flash[w].state = "clean" /\ info[o] = "dirty" /\ clean = 1
      /\ \A j \in 1 .. Len(flash[w].items) : flash[w].items[j].st = "normal"
  BY Zenon, <1>1, <1>2, <1>3 DEF Moving
<1>7. wblk' = w /\ From' = o
  BY Zenon, <1>1, <1>3 DEF From
<1>8. MarkInv'
  BY <1>1, NoneUsed DEF MarkInv
<1>9. DiskInv'
  BY <1>3, <1>4, <1>6, BlockFacts DEF DiskInv
<1>10. Moving'
  BY <1>1, <1>4, <1>5, <1>6, <1>7 DEF Moving
<1>11. StoreInv'
  BY <1>5, <1>10 DEF StoreInv
<1>12. \A b \in Blocks : Len(flash'[b].items) < SIZE
  <2>1. Len(<<>>) = 0
    OBVIOUS
  <2> QED BY <1>2, <1>3, <1>4, <2>1, TypeFacts, SizeFacts
<1> QED BY <1>1, <1>2, <1>4, <1>5, <1>8, <1>9, <1>11, <1>12, TypeFacts, GcStep

\* ... and gets the header of a CLEAN one.
LEMMA GcHeaderInv == IInv /\ GcHeader => IInv'
<1> SUFFICES ASSUME IInv, GcHeader PROVE IInv'
  OBVIOUS
<1>1. /\ gc.pc = "header" /\ gc' = [gc EXCEPT !.pc = "use"]
      /\ flash' = [flash EXCEPT ![From] = [state |-> "clean", items |-> <<>>]]
      /\ info' = [info EXCEPT ![From] = "clean"] /\ clean' = clean + 1
      /\ UNCHANGED <<wblk, lock, trigger, waiter, sem, posting, stale, boot,
                     pc, op, may, exposed, faults>>
  BY DEF GcHeader, Formatted, tasks, ghosts
<1>2. /\ TypeOK /\ boot.ph = "up" /\ trigger /\ \A t \in Tasks : pc[t] \notin Holding
      /\ posting < MaxPosting /\ lock = Gc /\ Moving
      /\ gc \in [pc : {"off", "none", "lock"} \cup Collecting, i : Nat]
  BY <1>1, GcFacts DEF IInv, Collecting
<1>3. PICK w \in Blocks, o \in Blocks :
              /\ w = wblk /\ o = Other(w) /\ o = From /\ w = Other(o) /\ w # o
              /\ \A c \in Blocks : c = w \/ c = o
  BY <1>1, GcFacts DEF Collecting
<1>4. /\ flash' \in Flash /\ flash'[o].state = "clean" /\ flash'[o].items = <<>>
      /\ flash'[w] = flash[w]
  <2>1. flash' = [flash EXCEPT ![o] = [state |-> "clean", items |-> <<>>]] /\ "clean" \in States
    BY <1>1, <1>3 DEF States
  <2>2. flash \in Flash
    BY <1>2, TypeFacts
  <2> QED BY ZenonT(60), <1>3, <2>1, <2>2, FormatFacts
<1>5. /\ gc' \in [pc : {"off", "none", "lock"} \cup Collecting, i : Nat] /\ gc'.pc = "use"
      /\ gc'.i \in 0 .. SIZE /\ gc'.pc \in Collecting
  BY <1>1, <1>2, PhaseFacts DEF Collecting
<1>6. /\ info[w] = "clean" /\ flash[w].state = "clean" /\ clean = 1
      /\ \A j \in 1 .. Len(flash[w].items) : flash[w].items[j].st = "normal"
  BY <1>1, <1>2, <1>3 DEF Moving
<1>7. wblk' = w /\ From' = o
  BY Zenon, <1>1, <1>3 DEF From
<1>8. info' \in Infos /\ info'[o] = "clean" /\ info'[w] = "clean" /\ clean' = 2
  <2>1. info \in Infos
    BY <1>2, TypeFacts
  <2> QED BY <1>1, <1>3, <1>6, <2>1 DEF Infos
<1>9. MarkInv'
  BY <1>3, <1>8 DEF MarkInv
<1>10. DiskInv'
  BY <1>3, <1>4, <1>6, BlockFacts DEF DiskInv
<1>11. Moving'
  BY <1>4, <1>5, <1>6, <1>7, <1>8 DEF Moving, Empty
<1>12. StoreInv'
  BY <1>5, <1>11 DEF StoreInv
<1>13. \A b \in Blocks : Len(flash'[b].items) < SIZE
  <2>1. Len(<<>>) = 0
    OBVIOUS
  <2> QED BY <1>2, <1>3, <1>4, <2>1, TypeFacts, SizeFacts
<1> QED BY <1>1, <1>2, <1>4, <1>5, <1>8, <1>9, <1>10, <1>12, <1>13, TypeFacts, GcStep

\* The block with the copies is USED from now on.
LEMMA GcUseInv == IInv /\ GcUse => IInv'
<1> SUFFICES ASSUME IInv, GcUse PROVE IInv'
  OBVIOUS
<1>1. /\ gc.pc = "use" /\ gc' = [pc |-> "off", i |-> 0]
      /\ flash' = WithState(flash, wblk, "used")
      /\ info' = [info EXCEPT ![wblk] = "used"] /\ clean' = clean - 1
      /\ trigger' = FALSE /\ lock' = None /\ posting' = posting + 1
      /\ UNCHANGED <<wblk, waiter, sem, stale, boot, pc, op, may, exposed, faults>>
  BY DEF GcUse, GcUnlock, Idle, WithState, tasks, ghosts
<1>2. /\ TypeOK /\ boot.ph = "up" /\ trigger /\ \A t \in Tasks : pc[t] \notin Holding
      /\ posting < MaxPosting /\ lock = Gc /\ Moving
      /\ gc \in [pc : {"off", "none", "lock"} \cup Collecting, i : Nat]
  BY <1>1, GcFacts DEF IInv, Collecting
<1>3. PICK w \in Blocks, o \in Blocks :
              /\ w = wblk /\ o = Other(w) /\ o = From /\ w = Other(o) /\ w # o
              /\ \A c \in Blocks : c = w \/ c = o
  BY <1>1, GcFacts DEF Collecting
<1>4. /\ flash' \in Flash /\ flash'[w].state = "used" /\ flash'[w].items = flash[w].items
      /\ flash'[o] = flash[o]
  <2>1. flash' = WithState(flash, w, "used") /\ "used" \in States
    BY <1>1, <1>3 DEF States
  <2>2. flash \in Flash
    BY <1>2, TypeFacts
  <2>3. /\ flash' \in Flash /\ flash'[w].state = "used" /\ flash'[w].items = flash[w].items
        /\ flash'[Other(w)] = flash[Other(w)]
    BY <2>1, <2>2, StateFacts
  <2> QED BY <1>3, <2>3
<1>5. /\ gc' \in [pc : {"off", "none", "lock"} \cup Collecting, i : Nat] /\ gc'.pc = "off"
      /\ gc'.i \in 0 .. SIZE /\ gc'.pc \notin Collecting
  BY <1>1, SizeFacts DEF Collecting
<1>6. /\ flash[o].state = "clean" /\ flash[o].items = <<>> /\ clean = 2 /\ info[o] = "clean"
      /\ \A j \in 1 .. Len(flash[w].items) : flash[w].items[j].st = "normal"
  BY <1>1, <1>2, <1>3 DEF Moving, Empty
<1>8. info' \in Infos /\ info'[o] = "clean" /\ info'[w] = "used" /\ clean' = 1 /\ wblk' = w
  <2>1. info \in Infos
    BY <1>2, TypeFacts
  <2> QED BY <1>1, <1>3, <1>6, <2>1 DEF Infos
<1>9. MarkInv'
  BY <1>3, <1>4, <1>6, <1>8 DEF MarkInv
<1>10. DiskInv'
  BY <1>3, <1>4, <1>6, BlockFacts DEF DiskInv
<1>11. Settled'
  BY <1>3, <1>4, <1>6, <1>8 DEF Settled, Empty
<1>12. StoreInv'
  BY <1>5, <1>11 DEF StoreInv
<1>13. \A b \in Blocks : Len(flash'[b].items) < SIZE
  BY <1>2, <1>3, <1>4, TypeFacts
<1>14. /\ lock' = None /\ trigger' = FALSE /\ posting' = posting + 1
       /\ UNCHANGED <<waiter, sem, stale, boot, pc, op, may>>
  BY <1>1
<1>15. exposed' \subseteq Keys /\ faults' \in 0 .. MaxFaults /\ clean' \in 0 .. 2 /\ wblk' \in Blocks
  BY <1>1, <1>2, <1>8, TypeFacts
<1>16. flash' \in Flash /\ info' \in Infos
  BY <1>4, <1>8
<1> QED BY <1>2, <1>5, <1>9, <1>10, <1>12, <1>13, <1>14, <1>15, <1>16, GcStep

\* The post wakes the blocked tasks that were counted; who is not yet blocked
\* comes too late.
LEMMA GcPostInv == IInv /\ GcPost => IInv'
<1> SUFFICES ASSUME IInv, GcPost PROVE IInv'
  OBVIOUS
<1> DEFINE blocked == {t \in Tasks : pc[t] = "blocked"}
           late == {t \in Tasks : pc[t] \in {"count", "take"}}
<1>1. /\ posting > 0 /\ posting' = posting - 1
      /\ UNCHANGED <<flash, info, clean, wblk, lock, trigger, waiter, gc, boot, op, may,
                     exposed, faults>>
      /\ IF Wakes
         THEN /\ pc' = [t \in Tasks |-> IF t \in blocked THEN "lock" ELSE pc[t]]
              /\ sem' = IF blocked = {} THEN sem + 1 ELSE sem
              /\ stale' = (stale \ blocked) \cup late
         ELSE stale' = stale \cup late /\ UNCHANGED <<pc, sem>>
  BY DEF GcPost, store, ghosts
<1>2. TypeOK /\ OpInv /\ LockInv /\ OldInv /\ WaitInv
  BY DEF IInv
<1>3. boot.ph = "up"
  BY <1>1, <1>2 DEF LockInv
<1>4. posting \in Nat /\ posting' \in 0 .. MaxPosting /\ posting <= MaxPosting /\ posting' < MaxPosting
  BY <1>1, <1>2, TypeFacts, SizeFacts
<1>5. /\ \A t \in Tasks : pc[t] # "blocked" => pc'[t] = pc[t]
      /\ \A t \in Tasks : pc[t] = "blocked" => pc'[t] = "blocked" \/ pc'[t] = "lock"
      /\ pc' \in [Tasks -> {"idle", "count", "take", "blocked", "lock", "append",
                            "delete", "mark", "prefix"}]
  <2>1. CASE Wakes
    BY <1>1, <1>2, <2>1, TypeFacts
  <2>2. CASE ~Wakes
    BY <1>1, <1>2, <2>2, TypeFacts
  <2> QED BY <2>1, <2>2
<1>6. sem' \in Nat /\ stale' \subseteq Tasks
  <2>1. sem \in Nat /\ stale \subseteq Tasks
    BY <1>2, TypeFacts
  <2>2. CASE Wakes
    <3>1. sem' = sem + 1 \/ sem' = sem
      BY <1>1, <2>2
    <3>2. stale' = (stale \ blocked) \cup late
      BY <1>1, <2>2
    <3> QED BY <2>1, <3>1, <3>2
  <2>3. CASE ~Wakes
    BY <1>1, <2>1, <2>3
  <2> QED BY <2>2, <2>3
<1>7. OpInv'
  BY <1>1, <1>2, <1>5 DEF OpInv, Setting
<1>8. LockInv'
  <2>1. \A t \in Tasks : pc'[t] \in Holding <=> pc[t] \in Holding
    BY <1>5 DEF Holding
  <2>2. \A t \in Tasks : lock' = t <=> pc'[t] \in Holding
    BY <1>1, <1>2, <2>1 DEF LockInv
  <2> QED BY <1>1, <1>2, <1>3, <1>4, <2>2 DEF LockInv
<1>9. \A t \in Tasks : pc[t] = "mark" => pc'[t] = "mark" /\ op'[t].old = op[t].old
  BY <1>1, <1>5
<1>10. DiskInv' /\ BootInv' /\ StoreInv' /\ MarkInv'
  BY <1>1, <1>9, SameStore
<1>11. OldInv'
  <2>1. \A t \in Tasks : pc'[t] \in {"append", "delete", "mark"} => pc[t] = pc'[t]
    BY <1>5
  <2> QED BY <1>1, <1>2, <2>1 DEF OldInv, Written
<1>12. WaitInv'
  <2> SUFFICES ASSUME NEW t \in Tasks, t \notin stale', pc'[t] \in {"count", "take", "blocked"}
               PROVE  trigger /\ waiter > 0 /\ FALSE
    BY <1>1 DEF WaitInv
  <2>1. pc[t] \notin {"count", "take"}
    BY <1>1, <1>2, <1>5
  <2>2. pc[t] = "blocked" /\ pc'[t] = "blocked"
    BY <1>5, <2>1
  <2>3. ~Wakes
    BY <1>1, <1>2, <2>2
  <2>4. t \notin stale
    BY <1>1, <2>3
  <2>5. waiter > 0
    BY <1>2, <2>2, <2>4 DEF WaitInv
  <2> QED BY <2>3, <2>5 DEF Wakes
<1>13. TypeOK'
  BY <1>1, <1>2, <1>4, <1>5, <1>6, <1>7, TypeFacts, PhaseFacts, TypeStep
<1> QED BY <1>7, <1>8, <1>10, <1>11, <1>12, <1>13 DEF IInv


-----------------------------------------------------------------------------
(* Power *)

\* A power failure leaves the flash as it is, or with what was written of an
\* item.
LEMMA PowerFacts ==
  ASSUME IInv, PowerFails, NEW w, w = wblk
  PROVE  /\ flash' \in Flash
         /\ \A c \in Blocks : flash'[c].state = flash[c].state
         /\ \A c \in Blocks : c # w => flash'[c] = flash[c]
         /\ Len(flash'[w].items) \in {Len(flash[w].items), Len(flash[w].items) + 1}
         /\ \A i \in 1 .. Len(flash[w].items) : flash'[w].items[i] = flash[w].items[i]
         /\ flash'[w].items = flash[w].items \/
              /\ Writing
              /\ Len(flash'[w].items) = Len(flash[w].items) + 1
              /\ flash'[w].items[Len(flash[w].items) + 1].st \in {"header", "body"}
<1>1. TypeOK /\ flash \in Flash /\ w \in Blocks /\ flash[w].items \in Seq(Items)
  BY TypeFacts DEF IInv
<1>2. PICK s : s = flash[w].items
  OBVIOUS
<1>3. PICK left \in Remains : flash' = [flash EXCEPT ![w].items = s \o left]
  BY <1>2 DEF PowerFails
<1>4. s \in Seq(Items) /\ Len(s) \in Nat
  BY <1>1, <1>2
<1>5. CASE left = <<>>
  <2>1. s \o left = s
    BY <1>4, <1>5
  <2>2. flash' \in Flash /\ flash'[w].items = s /\ \A c \in Blocks : flash'[c].state = flash[c].state
    BY <1>1, <1>3, <1>4, <2>1 DEF Flash
  <2>3. \A c \in Blocks : c # w => flash'[c] = flash[c]
    BY <1>1, <1>3 DEF Flash
  <2> QED BY <1>1, <1>2, <2>2, <2>3
<1>6. CASE left # <<>>
  <2>1. Writing /\ \E x \in {"header", "body"} : left = <<Waste(x)>>
    BY <1>6 DEF Remains
  <2>2. PICK n \in Items : left = <<n>> /\ n.st \in {"header", "body"}
    <3>1. PICK x \in {"header", "body"} : left = <<Waste(x)>>
      BY <2>1
    <3>2. Waste(x) \in Items /\ Waste(x).st = x
      BY DEF Waste, Items
    <3> QED BY <3>1, <3>2
  <2>3. PICK a : a = s \o left
    OBVIOUS
  <2>4. /\ a \in Seq(Items) /\ Len(a) = Len(s) + 1 /\ a[Len(s) + 1] = n
        /\ \A i \in 1 .. Len(s) : a[i] = s[i]
    BY <1>4, <2>2, <2>3
  <2>5. flash' = [flash EXCEPT ![w].items = a]
    BY <1>3, <2>3
  <2>6. flash' \in Flash /\ flash'[w].items = a /\ \A c \in Blocks : flash'[c].state = flash[c].state
    BY <1>1, <2>4, <2>5 DEF Flash
  <2>7. \A c \in Blocks : c # w => flash'[c] = flash[c]
    BY <1>1, <2>5 DEF Flash
  <2> QED BY <1>2, <2>1, <2>2, <2>4, <2>6, <2>7
<1> QED BY <1>5, <1>6

\* An item is only written where there is room, to a block with a header.
LEMMA WritingFacts ==
  ASSUME IInv, Writing
  PROVE  /\ boot.ph = "up" /\ Len(flash[wblk].items) + 1 < SIZE
         /\ flash[wblk].state # "blank"
<1>1. CASE \E t \in Tasks : pc[t] = "append"
  <2>1. PICK t \in Tasks : pc[t] = "append"
    BY <1>1
  <2>2. pc[t] \in Holding /\ OldInv
    BY <2>1 DEF Holding, IInv
  <2>3. Len(flash[wblk].items) + 1 < SIZE
    BY <2>1, <2>2 DEF OldInv
  <2>4. boot.ph = "up" /\ flash[wblk].state \in {"used", "dirty"}
    BY <2>2, WriteFacts
  <2> QED BY <2>3, <2>4
<1>2. CASE gc.pc = "copy" /\ Written(<<From, gc.i>>)
  <2>1. TypeOK /\ boot.ph = "up" /\ Moving
    BY <1>2, GcFacts DEF Collecting
  <2>2. /\ Len(flash[wblk].items) < gc.i /\ gc.i <= Len(flash[From].items)
        /\ flash[wblk].state = "clean"
    BY <1>2, <2>1 DEF Moving, Written
  <2>3. /\ Len(flash[From].items) < SIZE /\ Len(flash[From].items) \in Nat /\ SIZE \in Nat
        /\ Len(flash[wblk].items) \in Nat /\ gc.i \in Nat
    <3>1. wblk \in Blocks /\ From \in Blocks
          /\ \A b \in Blocks : flash[b].items \in Seq(Items) /\ Len(flash[b].items) < SIZE
      BY <2>1, TypeFacts
    <3>2. \A b \in Blocks : Len(flash[b].items) < SIZE /\ Len(flash[b].items) \in Nat
      BY <3>1
    <3>3. gc.i \in Nat /\ SIZE \in Nat
      BY <2>1, PhaseFacts, SizeFacts
    <3> QED BY <3>1, <3>2, <3>3
  <2> QED BY <2>1, <2>2, <2>3
<1> QED BY <1>1, <1>2 DEF Writing

\* The board starts again.
LEMMA PowerFailsInv == IInv /\ PowerFails => IInv'
<1> SUFFICES ASSUME IInv, PowerFails PROVE IInv'
  OBVIOUS
<1>1. PICK w : w = wblk
  OBVIOUS
<1>2. /\ flash' \in Flash
      /\ \A c \in Blocks : flash'[c].state = flash[c].state
      /\ \A c \in Blocks : c # w => flash'[c] = flash[c]
      /\ Len(flash'[w].items) \in {Len(flash[w].items), Len(flash[w].items) + 1}
      /\ flash'[w].items = flash[w].items \/
           (Writing /\ Len(flash'[w].items) = Len(flash[w].items) + 1)
  BY <1>1, PowerFacts
<1>3. TypeOK /\ DiskInv
  BY DEF IInv
<1>4. w \in Blocks /\ \A c \in Blocks : Len(flash[c].items) < SIZE /\ Len(flash[c].items) \in Nat
  BY <1>1, <1>3, TypeFacts
<1>5. /\ pc' = [t \in Tasks |-> "idle"] /\ lock' = None /\ gc' = [pc |-> "off", i |-> 0]
      /\ boot' = [ph |-> "head", b |-> 0, i |-> 1] /\ posting' = 0 /\ trigger' = FALSE
      /\ info' = [b \in Blocks |-> "none"] /\ clean' = 0 /\ waiter' = 0 /\ sem' = 0
      /\ wblk' = 0 /\ stale' = {} /\ may' = may /\ faults < MaxFaults /\ faults' = faults + 1
      /\ exposed' = exposed \cup Undermined /\ op' = [t \in Tasks |-> NoOp]
  BY DEF PowerFails, Idle
<1>7. \A c \in Blocks : Len(flash'[c].items) < SIZE
  BY <1>1, <1>2, <1>4, WritingFacts
<1>8. DiskInv'
  <2>1. \A c \in Blocks : flash'[c].state = "blank" => flash'[c].items = <<>>
    BY <1>1, <1>2, <1>3, <1>4, WritingFacts DEF DiskInv
  <2> QED BY <1>2, <1>3, <2>1, BlockFacts DEF DiskInv
<1>9. OpInv'
  <2>1. NoOp \in Ops /\ NoOp.kind = "none"
    BY DEF NoOp, Ops
  <2> HIDE DEF NoOp
  <2> QED BY <1>5, <2>1 DEF OpInv, Setting
<1>10. LockInv'
  BY <1>5, KvAssumption DEF LockInv, Holding, Collecting
<1>11. BootInv'
  <2>1. Count(0)' = 0 /\ Count(1)' = 0 /\ \A b \in Blocks : ~Read(b)'
    BY <1>5 DEF Count, Read, Blocks
  <2> QED BY <1>5, <2>1 DEF BootInv
<1>12. StoreInv' /\ OldInv' /\ WaitInv'
  BY <1>5 DEF StoreInv, OldInv, WaitInv
<1>13. MarkInv'
  BY <1>5 DEF MarkInv
<1>14. TypeOK'
  <2>1. exposed' \subseteq Keys /\ faults' \in 0 .. MaxFaults
    BY <1>3, <1>5, TypeFacts, SizeFacts DEF Undermined
  <2>2. pc' \in [Tasks -> {"idle", "count", "take", "blocked", "lock", "append",
                           "delete", "mark", "prefix"}]
    BY <1>5
  <2>3. info' \in Infos
    BY <1>5 DEF Infos
  <2>4. gc'.pc = "off" /\ gc'.i = 0 /\ boot'.ph = "head" /\ boot'.b = 0
    BY <1>5
  <2>5. may' \in [Keys -> SUBSET (Vals \cup {None})] /\ stale' \subseteq Tasks
    BY <1>3, <1>5, TypeFacts
  <2>6. /\ clean' \in 0 .. 2 /\ wblk' \in Blocks /\ gc'.i \in 0 .. SIZE /\ posting' \in 0 .. MaxPosting
        /\ waiter' \in Nat /\ sem' \in Nat
    BY <1>5, <2>4, SizeFacts, BlockFacts
  <2>8. trigger' \in BOOLEAN
    BY <1>5
  <2>7. lock' \in Tasks \cup {Gc, None} /\ gc'.pc \in {"off", "none", "lock"} \cup Collecting
        /\ boot'.ph \in {"head", "items", "unclean", "astray", "up"} /\ boot'.b \in 0 .. 2
    BY <1>5, <2>4
  <2> QED BY <1>2, <1>7, <1>9, <2>1, <2>2, <2>3, <2>5, <2>6, <2>7, <2>8, TypeStep
<1> QED BY <1>8, <1>9, <1>10, <1>11, <1>12, <1>13, <1>14 DEF IInv

-----------------------------------------------------------------------------
(* The theorems *)

\* Nothing changes when nothing happens.
LEMMA StutterInv == IInv /\ UNCHANGED vars => IInv'
<1> SUFFICES ASSUME IInv, UNCHANGED vars PROVE IInv'
  OBVIOUS
<1>1. UNCHANGED <<flash, info, clean, wblk, lock, trigger, waiter, sem, gc, posting, boot,
                  pc, op, may, exposed, stale, faults>>
  BY DEF vars
<1>2. TypeOK' /\ OpInv' /\ LockInv'
  BY <1>1 DEF IInv, TypeOK, OpInv, LockInv
<1>3. DiskInv' /\ BootInv' /\ StoreInv' /\ MarkInv'
  BY <1>1, SameStore
<1>4. OldInv' /\ WaitInv'
  BY <1>1 DEF IInv, OldInv, WaitInv, Written
<1> QED BY <1>2, <1>3, <1>4 DEF IInv

\* Every step keeps the invariant.
LEMMA IInvStep == IInv /\ [Next]_vars => IInv'
<1> SUFFICES ASSUME IInv, [Next]_vars PROVE IInv'
  OBVIOUS
<1>1. CASE Boot
  BY <1>1, BootHeadInv, BootItemInv, BootReplaceFailsInv, BootItemFailsInv, BootBlockDoneInv,
     BootUncleanInv, BootReadyInv DEF Boot
<1>2. CASE Collect
  BY <1>2, GcLockInv, GcCopyInv, GcCopyFailsInv, GcEraseInv, GcHeaderInv, GcUseInv, GcPostInv
     DEF Collect
<1>3. ASSUME NEW t \in Tasks, Work(t) PROVE IInv'
  BY <1>3, SetCountInv, SetTakeInv, SetLockInv, SearchFailsInv, SetFailsInv, AppendItemInv,
     DeleteItemInv, MarkDirtyInv, PrefixNextInv, PrefixFailsInv DEF Work
<1>4. ASSUME NEW t \in Tasks,
             \/ \E k \in Keys, v \in Vals : SetEnter(t, k, v)
             \/ \E k \in Keys : Delete(t, k)
             \/ \E G \in Groups : DeleteByPrefix(t, G)
      PROVE  IInv'
  BY <1>4, SetEnterInv, DeleteInv, DeleteByPrefixInv
<1>5. CASE PowerFails
  BY <1>5, PowerFailsInv
<1>6. CASE UNCHANGED vars
  BY <1>6, StutterInv
<1> QED BY <1>1, <1>2, <1>3, <1>4, <1>5, <1>6 DEF Next

\* The invariant of the store: in every state reached, whatever is cut by a
\* power failure or fails for lack of memory, up to the state in which a failed
\* allocation has led kv_init() astray.  In that state, as while kv_init() reads
\* a block, an item cut short may stand unmarked from the item reached on; the
\* state is the last one followed.
THEOREM Inductive == Spec => []IInv
<1>1. Init => IInv
  BY InitIInv
<1>2. IInv /\ [Next]_vars => IInv'
  BY IInvStep
<1> QED BY <1>1, <1>2, PTL DEF Spec

\* The variables keep their types; in particular no block is ever filled
\* completely, so that the search always ends behind the last item.
THEOREM TypeCorrect == Spec => []TypeOK
<1>1. IInv => TypeOK
  BY DEF IInv
<1> QED BY <1>1, Inductive, PTL

\* Whenever the store can be read one block is clean and empty and the other
\* takes the writes, and kv_init() never gives up block 0.
THEOREM AlwaysASpare == Spec => []SpareBlock
<1>1. IInv => SpareBlock
  <2> SUFFICES ASSUME IInv PROVE SpareBlock
    OBVIOUS
  <2>1. boot.ph = "unclean" /\ Unclean = {} => clean > 0
    BY SpareFacts
  <2>2. ASSUME Quiet
        PROVE  /\ clean = 1
               /\ \E b \in Blocks : /\ info[b] = "clean" /\ flash[b].items = <<>>
                                    /\ wblk = Other(b) /\ info[wblk] # "clean"
               /\ \A b \in Blocks : flash[b].state = info[b]
    <3>1. TypeOK /\ boot.ph = "up" /\ gc.pc \notin Collecting
      BY <2>2, KvAssumption DEF IInv, LockInv, Quiet, IsUp, Up
    <3>2. Settled
      BY <3>1 DEF IInv, StoreInv
    <3>3. PICK o \in Blocks : /\ o = Other(wblk) /\ wblk = Other(o)
                              /\ \A c \in Blocks : c = o \/ c = wblk
      BY <3>1, TypeFacts, BlockFacts
    <3> QED BY <3>2, <3>3 DEF Settled, Empty
  <2> QED BY <2>1, <2>2 DEF SpareBlock
<1> QED BY <1>1, Inductive, PTL

\* A block with a deleted item is DIRTY whenever the store can be read, so that
\* a collection will find it.
THEOREM NoLostGarbage == Spec => []GarbageIsMarked
<1>1. IInv => GarbageIsMarked
  <2> SUFFICES ASSUME IInv, Quiet, NEW b \in Blocks, info[b] = "used",
                      NEW i \in 1 .. Len(flash[b].items)
               PROVE  flash[b].items[i].st = "normal"
    BY DEF GarbageIsMarked
  <2>1. boot.ph = "up" /\ \A t \in Tasks : pc[t] # "mark"
    BY KvAssumption DEF IInv, LockInv, Quiet, IsUp, Up, Holding
  <2> QED BY <2>1 DEF IInv, MarkInv, Unmarked
<1> QED BY <1>1, Inductive, PTL

\* A task that is blocked for ever was not yet waiting when the collection
\* posted, or a later collection had reset the count, or kv_trigger_gc() has
\* failed to start the collection it has announced.
THEOREM StrandedAreLate == Spec => []OnlyLateWaitersStrand
<1>1. IInv => OnlyLateWaitersStrand
  <2> SUFFICES ASSUME IInv, NEW t \in Tasks, pc[t] = "blocked", gc.pc = "off", posting = 0
               PROVE  t \in stale
    BY DEF OnlyLateWaitersStrand
  <2> QED BY DEF IInv, LockInv, WaitInv
<1> QED BY <1>1, Inductive, PTL

-----------------------------------------------------------------------------
(* What is stored *)

\* The old item of an operation has the operation's key; only a set has a value.
OwnOf(t) ==
    /\ (pc[t] = "append" /\ op[t].old # None) \/ pc[t] = "delete"
         => Live(op[t].old, op[t].key)
    /\ pc[t] = "prefix" => op[t].kind = "prefix"
    /\ op[t].kind # "set" => op[t].val = None
OwnInv == \A t \in Tasks : OwnOf(t)

\* A CLEAN block with items belongs to a collection: the block it is filled
\* from is DIRTY, or already erased.
CopyInv ==
    \A b \in Blocks : flash[b].state = "clean" /\ flash[b].items # <<>> =>
        \/ flash[Other(b)].state = "dirty"
        \/ flash[Other(b)].state \in {"blank", "clean"} /\ flash[Other(b)].items = <<>>

\* Two live items of key k in one block, p before q: q is an update of p, which
\* is being finished or which kv_init() has still to finish.
Update(k, p, q) ==
    /\ ItemAt(q).origin = p
    /\ \A r \in Positions : Live(r, k) => r[1] = p[1]
    /\ \/ boot.ph # "up" /\ (p[1] > boot.b \/ (p[1] = boot.b /\ q[2] >= boot.i))
       \/ \E t \in Tasks : /\ pc[t] = "delete" /\ op[t].kind = "set"
                           /\ op[t].key = k /\ op[t].old = p /\ ItemAt(q).val = op[t].val

\* Two live items of k in different blocks: an item p and its copy q.
Copy(k, p, q) ==
    /\ flash[p[1]].state = "dirty" /\ flash[q[1]].state = "clean"
    /\ ItemAt(q).val = ItemAt(p).val /\ ItemAt(q).origin = ItemAt(p).origin
    /\ boot.ph # "up" => ItemAt(p).origin # p
    /\ boot.ph = "up" => gc.pc \in {"copy", "erase"}

Pairs(k) ==
    \A p, q \in Positions : Live(p, k) /\ Live(q, k) =>
        /\ p[1] = q[1] /\ p[2] < q[2] => Update(k, p, q)
        /\ p[1] # q[1] => Copy(k, p, q) \/ Copy(k, q, p)

\* A copy in a CLEAN block has its original, in the part of the block that the
\* collection has passed ...
Originals(k) ==
    \A q \in Positions : Live(q, k) /\ flash[q[1]].state = "clean"
                          /\ flash[Other(q[1])].state = "dirty" =>
        \E p \in Positions : /\ p[1] = Other(q[1]) /\ Live(p, k)
                             /\ gc.pc = "copy" => p[2] < gc.i

\* ... and all in that part have been copied.
Copies(k) ==
    \A p \in Positions : Live(p, k) /\ p[1] = From /\ gc.pc \in {"copy", "erase"}
                          /\ (gc.pc = "copy" => p[2] < gc.i) =>
        \E q \in Positions : q[1] = wblk /\ Live(q, k)

\* What a live item holds may be read; a key without one may be missing.
Values(k) ==
    /\ \A p \in Positions : Live(p, k) => ItemAt(p).val \in may[k]
    /\ (\A p \in Positions : ~Live(p, k)) => None \in may[k]

\* What the operation of task t has found or left of its key k.
TaskOf(t, k) ==
    /\ pc[t] = "append" /\ op[t].old = None => \A p \in Positions : ~Live(p, k)
    /\ pc[t] = "delete" /\ op[t].kind = "set" =>
          \E q \in Positions : /\ q # op[t].old /\ Live(q, k)
                               /\ ItemAt(q).val = op[t].val
    /\ pc[t] = "delete" /\ op[t].kind # "set" =>
          \A q \in Positions : Live(q, k) => q = op[t].old
    /\ pc[t] = "mark" =>
          /\ \A q \in Positions : Live(q, k) => ItemAt(q).val = op[t].val
          /\ (\A q \in Positions : ~Live(q, k)) => op[t].val = None

KeyInv(k) ==
    /\ Pairs(k) /\ Originals(k) /\ Copies(k) /\ Values(k)
    /\ \A t \in Tasks : op[t].key = k => TaskOf(t, k)

LInv == OwnInv /\ CopyInv /\ \A k \in Keys \ exposed : KeyInv(k)

\* The live items of a key, alone in their block or at all.
SinglePer(k) == \A p, q \in Positions : Live(p, k) /\ Live(q, k) /\ p[1] = q[1] => p = q
Single(k) == \A p, q \in Positions : Live(p, k) /\ Live(q, k) => p = q

\* A position is live for its own key only.
LEMMA LiveFacts ==
  ASSUME TypeOK, NEW k, NEW p \in Positions, Live(p, k)
  PROVE  /\ Written(p) /\ p[1] \in Blocks /\ p[2] \in 1 .. Len(flash[p[1]].items)
         /\ ItemAt(p) = flash[p[1]].items[p[2]] /\ ItemAt(p) \in Items
         /\ ItemAt(p).st = "normal" /\ ItemAt(p).key = k
         /\ flash[p[1]].items # <<>>
         /\ \A j : Live(p, j) => j = k
<1>1. Written(p) /\ ItemAt(p).st = "normal" /\ ItemAt(p).key = k
  BY DEF Live
<1>2. \A j : Live(p, j) => j = k
  BY <1>1 DEF Live
<1>3. flash[p[1]].items # <<>>
  <2>1. Len(<<>>) = 0
    OBVIOUS
  <2> QED BY <1>1, <2>1, ItemFacts
<1> QED BY <1>1, <1>2, <1>3, ItemFacts

\* Blocks with the same items have the same live items.
LEMMA SameItems ==
  ASSUME \A b \in Blocks : flash'[b].items = flash[b].items
  PROVE  \A p \in Positions : /\ Written(p)' <=> Written(p)
                              /\ ItemAt(p)' = ItemAt(p)
                              /\ \A k : Live(p, k)' <=> Live(p, k)
  BY PositionFacts DEF Written, ItemAt, Live

\* Positions in the same block are ordered by their index.
LEMMA Order ==
  ASSUME NEW p \in Positions, NEW q \in Positions, p[1] = q[1]
  PROVE  p = q \/ p[2] < q[2] \/ q[2] < p[2]
<1>1. /\ p = <<p[1], p[2]>> /\ q = <<q[1], q[2]>> /\ p[2] \in 1 .. SIZE /\ q[2] \in 1 .. SIZE
      /\ SIZE \in Nat
  BY PositionFacts, SizeFacts
<1>2. CASE p[2] = q[2]
  BY <1>1, <1>2
<1>3. CASE p[2] # q[2]
  BY <1>1, <1>3
<1> QED BY <1>2, <1>3

\* Where no update of a key can be under way it has one live item per block.
LEMMA NoUpdate ==
  ASSUME IInv, NEW k, Pairs(k), boot.ph = "up" \/ boot.b = 2,
         \A t \in Tasks : pc[t] = "delete" => op[t].key # k \/ op[t].kind # "set"
  PROVE  SinglePer(k)
<1>1. ASSUME NEW p \in Positions, NEW q \in Positions PROVE ~Update(k, p, q)
  <2>1. p[1] \in Blocks
    BY PositionFacts
  <2> QED BY <2>1 DEF Update, Blocks
<1> SUFFICES ASSUME NEW p \in Positions, NEW q \in Positions, Live(p, k), Live(q, k), p[1] = q[1]
             PROVE  p = q
  BY DEF SinglePer
<1>2. ~(p[2] < q[2]) /\ ~(q[2] < p[2])
  BY <1>1 DEF Pairs
<1> QED BY <1>2, Order

\* The live items of a settled store are in the block that is written to.
LEMMA LiveWhere ==
  ASSUME IInv, boot.ph = "up", gc.pc \notin Collecting, NEW k, NEW p \in Positions, Live(p, k)
  PROVE  p[1] = wblk /\ info[p[1]] # "clean" /\ flash[p[1]].state # "clean"
<1>1. TypeOK /\ Settled
  BY DEF IInv, StoreInv
<1>2. p[1] \in Blocks /\ flash[p[1]].items # <<>>
  BY <1>1, LiveFacts
<1>3. p[1] # Other(wblk)
  BY <1>1, <1>2 DEF Settled, Empty
<1>4. p[1] = wblk
  BY <1>1, <1>2, <1>3, TypeFacts, BlockFacts
<1> QED BY <1>1, <1>4 DEF Settled

\* ... and there is one of them for each key, but for an update under way.
LEMMA OneLive ==
  ASSUME IInv, boot.ph = "up", gc.pc \notin Collecting, NEW k, Pairs(k),
         \A t \in Tasks : pc[t] = "delete" => op[t].key # k \/ op[t].kind # "set"
  PROVE  Single(k)
<1>1. SinglePer(k)
  BY NoUpdate
<1>2. \A p \in Positions : Live(p, k) => p[1] = wblk
  BY LiveWhere
<1> QED BY <1>1, <1>2 DEF SinglePer, Single

\* What the search finds is then the live item, if there is one.
LEMMA FindLive ==
  ASSUME IInv, boot.ph = "up", gc.pc \notin Collecting, NEW k \in Keys
  PROVE  /\ Find(k) # None => Find(k) \in Positions /\ Live(Find(k), k)
         /\ Find(k) = None => \A p \in Positions : ~Live(p, k)
<1>1. ASSUME Find(k) = None, NEW p \in Positions, Live(p, k) PROVE FALSE
  <2> DEFINE S == {q \in Positions : info[q[1]] # "clean" /\ Live(q, k)}
  <2>1. p \in S
    BY <1>1, LiveWhere
  <2>2. S \subseteq Positions /\ S # {} /\ Find(k) = FirstOf(S)
    BY <2>1 DEF Find
  <2> HIDE DEF S
  <2>3. FirstOf(S) # None
    BY <2>2, FirstFacts
  <2> QED BY <1>1, <2>2, <2>3
<1> QED BY <1>1, FindKey

\* A key with one live item has no pairs.
LEMMA SinglePairs == ASSUME NEW k, Single(k)' PROVE Pairs(k)'
<1> SUFFICES ASSUME NEW p \in Positions, NEW q \in Positions, Live(p, k)', Live(q, k)'
             PROVE  ~(p[1] = q[1] /\ p[2] < q[2]) /\ p[1] = q[1]
  BY DEF Pairs
<1>1. p = q
  BY DEF Single
<1>2. p[2] \in 1 .. SIZE /\ SIZE \in Nat
  BY PositionFacts, SizeFacts
<1> QED BY <1>1, <1>2

\* A step that ends in a settled store leaves no copies.
LEMMA SettledKey ==
  ASSUME IInv', boot'.ph = "up", gc'.pc \notin Collecting
  PROVE  CopyInv' /\ \A k : Originals(k)' /\ Copies(k)'
<1>1. /\ flash'[Other(wblk)'].items = <<>>
      /\ flash'[wblk'].state \in {"used", "dirty"} /\ wblk' \in Blocks
      /\ \A b \in Blocks : Len(flash'[b].items) \in Nat
  <2>1. Settled' /\ TypeOK'
    BY DEF IInv, StoreInv
  <2>2. /\ flash'[Other(wblk)'].items = <<>>
        /\ flash'[wblk'].state \in {"used", "dirty"}
    BY <2>1 DEF Settled, Empty
  <2>3. wblk' \in Blocks /\ \A b \in Blocks : flash'[b].items \in Seq(Items)
    BY <2>1 DEF TypeOK
  <2>4. \A b \in Blocks : Len(flash'[b].items) \in Nat
    BY <2>3
  <2> QED BY <2>2, <2>3, <2>4
<1>2. PICK w \in Blocks, o \in Blocks :
         /\ w = wblk' /\ o = Other(w) /\ \A c \in Blocks : c = w \/ c = o
  BY <1>1, BlockFacts
<1>3. /\ flash'[o].items = <<>> /\ flash'[w].state # "clean"
  BY <1>1, <1>2 DEF Other
<1>4. CopyInv'
  BY <1>2, <1>3 DEF CopyInv
<1>5. \A k : Copies(k)'
  BY DEF Copies, Collecting
<1>6. ASSUME NEW k PROVE Originals(k)'
  <2> SUFFICES ASSUME NEW q \in Positions, Live(q, k)', flash'[q[1]].state = "clean"
               PROVE  FALSE
    BY DEF Originals
  <2>1. q[1] = o
    BY <1>2, <1>3, PositionFacts
  <2>2. q[2] <= Len(flash'[o].items) /\ q[2] \in 1 .. SIZE /\ SIZE \in Nat
    BY <2>1, PositionFacts, SizeFacts DEF Live, Written
  <2>3. Len(<<>>) = 0
    OBVIOUS
  <2> QED BY <1>3, <2>2, <2>3
<1> QED BY <1>4, <1>5, <1>6

\* A task that goes on as it is, in a step that writes no item.
LEMMA SameTask ==
  ASSUME OwnInv, \A b \in Blocks : flash'[b].items = flash[b].items, OpInv, IInv,
         NEW u \in Tasks, op'[u] = op[u],
         pc'[u] = pc[u] \/ (pc[u] \notin Holding /\ pc'[u] \notin Holding)
  PROVE  /\ OwnOf(u)'
         /\ \A k : TaskOf(u, k) => TaskOf(u, k)'
<1>1. \A p \in Positions : /\ ItemAt(p)' = ItemAt(p)
                           /\ \A k : Live(p, k)' <=> Live(p, k)
  BY SameItems
<1>2. OwnOf(u) /\ OldInv
  BY DEF OwnInv, IInv
<1>3. (pc[u] = "append" /\ op[u].old # None) \/ pc[u] = "delete"
        => op[u].old \in Positions /\ Live(op[u].old, op[u].key)
  BY <1>2 DEF OwnOf, OldInv
<1>4. pc'[u] \in Holding => pc'[u] = pc[u]
  OBVIOUS
<1>5. OwnOf(u)'
  <2>1. PICK x, k : x = op[u].old /\ k = op[u].key
    OBVIOUS
  <2>2. Live(op[u].old, op[u].key)' <=> Live(x, k)'
    BY <2>1 DEF Live, Written, ItemAt
  <2>3. x \in Positions /\ Live(x, k) => Live(x, k)'
    BY <1>1
  <2> QED BY <1>2, <1>3, <1>4, <2>1, <2>2, <2>3 DEF OwnOf, Holding
<1>6. ASSUME NEW k, TaskOf(u, k) PROVE TaskOf(u, k)'
  BY <1>1, <1>4, <1>6 DEF TaskOf, Holding
<1> QED BY <1>5, <1>6

\* A step that writes nothing keeps what is said of the items.
LEMMA SameKey ==
  ASSUME UNCHANGED <<flash, wblk, boot>>,
         gc' = gc \/ (gc.pc \notin Collecting /\ gc'.pc \notin Collecting),
         \A u \in Tasks : pc[u] = "delete" => pc'[u] = "delete" /\ op'[u] = op[u],
         boot.ph = "up" => IInv
  PROVE  /\ CopyInv => CopyInv'
         /\ \A k : /\ Pairs(k) => Pairs(k)'
                   /\ Originals(k) => Originals(k)'
                   /\ Copies(k) => Copies(k)'
                   /\ may'[k] = may[k] /\ Values(k) => Values(k)'
<1>1. \A p \in Positions : /\ ItemAt(p)' = ItemAt(p)
                           /\ \A k : Live(p, k)' <=> Live(p, k)
  BY SameItems
<1>2. /\ gc'.pc \in {"copy", "erase"} <=> gc.pc \in {"copy", "erase"}
      /\ gc'.pc = "copy" <=> gc.pc = "copy"
      /\ gc.pc = "copy" => gc'.i = gc.i
  BY DEF Collecting
<1>3. CopyInv => CopyInv'
  BY DEF CopyInv
<1>4. ASSUME NEW k, Pairs(k) PROVE Pairs(k)'
  <2>1. \A p, q \in Positions : Update(k, p, q) => Update(k, p, q)'
    BY <1>1 DEF Update
  <2>2. \A p, q \in Positions : Copy(k, p, q) => Copy(k, p, q)'
    BY <1>1, <1>2 DEF Copy
  <2> QED BY <1>1, <1>4, <2>1, <2>2 DEF Pairs
<1>5. ASSUME NEW k, Originals(k) PROVE Originals(k)'
  BY <1>1, <1>2, <1>5 DEF Originals
<1>6. ASSUME NEW k, Copies(k) PROVE Copies(k)'
  BY <1>1, <1>2, <1>6 DEF Copies, From
<1>7. ASSUME NEW k, may'[k] = may[k], Values(k) PROVE Values(k)'
  BY <1>1, <1>7 DEF Values
<1> QED BY <1>3, <1>4, <1>5, <1>6, <1>7

\* What is left to show for a step of task t that writes nothing.
LEMMA QuietStep ==
  ASSUME IInv, LInv, NEW t \in Tasks, NEW l, UNCHANGED <<flash, wblk, boot, may>>,
         exposed \subseteq exposed',
         gc' = gc \/ (gc.pc \notin Collecting /\ gc'.pc \notin Collecting),
         pc' = [pc EXCEPT ![t] = l], \A u \in Tasks \ {t} : op'[u] = op[u], pc[t] # "delete",
         OwnOf(t)', \A k \in Keys \ exposed' : op'[t].key = k => TaskOf(t, k)'
  PROVE  LInv'
<1>1. OwnInv /\ CopyInv /\ TypeOK /\ OpInv /\ \A k \in Keys \ exposed : KeyInv(k)
  BY DEF LInv, IInv
<1>2. \A u \in Tasks \ {t} : pc'[u] = pc[u]
  BY <1>1, TypeFacts
<1>3. \A u \in Tasks \ {t} : OwnOf(u)' /\ \A k : TaskOf(u, k) => TaskOf(u, k)'
  BY <1>1, <1>2, SameTask
<1>4. /\ CopyInv'
      /\ \A k : /\ Pairs(k) => Pairs(k)'
                /\ Originals(k) => Originals(k)'
                /\ Copies(k) => Copies(k)'
                /\ may'[k] = may[k] /\ Values(k) => Values(k)'
  BY <1>1, <1>2, SameKey
<1>5. OwnInv'
  BY <1>3 DEF OwnInv
<1>6. ASSUME NEW k \in Keys \ exposed' PROVE KeyInv(k)'
  <2>1. KeyInv(k)
    BY <1>1
  <2>2. Pairs(k)' /\ Originals(k)' /\ Copies(k)' /\ Values(k)'
    BY <1>4, <2>1 DEF KeyInv
  <2>3. \A u \in Tasks : op'[u].key = k => TaskOf(u, k)'
    BY <1>3, <2>1 DEF KeyInv
  <2> QED BY <2>2, <2>3 DEF KeyInv
<1> QED BY <1>4, <1>5, <1>6 DEF LInv

\* A task that is not about to write and not in a critical section has nothing
\* to answer for.
LEMMA IdleTask ==
  ASSUME NEW t \in Tasks, pc'[t] \notin {"append", "delete", "mark"},
         pc'[t] = "prefix" => op'[t].kind = "prefix",
         op'[t].kind # "set" => op'[t].val = None
  PROVE  OwnOf(t)' /\ \A k : TaskOf(t, k)'
  BY DEF OwnOf, TaskOf

\* Calls, waiting and returns.
LEMMA EnterL ==
  ASSUME IInv, LInv, NEW t \in Tasks,
         \/ \E k \in Keys, v \in Vals : SetEnter(t, k, v)
         \/ SetCount(t) \/ SetTake(t)
         \/ \E G \in Groups : DeleteByPrefix(t, G)
  PROVE  LInv'
<1>1. TypeOK /\ OpInv /\ OwnInv /\ op \in [Tasks -> Ops]
  BY DEF IInv, LInv, OpInv
<1>2. PICK l \in {"count", "lock", "take", "blocked", "prefix"} :
         /\ pc' = [pc EXCEPT ![t] = l] /\ pc[t] # "delete" /\ pc[t] # "prefix"
         /\ UNCHANGED <<flash, wblk, boot, may, exposed, gc>>
         /\ \/ op' = op /\ l # "prefix"
            \/ \E o \in Ops : /\ op' = [op EXCEPT ![t] = o]
                              /\ l = "prefix" => o.kind = "prefix"
                              /\ o.kind # "set" => o.val = None
  <2>1. ASSUME NEW k \in Keys, NEW v \in Vals, SetEnter(t, k, v)
        PROVE  \E l \in {"count", "lock"} : \E o \in Ops :
                 /\ pc' = [pc EXCEPT ![t] = l] /\ pc[t] = "idle"
                 /\ UNCHANGED <<flash, wblk, boot, may, exposed, gc>>
                 /\ op' = [op EXCEPT ![t] = o] /\ o.kind = "set"
    <3> DEFINE o == [kind |-> "set", keys |-> {}, key |-> k, val |-> v, old |-> None]
               l == IF trigger THEN "count" ELSE "lock"
    <3>1. /\ pc[t] = "idle" /\ op' = [op EXCEPT ![t] = o] /\ pc' = [pc EXCEPT ![t] = l]
          /\ UNCHANGED <<flash, wblk, gc, boot, may, exposed>>
      BY <2>1 DEF SetEnter, Goto, store, gcvars, ghosts
    <3>2. o \in Ops /\ o.kind = "set" /\ l \in {"count", "lock"}
      BY DEF Ops
    <3> QED BY <3>1, <3>2
  <2>2. ASSUME SetCount(t) \/ SetTake(t)
        PROVE  \E l \in {"lock", "take", "blocked"} :
                 /\ pc' = [pc EXCEPT ![t] = l] /\ pc[t] # "delete" /\ pc[t] # "prefix"
                 /\ UNCHANGED <<flash, wblk, boot, may, exposed, gc, op>>
    <3>1. CASE SetCount(t)
      BY <3>1 DEF SetCount, Goto, store, ghosts
    <3>2. CASE SetTake(t) /\ sem > 0
      BY <3>2 DEF SetTake, Goto, store, ghosts
    <3>3. CASE SetTake(t) /\ ~(sem > 0)
      BY <3>3 DEF SetTake, Goto, store, ghosts
    <3> QED BY <2>2, <3>1, <3>2, <3>3
  <2>3. ASSUME NEW G \in Groups, DeleteByPrefix(t, G)
        PROVE  \E o \in Ops :
                 /\ pc' = [pc EXCEPT ![t] = "prefix"] /\ pc[t] = "idle"
                 /\ UNCHANGED <<flash, wblk, boot, may, exposed, gc>>
                 /\ op' = [op EXCEPT ![t] = o] /\ o.kind = "prefix" /\ o.val = None
    <3> DEFINE o == [kind |-> "prefix", keys |-> G, key |-> None, val |-> None, old |-> None]
    <3>1. /\ pc[t] = "idle" /\ op' = [op EXCEPT ![t] = o] /\ pc' = [pc EXCEPT ![t] = "prefix"]
          /\ UNCHANGED <<flash, wblk, gc, boot, may, exposed>>
      BY <2>3 DEF DeleteByPrefix, Goto, store, gcvars, ghosts
    <3>2. o \in Ops /\ o.kind = "prefix" /\ o.val = None
      BY KvAssumption DEF Ops
    <3> QED BY <3>1, <3>2
  <2>4. CASE \E k \in Keys, v \in Vals : SetEnter(t, k, v)
    BY <2>1, <2>4
  <2>5. CASE SetCount(t) \/ SetTake(t)
    BY <2>2, <2>5
  <2>6. CASE \E G \in Groups : DeleteByPrefix(t, G)
    BY <2>3, <2>6
  <2> QED BY <2>4, <2>5, <2>6
<1>3. pc'[t] = l /\ \A u \in Tasks \ {t} : op'[u] = op[u]
  BY <1>1, <1>2, TypeFacts
<1>4. /\ l = "prefix" => op'[t].kind = "prefix"
      /\ op'[t].kind # "set" => op'[t].val = None
  <2>1. CASE op' = op /\ l # "prefix"
    BY <1>1, <2>1 DEF OwnInv, OwnOf
  <2>2. CASE \E o \in Ops : /\ op' = [op EXCEPT ![t] = o]
                            /\ l = "prefix" => o.kind = "prefix"
                            /\ o.kind # "set" => o.val = None
    BY <1>1, <2>2
  <2> QED BY <1>2, <2>1, <2>2
<1>5. OwnOf(t)' /\ \A k : TaskOf(t, k)'
  BY <1>3, <1>4, IdleTask
<1> QED BY <1>2, <1>3, <1>5, QuietStep

\* An operation that ends without a write.
LEMMA LeaveL ==
  ASSUME IInv, LInv, NEW t \in Tasks, Return(t), pc[t] # "delete",
         UNCHANGED <<flash, wblk, boot, may>>, exposed \subseteq exposed',
         gc' = gc \/ (gc.pc \notin Collecting /\ gc'.pc \notin Collecting)
  PROVE  LInv'
<1>1. /\ pc' = [pc EXCEPT ![t] = "idle"] /\ op'[t] = NoOp
      /\ \A u \in Tasks \ {t} : op'[u] = op[u]
  BY ReturnFacts
<1>2. pc'[t] = "idle"
  BY <1>1, TypeFacts DEF IInv
<1>3. op'[t].val = None
  BY <1>1 DEF NoOp
<1>4. OwnOf(t)' /\ \A k : TaskOf(t, k)'
  BY <1>2, <1>3, IdleTask
<1> QED BY <1>1, <1>4, QuietStep

\* A task that has found the item it will replace or delete.
LEMMA FoundTask ==
  ASSUME NEW t \in Tasks, UNCHANGED flash, NEW x, NEW k,
         op'[t].old = x, op'[t].key = k, pc'[t] \in {"append", "delete"},
         x # None => Live(x, k), pc'[t] = "delete" => x # None,
         op'[t].kind # "set" => op'[t].val = None
  PROVE  OwnOf(t)'
<1>1. Live(op[t].old, op[t].key)' <=> Live(x, k)
  BY DEF Live, Written, ItemAt
<1> QED BY <1>1 DEF OwnOf

\* kv_item_store() on the item found, or for a new key.
LEMMA StoreL ==
  ASSUME IInv, LInv, NEW t \in Tasks, NEW p \in Positions \cup {None},
         pc[t] = "lock", lock = None, NEW f \in 0 .. MaxFaults, Store(t, p, f),
         exposed \subseteq exposed',
         p # None => Live(p, op[t].key),
         p = None => op[t].key \in exposed' \/ \A q \in Positions : ~Live(q, op[t].key)
  PROVE  LInv'
<1>1. UNCHANGED <<flash, info, clean, wblk, boot, may>> /\ TriggerStep
  <2>1. TriggerGc(Space(wblk) - 1 < MAXLEN /\ clean <= 1, f)
    BY DEF Store
  <2>2. TriggerStep
    BY <2>1, TriggerGcFacts
  <2> QED BY <2>2 DEF Store, store
<1>2. TypeOK /\ WaitInv /\ LockInv /\ OpInv /\ OwnInv /\ gc.pc \notin Collecting
  BY UpFacts DEF IInv, LInv
<1>3. gc'.pc \notin Collecting
  <2>1. gc' \in [pc : {"off", "none", "lock"}, i : Nat]
    BY <1>1, <1>2, TriggerFacts
  <2> QED BY <2>1 DEF Collecting
<1>4. CASE Space(wblk) > 1
  <2>1. pc' = [pc EXCEPT ![t] = "append"] /\ op' = [op EXCEPT ![t].old = p]
    BY <1>4 DEF Store, Goto
  <2>2. /\ op'[t].old = p /\ op'[t].key = op[t].key /\ op'[t].kind = op[t].kind
        /\ op'[t].val = op[t].val /\ \A u \in Tasks \ {t} : op'[u] = op[u]
    <3>1. op \in [Tasks -> Ops]
      BY <1>2 DEF OpInv
    <3> QED BY <2>1, <3>1 DEF Ops
  <2>3. pc'[t] = "append"
    BY <1>2, <2>1, TypeFacts
  <2>4. op[t].kind # "set" => op[t].val = None
    BY <1>2 DEF OwnInv, OwnOf
  <2>5. OwnOf(t)'
    BY <1>1, <2>2, <2>3, <2>4, FoundTask
  <2>6. ASSUME NEW k \in Keys \ exposed', op'[t].key = k PROVE TaskOf(t, k)'
    <3>1. p = None => \A q \in Positions : ~Live(q, k)'
      BY <1>1, <2>2, <2>6, SameItems
    <3> QED BY <2>2, <2>3, <3>1 DEF TaskOf
  <2>7. pc' = [pc EXCEPT ![t] = "append"]
    BY <2>1
  <2> QED BY <1>1, <1>2, <1>3, <2>2, <2>5, <2>6, <2>7, QuietStep
<1>5. CASE ~(Space(wblk) > 1)
  <2>1. Return(t)
    BY <1>5 DEF Store
  <2> QED BY <1>1, <1>2, <1>3, <2>1, LeaveL
<1> QED BY <1>4, <1>5

\* kv_item_set() has searched for its key.
LEMMA SetLockL == ASSUME IInv, LInv, NEW t \in Tasks, SetLock(t) PROVE LInv'
<1>1. pc[t] = "lock" /\ lock = None
  BY DEF SetLock
<1>2. TypeOK /\ boot.ph = "up" /\ gc.pc \notin Collecting /\ op[t].key \in Keys
  BY <1>1, UpFacts DEF IInv, OpInv, Setting
<1>3. CASE ValueOf(op[t].key) = op[t].val
  <2>1. Return(t) /\ UNCHANGED <<store, lock, gcvars, boot, ghosts>>
    BY <1>3 DEF SetLock
  <2> QED BY <1>1, <2>1, LeaveL DEF store, gcvars, ghosts
<1>4. CASE ValueOf(op[t].key) # op[t].val
  <2>1. Store(t, Find(op[t].key), faults) /\ UNCHANGED exposed /\ faults \in 0 .. MaxFaults
    BY <1>2, <1>4, TypeFacts DEF SetLock
  <2>2. PICK p : p = Find(op[t].key)
    OBVIOUS
  <2>3. /\ p # None => p \in Positions /\ Live(p, op[t].key)
        /\ p = None => \A q \in Positions : ~Live(q, op[t].key)
    BY <1>2, <2>2, FindLive
  <2> QED BY <1>1, <1>2, <2>1, <2>2, <2>3, StoreL
<1> QED BY <1>3, <1>4

\* ... without memory: from now on the key is exempt.
LEMMA SearchFailsL == ASSUME IInv, LInv, NEW t \in Tasks, SearchFails(t) PROVE LInv'
<1>1. /\ pc[t] = "lock" /\ lock = None /\ faults < MaxFaults
      /\ exposed' = exposed \cup {op[t].key} /\ Store(t, None, faults + 1)
  BY DEF SearchFails
<1>2. faults + 1 \in 0 .. MaxFaults
  BY <1>1, TypeFacts, SizeFacts DEF IInv
<1> QED BY <1>1, <1>2, StoreL

\* There is no memory for the item to write, or for the next one to delete.
LEMMA FailsL ==
  ASSUME IInv, LInv, NEW t \in Tasks, SetFails(t) \/ PrefixFails(t) PROVE LInv'
<1>1. CASE SetFails(t)
  BY <1>1, LeaveL DEF SetFails, store, gcvars
<1>2. CASE PrefixFails(t)
  BY <1>2, LeaveL DEF PrefixFails, store, gcvars
<1> QED BY <1>1, <1>2

\* kv_item_delete() has found the one item of its key.
LEMMA DeleteL == ASSUME IInv, LInv, NEW t \in Tasks, NEW k \in Keys, Delete(t, k) PROVE LInv'
<1>1. PICK p : p = Find(k)
  OBVIOUS
<1> DEFINE o == [kind |-> "delete", keys |-> {}, key |-> k, val |-> None, old |-> p]
<1>2. /\ boot = Up /\ pc[t] = "idle" /\ lock = None /\ p # None
      /\ op' = [op EXCEPT ![t] = o] /\ pc' = [pc EXCEPT ![t] = "delete"]
      /\ UNCHANGED <<flash, wblk, gc, boot, may, exposed>>
  BY <1>1 DEF Delete, IsUp, Goto, store, gcvars, ghosts
<1>3. boot.ph = "up" /\ TypeOK /\ OpInv /\ gc.pc \notin Collecting
      /\ \A u \in Tasks : pc[u] \notin Holding
  BY <1>2, UpFacts DEF Up, IInv
<1>4. p \in Positions /\ Live(p, k)
  BY <1>1, <1>2, <1>3, FindLive
<1>5. /\ o.kind = "delete" /\ o.val = None /\ o.key = k /\ o.old = p
  OBVIOUS
<1> HIDE DEF o
<1>6. op'[t] = o /\ pc'[t] = "delete" /\ \A u \in Tasks \ {t} : op'[u] = op[u]
  BY <1>2, <1>3, TypeFacts DEF OpInv
<1>7. OwnOf(t)'
  BY <1>2, <1>4, <1>5, <1>6, FoundTask
<1>8. ASSUME NEW j \in Keys \ exposed', op'[t].key = j PROVE TaskOf(t, j)'
  <2>1. j = k /\ Pairs(k)
    BY <1>2, <1>5, <1>6, <1>8 DEF LInv, KeyInv
  <2>2. Single(k)
    BY <1>3, <2>1, OneLive DEF Holding
  <2>3. \A q \in Positions : Live(q, k)' => q = p
    BY <1>2, <1>4, <2>2, SameItems DEF Single
  <2> QED BY <1>5, <1>6, <2>1, <2>3 DEF TaskOf
<1> QED BY <1>2, <1>6, <1>7, <1>8, QuietStep

\* kv_item_delete_by_prefix() has found the one item of a key, or is done.
LEMMA PrefixNextL == ASSUME IInv, LInv, NEW t \in Tasks, PrefixNext(t) PROVE LInv'
<1> DEFINE S == {q \in Positions : \E k \in op[t].keys : Live(q, k)}
<1>1. PICK p : p = FirstOf(S)
  OBVIOUS
<1>2. /\ pc[t] = "prefix"
      /\ UNCHANGED <<flash, info, wblk, gc, boot, may, exposed>>
      /\ IF p = None THEN Return(t) /\ lock' = None
         ELSE /\ op' = [op EXCEPT ![t].old = p, ![t].key = ItemAt(p).key]
              /\ Goto(t, "delete") /\ UNCHANGED lock
  BY <1>1 DEF PrefixNext, store, gcvars, ghosts
<1>3. /\ TypeOK /\ OpInv /\ OwnInv /\ boot.ph = "up" /\ gc.pc \notin Collecting /\ pc[t] \in Holding
      /\ \A u \in Tasks : pc[u] \in Holding => u = t
  BY <1>2, UpFacts DEF IInv, LInv, Holding
<1>4. op[t] \in Ops /\ op[t].keys \subseteq Keys /\ op \in [Tasks -> Ops]
  BY <1>3 DEF OpInv, Ops
<1>5. /\ S \subseteq Positions /\ \A q \in S : \E k \in Keys : Live(q, k)
      /\ \A q \in S : Live(q, ItemAt(q).key)
  BY <1>4 DEF Live
<1> HIDE DEF S
<1>6. CASE p = None
  BY <1>2, <1>6, LeaveL
<1>7. CASE p # None
  <2>1. p \in S /\ p \in Positions /\ ItemAt(p).key \in Keys
    BY <1>1, <1>3, <1>5, <1>7, FindFacts
  <2>2. PICK j \in Keys : j = ItemAt(p).key /\ Live(p, j)
    BY <1>5, <2>1
  <2>3. op' = [op EXCEPT ![t].old = p, ![t].key = j] /\ pc' = [pc EXCEPT ![t] = "delete"]
    BY <1>2, <1>7, <2>2 DEF Goto
  <2>4. /\ op'[t].old = p /\ op'[t].key = j /\ op'[t].kind = op[t].kind
        /\ op'[t].val = op[t].val /\ \A u \in Tasks \ {t} : op'[u] = op[u]
    BY <1>4, <2>3 DEF Ops
  <2>5. pc'[t] = "delete" /\ pc' = [pc EXCEPT ![t] = "delete"]
    BY <1>3, <2>3, TypeFacts
  <2>6. op[t].kind = "prefix" /\ op[t].val = None
    BY <1>2, <1>3 DEF OwnInv, OwnOf
  <2>7. OwnOf(t)'
    BY <1>2, <1>7, <2>2, <2>4, <2>5, <2>6, FoundTask
  <2>8. ASSUME NEW k \in Keys \ exposed', op'[t].key = k PROVE TaskOf(t, k)'
    <3>1. k = j /\ Pairs(k)
      BY <1>2, <2>4, <2>8 DEF LInv, KeyInv
    <3>2. Single(k)
      BY <1>2, <1>3, <3>1, OneLive DEF Holding
    <3>3. \A q \in Positions : Live(q, k)' => q = p
      BY <1>2, <2>1, <2>2, <3>1, <3>2, SameItems DEF Single
    <3> QED BY <2>4, <2>5, <2>6, <3>3 DEF TaskOf
  <2>9. pc[t] # "delete" /\ exposed \subseteq exposed' /\ UNCHANGED <<flash, wblk, gc, boot, may>>
    BY <1>2
  <2> QED BY <2>4, <2>5, <2>7, <2>8, <2>9, QuietStep
<1> QED BY <1>6, <1>7

\* A new item is live for its key, all others are what they were.
LEMMA AppendLive ==
  ASSUME TypeOK, NEW b \in Blocks, NEW it \in Items, it.st = "normal",
         Len(flash[b].items) < SIZE, flash' = Appended(b, it),
         NEW x, x = <<b, Len(flash[b].items) + 1>>
  PROVE  /\ x \in Positions /\ ~Written(x) /\ ItemAt(x)' = it
         /\ \A p \in Positions : /\ Written(p) => ItemAt(p)' = ItemAt(p) /\ p # x
                                 /\ \A k : Live(p, k)' <=> Live(p, k) \/ (p = x /\ k = it.key)
         /\ \A c \in Blocks : flash'[c].state = flash[c].state
<1>1. PICK n \in Nat : n = Len(flash[b].items)
  BY TypeFacts
<1>10. x = <<b, n + 1>>
  BY <1>1
<1>2. /\ \A c \in Blocks : c # b => flash'[c] = flash[c]
      /\ flash'[b].state = flash[b].state /\ Len(flash'[b].items) = n + 1
      /\ \A i \in 1 .. n : flash'[b].items[i] = flash[b].items[i]
      /\ flash'[b].items[n + 1] = it
  <2>1. flash \in Flash /\ \A c \in Blocks : c # b => c = Other(b)
    BY TypeFacts, BlockFacts
  <2>2. LET f == Appended(b, it)
            s == flash[b].items IN
         /\ f[b].state = flash[b].state /\ Len(f[b].items) = Len(s) + 1
         /\ \A i \in 1 .. Len(s) : f[b].items[i] = s[i]
         /\ f[b].items[Len(s) + 1] = it
         /\ f[Other(b)] = flash[Other(b)]
    BY <2>1, AppendFacts
  <2> QED BY <1>1, <2>1, <2>2
<1>3. n + 1 \in 1 .. SIZE
  BY <1>1, SizeFacts
<1>4. x \in Positions /\ x[1] = b /\ x[2] = n + 1
  BY <1>3, <1>10, PositionFacts
<1>5. ~Written(x) /\ ItemAt(x)' = it /\ Written(x)'
  <2>1. ~(n + 1 <= n) /\ n + 1 <= n + 1
    OBVIOUS
  <2> QED BY <1>1, <1>2, <1>4, <2>1 DEF Written, ItemAt
<1>6. ASSUME NEW p \in Positions, Written(p)
      PROVE  ItemAt(p)' = ItemAt(p) /\ Written(p)' /\ p # x
  <2>1. CASE p[1] # b
    BY <1>2, <1>4, <1>6, <2>1, PositionFacts DEF Written, ItemAt
  <2>2. CASE p[1] = b
    <3>1. p[2] \in 1 .. n /\ p[2] # n + 1 /\ p[2] <= n + 1
      BY <1>1, <1>6, <2>2, PositionFacts, SizeFacts DEF Written
    <3> QED BY <1>2, <1>4, <2>2, <3>1 DEF Written, ItemAt
  <2> QED BY <2>1, <2>2
<1>7. ASSUME NEW p \in Positions, Written(p)', p # x PROVE Written(p)
  <2>1. CASE p[1] # b
    BY <1>2, <1>7, <2>1, PositionFacts DEF Written
  <2>2. CASE p[1] = b
    <3>1. p[2] # n + 1 /\ p[2] \in Nat
      <4>1. p = <<p[1], p[2]>> /\ p[2] \in 1 .. SIZE
        BY PositionFacts
      <4>2. p[2] # n + 1
        BY <1>7, <1>10, <2>2, <4>1
      <4> QED BY <4>1, <4>2, SizeFacts
    <3>2. p[2] <= n + 1
      BY <1>2, <1>7, <2>2 DEF Written
    <3> QED BY <1>1, <2>2, <3>1, <3>2 DEF Written
  <2> QED BY <2>1, <2>2
<1>8. ASSUME NEW p \in Positions, NEW k
      PROVE  Live(p, k)' <=> Live(p, k) \/ (p = x /\ k = it.key)
  <2>1. CASE p = x
    BY <1>5, <2>1 DEF Live
  <2>2. CASE p # x
    BY <1>6, <1>7, <2>2 DEF Live
  <2> QED BY <2>1, <2>2
<1>9. \A c \in Blocks : flash'[c].state = flash[c].state
  BY <1>2
<1>11. /\ x \in Positions /\ ~Written(x) /\ ItemAt(x)' = it
       /\ \A p \in Positions : /\ Written(p) => ItemAt(p)' = ItemAt(p) /\ p # x
                               /\ \A k : Live(p, k)' <=> Live(p, k) \/ (p = x /\ k = it.key)
  BY <1>4, <1>5, <1>6, <1>8
<1> QED BY <1>9, <1>11

\* A deleted item is live no more, all others are what they were.
LEMMA DeleteLive ==
  ASSUME flash \in Flash, NEW p \in Positions, Written(p), NEW f, f = DeletedAt(p),
         \A b \in Blocks : flash'[b].items = f[b].items
  PROVE  \A q \in Positions : /\ q # p /\ Written(q) => ItemAt(q)' = ItemAt(q)
                              /\ \A k : Live(q, k)' <=> Live(q, k) /\ q # p
<1>1. \A c \in Blocks : /\ Len(flash'[c].items) = Len(flash[c].items)
                        /\ Len(flash[c].items) \in Nat
                        /\ \A i \in 1 .. Len(flash[c].items) :
                             flash'[c].items[i] = IF c = p[1] /\ i = p[2] THEN Waste("deleted")
                                                  ELSE flash[c].items[i]
  BY DeleteFacts DEF Flash
<1> SUFFICES ASSUME NEW q \in Positions
             PROVE  /\ q # p /\ Written(q) => ItemAt(q)' = ItemAt(q)
                    /\ \A k : Live(q, k)' <=> Live(q, k) /\ q # p
  OBVIOUS
<1>2. Written(q)' <=> Written(q)
  BY <1>1, PositionFacts DEF Written
<1>3. Written(q) => q[1] \in Blocks /\ q[2] \in 1 .. Len(flash[q[1]].items)
  BY <1>1, PositionFacts, SizeFacts DEF Written
<1>4. q # p => q[1] # p[1] \/ q[2] # p[2]
  BY PositionFacts
<1>5. q # p /\ Written(q) => ItemAt(q)' = ItemAt(q)
  BY <1>1, <1>3, <1>4 DEF ItemAt
<1>6. q = p => ItemAt(q)'.st = "deleted"
  BY <1>1, <1>3 DEF ItemAt, Waste
<1> QED BY <1>2, <1>5, <1>6 DEF Live

\* A step writes no item and deletes none.
SameLive ==
    \A p \in Positions : \A k : /\ Live(p, k)' <=> Live(p, k)
                                /\ Live(p, k) => ItemAt(p)' = ItemAt(p)

\* Only one block is written, and its items stay.
LEMMA SameBlock ==
  ASSUME flash \in Flash, NEW b \in Blocks, NEW s \in States,
         \/ flash' = flash
         \/ flash' = [flash EXCEPT ![b].state = s]
         \/ flash' = [flash EXCEPT ![b] = [state |-> s, items |-> <<>>]] /\ flash[b].items = <<>>
  PROVE  SameLive
<1>1. CASE flash' = flash
  BY <1>1 DEF SameLive, Live, Written, ItemAt
<1>2. CASE flash' = [flash EXCEPT ![b].state = s]
  <2>1. flash' = WithState(flash, b, s)
    BY <1>2 DEF WithState
  <2>2. flash'[b].items = flash[b].items /\ flash'[Other(b)] = flash[Other(b)]
    BY <2>1, StateFacts
  <2>3. \A c \in Blocks : flash'[c].items = flash[c].items
    BY <2>2, BlockFacts
  <2> QED BY <2>3, SameItems DEF SameLive
<1>3. CASE flash' = [flash EXCEPT ![b] = [state |-> s, items |-> <<>>]] /\ flash[b].items = <<>>
  <2>1. \A c \in Blocks : flash'[c].items = flash[c].items
    BY <1>3, FormatFacts, BlockFacts
  <2> QED BY <2>1, SameItems DEF SameLive
<1> QED BY <1>1, <1>2, <1>3

\* What a power failure leaves of an item is not an item.
LEMMA PowerLive == ASSUME IInv, PowerFails PROVE SameLive
<1>1. PICK w \in Blocks, o \in Blocks :
         w = wblk /\ o = Other(w) /\ w = Other(o) /\ w # o /\ \A c \in Blocks : c = w \/ c = o
  BY TypeFacts, BlockFacts DEF IInv
<1>2. PICK n \in Nat : n = Len(flash[w].items)
  BY SMTT(40), TypeFacts DEF IInv
<1>3. /\ flash'[o] = flash[o]
      /\ \A i \in 1 .. n : flash'[w].items[i] = flash[w].items[i]
      /\ \/ flash'[w].items = flash[w].items
         \/ /\ Len(flash'[w].items) = n + 1
            /\ flash'[w].items[n + 1].st \in {"header", "body"}
  BY ZenonT(60), <1>1, <1>2, PowerFacts
<1> SUFFICES ASSUME NEW p \in Positions, NEW k
             PROVE  (Live(p, k)' <=> Live(p, k)) /\ (Live(p, k) => ItemAt(p)' = ItemAt(p))
  BY DEF SameLive
<1>4. CASE p[1] = o
  BY <1>3, <1>4 DEF Live, Written, ItemAt
<1>5. CASE p[1] = w /\ flash'[w].items = flash[w].items
  BY <1>5 DEF Live, Written, ItemAt
<1>6. CASE p[1] = w /\ flash'[w].items # flash[w].items
  <2>1. /\ Len(flash'[w].items) = n + 1 /\ flash'[w].items[n + 1].st # "normal"
        /\ p[2] \in Nat /\ p[2] >= 1
    BY <1>3, <1>6, PositionFacts, SizeFacts
  <2>2. CASE p[2] <= n
    <3>1. ItemAt(p)' = ItemAt(p)
      BY <1>3, <1>6, <2>1, <2>2 DEF ItemAt
    <3>2. Written(p) /\ Written(p)'
      BY <1>2, <1>6, <2>1, <2>2 DEF Written
    <3> QED BY <3>1, <3>2 DEF Live
  <2>3. CASE p[2] = n + 1
    <3>1. ItemAt(p)'.st # "normal"
      BY <1>6, <2>1, <2>3 DEF ItemAt
    <3>2. ~Written(p)
      BY <1>2, <1>6, <2>3 DEF Written
    <3> QED BY <3>1, <3>2 DEF Live
  <2>4. CASE p[2] > n + 1
    <3>1. ~Written(p) /\ ~Written(p)'
      BY <1>2, <1>6, <2>1, <2>4 DEF Written
    <3> QED BY <3>1 DEF Live
  <2> QED BY <2>1, <2>2, <2>3, <2>4
<1> QED BY Zenon, <1>1, <1>4, <1>5, <1>6, PositionFacts

\* A step deletes the item at q, or erases all items outside block o.
Removes(q) ==
    \A p \in Positions : \A k : /\ Live(p, k)' <=> Live(p, k) /\ p # q
                                /\ Live(p, k) /\ p # q => ItemAt(p)' = ItemAt(p)
Erases(o) ==
    \A p \in Positions : \A k : /\ Live(p, k)' <=> Live(p, k) /\ p[1] = o
                                /\ Live(p, k) /\ p[1] = o => ItemAt(p)' = ItemAt(p)

\* Formatting a block, or erasing it.
LEMMA FormatErases ==
  ASSUME flash \in Flash, NEW b \in Blocks, NEW s \in States,
         flash' = [flash EXCEPT ![b] = [state |-> s, items |-> <<>>]]
  PROVE  Erases(Other(b))
<1>1. flash'[b].items = <<>> /\ flash'[Other(b)] = flash[Other(b)]
  BY FormatFacts
<1>2. \A c \in Blocks : c = b \/ c = Other(b)
  BY BlockFacts
<1> SUFFICES ASSUME NEW p \in Positions, NEW k
             PROVE  /\ Live(p, k)' <=> Live(p, k) /\ p[1] = Other(b)
                    /\ Live(p, k) /\ p[1] = Other(b) => ItemAt(p)' = ItemAt(p)
  BY DEF Erases
<1>3. CASE p[1] = Other(b)
  BY <1>1, <1>3 DEF Live, Written, ItemAt
<1>4. CASE p[1] = b
  <2>1. Len(<<>>) = 0 /\ ~(p[2] <= 0) /\ b # Other(b)
    BY PositionFacts, SizeFacts, BlockFacts
  <2> QED BY <1>1, <1>4, <2>1 DEF Live, Written
<1> QED BY <1>2, <1>3, <1>4, PositionFacts

\* The store before the first boot.
LEMMA InitL == Init => LInv
<1> SUFFICES ASSUME Init PROVE LInv
  OBVIOUS
<1>1. /\ \A b \in Blocks : flash[b].state = "blank" /\ flash[b].items = <<>>
      /\ \A t \in Tasks : pc[t] = "idle" /\ op[t].val = None
      /\ \A k \in Keys : may[k] = {None}
  BY DEF Init, NoOp
<1>2. \A p \in Positions : \A k : ~Live(p, k)
  <2>1. Len(<<>>) = 0
    OBVIOUS
  <2> QED BY <1>1, <2>1, PositionFacts, SizeFacts DEF Live, Written
<1>3. OwnInv /\ CopyInv
  BY <1>1 DEF OwnInv, OwnOf, CopyInv
<1>4. \A k \in Keys : KeyInv(k)
  BY <1>1, <1>2 DEF KeyInv, Pairs, Originals, Copies, Values, TaskOf
<1> QED BY <1>3, <1>4 DEF LInv

\* What is left to show for a step of the task that holds the lock.
LEMMA HolderL ==
  ASSUME IInv, IInv', LInv, NEW t \in Tasks, pc[t] \in Holding, UNCHANGED <<boot, gc>>,
         \A u \in Tasks \ {t} : pc'[u] = pc[u] /\ op'[u] = op[u], OwnOf(t)',
         \A k \in Keys \ exposed' : /\ Pairs(k)' /\ Values(k)'
                                    /\ op'[t].key = k => TaskOf(t, k)'
  PROVE  LInv'
<1>1. boot.ph = "up" /\ gc.pc \notin Collecting /\ OwnInv
  BY WriteFacts DEF LInv
<1>2. ASSUME NEW u \in Tasks \ {t} PROVE OwnOf(u)' /\ \A k : TaskOf(u, k)'
  <2>1. pc[u] \notin Holding /\ pc'[u] = pc[u] /\ op'[u] = op[u]
    BY UpFacts
  <2>2. pc'[u] \notin {"append", "delete", "mark", "prefix"}
    BY <2>1 DEF Holding
  <2>3. op'[u].kind # "set" => op'[u].val = None
    BY <1>1, <2>1 DEF OwnInv, OwnOf
  <2> QED BY <2>2, <2>3, IdleTask
<1>3. CopyInv' /\ \A k : Originals(k)' /\ Copies(k)'
  BY <1>1, SettledKey
<1>4. OwnInv'
  BY <1>2 DEF OwnInv
<1>5. \A k \in Keys \ exposed' : KeyInv(k)'
  BY <1>2, <1>3 DEF KeyInv
<1> QED BY <1>3, <1>4, <1>5 DEF LInv

\* An item is written: the first of its key, or an update of the one there is.
LEMMA AppendItemL == ASSUME IInv, IInv', LInv, NEW t \in Tasks, AppendItem(t) PROVE LInv'
<1>1. /\ pc[t] = "append" /\ flash' = Appended(wblk, NewItem(t))
      /\ UNCHANGED <<boot, gc, exposed>>
      /\ IF op[t].old = None
         THEN /\ may' = [may EXCEPT ![op[t].key] = {op[t].val}] /\ Return(t)
         ELSE /\ may' = [may EXCEPT ![op[t].key] = @ \cup {op[t].val}]
              /\ pc' = [pc EXCEPT ![t] = "delete"] /\ op' = op
  BY DEF AppendItem, Goto, gcvars
<1>2. /\ TypeOK /\ OwnInv /\ OldInv /\ wblk \in Blocks /\ Len(flash[wblk].items) < SIZE
      /\ \A k \in Keys \ exposed : KeyInv(k)
      /\ pc[t] \in Holding /\ boot.ph = "up" /\ gc.pc \notin Collecting
      /\ \A u \in Tasks : pc[u] # "delete"
  BY <1>1, WriteFacts, UpFacts DEF IInv, LInv, Holding
<1>3. PICK k0 \in Keys, v0 \in Vals, old \in Positions \cup {None} :
         op[t].key = k0 /\ op[t].val = v0 /\ op[t].old = old /\ op[t].kind = "set"
  <2>1. op[t] \in Ops
    BY DEF IInv, OpInv
  <2> QED BY <1>1, <2>1 DEF IInv, OpInv, Setting, Ops
<1>4. PICK it : it = NewItem(t)
  OBVIOUS
<1>5. it \in Items /\ it.st = "normal" /\ it.key = k0 /\ it.val = v0 /\ it.origin = old
  BY <1>3, <1>4 DEF NewItem, Items
<1>6. PICK x : x = <<wblk, Len(flash[wblk].items) + 1>>
  OBVIOUS
<1>7. /\ x \in Positions /\ ~Written(x) /\ ItemAt(x)' = it
      /\ \A p \in Positions : /\ Written(p) => ItemAt(p)' = ItemAt(p) /\ p # x
                              /\ \A k : Live(p, k)' <=> Live(p, k) \/ (p = x /\ k = k0)
  BY <1>1, <1>2, <1>4, <1>5, <1>6, AppendLive
<1>8. ASSUME NEW k \in Keys \ exposed PROVE Single(k) /\ Values(k)
  BY <1>2, <1>8, OneLive DEF KeyInv
<1>9. \A p \in Positions : \A k : Live(p, k) => ItemAt(p)' = ItemAt(p) /\ p # x
  BY <1>7 DEF Live
<1>10. ASSUME NEW k \in Keys \ exposed, k # k0 PROVE Pairs(k)' /\ Values(k)'
  <2>1. may'[k] = may[k]
    BY <1>1, <1>2, <1>3, <1>10, TypeFacts
  <2>2. \A p \in Positions : Live(p, k)' <=> Live(p, k)
    BY <1>7, <1>10
  <2>3. Single(k)' /\ Values(k)'
    BY <1>8, <1>9, <2>1, <2>2 DEF Single, Values
  <2> QED BY <2>3, SinglePairs
<1>11. \A u \in Tasks \ {t} : pc'[u] = pc[u] /\ op'[u] = op[u]
  <2>1. CASE op[t].old = None
    BY <1>1, <1>2, <2>1, ReturnFacts, TypeFacts
  <2>2. CASE op[t].old # None
    BY <1>1, <1>2, <2>2, TypeFacts
  <2> QED BY <2>1, <2>2
<1>12. CASE old = None
  <2>1. may' = [may EXCEPT ![k0] = {v0}] /\ Return(t)
    BY <1>1, <1>3, <1>12
  <2>2. pc'[t] = "idle" /\ op'[t].val = None /\ may'[k0] = {v0}
    BY <1>2, <2>1, ReturnFacts, TypeFacts DEF NoOp
  <2>3. OwnOf(t)' /\ \A k : TaskOf(t, k)'
    BY <2>2, IdleTask
  <2>4. ASSUME k0 \notin exposed PROVE Pairs(k0)' /\ Values(k0)'
    <3>1. TaskOf(t, k0)
      BY <1>2, <1>3, <2>4 DEF KeyInv
    <3>2. \A p \in Positions : Live(p, k0)' <=> p = x
      BY <1>1, <1>3, <1>7, <1>12, <3>1 DEF TaskOf
    <3>3. Single(k0)' /\ Values(k0)'
      BY <1>5, <1>7, <2>2, <3>2 DEF Single, Values
    <3> QED BY <3>3, SinglePairs
  <2> QED BY <1>1, <1>2, <1>10, <1>11, <2>3, <2>4, HolderL
<1>13. CASE old # None
  <2>1. /\ may' = [may EXCEPT ![k0] = @ \cup {v0}]
        /\ pc' = [pc EXCEPT ![t] = "delete"] /\ op' = op
    BY <1>1, <1>3, <1>13
  <2>2. pc'[t] = "delete" /\ may'[k0] = may[k0] \cup {v0}
    BY <1>2, <2>1, TypeFacts
  <2>3. old \in Positions /\ old[1] = wblk /\ Written(old) /\ Live(old, k0)
    BY <1>1, <1>2, <1>3, <1>13 DEF OwnInv, OwnOf, OldInv
  <2>4. old # x /\ x[1] = wblk /\ old[2] < x[2]
    <3>1. Len(flash[wblk].items) \in Nat
      BY <1>2, TypeFacts
    <3>2. x[1] = wblk /\ x[2] = Len(flash[wblk].items) + 1
      BY <1>6
    <3>3. old[2] \in 1 .. SIZE /\ old[2] <= Len(flash[wblk].items)
      BY <2>3, PositionFacts DEF Written
    <3> QED BY <1>7, <2>3, <3>1, <3>2, <3>3, SizeFacts
  <2>5. OwnOf(t)'
    <3>1. Live(op[t].old, op[t].key)' <=> Live(old, k0)'
      BY <1>3, <2>1 DEF Live, Written, ItemAt
    <3> QED BY <1>3, <1>7, <2>1, <2>2, <2>3, <3>1 DEF OwnOf
  <2>6. ASSUME k0 \notin exposed PROVE Pairs(k0)' /\ Values(k0)' /\ TaskOf(t, k0)'
    <3>1. \A p \in Positions : Live(p, k0)' <=> p = old \/ p = x
      BY <1>7, <1>8, <2>3, <2>6 DEF Single
    <3>2. Values(k0)'
      <4>1. ItemAt(old)'.val \in may'[k0]
        BY <1>8, <1>9, <2>2, <2>3, <2>6 DEF Values
      <4>2. ItemAt(x)'.val \in may'[k0]
        BY <1>5, <1>7, <2>2
      <4> QED BY <1>7, <3>1, <4>1, <4>2 DEF Values
    <3>3. Update(k0, old, x)'
      <4>1. ItemAt(x)'.origin = old /\ ItemAt(x)'.val = v0
        BY <1>5, <1>7
      <4>2. \A r \in Positions : Live(r, k0)' => r[1] = old[1]
        BY <2>3, <2>4, <3>1
      <4>3. pc'[t] = "delete" /\ op'[t].kind = "set" /\ op'[t].key = k0 /\ op'[t].old = old
            /\ op'[t].val = v0
        BY <1>3, <2>1, <2>2
      <4> QED BY <4>1, <4>2, <4>3 DEF Update
    <3>4. ASSUME NEW p \in Positions, NEW q \in Positions, Live(p, k0)', Live(q, k0)'
          PROVE  /\ p[1] = q[1] /\ p[2] < q[2] => p = old /\ q = x
                 /\ p[1] = q[1]
      <4>1. (p = old \/ p = x) /\ (q = old \/ q = x)
        BY <3>1, <3>4
      <4>2. p[2] \in 1 .. SIZE /\ q[2] \in 1 .. SIZE
        BY PositionFacts
      <4> QED BY <2>3, <2>4, <4>1, <4>2, SizeFacts
    <3>5. Pairs(k0)'
      BY <3>3, <3>4 DEF Pairs
    <3>6. TaskOf(t, k0)'
      <4>1. x # old /\ Live(x, k0)' /\ ItemAt(x)'.val = v0
        BY <1>5, <1>7, <2>4, <3>1
      <4> QED BY <1>3, <1>7, <2>1, <2>2, <4>1 DEF TaskOf
    <3> QED BY <3>2, <3>5, <3>6
  <2> QED BY <1>1, <1>2, <1>3, <1>10, <1>11, <2>1, <2>5, <2>6, HolderL
<1> QED BY <1>12, <1>13

\* An item is deleted: the last of its key, or the one that was updated.
LEMMA DeleteItemL == ASSUME IInv, IInv', LInv, NEW t \in Tasks, DeleteItem(t) PROVE LInv'
<1>1. /\ pc[t] = "delete" /\ flash' = DeletedAt(op[t].old)
      /\ pc' = [pc EXCEPT ![t] = "mark"] /\ UNCHANGED <<boot, gc, exposed, op>>
      /\ may' = [may EXCEPT ![op[t].key] = @ \cup {op[t].val}]
  BY DEF DeleteItem, Goto, gcvars
<1>2. /\ TypeOK /\ OwnInv /\ OldInv /\ boot.ph = "up" /\ gc.pc \notin Collecting
      /\ \A k \in Keys \ exposed : KeyInv(k)
      /\ pc[t] \in Holding /\ \A u \in Tasks : pc[u] = "delete" => u = t
  BY <1>1, WriteFacts, UpFacts DEF IInv, LInv, Holding
<1>3. PICK k0 \in Keys, old \in Positions, v0 \in Vals \cup {None} :
         op[t].key = k0 /\ op[t].val = v0 /\ op[t].old = old
  <2>0. op[t].val \in Vals \cup {None}
    BY DEF IInv, OpInv, Ops
  <2>1. op[t].key \in Keys
    BY <1>1 DEF IInv, OpInv
  <2>2. op[t].old \in Positions
    BY <1>1, <1>2 DEF OldInv
  <2> QED BY <2>0, <2>1, <2>2
<1>4. Live(old, k0) /\ Written(old) /\ (op[t].kind # "set" => v0 = None)
  BY <1>1, <1>2, <1>3 DEF OwnInv, OwnOf, Live
<1>5. \A q \in Positions : /\ q # old /\ Written(q) => ItemAt(q)' = ItemAt(q)
                           /\ \A k : Live(q, k)' <=> Live(q, k) /\ q # old
  <2>1. \A b \in Blocks : flash'[b].items = DeletedAt(old)[b].items
    BY <1>1, <1>3
  <2> QED BY <1>2, <1>4, <2>1, DeleteLive, TypeFacts
<1>6. \A q \in Positions : \A k : Live(q, k)' => ItemAt(q)' = ItemAt(q)
  BY <1>5 DEF Live
<1>7. pc'[t] = "mark" /\ may'[k0] = may[k0] \cup {v0}
      /\ (\A k \in Keys : k # k0 => may'[k] = may[k])
      /\ \A u \in Tasks \ {t} : pc'[u] = pc[u] /\ op'[u] = op[u]
  BY <1>1, <1>2, <1>3, TypeFacts
<1>8. OwnOf(t)'
  BY <1>1, <1>2, <1>7 DEF OwnInv, OwnOf
<1>9. ASSUME NEW k \in Keys \ exposed, k # k0 PROVE Pairs(k)' /\ Values(k)'
  <2>1. Single(k) /\ Values(k)
    BY <1>2, <1>3, <1>9, OneLive DEF KeyInv
  <2>2. \A q \in Positions : Live(q, k)' <=> Live(q, k)
    BY <1>4, <1>5, <1>9 DEF Live
  <2>3. Single(k)' /\ Values(k)'
    BY <1>6, <1>7, <1>9, <2>1, <2>2 DEF Single, Values
  <2> QED BY <2>3, SinglePairs
<1>10. ASSUME k0 \notin exposed PROVE Pairs(k0)' /\ Values(k0)' /\ TaskOf(t, k0)'
  <2>1. Pairs(k0) /\ Values(k0) /\ TaskOf(t, k0)
    BY <1>2, <1>3, <1>10 DEF KeyInv
  <2>2. ASSUME NEW p \in Positions, NEW q \in Positions, Live(p, k0), Live(q, k0), p # q
        PROVE  (p = old /\ ItemAt(q).val = v0) \/ (q = old /\ ItemAt(p).val = v0)
    <3>1. \A r, s : ~Copy(k0, r, s)
      BY <1>2 DEF Copy, Collecting
    <3>2. \A r, s : Update(k0, r, s) => r = old /\ ItemAt(s).val = v0
      BY <1>2, <1>3 DEF Update
    <3>3. p[1] = q[1]
      BY <2>1, <2>2, <3>1 DEF Pairs
    <3>4. CASE p[2] < q[2]
      <4>1. Update(k0, p, q)
        BY <2>1, <2>2, <3>3, <3>4 DEF Pairs
      <4> QED BY <3>2, <4>1
    <3>5. CASE q[2] < p[2]
      <4>1. Update(k0, q, p)
        BY <2>1, <2>2, <3>3, <3>5 DEF Pairs
      <4> QED BY <3>2, <4>1
    <3> QED BY <2>2, <3>3, <3>4, <3>5, Order
  <2>3. ASSUME NEW q \in Positions, Live(q, k0)'
        PROVE  Live(q, k0) /\ q # old /\ ItemAt(q)'.val = v0
    <3>1. Live(q, k0) /\ q # old /\ ItemAt(q)' = ItemAt(q)
      BY <1>5, <1>6, <2>3
    <3>2. ItemAt(q).val = v0
      BY <1>4, <2>2, <3>1
    <3> QED BY <3>1, <3>2
  <2>4. Single(k0)'
    BY <2>2, <2>3 DEF Single
  <2>5. (\A q \in Positions : ~Live(q, k0)') => v0 = None
    <3>1. CASE op[t].kind = "set"
      <4>1. PICK q \in Positions : q # old /\ Live(q, k0)
        BY <1>1, <1>3, <2>1, <3>1 DEF TaskOf
      <4> QED BY <1>5, <4>1
    <3> QED BY <1>4, <3>1
  <2>6. Values(k0)'
    BY <1>7, <2>3, <2>5 DEF Values
  <2>7. TaskOf(t, k0)'
    BY <1>1, <1>3, <1>7, <2>3, <2>5 DEF TaskOf
  <2> QED BY <2>4, <2>6, <2>7, SinglePairs
<1> QED BY <1>1, <1>2, <1>3, <1>7, <1>8, <1>9, <1>10, HolderL

\* An operation ends: its value is now the only one that may be read.
LEMMA MarkDirtyL == ASSUME IInv, IInv', LInv, NEW t \in Tasks, MarkDirty(t) PROVE LInv'
<1>1. PICK b : b = op[t].old[1]
  OBVIOUS
<1>2. /\ pc[t] = "mark" /\ flash' = MarkFlash(flash, b) /\ UNCHANGED <<boot, gc, exposed>>
      /\ may' = [may EXCEPT ![op[t].key] = {op[t].val}]
      /\ IF op[t].kind = "prefix" THEN pc' = [pc EXCEPT ![t] = "prefix"] /\ op' = op
                                  ELSE Return(t)
  BY <1>1 DEF MarkDirty, Goto, gcvars
<1>3. /\ TypeOK /\ OwnInv /\ boot.ph = "up" /\ gc.pc \notin Collecting /\ b \in Blocks
      /\ \A k \in Keys \ exposed : KeyInv(k)
      /\ pc[t] \in Holding /\ \A u \in Tasks : pc[u] # "delete"
  BY <1>1, <1>2, WriteFacts, UpFacts DEF IInv, LInv, Holding, OldInv
<1>4. PICK k0 \in Keys, v0 \in Vals \cup {None} : op[t].key = k0 /\ op[t].val = v0
  BY <1>2 DEF IInv, OpInv, Ops
<1>5. \A q \in Positions : /\ ItemAt(q)' = ItemAt(q)
                           /\ \A k : Live(q, k)' <=> Live(q, k)
  <2>1. \A c \in Blocks : flash'[c].items = flash[c].items
    <3>1. b \in Blocks /\ flash \in Flash /\ info \in Infos /\ flash' = MarkFlash(flash, b)
      BY <1>2, <1>3, TypeFacts
    <3>2. \A c \in Blocks : MarkFlash(flash, b)[c].items = flash[c].items
      BY <3>1, MarkFacts
    <3> QED BY <3>1, <3>2
  <2> QED BY <2>1, SameItems
<1>6. /\ may'[k0] = {v0} /\ \A k \in Keys : k # k0 => may'[k] = may[k]
      /\ \A u \in Tasks \ {t} : pc'[u] = pc[u] /\ op'[u] = op[u]
  <2>1. may'[k0] = {v0} /\ \A k \in Keys : k # k0 => may'[k] = may[k]
    BY <1>2, <1>3, <1>4, TypeFacts
  <2>2. \A u \in Tasks \ {t} : pc'[u] = pc[u] /\ op'[u] = op[u]
    <3>1. CASE op[t].kind = "prefix"
      BY <1>2, <1>3, <3>1, TypeFacts
    <3>2. CASE op[t].kind # "prefix"
      BY <1>2, <1>3, <3>2, TypeFacts, ReturnFacts
    <3> QED BY <3>1, <3>2
  <2> QED BY <2>1, <2>2
<1>7. OwnOf(t)' /\ \A k : TaskOf(t, k)'
  <2>1. CASE op[t].kind = "prefix"
    <3>1. pc'[t] = "prefix" /\ op'[t] = op[t]
      BY <1>2, <1>3, <2>1, TypeFacts
    <3> QED BY <1>3, <2>1, <3>1, IdleTask DEF OwnInv, OwnOf
  <2>2. CASE op[t].kind # "prefix"
    <3>1. pc'[t] = "idle" /\ op'[t].val = None
      BY <1>2, <1>3, <2>2, TypeFacts, ReturnFacts DEF NoOp
    <3> QED BY <3>1, IdleTask
  <2> QED BY <2>1, <2>2
<1>8. ASSUME NEW k \in Keys \ exposed PROVE Pairs(k)' /\ Values(k)'
  <2>1. Single(k) /\ Values(k)
    BY <1>3, <1>8, OneLive DEF KeyInv
  <2>2. Single(k)'
    BY <1>5, <2>1 DEF Single
  <2>3. CASE k = k0
    <3>1. /\ \A q \in Positions : Live(q, k0) => ItemAt(q).val = v0
          /\ (\A q \in Positions : ~Live(q, k0)) => v0 = None
      BY <1>2, <1>3, <1>4, <1>8, <2>3 DEF KeyInv, TaskOf
    <3> QED BY <1>5, <1>6, <2>2, <2>3, <3>1, SinglePairs DEF Values
  <2>4. CASE k # k0
    BY <1>5, <1>6, <2>1, <2>2, <2>4, SinglePairs DEF Values
  <2> QED BY <2>3, <2>4
<1> QED BY <1>2, <1>3, <1>6, <1>7, <1>8, HolderL

\* What is left to show for a step of the collection.
LEMMA CollectL ==
  ASSUME LInv, \A t \in Tasks : pc[t] \notin Holding, UNCHANGED <<pc, op>>, CopyInv',
         \A k \in Keys \ exposed' : Pairs(k)' /\ Originals(k)' /\ Copies(k)' /\ Values(k)'
  PROVE  LInv'
<1>1. ASSUME NEW t \in Tasks PROVE OwnOf(t)' /\ \A k : TaskOf(t, k)'
  <2>1. pc'[t] \notin {"append", "delete", "mark", "prefix"} /\ op'[t] = op[t]
    BY DEF Holding
  <2>2. op'[t].kind # "set" => op'[t].val = None
    BY <2>1 DEF LInv, OwnInv, OwnOf
  <2> QED BY <2>1, <2>2, IdleTask
<1>2. OwnInv' /\ \A k \in Keys \ exposed' : KeyInv(k)'
  BY <1>1 DEF OwnInv, KeyInv
<1> QED BY <1>2 DEF LInv

\* Nobody deletes an item while a collection is under way.
LEMMA CollectKeys ==
  ASSUME IInv, LInv, gc.pc \in {"lock"} \cup Collecting, gc.pc = "lock" => lock = None,
         NEW k \in Keys \ exposed
  PROVE  /\ SinglePer(k) /\ Pairs(k) /\ Originals(k) /\ Copies(k) /\ Values(k)
         /\ \A p, q : ~Update(k, p, q)
         /\ gc.pc = "lock" => Single(k)
<1>1. boot.ph = "up" /\ \A t \in Tasks : pc[t] # "delete"
  BY GcFacts DEF Holding
<1>2. Pairs(k) /\ Originals(k) /\ Copies(k) /\ Values(k)
  BY DEF LInv, KeyInv
<1>3. \A p, q : ~Update(k, p, q)
  BY <1>1 DEF Update
<1>4. gc.pc = "lock" => Single(k)
  BY <1>1, <1>2, OneLive DEF Collecting
<1> QED BY <1>1, <1>2, <1>3, <1>4, NoUpdate

\* The collection looks for a DIRTY block: if there is one it starts.
LEMMA GcLockL == ASSUME IInv, IInv', LInv, GcLock PROVE LInv'
<1>1. /\ gc.pc = "lock" /\ lock = None /\ UNCHANGED <<flash, info, clean, boot, pc, op, may, exposed>>
      /\ IF clean > 0 /\ \E b \in Blocks : info[b] = "dirty"
         THEN wblk' = (CHOOSE b \in Blocks : info[b] = "clean") /\ gc' = [pc |-> "copy", i |-> 1]
         ELSE gc' = Idle /\ wblk' = wblk
  BY DEF GcLock, GcUnlock, tasks, ghosts
<1>2. /\ TypeOK /\ boot.ph = "up" /\ Settled /\ gc.pc \notin Collecting
      /\ \A t \in Tasks : pc[t] \notin Holding
  BY <1>1, GcFacts DEF Collecting
<1>3. CASE gc' = Idle /\ wblk' = wblk
  <2>1. gc'.pc \notin Collecting
    BY <1>3 DEF Idle, Collecting
  <2>2. \A u \in Tasks : pc[u] # "delete"
    BY <1>2 DEF Holding
  <2>3. /\ CopyInv => CopyInv'
        /\ \A k : /\ Pairs(k) => Pairs(k)'
                  /\ Originals(k) => Originals(k)'
                  /\ Copies(k) => Copies(k)'
                  /\ may'[k] = may[k] /\ Values(k) => Values(k)'
    BY <1>1, <1>2, <1>3, <2>1, <2>2, SameKey
  <2>4. CopyInv /\ \A k \in Keys \ exposed : Pairs(k) /\ Originals(k) /\ Copies(k) /\ Values(k)
    BY DEF LInv, KeyInv
  <2> QED BY <1>1, <1>2, <2>3, <2>4, CollectL
<1>4. CASE gc' = [pc |-> "copy", i |-> 1]
  <2>1. CopyInv'
    BY <1>1 DEF LInv, CopyInv
  <2>2. \A p \in Positions : /\ ItemAt(p)' = ItemAt(p)
                             /\ \A k : Live(p, k)' <=> Live(p, k)
    BY <1>1, SameItems
  <2>3. ASSUME NEW k \in Keys \ exposed'
        PROVE  Pairs(k)' /\ Originals(k)' /\ Copies(k)' /\ Values(k)'
    <3>1. Single(k) /\ Values(k)
      BY <1>1, CollectKeys
    <3>2. Single(k)' /\ Values(k)'
      BY <1>1, <2>2, <3>1 DEF Single, Values
    <3>3. Originals(k)'
      <4>1. \A q \in Positions : Live(q, k)' => flash'[q[1]].state # "clean"
        BY <1>1, <1>2, <2>2, LiveWhere
      <4> QED BY <4>1 DEF Originals
    <3>4. Copies(k)'
      <4>1. gc'.pc = "copy" /\ gc'.i = 1 /\ \A p \in Positions : ~(p[2] < 1)
        <5>1. \A p \in Positions : p[2] \in 1 .. SIZE
          BY PositionFacts
        <5> QED BY <1>4, <5>1, SizeFacts
      <4> QED BY <4>1 DEF Copies
    <3> QED BY <3>2, <3>3, <3>4, SinglePairs
  <2> QED BY <1>1, <1>2, <2>1, <2>3, CollectL
<1> QED BY <1>1, <1>3, <1>4

\* A step of the collection that copies nothing.
LEMMA CopyOnL ==
  ASSUME IInv, LInv, gc.pc = "copy", gc'.pc \in {"copy", "erase"},
         UNCHANGED <<flash, wblk, boot, pc, op, may>>, exposed \subseteq exposed',
         gc'.pc = "copy" => gc'.i = gc.i + 1,
         \A k \in Keys \ exposed' : \A p \in Positions :
            Live(p, k) /\ p[1] = From /\ (gc'.pc = "copy" => p[2] < gc'.i) => p[2] < gc.i
  PROVE  LInv'
<1>1. /\ \A t \in Tasks : pc[t] \notin Holding /\ pc[t] # "delete"
      /\ gc.pc \in Collecting /\ gc.i \in Nat /\ boot.ph = "up"
  BY GcFacts DEF Collecting, Holding
<1>2. \A p \in Positions : /\ ItemAt(p)' = ItemAt(p) /\ p[2] \in Nat
                           /\ \A k : Live(p, k)' <=> Live(p, k)
  BY SameItems, PositionFacts, SizeFacts
<1>3. CopyInv'
  BY DEF LInv, CopyInv
<1>4. ASSUME NEW k \in Keys \ exposed'
      PROVE  Pairs(k)' /\ Originals(k)' /\ Copies(k)' /\ Values(k)'
  <2>1. Pairs(k) /\ Originals(k) /\ Copies(k) /\ Values(k) /\ \A p, q : ~Update(k, p, q)
    BY <1>1, CollectKeys
  <2>2. \A p, q \in Positions : Copy(k, p, q) => Copy(k, p, q)'
    BY <1>1, <1>2 DEF Copy
  <2>3. Pairs(k)'
    BY <1>2, <2>1, <2>2 DEF Pairs
  <2>4. Originals(k)'
    <3>1. \A p \in Positions : p[2] < gc.i /\ gc'.pc = "copy" => p[2] < gc'.i
      BY <1>1, <1>2
    <3> QED BY <1>2, <2>1, <3>1 DEF Originals
  <2>5. Copies(k)'
    BY <1>2, <2>1 DEF Copies, From
  <2>6. Values(k)'
    BY <1>2, <2>1 DEF Values
  <2> QED BY <2>3, <2>4, <2>5, <2>6
<1> QED BY <1>1, <1>3, <1>4, CollectL

\* An item is copied: its key has it and the copy.
LEMMA GcCopyItemL ==
  ASSUME IInv, LInv, gc.pc = "copy", NEW s \in Positions, s = <<From, gc.i>>, Written(s),
         ItemAt(s).st = "normal", flash' = Appended(wblk, ItemAt(s)),
         gc' = [gc EXCEPT !.i = @ + 1], UNCHANGED <<wblk, boot, pc, op, may, exposed>>
  PROVE  LInv'
<1>1. /\ TypeOK /\ \A t \in Tasks : pc[t] \notin Holding /\ pc[t] # "delete"
      /\ gc.pc \in Collecting /\ gc.i \in Nat /\ boot.ph = "up" /\ Moving
      /\ gc \in [pc : {"off", "none", "lock"} \cup Collecting, i : Nat]
  BY GcFacts DEF Collecting, Holding
<1>2. PICK w \in Blocks, o \in Blocks :
         /\ w = wblk /\ o = Other(w) /\ o = From /\ w = Other(o) /\ w # o
         /\ \A c \in Blocks : c = w \/ c = o
  BY GcFacts DEF Collecting
<1>3. PICK i \in Nat : /\ i = gc.i /\ gc'.pc = "copy" /\ gc'.i = i + 1
                       /\ s[1] = o /\ s[2] = i
  <2>1. gc'.pc = "copy" /\ gc'.i = gc.i + 1
    BY <1>1
  <2>2. s[1] = From /\ s[2] = gc.i
    BY PositionFacts
  <2> QED BY <1>1, <1>2, <2>1, <2>2
<1>4. PICK it \in Items : it = ItemAt(s) /\ it.st = "normal" /\ it.key \in Keys
  BY <1>1, ItemFacts
<1>5. PICK k0 \in Keys : k0 = it.key
  BY <1>4
<1>6. PICK x : x = <<wblk, Len(flash[wblk].items) + 1>>
  OBVIOUS
<1>7. x[1] = w
  BY <1>2, <1>6
<1>8. /\ x \in Positions /\ ItemAt(x)' = it
      /\ \A p \in Positions : /\ Written(p) => ItemAt(p)' = ItemAt(p) /\ p # x
                              /\ \A k : Live(p, k)' <=> Live(p, k) \/ (p = x /\ k = k0)
      /\ \A c \in Blocks : flash'[c].state = flash[c].state
  <2>1. wblk \in Blocks /\ Len(flash[wblk].items) < SIZE /\ flash' = Appended(wblk, it)
    BY <1>1, <1>4, TypeFacts
  <2> QED BY <1>1, <1>4, <1>5, <1>6, <2>1, AppendLive
<1>9. flash[w].state = "clean" /\ flash[o].state = "dirty"
  BY <1>1, <1>2 DEF Moving
<1>10. flash'[w].state = "clean" /\ flash'[o].state = "dirty"
  BY <1>8, <1>9
<1>11. CopyInv'
  <2>1. \A b \in Blocks : flash'[b].state = "clean" => flash'[Other(b)].state = "dirty"
    BY <1>2, <1>10
  <2> QED BY <2>1 DEF CopyInv
<1>12. \A p \in Positions : \A k : Live(p, k) => ItemAt(p)' = ItemAt(p) /\ p # x
  BY <1>8 DEF Live
<1>13. \A p \in Positions : /\ p[2] \in Nat /\ p[1] \in Blocks
                            /\ p[2] < i => p[2] < i + 1
                            /\ p[2] < i + 1 => p[2] < i \/ p[2] = i
                            /\ p[1] = o /\ p[2] = i => p = s
  <2>1. \A p \in Positions : p[2] \in Nat /\ p[1] \in Blocks /\ p = <<p[1], p[2]>>
    BY PositionFacts, SizeFacts
  <2>2. s = <<s[1], s[2]>>
    BY PositionFacts
  <2> QED BY <1>3, <2>1, <2>2
<1>14. ASSUME NEW k \in Keys \ exposed, k # k0
       PROVE  Pairs(k)' /\ Originals(k)' /\ Copies(k)' /\ Values(k)'
  <2>1. Pairs(k) /\ Originals(k) /\ Copies(k) /\ Values(k) /\ \A p, q : ~Update(k, p, q)
    BY <1>1, CollectKeys
  <2>2. \A p \in Positions : Live(p, k)' <=> Live(p, k)
    BY <1>8, <1>14
  <2>3. ASSUME NEW p \in Positions, NEW q \in Positions, Live(p, k), Live(q, k), Copy(k, p, q)
        PROVE  Copy(k, p, q)'
    <3>1. ItemAt(p)' = ItemAt(p) /\ ItemAt(q)' = ItemAt(q)
      BY <1>12, <2>3
    <3>2. flash'[p[1]].state = flash[p[1]].state /\ flash'[q[1]].state = flash[q[1]].state
      BY <1>8, <1>13
    <3> QED BY <1>1, <1>3, <2>3, <3>1, <3>2 DEF Copy
  <2>4. Pairs(k)'
    BY <2>1, <2>2, <2>3 DEF Pairs
  <2>5. Originals(k)'
    BY <1>3, <1>8, <1>13, <2>1, <2>2, BlockFacts DEF Originals
  <2>6. Copies(k)'
    <3>1. ~Live(s, k)
      BY <1>4, <1>5, <1>14 DEF Live
    <3>2. \A p \in Positions : Live(p, k) /\ p[1] = o /\ p[2] < i + 1 => p[2] < i
      BY <1>13, <3>1
    <3>3. \A p \in Positions : Live(p, k) /\ p[1] = o /\ p[2] < i
             => \E q \in Positions : q[1] = w /\ Live(q, k)
      BY Zenon, <1>2, <1>3, <2>1 DEF Copies
    <3>4. From' = o /\ wblk' = w
      BY Zenon, <1>2 DEF From
    <3> QED BY <1>3, <2>2, <3>2, <3>3, <3>4 DEF Copies
  <2>7. Values(k)'
    BY <1>12, <2>1, <2>2 DEF Values
  <2> QED BY <2>4, <2>5, <2>6, <2>7
<1>15. ASSUME k0 \notin exposed
       PROVE  Pairs(k0)' /\ Originals(k0)' /\ Copies(k0)' /\ Values(k0)'
  <2>1. Originals(k0) /\ Values(k0) /\ SinglePer(k0)
    BY <1>1, <1>15, CollectKeys
  <2>2. Live(s, k0)
    BY <1>4, <1>5 DEF Live
  <2>3. \A q \in Positions : Live(q, k0) => q[1] = o
    <3> SUFFICES ASSUME NEW q \in Positions, Live(q, k0), q[1] = w PROVE FALSE
      BY <1>2, <1>13
    <3>1. PICK p \in Positions : p[1] = o /\ Live(p, k0) /\ p[2] < i
      <4>1. /\ flash[q[1]].state = "clean" /\ Other(q[1]) = o
            /\ flash[Other(q[1])].state = "dirty"
        BY <1>2, <1>9
      <4>2. \E p \in Positions : /\ p[1] = Other(q[1]) /\ Live(p, k0)
                                 /\ gc.pc = "copy" => p[2] < gc.i
        BY <2>1, <4>1 DEF Originals
      <4> QED BY <1>3, <4>1, <4>2
    <3>2. p = s
      BY <1>3, <2>1, <2>2, <3>1 DEF SinglePer
    <3> QED BY <1>3, <3>1, <3>2
  <2>4. \A p \in Positions : Live(p, k0)' <=> p = s \/ p = x
    BY <1>3, <1>8, <2>1, <2>2, <2>3 DEF SinglePer
  <2>5. ItemAt(s)' = it /\ ItemAt(x)' = it
    BY <1>4, <1>8, <1>12, <2>2
  <2>6. Copy(k0, s, x)'
    BY <1>1, <1>3, <1>7, <1>10, <2>5 DEF Copy
  <2>7. Pairs(k0)'
    <3> SUFFICES ASSUME NEW p \in Positions, NEW q \in Positions, Live(p, k0)', Live(q, k0)'
                 PROVE  /\ ~(p[1] = q[1] /\ p[2] < q[2])
                        /\ p[1] # q[1] => Copy(k0, p, q)' \/ Copy(k0, q, p)'
      BY DEF Pairs
    <3>1. (p = s \/ p = x) /\ (q = s \/ q = x)
      BY <2>4
    <3>2. ~(p[2] < p[2])
      BY <1>13
    <3> QED BY <1>2, <1>3, <1>7, <2>6, <3>1, <3>2
  <2>8. Originals(k0)'
    <3>1. s[1] = Other(x[1]) /\ s[2] < i + 1
      <4>1. i < i + 1
        OBVIOUS
      <4>2. s[1] = Other(x[1])
        BY <1>2, <1>3, <1>7
      <4> QED BY <1>3, <4>1, <4>2
    <3>2. \A q \in Positions : Live(q, k0)' /\ flash'[q[1]].state = "clean" => q = x
      BY <1>3, <1>10, <2>4
    <3> QED BY <1>3, <2>4, <3>1, <3>2 DEF Originals
  <2>9. Copies(k0)'
    BY <1>2, <1>7, <1>8, <2>4 DEF Copies
  <2>10. Values(k0)'
    <3>1. it.val \in may'[k0]
      BY <1>4, <2>1, <2>2 DEF Values
    <3> QED BY <2>4, <2>5, <3>1 DEF Values
  <2> QED BY <2>7, <2>8, <2>9, <2>10
<1> QED BY <1>1, <1>11, <1>14, <1>15, CollectL

\* __item_gc_cb() on one item, or the end of the block.
LEMMA GcCopyL == ASSUME IInv, LInv, GcCopy PROVE LInv'
<1>1. PICK s : s = <<From, gc.i>>
  OBVIOUS
<1>2. /\ gc.pc = "copy" /\ UNCHANGED <<wblk, boot, pc, op, may, exposed>>
      /\ IF Written(s)
         THEN /\ gc' = [gc EXCEPT !.i = @ + 1]
              /\ flash' = IF ItemAt(s).st = "normal" THEN Appended(wblk, ItemAt(s)) ELSE flash
         ELSE gc' = [gc EXCEPT !.pc = "erase"] /\ UNCHANGED flash
  BY <1>1 DEF GcCopy, tasks, ghosts
<1>3. /\ TypeOK /\ Moving /\ From \in Blocks /\ gc \in [pc : {"off", "none", "lock"} \cup Collecting, i : Nat]
      /\ Len(flash[From].items) \in Nat /\ Len(flash[From].items) < SIZE
  BY <1>2, GcFacts, TypeFacts DEF Collecting
<1>4. gc.i \in 1 .. Len(flash[From].items) + 1
  BY <1>2, <1>3 DEF Moving
<1>5. s[1] = From /\ s[2] = gc.i /\ s \in Positions
  BY <1>1, <1>3, <1>4, PositionFacts, SizeFacts
<1>6. \A p \in Positions : \A k : Live(p, k) /\ p[1] = From /\ p[2] = gc.i => p = s /\ ItemAt(s).st = "normal"
  BY <1>5, PositionFacts DEF Live
<1>7. \A p \in Positions : p[2] \in Nat
  BY PositionFacts, SizeFacts
<1>8. CASE Written(s) /\ ItemAt(s).st = "normal"
  BY <1>1, <1>2, <1>5, <1>8, GcCopyItemL
<1>9. CASE Written(s) /\ ItemAt(s).st # "normal"
  <2>1. gc'.pc = "copy" /\ gc'.i = gc.i + 1 /\ flash' = flash
    BY <1>2, <1>3, <1>9
  <2>2. \A p \in Positions : \A k : Live(p, k) /\ p[1] = From => p[2] # gc.i
    BY <1>6, <1>9
  <2>3. \A p \in Positions : p[2] < gc.i + 1 /\ p[2] # gc.i => p[2] < gc.i
    BY <1>4, <1>7
  <2> QED BY <1>2, <2>1, <2>2, <2>3, CopyOnL
<1>10. CASE ~Written(s)
  <2>1. gc'.pc = "erase" /\ flash' = flash
    BY <1>2, <1>3, <1>10
  <2>2. ~(gc.i <= Len(flash[From].items))
    BY <1>5, <1>10 DEF Written
  <2>3. \A p \in Positions : p[1] = From /\ Written(p) => p[2] < gc.i
    BY <1>3, <1>4, <1>7, <2>2 DEF Written
  <2> QED BY <1>2, <2>1, <2>3, CopyOnL DEF Live
<1> QED BY <1>8, <1>9, <1>10

\* ... without memory: the keys that are not yet copied are exempt from now on.
LEMMA GcCopyFailsL == ASSUME IInv, LInv, GcCopyFails PROVE LInv'
<1>1. /\ gc.pc = "copy" /\ gc' = [gc EXCEPT !.pc = "erase"]
      /\ UNCHANGED <<flash, wblk, boot, pc, op, may>>
      /\ exposed' = exposed \cup {k \in Keys : \E j \in gc.i .. SIZE : Live(<<From, j>>, k)}
  BY DEF GcCopyFails, store, tasks
<1>2. TypeOK /\ gc \in [pc : {"off", "none", "lock"} \cup Collecting, i : Nat]
  BY <1>1, GcFacts DEF Collecting
<1>3. gc'.pc = "erase"
  BY <1>1, <1>2
<1>4. ASSUME NEW k \in Keys \ exposed', NEW p \in Positions, Live(p, k), p[1] = From
      PROVE  p[2] < gc.i
  <2>1. p = <<From, p[2]>> /\ p[2] \in 1 .. SIZE /\ SIZE \in Nat
    BY <1>4, PositionFacts, SizeFacts
  <2>2. ~\E j \in gc.i .. SIZE : Live(<<From, j>>, k)
    BY <1>1, <1>4
  <2>3. p[2] \notin gc.i .. SIZE
    BY <1>4, <2>1, <2>2
  <2>4. gc.i \in Nat
    BY <1>2
  <2> QED BY <2>1, <2>3, <2>4
<1> QED BY <1>1, <1>3, <1>4, CopyOnL

\* The block is erased: what was copied is all there is.
LEMMA GcEraseL == ASSUME IInv, LInv, GcErase PROVE LInv'
<1>1. /\ gc.pc = "erase" /\ gc' = [gc EXCEPT !.pc = "header"]
      /\ flash' = [flash EXCEPT ![From] = [state |-> "blank", items |-> <<>>]]
      /\ UNCHANGED <<wblk, boot, pc, op, may, exposed>>
  BY DEF GcErase, tasks, ghosts
<1>2. /\ TypeOK /\ \A t \in Tasks : pc[t] \notin Holding
      /\ gc.pc \in Collecting
      /\ gc \in [pc : {"off", "none", "lock"} \cup Collecting, i : Nat]
  BY <1>1, GcFacts DEF Collecting
<1>3. PICK w \in Blocks, o \in Blocks :
         /\ w = wblk /\ o = Other(w) /\ o = From /\ w = Other(o) /\ w # o
         /\ \A c \in Blocks : c = w \/ c = o
  BY <1>1, GcFacts DEF Collecting
<1>4. flash'[o].state = "blank" /\ flash'[o].items = <<>> /\ flash'[w] = flash[w]
  <2>1. flash \in Flash
    BY <1>2, TypeFacts
  <2>2. flash' = [flash EXCEPT ![o] = [state |-> "blank", items |-> <<>>]]
    BY <1>1, <1>3
  <2> QED BY <1>3, <2>1, <2>2, FormatFacts DEF States
<1>5. gc'.pc = "header"
  BY <1>1, <1>2
<1>6. \A p \in Positions : \A k : /\ Live(p, k)' <=> Live(p, k) /\ p[1] = w
                                  /\ Live(p, k) /\ p[1] = w => ItemAt(p)' = ItemAt(p)
  BY <1>1, <1>2, <1>3, TypeFacts, FormatErases DEF Erases, States
<1>7. CopyInv'
  BY <1>3, <1>4 DEF CopyInv
<1>8. ASSUME NEW k \in Keys \ exposed'
      PROVE  Pairs(k)' /\ Originals(k)' /\ Copies(k)' /\ Values(k)'
  <2>1. SinglePer(k) /\ Copies(k) /\ Values(k)
    BY <1>1, <1>2, <1>8, CollectKeys
  <2>2. Single(k)'
    BY <1>6, <2>1 DEF SinglePer, Single
  <2>3. Originals(k)'
    <3>1. \A q \in Positions : Live(q, k)' => flash'[Other(q[1])].state # "dirty"
      BY <1>3, <1>4, <1>6
    <3> QED BY <3>1 DEF Originals
  <2>4. Copies(k)'
    BY <1>5 DEF Copies
  <2>5. Values(k)'
    <3>1. ASSUME \A p \in Positions : ~Live(p, k)', NEW p \in Positions PROVE ~Live(p, k)
      <4>1. p[1] = w \/ p[1] = o
        BY <1>3, PositionFacts
      <4>2. Live(p, k) /\ p[1] = o => \E q \in Positions : q[1] = w /\ Live(q, k)
        BY <1>1, <1>3, <2>1 DEF Copies
      <4> QED BY <1>6, <3>1, <4>1, <4>2
    <3>2. (\A p \in Positions : ~Live(p, k)') => \A p \in Positions : ~Live(p, k)
      BY <3>1
    <3>3. \A p \in Positions : Live(p, k)' => ItemAt(p)' = ItemAt(p) /\ Live(p, k)
      BY <1>6
    <3>4. may'[k] = may[k]
      BY <1>1
    <3> QED BY <2>1, <3>2, <3>3, <3>4 DEF Values
  <2> QED BY <2>2, <2>3, <2>4, <2>5, SinglePairs
<1> QED BY <1>1, <1>2, <1>7, <1>8, CollectL

\* ... its new header is written.
LEMMA GcHeaderL == ASSUME IInv, LInv, GcHeader PROVE LInv'
<1>1. /\ gc.pc = "header" /\ gc' = [gc EXCEPT !.pc = "use"] /\ flash' = Formatted(From)
      /\ UNCHANGED <<wblk, boot, pc, op, may, exposed>>
  BY DEF GcHeader, tasks, ghosts
<1>2. /\ TypeOK /\ DiskInv /\ Moving /\ \A t \in Tasks : pc[t] \notin Holding
      /\ gc.pc \in Collecting /\ boot.ph = "up"
      /\ gc \in [pc : {"off", "none", "lock"} \cup Collecting, i : Nat]
  BY <1>1, GcFacts DEF Collecting, IInv
<1>3. PICK w \in Blocks, o \in Blocks :
         /\ w = wblk /\ o = Other(w) /\ o = From /\ w = Other(o) /\ w # o
         /\ \A c \in Blocks : c = w \/ c = o
  BY <1>1, GcFacts DEF Collecting
<1>4. flash'[o].state = "clean" /\ flash'[o].items = <<>> /\ flash'[w] = flash[w]
  <2>1. flash \in Flash
    BY <1>2, TypeFacts
  <2>2. flash' = [flash EXCEPT ![o] = [state |-> "clean", items |-> <<>>]]
    BY <1>1, <1>3 DEF Formatted
  <2> QED BY <1>3, <2>1, <2>2, FormatFacts DEF States
<1>5. flash[o].items = <<>> /\ flash[w].state = "clean"
  BY <1>1, <1>2, <1>3 DEF Moving, DiskInv
<1>6. gc'.pc = "use"
  BY <1>1, <1>2
<1>7. \A p \in Positions : /\ ItemAt(p)' = ItemAt(p)
                           /\ \A k : Live(p, k)' <=> Live(p, k)
  <2>1. \A b \in Blocks : flash'[b].items = flash[b].items
    BY <1>3, <1>4, <1>5
  <2> QED BY <2>1, SameItems
<1>8. \A b \in Blocks : flash'[b].state = "clean"
  BY <1>3, <1>4, <1>5
<1>9. CopyInv'
  BY <1>3, <1>4 DEF CopyInv
<1>10. \A p \in Positions : \A k : Live(p, k) => p[1] = w
  <2>1. \A p \in Positions : \A k : Live(p, k) => p[1] \in Blocks /\ flash[p[1]].items # <<>>
    BY <1>2, LiveFacts
  <2> QED BY <1>3, <1>5, <2>1
<1>11. ASSUME NEW k \in Keys \ exposed'
       PROVE  Pairs(k)' /\ Originals(k)' /\ Copies(k)' /\ Values(k)'
  <2>1. SinglePer(k) /\ Values(k)
    BY <1>1, <1>2, <1>11, CollectKeys
  <2>2. Single(k)'
    BY <1>7, <1>10, <2>1 DEF SinglePer, Single
  <2>3. Originals(k)'
    <3>1. \A q \in Positions : flash'[Other(q[1])].state # "dirty"
      BY <1>8, PositionFacts, BlockFacts
    <3> QED BY <3>1 DEF Originals
  <2>4. Copies(k)'
    BY <1>6 DEF Copies
  <2>5. Values(k)'
    BY <1>1, <1>7, <2>1 DEF Values
  <2> QED BY <2>2, <2>3, <2>4, <2>5, SinglePairs
<1> QED BY <1>1, <1>2, <1>9, <1>11, CollectL

\* ... and the block with the copies takes the writes.
LEMMA GcUseL == ASSUME IInv, IInv', LInv, GcUse PROVE LInv'
<1>1. /\ gc.pc = "use" /\ gc' = Idle /\ flash' = [flash EXCEPT ![wblk].state = "used"]
      /\ UNCHANGED <<wblk, boot, pc, op, may, exposed>>
  BY DEF GcUse, GcUnlock, tasks, ghosts
<1>2. /\ TypeOK /\ Moving /\ \A t \in Tasks : pc[t] \notin Holding
      /\ gc.pc \in Collecting /\ boot.ph = "up" /\ gc'.pc \notin Collecting
  BY <1>1, GcFacts DEF Collecting, Idle
<1>3. PICK w \in Blocks, o \in Blocks :
         /\ w = wblk /\ o = Other(w) /\ o = From /\ w = Other(o) /\ w # o
         /\ \A c \in Blocks : c = w \/ c = o
  BY <1>1, GcFacts DEF Collecting
<1>4. flash[o].items = <<>>
  BY <1>1, <1>2, <1>3 DEF Moving, Empty
<1>5. \A p \in Positions : /\ ItemAt(p)' = ItemAt(p)
                           /\ \A k : Live(p, k)' <=> Live(p, k)
  <2>1. flash \in Flash /\ flash' = WithState(flash, w, "used") /\ "used" \in States
    BY <1>1, <1>2, <1>3, TypeFacts DEF WithState, States
  <2>2. flash'[w].items = flash[w].items /\ flash'[Other(w)] = flash[Other(w)]
    BY <2>1, StateFacts
  <2>3. \A b \in Blocks : flash'[b].items = flash[b].items
    BY <1>3, <2>2
  <2> QED BY <2>3, SameItems
<1>6. \A p \in Positions : \A k : Live(p, k) => p[1] = w
  <2>1. \A p \in Positions : \A k : Live(p, k) => p[1] \in Blocks /\ flash[p[1]].items # <<>>
    BY <1>2, LiveFacts
  <2> QED BY <1>3, <1>4, <2>1
<1>7. CopyInv' /\ \A k : Originals(k)' /\ Copies(k)'
  BY <1>1, <1>2, SettledKey
<1>8. ASSUME NEW k \in Keys \ exposed' PROVE Pairs(k)' /\ Values(k)'
  <2>1. SinglePer(k) /\ Values(k)
    BY <1>1, <1>2, <1>8, CollectKeys
  <2>2. Single(k)'
    BY <1>5, <1>6, <2>1 DEF SinglePer, Single
  <2>3. Values(k)'
    BY <1>1, <1>5, <2>1 DEF Values
  <2> QED BY <2>2, <2>3, SinglePairs
<1> QED BY <1>1, <1>2, <1>7, <1>8, CollectL

\* Tasks that go on as they are, or from one wait to another, in a step that
\* writes nothing.
LEMMA WaitL ==
  ASSUME IInv, LInv, UNCHANGED <<flash, wblk, boot, gc, op, may, exposed>>,
         \A u \in Tasks : pc'[u] = pc[u] \/ (pc[u] \notin Holding /\ pc'[u] \notin Holding)
  PROVE  LInv'
<1>1. OwnInv /\ CopyInv /\ OpInv /\ \A k \in Keys \ exposed : KeyInv(k)
  BY DEF LInv, IInv
<1>2. \A u \in Tasks : OwnOf(u)' /\ \A k : TaskOf(u, k) => TaskOf(u, k)'
  BY <1>1, SameTask
<1>3. \A u \in Tasks : pc[u] = "delete" => pc'[u] = "delete"
  BY DEF Holding
<1>4. /\ CopyInv'
      /\ \A k : /\ Pairs(k) => Pairs(k)'
                /\ Originals(k) => Originals(k)'
                /\ Copies(k) => Copies(k)'
                /\ may'[k] = may[k] /\ Values(k) => Values(k)'
  BY <1>1, <1>3, SameKey
<1>5. OwnInv'
  BY <1>2 DEF OwnInv
<1>6. ASSUME NEW k \in Keys \ exposed' PROVE KeyInv(k)'
  <2>1. KeyInv(k) /\ may'[k] = may[k]
    BY <1>1
  <2>2. Pairs(k)' /\ Originals(k)' /\ Copies(k)' /\ Values(k)'
    BY <1>4, <2>1 DEF KeyInv
  <2>3. \A u \in Tasks : op'[u].key = k => TaskOf(u, k)'
    BY <1>2, <2>1 DEF KeyInv
  <2> QED BY <2>2, <2>3 DEF KeyInv
<1> QED BY <1>4, <1>5, <1>6 DEF LInv

\* The collection wakes those who wait for it.
LEMMA GcPostL == ASSUME IInv, LInv, GcPost PROVE LInv'
<1>1. UNCHANGED <<flash, wblk, boot, gc, op, may, exposed>>
  BY DEF GcPost, store, ghosts
<1>2. ASSUME NEW u \in Tasks
      PROVE  pc'[u] = pc[u] \/ (pc[u] \notin Holding /\ pc'[u] \notin Holding)
  <2>1. CASE Wakes
    <3>1. pc'[u] = IF u \in {t \in Tasks : pc[t] = "blocked"} THEN "lock" ELSE pc[u]
      BY <2>1 DEF GcPost
    <3> QED BY <3>1 DEF Holding
  <2>2. CASE ~Wakes
    BY <2>2 DEF GcPost
  <2> QED BY <2>1, <2>2
<1> QED BY <1>1, <1>2, WaitL

\* What is left to show for a step of kv_init().
LEMMA BootL ==
  ASSUME IInv, LInv, boot.ph # "up", UNCHANGED <<pc, op, gc>>, CopyInv',
         \A k \in Keys \ exposed' : Pairs(k)' /\ Originals(k)' /\ Values(k)'
  PROVE  LInv'
<1>1. /\ \A t \in Tasks : pc[t] \notin Holding
      /\ gc'.pc = "off"
  BY DEF IInv, LockInv, Holding
<1>2. \A k : Copies(k)'
  BY <1>1 DEF Copies
<1> QED BY <1>1, <1>2, CollectL

\* A step of kv_init() that formats no block with items, and marks USED blocks.
Boots ==
    \A b \in Blocks :
        /\ flash'[b].items = <<>> <=> flash[b].items = <<>>
        /\ \/ flash'[b].state = flash[b].state
           \/ flash[b].state = "blank" /\ flash'[b].state = "clean" /\ flash[b].items = <<>>
           \/ flash[b].state = "used" /\ flash'[b].state = "dirty"

\* It leaves the copies of a collection what they were.
LEMMA BootsCopies ==
  ASSUME CopyInv, Boots
  PROVE  /\ CopyInv'
         /\ \A b \in Blocks : flash[b].items # <<>> =>
              /\ flash[b].state = "dirty" => flash'[b].state = "dirty"
              /\ flash'[b].state = "clean" <=> flash[b].state = "clean"
              /\ flash'[b].state = "clean" /\ flash'[Other(b)].state = "dirty"
                   => flash[Other(b)].state = "dirty"
<1>1. ASSUME NEW b \in Blocks, flash[b].items # <<>>
      PROVE  /\ flash[b].state = "dirty" => flash'[b].state = "dirty"
             /\ flash'[b].state = "clean" <=> flash[b].state = "clean"
  BY <1>1 DEF Boots
<1>2. ASSUME NEW b \in Blocks, flash[b].items # <<>>, flash'[b].state = "clean"
      PROVE  \/ flash[Other(b)].state = "dirty" /\ flash'[Other(b)].state = "dirty"
             \/ /\ flash'[Other(b)].state = "clean" \/ flash'[Other(b)].state = "blank"
                /\ flash'[Other(b)].items = <<>>
  <2>1. PICK o \in Blocks : o = Other(b)
    BY BlockFacts
  <2>2. \/ flash[o].state = "dirty"
        \/ flash[o].state \in {"blank", "clean"} /\ flash[o].items = <<>>
    BY <1>1, <1>2, <2>1 DEF CopyInv
  <2>3. \/ flash'[o].state = flash[o].state
        \/ flash[o].state = "blank" /\ flash'[o].state = "clean" /\ flash[o].items = <<>>
        \/ flash[o].state = "used" /\ flash'[o].state = "dirty"
    BY DEF Boots
  <2>4. flash'[o].items = <<>> <=> flash[o].items = <<>>
    BY DEF Boots
  <2> QED BY <2>1, <2>2, <2>3, <2>4
<1>3. \A b \in Blocks : flash'[b].items # <<>> => flash[b].items # <<>>
  BY DEF Boots
<1>4. CopyInv'
  BY <1>2, <1>3 DEF CopyInv
<1> QED BY <1>1, <1>2, <1>4

\* A pair of items that kv_init() comes to later.
Ahead(p, q) == p[1] > boot.b \/ (p[1] = boot.b /\ q[2] >= boot.i)

\* A step of kv_init() that passes no item that has replaced another one: the
\* live items of k are what they were.
LEMMA BootKey ==
  ASSUME IInv, LInv, boot.ph # "up", boot'.ph # "up", UNCHANGED gc, Boots,
         NEW k \in Keys \ exposed, may'[k] = may[k],
         \A p \in Positions : (Live(p, k)' <=> Live(p, k))
                              /\ (Live(p, k) => ItemAt(p)' = ItemAt(p)),
         \A p, q \in Positions : Live(p, k) /\ Live(q, k) /\ ItemAt(q).origin = p
                                 /\ p[1] = q[1] /\ p[2] < q[2] /\ Update(k, p, q)
                                 /\ Ahead(p, q) => Ahead(p, q)'
  PROVE  Pairs(k)' /\ Originals(k)' /\ Values(k)'
<1>1. /\ Pairs(k) /\ Originals(k) /\ Values(k)
      /\ TypeOK /\ gc.pc = "off" /\ \A t \in Tasks : pc[t] # "delete"
  BY DEF LInv, KeyInv, IInv, LockInv
<1>2. \A p \in Positions : Live(p, k) => p[1] \in Blocks /\ flash[p[1]].items # <<>>
  BY <1>1, LiveFacts
<1>3. \A b \in Blocks : flash[b].items # <<>> =>
         /\ flash[b].state = "dirty" => flash'[b].state = "dirty"
         /\ flash'[b].state = "clean" <=> flash[b].state = "clean"
         /\ flash'[b].state = "clean" /\ flash'[Other(b)].state = "dirty"
              => flash[Other(b)].state = "dirty"
  BY BootsCopies DEF LInv
<1>4. ASSUME NEW p \in Positions, NEW q \in Positions, Live(p, k), Live(q, k), Update(k, p, q),
             p[1] = q[1], p[2] < q[2]
      PROVE  Update(k, p, q)'
  <2>1. ItemAt(q).origin = p /\ ItemAt(q)' = ItemAt(q) /\ Ahead(p, q)
    BY <1>1, <1>4 DEF Update, Ahead
  <2>2. Ahead(p, q)'
    BY <1>4, <2>1
  <2>3. \A r \in Positions : Live(r, k)' => r[1] = p[1]
    BY <1>4 DEF Update
  <2> QED BY <2>1, <2>2, <2>3 DEF Update, Ahead
<1>5. ASSUME NEW p \in Positions, NEW q \in Positions, Live(p, k), Live(q, k), Copy(k, p, q)
      PROVE  Copy(k, p, q)'
  <2>1. flash'[p[1]].state = "dirty" /\ flash'[q[1]].state = "clean"
    BY <1>2, <1>3, <1>5 DEF Copy
  <2>2. ItemAt(q)' = ItemAt(q) /\ ItemAt(p)' = ItemAt(p)
    BY <1>5
  <2> QED BY <1>5, <2>1, <2>2 DEF Copy
<1>6. Pairs(k)'
  BY <1>1, <1>4, <1>5 DEF Pairs
<1>7. Originals(k)'
  BY <1>1, <1>2, <1>3 DEF Originals
<1>8. Values(k)'
  BY <1>1 DEF Values
<1> QED BY <1>6, <1>7, <1>8

\* A header is read, and a block without one is formatted.
LEMMA BootHeadL == ASSUME IInv, LInv, BootHead PROVE LInv'
<1>1. /\ TypeOK /\ DiskInv /\ BootInv /\ boot.ph = "head"
      /\ UNCHANGED <<wblk, gc, pc, op, may, exposed>>
  BY DEF IInv, BootHead, gcvars, tasks, ghosts
<1>2. boot \in [ph : {"head", "items", "unclean", "astray"}, b : 0 .. 2, i : Nat \ {0}] /\ boot.i = 1
      /\ boot.b # 2
  BY <1>1 DEF BootInv
<1>3. PICK b \in Blocks : b = boot.b
  BY <1>2 DEF Blocks
<1>4. /\ boot'.ph # "up" /\ boot'.b \in {b, b + 1} /\ boot'.i = 1
      /\ \A c \in Blocks : flash'[c].items = flash[c].items
      /\ \A c \in Blocks : \/ flash'[c].state = flash[c].state
                           \/ flash[c].state = "blank" /\ flash'[c].state = "clean"
                              /\ flash[c].items = <<>>
  <2>1. CASE flash[b].state = "blank"
    <3>1. flash' = Formatted(b) /\ boot' = NextBlock /\ flash[b].items = <<>>
      BY <1>1, <1>3, <2>1 DEF BootHead, DiskInv
    <3>2. boot'.ph # "up" /\ boot'.b = b + 1 /\ boot'.i = 1
      BY <1>3, <3>1 DEF NextBlock
    <3>3. /\ flash'[b].state = "clean" /\ flash'[b].items = <<>>
          /\ flash'[Other(b)] = flash[Other(b)]
      BY <1>1, <3>1, FormatFacts, TypeFacts DEF Formatted, States
    <3> QED BY <2>1, <3>1, <3>2, <3>3, BlockFacts
  <2>2. CASE flash[b].state # "blank"
    BY <1>2, <1>3, <2>2 DEF BootHead
  <2> QED BY <2>1, <2>2
<1>5. Boots /\ CopyInv'
  BY <1>4, BootsCopies DEF Boots, LInv
<1>6. \A p \in Positions : ItemAt(p)' = ItemAt(p) /\ \A k : Live(p, k)' <=> Live(p, k)
  BY <1>4, SameItems
<1>7. ASSUME NEW p \in Positions, NEW q \in Positions, NEW k, Live(p, k), Ahead(p, q)
      PROVE  Ahead(p, q)'
  <2>1. p[1] \in Blocks /\ q[2] \in 1 .. SIZE /\ p[1] >= b
    BY <1>3, <1>7, PositionFacts DEF Ahead, Blocks
  <2>2. CASE boot'.b = b
    BY <1>2, <1>3, <1>4, <1>7, <2>2 DEF Ahead
  <2>3. CASE boot'.b = b + 1 /\ p[1] # b
    <3>1. p[1] >= b + 1 /\ q[2] >= 1
      BY <2>1, <2>3, SizeFacts DEF Blocks
    <3> QED BY <1>4, <2>1, <2>3, <3>1 DEF Ahead, Blocks
  <2>4. CASE boot'.b = b + 1 /\ p[1] = b
    <3>1. flash[b].items # <<>>
      BY <1>1, <1>7, <2>4, LiveFacts
    <3>2. flash[b].state # "blank"
      BY <1>1, <3>1 DEF DiskInv
    <3>3. boot'.b = b /\ b \in Int
      BY <1>2, <1>3, <3>2 DEF BootHead, Blocks
    <3> QED BY <2>4, <3>3
  <2> QED BY <1>4, <2>2, <2>3, <2>4
<1>8. \A k \in Keys \ exposed' : Pairs(k)' /\ Originals(k)' /\ Values(k)'
  BY <1>1, <1>4, <1>5, <1>6, <1>7, BootKey
<1> QED BY <1>1, <1>5, <1>8, BootL

\* A block has been read.
LEMMA BootBlockDoneL == ASSUME IInv, LInv, BootBlockDone PROVE LInv'
<1>1. /\ TypeOK /\ BootInv /\ boot.ph = "items" /\ ~Written(<<boot.b, boot.i>>)
      /\ UNCHANGED <<flash, wblk, gc, pc, op, may, exposed>> /\ boot' = NextBlock
  BY DEF IInv, BootBlockDone, gcvars, tasks, ghosts
<1>2. boot \in [ph : {"head", "items", "unclean", "astray"}, b : 0 .. 2, i : Nat \ {0}] /\ boot.b # 2
  BY <1>1 DEF BootInv
<1>3. PICK b \in Blocks, i \in Nat : b = boot.b /\ i = boot.i
  BY <1>2 DEF Blocks
<1>4. boot'.ph # "up" /\ boot'.b = b + 1 /\ boot'.i = 1
  BY <1>1, <1>3 DEF NextBlock
<1>5. ~(i <= Len(flash[b].items)) /\ Len(flash[b].items) \in Nat
  BY <1>1, <1>3, TypeFacts DEF Written
<1>6. Boots /\ CopyInv'
  BY <1>1, BootsCopies DEF Boots, LInv
<1>7. \A p \in Positions : ItemAt(p)' = ItemAt(p) /\ \A k : Live(p, k)' <=> Live(p, k)
  BY <1>1, SameItems
<1>8. ASSUME NEW p \in Positions, NEW q \in Positions, NEW k, Live(q, k), Ahead(p, q), p[1] = q[1]
      PROVE  Ahead(p, q)'
  <2>1. p[1] \in Blocks /\ q[2] \in 1 .. SIZE /\ SIZE \in Nat
    BY PositionFacts, SizeFacts
  <2>2. p[1] # b
    <3>1. q[2] <= Len(flash[q[1]].items)
      BY <1>8 DEF Live, Written
    <3>2. p[1] = b => q[2] >= i
      BY <1>3, <1>8 DEF Ahead, Blocks
    <3> QED BY <1>5, <1>8, <2>1, <3>1, <3>2
  <2>3. p[1] > b
    BY <1>3, <1>8, <2>2 DEF Ahead
  <2>4. p[1] >= b + 1 /\ q[2] >= 1
    BY <2>1, <2>3 DEF Blocks
  <2> QED BY <1>4, <2>1, <2>4 DEF Ahead, Blocks
<1>9. \A k \in Keys \ exposed' : Pairs(k)' /\ Originals(k)' /\ Values(k)'
  BY <1>1, <1>4, <1>6, <1>7, <1>8, BootKey
<1> QED BY <1>1, <1>6, <1>9, BootL

\* An item that has replaced another one is passed, and the other one deleted.
LEMMA BootReplacedL ==
  ASSUME IInv, LInv, boot.ph = "items", NEW b \in Blocks, NEW i \in Nat, b = boot.b, i = boot.i,
         boot'.ph # "up", boot'.b = b, boot'.i = i + 1, UNCHANGED <<gc, may, exposed>>, Boots,
         NEW q0 \in Positions, NEW s \in Positions, s = <<b, i>>, NEW k0 \in Keys,
         Live(s, k0), ItemAt(s).origin = q0, q0 # s, Live(q0, k0),
         \A p \in Positions : /\ p # q0 /\ Written(p) => ItemAt(p)' = ItemAt(p)
                              /\ \A k : Live(p, k)' <=> Live(p, k) /\ p # q0
  PROVE  \A k \in Keys \ exposed' : Pairs(k)' /\ Originals(k)' /\ Values(k)'
<1>1. /\ TypeOK /\ CopyInv /\ \A t \in Tasks : pc[t] # "delete"
      /\ gc.pc = "off" /\ s[1] = b /\ s[2] = i
  BY PositionFacts DEF IInv, LInv, LockInv
<1>2. ASSUME NEW p \in Positions, NEW q \in Positions, q # s, p[1] = q[1], Ahead(p, q)
      PROVE  Ahead(p, q)'
  <2>1. p[1] \in Blocks /\ q[2] \in 1 .. SIZE /\ SIZE \in Nat /\ q = <<q[1], q[2]>>
    BY PositionFacts, SizeFacts
  <2>2. CASE p[1] > b
    BY <2>2 DEF Ahead
  <2>3. CASE ~(p[1] > b)
    <3>1. p[1] = b /\ q[2] >= i
      BY <1>2, <2>3 DEF Ahead
    <3>2. q[2] # i
      BY <1>2, <2>1, <3>1
    <3>3. q[2] >= i + 1
      BY <2>1, <3>1, <3>2
    <3> QED BY <3>1, <3>3 DEF Ahead
  <2> QED BY <2>2, <2>3
<1>3. ASSUME NEW k \in Keys \ exposed, k # k0 PROVE Pairs(k)' /\ Originals(k)' /\ Values(k)'
  <2>1. ~Live(s, k) /\ ~Live(q0, k)
    BY <1>3 DEF Live
  <2>2. \A p \in Positions : (Live(p, k)' <=> Live(p, k)) /\ (Live(p, k) => ItemAt(p)' = ItemAt(p))
    BY <2>1 DEF Live
  <2> QED BY <1>2, <1>3, <2>1, <2>2, BootKey
<1>4. ASSUME k0 \notin exposed PROVE Pairs(k0)' /\ Originals(k0)' /\ Values(k0)'
  <2>1. Pairs(k0) /\ Originals(k0) /\ Values(k0)
    BY <1>4 DEF LInv, KeyInv
  <2>2. \A p \in Positions : Live(p, k0) => p[1] \in Blocks /\ flash[p[1]].items # <<>>
    BY <1>1, LiveFacts
  <2>3. \A c \in Blocks : flash[c].items # <<>> =>
         /\ flash[c].state = "dirty" => flash'[c].state = "dirty"
         /\ flash'[c].state = "clean" <=> flash[c].state = "clean"
         /\ flash'[c].state = "clean" /\ flash'[Other(c)].state = "dirty"
              => flash[Other(c)].state = "dirty"
    BY <1>1, BootsCopies
  <2>4. \A p \in Positions : Live(p, k0)' => Live(p, k0) /\ p # q0 /\ ItemAt(p)' = ItemAt(p)
    BY DEF Live
  <2>5. ASSUME NEW p \in Positions, NEW q \in Positions, Live(p, k0)', Live(q, k0)', Update(k0, p, q),
               p[1] = q[1], p[2] < q[2]
        PROVE  Update(k0, p, q)'
    <3>1. ItemAt(q).origin = p /\ ItemAt(q)' = ItemAt(q) /\ Ahead(p, q) /\ p # q0
      BY <1>1, <2>4, <2>5 DEF Update, Ahead
    <3>2. q # s
      BY <3>1
    <3>3. Ahead(p, q)'
      BY <1>2, <2>5, <3>1, <3>2
    <3>4. \A r \in Positions : Live(r, k0)' => r[1] = p[1]
      BY <2>4, <2>5 DEF Update
    <3> QED BY <3>1, <3>3, <3>4 DEF Update, Ahead
  <2>6. ASSUME NEW p \in Positions, NEW q \in Positions, Live(p, k0)', Live(q, k0)', Copy(k0, p, q)
        PROVE  Copy(k0, p, q)'
    <3>1. flash'[p[1]].state = "dirty" /\ flash'[q[1]].state = "clean"
      BY <2>2, <2>3, <2>4, <2>6 DEF Copy
    <3>2. ItemAt(q)' = ItemAt(q) /\ ItemAt(p)' = ItemAt(p)
      BY <2>4, <2>6
    <3> QED BY <2>6, <3>1, <3>2 DEF Copy
  <2>7. Pairs(k0)'
    BY <2>1, <2>4, <2>5, <2>6 DEF Pairs
  <2>8. Live(s, k0)'
    OBVIOUS
  <2>9. Originals(k0)'
    <3> SUFFICES ASSUME NEW r \in Positions, Live(r, k0)', flash'[r[1]].state = "clean",
                        flash'[Other(r[1])].state = "dirty"
                 PROVE  \E p \in Positions : p[1] = Other(r[1]) /\ Live(p, k0)'
      BY <1>1 DEF Originals
    <3>1. Live(r, k0) /\ flash[r[1]].state = "clean" /\ flash[Other(r[1])].state = "dirty"
      BY <2>2, <2>3, <2>4
    <3>2. PICK p \in Positions : p[1] = Other(r[1]) /\ Live(p, k0)
      BY <2>1, <3>1 DEF Originals
    <3>3. CASE p # q0
      BY <3>2, <3>3
    <3>4. CASE p = q0
      <4>1. s[1] # r[1]
        <5>1. ASSUME s[1] = r[1] PROVE FALSE
          <6>1. q0[1] # s[1] /\ flash[s[1]].state = "clean"
            BY <3>1, <3>2, <3>4, <5>1, PositionFacts, BlockFacts
          <6>2. Copy(k0, q0, s) \/ Copy(k0, s, q0)
            BY <2>1, <6>1 DEF Pairs
          <6>3. ItemAt(q0).origin # q0 /\ ItemAt(s).origin = ItemAt(q0).origin
            BY <6>1, <6>2 DEF Copy
          <6> QED BY <6>3
        <5> QED BY <5>1
      <4>2. s[1] = Other(r[1])
        BY <4>1, PositionFacts, BlockFacts
      <4> QED BY <2>8, <4>2
    <3> QED BY <3>3, <3>4
  <2>10. Values(k0)'
    BY <2>1, <2>4, <2>8 DEF Values
  <2> QED BY <2>7, <2>9, <2>10
<1> QED BY <1>3, <1>4

\* An item is passed in a step that writes nothing: the pairs of which it is not
\* the newer item are still to come.
LEMMA PassOne ==
  ASSUME NEW b \in Blocks, NEW i \in Nat, b = boot.b, i = boot.i,
         boot'.b = b, boot'.i = i + 1, NEW p \in Positions, NEW q \in Positions,
         q # <<b, i>>, p[1] = q[1], Ahead(p, q)
  PROVE  Ahead(p, q)'
<1>1. p[1] \in Blocks /\ q[2] \in 1 .. SIZE /\ SIZE \in Nat /\ q = <<q[1], q[2]>>
  BY PositionFacts, SizeFacts
<1>2. CASE p[1] > b
  BY <1>2 DEF Ahead
<1>3. CASE ~(p[1] > b)
  <2>1. p[1] = b /\ q[2] >= i
    BY <1>3 DEF Ahead
  <2>2. q[2] # i
    BY <1>1, <2>1
  <2>3. q[2] >= i + 1
    BY <1>1, <2>1, <2>2
  <2> QED BY <2>1, <2>3 DEF Ahead
<1> QED BY <1>2, <1>3

\* An update that cannot be finished: from now on its key is exempt.
LEMMA BootReplaceFailsL == ASSUME IInv, LInv, BootReplaceFails PROVE LInv'
<1>1. /\ boot.ph = "items" /\ boot' = [boot EXCEPT !.i = @ + 1]
      /\ exposed' = exposed \cup {ItemAt(<<boot.b, boot.i>>).key}
      /\ UNCHANGED <<flash, gc, pc, op, may>>
      /\ TypeOK /\ BootInv /\ CopyInv
  BY DEF IInv, LInv, BootReplaceFails, store, gcvars, tasks
<1>2. /\ boot \in [ph : {"head", "items", "unclean", "astray"}, b : 0 .. 2, i : Nat \ {0}]
      /\ boot.b \in Blocks
  BY <1>1 DEF BootInv, Blocks
<1>3. PICK b \in Blocks, i \in Nat : b = boot.b /\ i = boot.i
  BY <1>2
<1>4. boot'.ph # "up" /\ boot'.b = b /\ boot'.i = i + 1
  BY <1>1, <1>2, <1>3
<1>5. Boots /\ CopyInv'
  BY <1>1, BootsCopies DEF Boots
<1>6. \A p \in Positions : ItemAt(p)' = ItemAt(p) /\ \A k : Live(p, k)' <=> Live(p, k)
  BY <1>1, SameItems
<1>7. ASSUME NEW k \in Keys \ exposed' PROVE Pairs(k)' /\ Originals(k)' /\ Values(k)'
  <2>1. ~Live(<<b, i>>, k) /\ k \in Keys \ exposed /\ may'[k] = may[k]
    BY <1>1, <1>3, <1>7 DEF Live
  <2>2. \A p, q \in Positions : Live(q, k) /\ p[1] = q[1] /\ Ahead(p, q) => Ahead(p, q)'
    BY <1>3, <1>4, <2>1, PassOne
  <2> QED BY <1>1, <1>4, <1>5, <1>6, <2>1, <2>2, BootKey
<1> QED BY <1>1, <1>5, <1>7, BootL

\* The rest of a CLEAN block beside one in use is not read: it holds no updates
\* that have yet to be finished.  A store that is led astray stays as it is.
LEMMA BootItemFailsL == ASSUME IInv, LInv, BootItemFails PROVE LInv'
<1>1. /\ boot.ph = "items" /\ boot.b \in Blocks
      /\ UNCHANGED <<flash, wblk, gc, pc, op, may, exposed>>
      /\ \/ boot' = [boot EXCEPT !.ph = "astray"]
         \/ /\ flash[boot.b].state = "clean" /\ flash[Other(boot.b)].state \in {"used", "dirty"}
            /\ boot' = NextBlock
      /\ TypeOK /\ BootInv /\ CopyInv
  BY BootItemFailsFacts DEF IInv, LInv, gcvars, tasks
<1>2. boot \in [ph : {"head", "items", "unclean", "astray"}, b : 0 .. 2, i : Nat \ {0}]
  BY <1>1 DEF BootInv
<1>3. PICK b \in Blocks, i \in Nat : b = boot.b /\ i = boot.i
  BY <1>1, <1>2
<1>4. boot'.ph # "up"
  BY <1>1, <1>2 DEF NextBlock
<1>5. Boots /\ CopyInv'
  BY <1>1, BootsCopies DEF Boots
<1>6. \A p \in Positions : ItemAt(p)' = ItemAt(p) /\ \A k : Live(p, k)' <=> Live(p, k)
  BY <1>1, SameItems
<1>7. ASSUME NEW k \in Keys \ exposed' PROVE Pairs(k)' /\ Originals(k)' /\ Values(k)'
  <2>1. Originals(k) /\ k \in Keys \ exposed /\ may'[k] = may[k]
    BY <1>1, <1>7 DEF LInv, KeyInv
  <2>2. ASSUME NEW p \in Positions, NEW q \in Positions, Live(q, k), p[1] = q[1],
               Update(k, p, q), Ahead(p, q)
        PROVE  Ahead(p, q)'
    <3>1. CASE boot' = [boot EXCEPT !.ph = "astray"]
      BY <1>2, <2>2, <3>1 DEF Ahead
    <3>2. CASE /\ flash[b].state = "clean" /\ flash[Other(b)].state \in {"used", "dirty"}
               /\ boot' = NextBlock
      <4>1. boot'.b = b + 1 /\ boot'.i = 1
        BY <1>3, <3>2 DEF NextBlock
      <4>2. q[1] \in Blocks /\ q[2] \in 1 .. SIZE /\ SIZE \in Nat
        BY PositionFacts, SizeFacts
      <4>3. q[1] # b
        <5> SUFFICES ASSUME q[1] = b PROVE FALSE
          OBVIOUS
        <5>1. flash[b].items # <<>>
          BY <1>1, <2>2, LiveFacts
        <5>2. flash[Other(b)].state = "dirty"
          BY <1>1, <3>2, <5>1 DEF CopyInv
        <5>3. PICK r \in Positions : r[1] = Other(b) /\ Live(r, k)
          BY <2>1, <2>2, <3>2, <5>2 DEF Originals
        <5>4. r[1] = b
          BY <2>2, <5>3 DEF Update
        <5> QED BY <5>3, <5>4, BlockFacts
      <4>4. p[1] > b
        BY <1>3, <2>2, <4>3 DEF Ahead
      <4>5. p[1] >= b + 1 /\ q[2] >= 1
        BY <2>2, <4>2, <4>4 DEF Blocks
      <4> QED BY <2>2, <4>1, <4>2, <4>5 DEF Ahead, Blocks
    <3> QED BY <1>1, <1>3, <3>1, <3>2
  <2> QED BY <1>1, <1>4, <1>5, <1>6, <2>1, <2>2, BootKey
<1> QED BY <1>1, <1>5, <1>7, BootL

\* __item_recovery_cb() on one item.
LEMMA BootItemL == ASSUME IInv, LInv, BootItem PROVE LInv'
<1>1. TypeOK /\ BootInv /\ CopyInv /\ flash \in Flash /\ info \in Infos
  BY TypeFacts DEF IInv, LInv
<1>2. PICK b \in Blocks, i \in Nat \ {0} :
           /\ boot.ph = "items" /\ boot.b = b /\ boot.i = i /\ i <= Len(flash[b].items)
           /\ boot' = [boot EXCEPT !.i = i + 1]
           /\ UNCHANGED <<wblk, lock, gcvars, tasks, ghosts>>
           /\ \/ /\ flash' = flash /\ info' = info /\ flash[b].items[i].st = "normal"
                 /\ Replaced(<<b, i>>) = None
              \/ \E m \in Blocks, f \in Flash :
                   /\ flash' = MarkFlash(f, m) /\ info' = MarkInfo(m)
                   /\ \/ m = b /\ f = flash /\ flash[b].items[i].st # "normal"
                      \/ \E q \in Positions :
                           /\ f = DeletedAt(q) /\ Written(q) /\ m = q[1]
                           /\ \/ flash[b].items[i].st = "body" /\ q = <<b, i>>
                              \/ /\ flash[b].items[i].st = "normal"
                                 /\ q = ItemAt(<<b, i>>).origin /\ q # <<b, i>>
                                 /\ Live(q, ItemAt(<<b, i>>).key)
  BY BootItemFacts
<1>3. boot \in [ph : {"head", "items", "unclean", "astray"}, b : 0 .. 2, i : Nat \ {0}]
      /\ \A c \in Blocks : info[c] = "used" => flash[c].state = "used"
  <2>1. boot.ph # "up"
    BY <1>2
  <2>2. \A c \in Blocks : info[c] = "used" => Read(c)
    BY <1>1, <2>1 DEF BootInv
  <2> QED BY <1>1, <2>1, <2>2 DEF BootInv
<1>4. /\ boot'.ph = "items" /\ boot'.b = b /\ boot'.i = i + 1
      /\ UNCHANGED <<wblk, gc, pc, op, may, exposed>>
  BY <1>2, <1>3 DEF gcvars, tasks, ghosts
<1>5. PICK s : s = <<b, i>>
  OBVIOUS
<1>6. s \in Positions /\ s[1] = b /\ s[2] = i /\ Written(s) /\ ItemAt(s) = flash[b].items[i]
  <2>1. i \in 1 .. SIZE
    BY SMTT(40), <1>1, <1>2, TypeFacts, SizeFacts
  <2>2. s \in Positions /\ s[1] = b /\ s[2] = i
    BY <1>5, <2>1, PositionFacts
  <2> QED BY <1>2, <2>2 DEF Written, ItemAt
<1>7. ASSUME NEW m \in Blocks, NEW f \in Flash, flash' = MarkFlash(f, m),
             \A c \in Blocks : f[c].state = flash[c].state /\ Len(f[c].items) = Len(flash[c].items)
      PROVE  /\ Boots
             /\ \A c \in Blocks : flash'[c].items = f[c].items
  <2>1. \A c \in Blocks : /\ flash'[c].items = f[c].items
                          /\ flash'[c].state =
                               IF c = m /\ info[m] = "used" THEN "dirty" ELSE f[c].state
    BY SMTT(40), <1>1, <1>7, MarkFacts
  <2>2. \A c \in Blocks : flash'[c].items = <<>> <=> flash[c].items = <<>>
    <3> SUFFICES ASSUME NEW c \in Blocks PROVE flash'[c].items = <<>> <=> flash[c].items = <<>>
      OBVIOUS
    <3>1. f[c].items \in Seq(Items) /\ flash[c].items \in Seq(Items)
      BY <1>1 DEF Flash
    <3>2. PICK x, y \in Seq(Items) : x = f[c].items /\ y = flash[c].items
      BY <3>1
    <3>3. x \in Seq(Items) /\ Len(x) = Len(y) /\ flash'[c].items = x
      BY <1>7, <2>1, <3>1, <3>2
    <3>4. x = <<>> <=> y = <<>>
      BY <3>2, <3>3, EmptySeq
    <3> QED BY <3>2, <3>3, <3>4
  <2> QED BY <1>3, <1>7, <2>1, <2>2 DEF Boots
<1>8. \A p, q \in Positions : q # s /\ p[1] = q[1] /\ Ahead(p, q) => Ahead(p, q)'
  <2> SUFFICES ASSUME NEW p \in Positions, NEW q \in Positions, q # s, p[1] = q[1], Ahead(p, q)
               PROVE  Ahead(p, q)'
    OBVIOUS
  <2>1. p[1] \in Blocks /\ q[2] \in 1 .. SIZE /\ SIZE \in Nat /\ q = <<q[1], q[2]>>
    BY PositionFacts, SizeFacts
  <2>2. CASE p[1] > b
    BY <1>4, <2>2 DEF Ahead
  <2>3. CASE ~(p[1] > b)
    <3>1. p[1] = b /\ q[2] >= i
      BY <1>2, <2>3 DEF Ahead
    <3>2. q[2] # i
      BY <1>5, <2>1, <3>1
    <3>3. q[2] >= i + 1
      BY <2>1, <3>1, <3>2
    <3> QED BY <1>4, <3>1, <3>3 DEF Ahead
  <2> QED BY <2>2, <2>3
<1>9. CASE flash' = flash /\ ItemAt(s).st = "normal" /\ Replaced(s) = None
  <2>1. Boots /\ CopyInv'
    BY <1>1, <1>9, BootsCopies DEF Boots
  <2>2. \A p \in Positions : ItemAt(p)' = ItemAt(p) /\ \A k : Live(p, k)' <=> Live(p, k)
    BY <1>9, SameItems
  <2>3. ASSUME NEW k \in Keys \ exposed', NEW p \in Positions, NEW q \in Positions, Live(p, k),
               Live(q, k), ItemAt(q).origin = p, p[1] = q[1], p[2] < q[2]
        PROVE  q # s
    <3>1. p # q /\ p # None /\ ItemAt(q).key = k
      BY <2>3, PositionFacts, SizeFacts DEF Live
    <3>2. Replaced(q) = p
      BY <2>3, <3>1 DEF Replaced
    <3> QED BY <1>9, <3>1, <3>2
  <2>4. \A k \in Keys \ exposed' : Pairs(k)' /\ Originals(k)' /\ Values(k)'
    BY <1>2, <1>4, <1>8, <2>1, <2>2, <2>3, BootKey
  <2> QED BY <1>2, <1>4, <2>1, <2>4, BootL
<1>10. ASSUME NEW f \in Flash, NEW m \in Blocks, flash' = MarkFlash(f, m),
              ItemAt(s).st # "normal", f = flash \/ (f = DeletedAt(s))
       PROVE  LInv'
  <2>1. Boots /\ \A c \in Blocks : flash'[c].items = f[c].items
    BY <1>1, <1>6, <1>7, <1>10, DeleteFacts
  <2>2. CopyInv'
    BY <1>1, <2>1, BootsCopies
  <2>3. \A k : ~Live(s, k)
    BY <1>10 DEF Live
  <2>4. \A p \in Positions : \A k : /\ Live(p, k)' <=> Live(p, k)
                                    /\ Live(p, k) => ItemAt(p)' = ItemAt(p)
    <3>1. CASE f = flash
      BY <2>1, <3>1, SameItems
    <3>2. CASE f = DeletedAt(s)
      <4>1. \A p \in Positions : /\ p # s /\ Written(p) => ItemAt(p)' = ItemAt(p)
                                 /\ \A k : Live(p, k)' <=> Live(p, k) /\ p # s
        BY <1>1, <1>6, <2>1, <3>2, DeleteLive
      <4> QED BY <2>3, <4>1 DEF Live
    <3> QED BY <1>10, <3>1, <3>2
  <2>5. \A k \in Keys \ exposed' : Pairs(k)' /\ Originals(k)' /\ Values(k)'
    BY <1>2, <1>4, <1>8, <2>1, <2>3, <2>4, BootKey
  <2> QED BY <1>2, <1>4, <2>2, <2>5, BootL
<1>11. ASSUME NEW f \in Flash, NEW m \in Blocks, flash' = MarkFlash(f, m),
              NEW q \in Positions, f = DeletedAt(q), Written(q), ItemAt(s).st = "normal",
              q = ItemAt(s).origin, q # s, Live(q, ItemAt(s).key)
       PROVE  LInv'
  <2>1. Boots /\ \A c \in Blocks : flash'[c].items = f[c].items
    BY <1>1, <1>7, <1>11, DeleteFacts
  <2>2. CopyInv'
    BY <1>1, <2>1, BootsCopies
  <2>3. \A p \in Positions : /\ p # q /\ Written(p) => ItemAt(p)' = ItemAt(p)
                             /\ \A k : Live(p, k)' <=> Live(p, k) /\ p # q
    BY <1>1, <1>11, <2>1, DeleteLive
  <2>4. PICK k0 \in Keys : k0 = ItemAt(s).key
    BY <1>1, <1>6, <1>11, ItemFacts
  <2>5. Live(s, k0) /\ Live(q, k0)
    BY Zenon, <1>6, <1>11, <2>4 DEF Live
  <2>6. \A k \in Keys \ exposed' : Pairs(k)' /\ Originals(k)' /\ Values(k)'
    BY <1>2, <1>4, <1>5, <1>6, <1>11, <2>1, <2>3, <2>5, BootReplacedL
  <2> QED BY <1>2, <1>4, <2>2, <2>6, BootL
<1>12. CASE \E m \in Blocks, f \in Flash :
                   /\ flash' = MarkFlash(f, m) /\ info' = MarkInfo(m)
                   /\ \/ m = b /\ f = flash /\ flash[b].items[i].st # "normal"
                      \/ \E q \in Positions :
                           /\ f = DeletedAt(q) /\ Written(q) /\ m = q[1]
                           /\ \/ flash[b].items[i].st = "body" /\ q = <<b, i>>
                              \/ /\ flash[b].items[i].st = "normal"
                                 /\ q = ItemAt(<<b, i>>).origin /\ q # <<b, i>>
                                 /\ Live(q, ItemAt(<<b, i>>).key)
  BY <1>5, <1>6, <1>10, <1>11, <1>12
<1> QED BY <1>2, <1>5, <1>6, <1>9, <1>12

\* A CLEAN block with items: its items are the copies that are left, or there
\* is an original for each of them.
LEMMA BootUncleanL == ASSUME IInv, LInv, BootUnclean PROVE LInv'
<1>1. /\ TypeOK /\ BootInv /\ CopyInv /\ flash \in Flash /\ boot.ph = "unclean"
      /\ UNCHANGED <<wblk, gc, boot, pc, op, may, exposed>>
      /\ \A t \in Tasks : pc[t] # "delete"
  BY TypeFacts DEF IInv, LInv, LockInv, BootUnclean, gcvars, tasks, ghosts
<1>2. boot.b = 2 /\ gc.pc = "off"
  BY <1>1 DEF BootInv, IInv, LockInv
<1>3. PICK b \in Unclean : IF KeepCopies THEN flash' = [flash EXCEPT ![b].state = "dirty"]
                                         ELSE flash' = Formatted(b)
  <2>1. PICK b : b = CHOOSE c \in Unclean : \A d \in Unclean : d <= c
    OBVIOUS
  <2>2. b \in Unclean
    BY <2>1, UncleanBlock DEF BootUnclean
  <2> QED BY <2>1, <2>2 DEF BootUnclean
<1>4. PICK o \in Blocks : /\ o = Other(b) /\ b = Other(o) /\ b # o /\ b \in Blocks
                          /\ \A c \in Blocks : c = b \/ c = o
  BY BlockFacts DEF Unclean
<1>5. /\ flash[b].state = "clean" /\ ~Empty(b) /\ flash[b].items # <<>>
      /\ flash[o].state \in {"clean", "used", "dirty"}
      /\ KeepCopies <=> Empty(o)
  <2>1. /\ \A c \in Blocks : info[c] = flash[c].state /\ info[c] \in {"clean", "used", "dirty"}
        /\ clean = (IF Empty(0) THEN 1 ELSE 0) + (IF Empty(1) THEN 1 ELSE 0)
        /\ \A c \in Blocks : c \in Unclean <=> info[c] = "clean" /\ ~Empty(c)
    BY <1>1, UncleanFacts
  <2>2. clean >= 1 <=> Empty(0) \/ Empty(1)
    <3>1. CASE Empty(0) /\ Empty(1)
      BY <2>1, <3>1
    <3>2. CASE Empty(0) /\ ~Empty(1)
      BY <2>1, <3>2
    <3>3. CASE ~Empty(0) /\ Empty(1)
      BY <2>1, <3>3
    <3>4. CASE ~Empty(0) /\ ~Empty(1)
      BY <2>1, <3>4
    <3> QED BY <3>1, <3>2, <3>3, <3>4
  <2>3. ~Empty(b)
    BY <1>4, <2>1
  <2>4. KeepCopies <=> Empty(o)
    BY <1>4, <2>2, <2>3, BlockFacts DEF KeepCopies
  <2> QED BY <1>4, <2>1, <2>3, <2>4 DEF Empty
<1>6. ASSUME NEW k \in Keys \ exposed
      PROVE  SinglePer(k) /\ Originals(k) /\ Values(k)
  <2>1. Pairs(k) /\ Originals(k) /\ Values(k)
    BY <1>6 DEF LInv, KeyInv
  <2> QED BY <1>1, <1>2, <2>1, NoUpdate
<1>7. CASE Empty(o)
  <2>1. flash' = WithState(flash, b, "dirty")
    BY <1>3, <1>5, <1>7 DEF WithState
  <2>2. /\ flash'[b].state = "dirty" /\ flash'[b].items = flash[b].items
        /\ flash'[o] = flash[o]
    <3>1. flash \in Flash /\ b \in Blocks /\ "dirty" \in States
      BY <1>1, <1>4 DEF States
    <3>2. /\ flash'[b].state = "dirty" /\ flash'[b].items = flash[b].items
          /\ flash'[Other(b)] = flash[Other(b)]
      BY <2>1, <3>1, StateFacts
    <3> QED BY <1>4, <3>2
  <2>3. flash[o].items = <<>>
    BY <1>7 DEF Empty
  <2>4. \A p \in Positions : ItemAt(p)' = ItemAt(p) /\ \A k : Live(p, k)' <=> Live(p, k)
    <3>1. \A c \in Blocks : flash'[c].items = flash[c].items
      BY <1>4, <2>2
    <3> QED BY <3>1, SameItems
  <2>5. \A p \in Positions : \A k : Live(p, k) => p[1] = b
    BY <1>1, <1>4, <2>3, LiveFacts
  <2>6. CopyInv'
    BY <1>4, <2>2, <2>3 DEF CopyInv
  <2>7. ASSUME NEW k \in Keys \ exposed' PROVE Pairs(k)' /\ Originals(k)' /\ Values(k)'
    <3>1. SinglePer(k) /\ Values(k)
      BY <1>1, <1>6
    <3>2. Single(k)'
      BY <2>4, <2>5, <3>1 DEF SinglePer, Single
    <3>3. Originals(k)'
      BY <2>2, <2>4, <2>5 DEF Originals
    <3>4. Values(k)'
      BY <1>1, <2>4, <3>1 DEF Values
    <3> QED BY <3>2, <3>3, <3>4, SinglePairs
  <2> QED BY <1>1, <2>6, <2>7, BootL
<1>8. CASE ~Empty(o)
  <2>1. flash' = [flash EXCEPT ![b] = [state |-> "clean", items |-> <<>>]]
    BY <1>3, <1>5, <1>8 DEF Formatted
  <2>2. flash'[b].items = <<>> /\ flash'[o] = flash[o]
    BY SMTT(40), <1>1, <1>4, <2>1, FormatFacts DEF States
  <2>3. flash[o].state = "dirty"
    BY <1>1, <1>4, <1>5, <1>8 DEF CopyInv, Empty
  <2>4. \A p \in Positions : \A k : /\ Live(p, k)' <=> Live(p, k) /\ p[1] = o
                                    /\ Live(p, k) /\ p[1] = o => ItemAt(p)' = ItemAt(p)
    BY <1>1, <1>4, <2>1, FormatErases DEF Erases, States
  <2>5. CopyInv'
    BY <1>4, <2>2, <2>3 DEF CopyInv
  <2>6. ASSUME NEW k \in Keys \ exposed' PROVE Pairs(k)' /\ Originals(k)' /\ Values(k)'
    <3>1. SinglePer(k) /\ Originals(k) /\ Values(k)
      BY <1>1, <1>6
    <3>2. Single(k)'
      BY <2>4, <3>1 DEF SinglePer, Single
    <3>3. Originals(k)'
      BY <2>2, <2>3, <2>4 DEF Originals
    <3>4. ASSUME \A p \in Positions : ~Live(p, k)', NEW p \in Positions PROVE ~Live(p, k)
      <4>1. p[1] = b \/ p[1] = o
        BY <1>4, PositionFacts
      <4>2. ASSUME Live(p, k), p[1] = b PROVE \E q \in Positions : q[1] = o /\ Live(q, k)
        BY <1>4, <1>5, <2>3, <3>1, <4>2 DEF Originals
      <4> QED BY <2>4, <3>4, <4>1, <4>2
    <3>5. (\A p \in Positions : ~Live(p, k)') => \A p \in Positions : ~Live(p, k)
      BY <3>4
    <3>6. \A p \in Positions : Live(p, k)' => ItemAt(p)' = ItemAt(p) /\ Live(p, k)
      BY <2>4
    <3>7. may'[k] = may[k]
      BY <1>1
    <3>8. Values(k)'
      BY <3>1, <3>5, <3>6, <3>7 DEF Values
    <3> QED BY <3>2, <3>3, <3>8, SinglePairs
  <2> QED BY <1>1, <2>5, <2>6, BootL
<1> QED BY <1>7, <1>8

\* kv_init() returns: what a read finds now is what it will find.
LEMMA BootReadyL == ASSUME IInv, IInv', LInv, BootReady PROVE LInv'
<1>1. /\ TypeOK /\ boot.ph = "unclean" /\ boot' = Up /\ UNCHANGED <<pc, op, exposed>>
      /\ TriggerStep
      /\ may' = [k \in Keys |-> IF ValueOf(k) \in may[k] THEN {ValueOf(k)} ELSE may[k]]
  BY BootReadyFacts DEF BootReady, IInv
<1>2. PICK w \in Blocks :
         /\ flash'[Other(w)] = flash[Other(w)] /\ Empty(Other(w))
         /\ flash'[w].items = flash[w].items
         /\ info[w] \in {"used", "dirty"} \/ Empty(w)
  BY BootReadyFacts
<1>3. /\ gc'.pc \notin Collecting /\ boot'.ph = "up" /\ boot.b = 2
      /\ \A t \in Tasks : pc[t] \notin Holding /\ pc[t] # "delete"
  <2>1. LockInv /\ WaitInv /\ gc.pc \notin Collecting /\ \A t \in Tasks : pc[t] = "idle"
    BY <1>1 DEF IInv, LockInv, Collecting
  <2>2. gc' \in [pc : {"off", "none", "lock"}, i : Nat]
    BY <1>1, <2>1, TriggerFacts
  <2>3. gc'.pc \notin Collecting
    BY <2>2 DEF Collecting
  <2>4. boot.b = 2
    BY <1>1 DEF IInv, BootInv
  <2> QED BY <1>1, <2>1, <2>3, <2>4 DEF Up, Holding
<1>4. \A p \in Positions : ItemAt(p)' = ItemAt(p) /\ \A k : Live(p, k)' <=> Live(p, k)
  <2>1. \A c \in Blocks : flash'[c].items = flash[c].items
    BY <1>2, BlockFacts
  <2> QED BY <2>1, SameItems
<1>5. \A p \in Positions : \A k : Live(p, k) => p[1] = w /\ info[p[1]] # "clean"
  <2>1. \A p \in Positions : \A k : Live(p, k) => p[1] \in Blocks /\ flash[p[1]].items # <<>>
    BY <1>1, LiveFacts
  <2> QED BY <1>2, <2>1, BlockFacts DEF Empty
<1>6. CopyInv' /\ \A k : Originals(k)' /\ Copies(k)'
  BY <1>3, SettledKey
<1>7. ASSUME NEW k \in Keys \ exposed' PROVE Pairs(k)' /\ Values(k)'
  <2>1. Pairs(k) /\ Values(k)
    BY <1>1, <1>7 DEF LInv, KeyInv
  <2>2. SinglePer(k)
    BY <1>3, <2>1, NoUpdate
  <2>3. Single(k) /\ Single(k)'
    BY <1>4, <1>5, <2>2 DEF SinglePer, Single
  <2>4. PICK v : v = ValueOf(k)
    OBVIOUS
  <2> DEFINE S == {q \in Positions : info[q[1]] # "clean" /\ Live(q, k)}
  <2>5. /\ \A p \in Positions : Live(p, k) => ItemAt(p).val = v
        /\ (\A p \in Positions : ~Live(p, k)) => v = None
    <3>1. Find(k) = FirstOf(S) /\ S \subseteq Positions /\ \A p \in Positions : p \in S <=> Live(p, k)
      BY <1>5 DEF Find
    <3> HIDE DEF S
    <3>2. CASE S = {}
      BY <2>4, <3>1, <3>2 DEF ValueOf, FirstOf
    <3>3. CASE S # {}
      <4>1. PICK p : p = Find(k) /\ p \in S /\ p # None
        BY <3>1, <3>3, FirstFacts
      <4>2. v = ItemAt(p).val
        BY <2>4, <4>1 DEF ValueOf
      <4> QED BY <2>3, <3>1, <4>1, <4>2 DEF Single
    <3> QED BY <3>2, <3>3
  <2>6. v \in may[k]
    BY <2>1, <2>5 DEF Values
  <2>7. may'[k] = {v}
    BY <1>1, <1>7, <2>4, <2>6
  <2>8. Values(k)'
    BY <1>4, <2>5, <2>7 DEF Values
  <2> QED BY <2>3, <2>8, SinglePairs
<1> QED BY <1>1, <1>3, <1>6, <1>7, CollectL

\* Power fails: what is written is what a boot has to work with.
LEMMA PowerFailsL == ASSUME IInv, LInv, PowerFails PROVE LInv'
<1>1. /\ TypeOK /\ CopyInv /\ exposed' = exposed \cup Undermined /\ may' = may
      /\ gc' = Idle /\ boot' = [ph |-> "head", b |-> 0, i |-> 1]
      /\ pc' = [t \in Tasks |-> "idle"] /\ op' = [t \in Tasks |-> NoOp]
  BY DEF PowerFails, IInv, LInv
<1>2. PICK w \in Blocks, o \in Blocks :
         w = wblk /\ o = Other(w) /\ w = Other(o) /\ w # o /\ \A c \in Blocks : c = w \/ c = o
  BY <1>1, TypeFacts, BlockFacts
<1>3. PICK n \in Nat : n = Len(flash[w].items)
  BY SMTT(40), <1>1, TypeFacts
<1>4. /\ \A c \in Blocks : flash'[c].state = flash[c].state
      /\ flash'[o] = flash[o]
      /\ Len(flash'[w].items) \in {n, n + 1}
      /\ \A i \in 1 .. n : flash'[w].items[i] = flash[w].items[i]
      /\ flash'[w].items = flash[w].items \/
           /\ Writing
           /\ Len(flash'[w].items) = n + 1
           /\ flash'[w].items[n + 1].st \in {"header", "body"}
  BY ZenonT(60), <1>2, <1>3, PowerFacts
<1>5. gc'.pc = "off" /\ boot'.ph = "head" /\ boot'.b = 0 /\ boot'.i = 1
  BY <1>1 DEF Idle
<1>6. \A p \in Positions : \A k : Live(p, k)' <=> Live(p, k)
  BY PowerLive DEF SameLive
<1>7. \A p \in Positions : \A k : Live(p, k) => ItemAt(p)' = ItemAt(p)
  BY PowerLive DEF SameLive
<1>8. ASSUME flash'[w].items # flash[w].items
      PROVE  \/ flash[w].state # "clean" /\ flash[o].items = <<>>
             \/ flash[w].state = "clean" /\ flash[o].state = "dirty"
  <2>1. Writing
    BY Zenon, <1>4, <1>8
  <2>2. ASSUME NEW t \in Tasks, pc[t] = "append"
        PROVE  flash[w].state # "clean" /\ flash[o].items = <<>>
    <3>1. /\ flash[wblk].state = info[wblk] /\ info[wblk] \in {"used", "dirty"}
          /\ Empty(Other(wblk))
      BY Zenon, <2>2, WriteFacts DEF Holding
    <3> QED BY Zenon, <1>2, <3>1 DEF Empty
  <2>3. ASSUME gc.pc = "copy" PROVE flash[w].state = "clean" /\ flash[o].state = "dirty"
    <3>1. Moving
      BY <2>3, GcFacts DEF Collecting
    <3> QED BY Zenon, <1>2, <2>3, <3>1 DEF Moving, From
  <2> QED BY <2>1, <2>2, <2>3 DEF Writing
<1>9. CopyInv'
  <2> SUFFICES ASSUME NEW b \in Blocks, flash'[b].state = "clean", flash'[b].items # <<>>
               PROVE  \/ flash'[Other(b)].state = "dirty"
                      \/ /\ flash'[Other(b)].state \in {"blank", "clean"}
                         /\ flash'[Other(b)].items = <<>>
    BY DEF CopyInv
  <2>1. CASE flash'[w].items = flash[w].items
    <3>1. \A c \in Blocks : flash'[c].items = flash[c].items /\ flash'[c].state = flash[c].state
      BY ZenonT(60), <1>2, <1>4, <2>1
    <3> QED BY Zenon, <1>1, <3>1, BlockFacts DEF CopyInv
  <2>2. CASE flash'[w].items # flash[w].items
    BY Zenon, <1>2, <1>4, <1>8, <2>2
  <2> QED BY <2>1, <2>2
<1>10. ASSUME NEW k \in Keys \ exposed' PROVE Pairs(k)' /\ Originals(k)' /\ Values(k)'
  <2>1. Pairs(k) /\ Originals(k) /\ Values(k) /\ k \notin Undermined
    BY <1>1, <1>10 DEF LInv, KeyInv
  <2>2. ASSUME NEW p \in Positions, NEW q \in Positions, Live(p, k), Live(q, k),
               Update(k, p, q), p[1] = q[1]
        PROVE  Update(k, p, q)'
    <3>1. ItemAt(q)'.origin = p
      BY <1>7, <2>2 DEF Update
    <3>2. \A r \in Positions : Live(r, k)' => r[1] = p[1]
      BY <1>6, <2>2 DEF Update
    <3>3. p[1] > 0 \/ (p[1] = 0 /\ q[2] >= 1)
      <4>1. p[1] \in {0, 1} /\ q[2] >= 1
        BY PositionFacts, SizeFacts DEF Blocks
      <4> QED BY <4>1
    <3>4. boot'.ph # "up" /\ (p[1] > boot'.b \/ (p[1] = boot'.b /\ q[2] >= boot'.i))
      BY <1>5, <3>3
    <3> QED BY <3>1, <3>2, <3>4 DEF Update
  <2>3. ASSUME NEW p \in Positions, NEW q \in Positions, Live(p, k), Live(q, k), Copy(k, p, q)
        PROVE  Copy(k, p, q)'
    <3>1. /\ flash[p[1]].state = "dirty" /\ flash[q[1]].state = "clean" /\ p[1] # q[1]
          /\ ItemAt(q).val = ItemAt(p).val /\ ItemAt(q).origin = ItemAt(p).origin
      BY <2>3 DEF Copy
    <3>2. ItemAt(p).origin # p
      BY <1>10, <2>1, <2>3, <3>1 DEF Undermined
    <3>3. ItemAt(p)' = ItemAt(p) /\ ItemAt(q)' = ItemAt(q)
      BY <1>7, <2>3
    <3>4. flash'[p[1]].state = "dirty" /\ flash'[q[1]].state = "clean"
      BY <1>4, <3>1, PositionFacts
    <3> QED BY <1>5, <3>1, <3>2, <3>3, <3>4 DEF Copy
  <2>4. Pairs(k)'
    BY <1>6, <2>1, <2>2, <2>3 DEF Pairs
  <2>5. Originals(k)'
    <3>1. \A c \in Blocks : /\ flash'[c].state = flash[c].state
                            /\ flash'[Other(c)].state = flash[Other(c)].state
      BY <1>4, BlockFacts
    <3> QED BY <1>5, <1>6, <2>1, <3>1, PositionFacts DEF Originals
  <2>6. Values(k)'
    BY <1>1, <1>6, <1>7, <2>1 DEF Values
  <2> QED BY <2>4, <2>5, <2>6
<1>11. ASSUME NEW t \in Tasks PROVE OwnOf(t)' /\ \A k : TaskOf(t, k)'
  <2>1. pc'[t] = "idle" /\ op'[t].val = None
    BY <1>1 DEF NoOp
  <2> QED BY <2>1, IdleTask
<1>12. OwnInv'
  BY <1>11 DEF OwnInv
<1>13. \A k : Copies(k)'
  BY <1>5 DEF Copies
<1>14. \A k \in Keys \ exposed' : KeyInv(k)'
  BY <1>10, <1>11, <1>13 DEF KeyInv
<1> QED BY <1>9, <1>12, <1>14 DEF LInv

\* A step that changes nothing.
LEMMA StutterL == ASSUME IInv, LInv, UNCHANGED vars PROVE LInv'
  BY WaitL DEF vars

\* The invariant is preserved by every step.
LEMMA LInvStep == IInv /\ LInv /\ [Next]_vars => LInv'
<1> SUFFICES ASSUME IInv, LInv, [Next]_vars PROVE LInv'
  OBVIOUS
<1>1. IInv'
  BY IInvStep
<1>2. CASE Boot
  BY <1>1, <1>2, BootHeadL, BootItemL, BootReplaceFailsL, BootItemFailsL, BootBlockDoneL,
     BootUncleanL, BootReadyL DEF Boot
<1>3. ASSUME NEW t \in Tasks, NEW k \in Keys, NEW v \in Vals, SetEnter(t, k, v) PROVE LInv'
  BY <1>3, EnterL
<1>4. ASSUME NEW t \in Tasks, NEW k \in Keys, Delete(t, k) PROVE LInv'
  BY <1>4, DeleteL
<1>5. ASSUME NEW t \in Tasks, NEW G \in Groups, DeleteByPrefix(t, G) PROVE LInv'
  BY <1>5, EnterL
<1>6. ASSUME NEW t \in Tasks, Work(t) PROVE LInv'
  <2>1. CASE SetCount(t) \/ SetTake(t)
    BY <2>1, EnterL
  <2>2. CASE SetLock(t) \/ SearchFails(t) \/ PrefixNext(t)
    BY <2>2, SetLockL, SearchFailsL, PrefixNextL
  <2>3. CASE AppendItem(t) \/ DeleteItem(t) \/ MarkDirty(t)
    BY <1>1, <2>3, AppendItemL, DeleteItemL, MarkDirtyL
  <2>4. CASE SetFails(t) \/ PrefixFails(t)
    BY <2>4, FailsL
  <2> QED BY <1>6, <2>1, <2>2, <2>3, <2>4 DEF Work
<1>7. CASE Collect
  BY <1>1, <1>7, GcLockL, GcCopyL, GcCopyFailsL, GcEraseL, GcHeaderL, GcUseL, GcPostL DEF Collect
<1>8. CASE PowerFails
  BY <1>8, PowerFailsL
<1>9. CASE UNCHANGED vars
  BY <1>9, StutterL
<1> QED BY <1>2, <1>3, <1>4, <1>5, <1>6, <1>7, <1>8, <1>9 DEF Next

\* What the store holds agrees with what its callers did: each item with its
\* update, each copy with its original, and the values with those a read may
\* return.
THEOREM StoredInv == Spec => [](IInv /\ LInv)
<1>1. Init => IInv /\ LInv
  BY InitIInv, InitL
<1>2. IInv /\ LInv /\ [Next]_vars => IInv' /\ LInv'
  BY IInvStep, LInvStep
<1> QED BY <1>1, <1>2, PTL DEF Spec

\* While nobody holds the lock every key that is not exempt has one live item,
\* or none, and the search finds it.
LEMMA QuietFacts ==
  ASSUME IInv, LInv, Quiet, NEW k \in Keys \ exposed
  PROVE  Single(k) /\ ValueOf(k) \in may[k]
<1>1. /\ TypeOK /\ lock = None /\ boot.ph = "up" /\ Pairs(k) /\ Values(k)
      /\ \A t \in Tasks : lock = t <=> pc[t] \in Holding
      /\ lock = Gc <=> gc.pc \in Collecting
  BY DEF Quiet, IsUp, Up, IInv, LockInv, LInv, KeyInv
<1>2. gc.pc \notin Collecting /\ \A t \in Tasks : pc[t] # "delete"
  BY <1>1, KvAssumption DEF Holding
<1>3. Single(k)
  BY <1>1, <1>2, OneLive
<1>4. PICK p : p = Find(k)
  OBVIOUS
<1>5. /\ p # None => p \in Positions /\ Live(p, k)
      /\ p = None => \A q \in Positions : ~Live(q, k)
  BY <1>1, <1>2, <1>4, FindLive
<1>6. CASE p = None
  <2>1. ValueOf(k) = None
    BY <1>4, <1>6 DEF ValueOf
  <2> QED BY <1>1, <1>3, <1>5, <1>6, <2>1 DEF Values
<1>7. CASE p # None
  <2>1. ValueOf(k) = ItemAt(p).val
    BY <1>4, <1>7 DEF ValueOf
  <2> QED BY <1>1, <1>3, <1>5, <1>7, <2>1 DEF Values
<1> QED BY <1>6, <1>7

\* Whenever the store can be read, a key that is not exposed has the value of
\* the last set or delete that returned, through crashes, recoveries and
\* collections.  Exposed are the keys whose search, copy, deletion by prefix or
\* unfinished update found no memory, and those whose item stood at its own
\* origin_off when a collection was cut; a store led astray is never read.
THEOREM StoredIsDurable == Spec => []Durable
<1>1. IInv /\ LInv => Durable
  BY QuietFacts DEF Durable
<1> QED BY <1>1, StoredInv, PTL

\* ... and no key that is not exposed has two items, of which the older might come
\* back.
THEOREM NoSecondItem == Spec => []OneLiveItem
<1>1. IInv /\ LInv => OneLiveItem
  BY QuietFacts DEF OneLiveItem, Single
<1> QED BY <1>1, StoredInv, PTL

-----------------------------------------------------------------------------
(* The map the store stands for *)

\* The items that a recovery keeps.
Kept(p, k) == Live(p, k) /\ \A q \in Positions : Live(q, k) => ~Outdates(q, p)

\* What the map says of key k: the value of the items that are kept.
Known(k) ==
    /\ (\A p \in Positions : ~Live(p, k)) => Recovered(k) = None
    /\ (\E p \in Positions : Live(p, k)) => \E p \in Positions : Kept(p, k)
    /\ \A p \in Positions : Kept(p, k) => Recovered(k) = ItemAt(p).val
    /\ SinglePer(k) => \A p \in Positions : Live(p, k) => Recovered(k) = ItemAt(p).val

\* There are no more than two live items of a key in a block.
LEMMA TwoOfAKind ==
  ASSUME NEW k, Pairs(k), NEW p \in Positions, NEW q \in Positions, NEW r \in Positions,
         Live(p, k), Live(q, k), Live(r, k), p[1] = q[1], p[2] < q[2]
  PROVE  r = p \/ r = q
<1>1. ItemAt(q).origin = p /\ r[1] = p[1] /\ r[1] = q[1]
  BY DEF Pairs, Update
<1>2. \A x, y \in Positions : Live(x, k) /\ Live(y, k) /\ x[1] = y[1] /\ x[2] < y[2]
                                => ItemAt(y).origin = x
  BY DEF Pairs, Update
<1>3. p # q
  BY PositionFacts, SizeFacts
<1>4. p[2] \in Int /\ q[2] \in Int /\ r[2] \in Int
  BY PositionFacts
<1>5. r = p \/ r[2] < p[2] \/ p[2] < r[2]
  BY <1>1, Order
<1>6. r = q \/ r[2] < q[2] \/ q[2] < r[2]
  BY <1>1, Order
<1>7. ASSUME r[2] < p[2] PROVE FALSE
  <2>1. r[2] < q[2] /\ r # p
    BY <1>4, <1>7
  <2> QED BY <1>1, <1>2, <2>1
<1>8. ASSUME q[2] < r[2] PROVE FALSE
  <2>1. p[2] < r[2]
    BY <1>4, <1>8
  <2> QED BY <1>1, <1>2, <1>3, <1>8, <2>1
<1>9. ASSUME p[2] < r[2], r[2] < q[2] PROVE r = p
  BY <1>1, <1>2, <1>9
<1> QED BY <1>5, <1>6, <1>7, <1>8, <1>9

\* A live item and its update: exactly one of them is kept.
LEMMA UpdateKept ==
  ASSUME NEW k, Pairs(k), NEW p \in Positions, NEW q \in Positions,
         Live(p, k), Live(q, k), p[1] = q[1], p[2] < q[2]
  PROVE  \E x \in {p, q} : Kept(x, k) /\ \A y \in Positions : Kept(y, k) => y = x
<1>1. ItemAt(q).origin = p /\ p # q /\ \A r \in Positions : Live(r, k) => r = p \/ r = q
  BY TwoOfAKind, PositionFacts DEF Pairs, Update
<1>2. Before(p, q) /\ ~Before(q, p)
  BY PositionFacts, SizeFacts DEF Before, Blocks
<1>3. ~Outdates(p, p) /\ ~Outdates(q, q)
  BY DEF Outdates
<1>4. Outdates(q, p) <=> ItemAt(p).origin # q
  BY <1>1, <1>2 DEF Outdates
<1>5. Outdates(p, q) <=> ItemAt(p).origin = q
  BY <1>1, <1>2 DEF Outdates
<1>6. CASE ItemAt(p).origin = q
  BY <1>1, <1>3, <1>4, <1>5, <1>6 DEF Kept
<1>7. CASE ItemAt(p).origin # q
  BY <1>1, <1>3, <1>4, <1>5, <1>7 DEF Kept
<1> QED BY <1>6, <1>7

\* Live items in different blocks are copies, and one of them is kept.
LEMMA CopyKept ==
  ASSUME NEW k, Pairs(k), SinglePer(k), NEW p \in Positions, Live(p, k)
  PROVE  /\ \E x \in Positions : Kept(x, k)
         /\ \A y \in Positions : Live(y, k) => ItemAt(y).val = ItemAt(p).val
<1>1. ASSUME NEW y \in Positions, Live(y, k)
      PROVE  ItemAt(y).val = ItemAt(p).val /\ ItemAt(y).origin = ItemAt(p).origin
  BY <1>1 DEF Pairs, SinglePer, Copy
<1>2. CASE \E q \in Positions : Live(q, k) /\ q # p /\ ItemAt(p).origin = p
  <2>1. PICK q \in Positions : Live(q, k) /\ q # p
    BY <1>2
  <2>2. \A r \in Positions : Live(r, k) => ~Outdates(r, q)
    BY <1>1, <1>2, <2>1 DEF Outdates
  <2> QED BY <1>1, <2>1, <2>2 DEF Kept
<1>3. CASE ~\E q \in Positions : Live(q, k) /\ q # p /\ ItemAt(p).origin = p
  <2>1. \A r \in Positions : Live(r, k) => ~Outdates(r, p)
    BY <1>1, <1>3 DEF Outdates
  <2> QED BY <1>1, <2>1 DEF Kept
<1> QED BY <1>1, <1>2, <1>3

\* The value of a key that is protected is that of any item that is kept.
LEMMA KnownKey == ASSUME NEW k, Pairs(k) PROVE Known(k)
<1>1. /\ \A p \in Positions : p \in ItemsOf(k) <=> Live(p, k)
      /\ ItemsOf(k) \subseteq Positions
  BY DEF ItemsOf
<1>2. CASE \A p \in Positions : ~Live(p, k)
  <2>1. ItemsOf(k) = {}
    BY <1>1, <1>2
  <2> QED BY <1>2, <2>1 DEF Known, Recovered, Kept
<1>3. CASE \E p \in Positions : Live(p, k)
  <2>1. /\ \E x \in Positions : Kept(x, k)
        /\ \A x, y \in Positions : Kept(x, k) /\ Kept(y, k) => ItemAt(x).val = ItemAt(y).val
        /\ SinglePer(k) => \A x, y \in Positions :
              Kept(x, k) /\ Live(y, k) => ItemAt(x).val = ItemAt(y).val
    <3>1. CASE SinglePer(k)
      BY <1>3, <3>1, CopyKept DEF Kept
    <3>2. CASE ~SinglePer(k)
      <4>1. PICK p, q \in Positions : Live(p, k) /\ Live(q, k) /\ p[1] = q[1] /\ p[2] < q[2]
        BY <3>2, Order DEF SinglePer
      <4> QED BY <3>2, <4>1, UpdateKept
    <3> QED BY <3>1, <3>2
  <2>2. PICK c : c = CHOOSE p \in ItemsOf(k) : \A q \in ItemsOf(k) : ~Outdates(q, p)
    OBVIOUS
  <2>3. \E p \in ItemsOf(k) : \A q \in ItemsOf(k) : ~Outdates(q, p)
    BY <1>1, <2>1 DEF Kept
  <2>4. c \in ItemsOf(k) /\ \A q \in ItemsOf(k) : ~Outdates(q, c)
    BY <2>2, <2>3
  <2>5. Kept(c, k) /\ c \in Positions
    BY <1>1, <2>4 DEF Kept
  <2>6. Recovered(k) = ItemAt(c).val
    BY <2>2, <2>4 DEF Recovered
  <2> QED BY <1>3, <2>1, <2>5, <2>6 DEF Known
<1> QED BY <1>2, <1>3

\* ... in every state the store reaches.
LEMMA KnownKeys == IInv /\ LInv => \A k \in Keys \ exposed : Known(k)
  BY KnownKey DEF LInv, KeyInv

\* ... also after a step.
LEMMA KnownNext == IInv' /\ LInv' => (\A k \in Keys \ exposed : Known(k))'
  BY KnownKeys, PTL

-----------------------------------------------------------------------------
(* What the steps do to the items *)

\* Most steps of a task write no item ...
LEMMA TaskLive ==
  ASSUME IInv, NEW t \in Tasks,
         \/ \E k \in Keys, v \in Vals : SetEnter(t, k, v)
         \/ \E k \in Keys : Delete(t, k)
         \/ \E G \in Groups : DeleteByPrefix(t, G)
         \/ SetCount(t) \/ SetTake(t) \/ SetLock(t) \/ SearchFails(t) \/ SetFails(t)
         \/ PrefixNext(t) \/ PrefixFails(t) \/ MarkDirty(t)
  PROVE  SameLive
<1>1. flash \in Flash /\ info \in Infos /\ 0 \in Blocks /\ "dirty" \in States
  BY TypeFacts, BlockFacts DEF IInv, States
<1>2. CASE MarkDirty(t)
  <2>1. PICK b : b = op[t].old[1]
    OBVIOUS
  <2>2. b \in Blocks
    BY <1>2, <2>1, PositionFacts DEF MarkDirty, IInv, OldInv
  <2>3. flash' = flash \/ flash' = [flash EXCEPT ![b].state = "dirty"]
    BY <1>2, <2>1 DEF MarkDirty, MarkFlash
  <2> QED BY <1>1, <2>2, <2>3, SameBlock
<1>3. CASE ~MarkDirty(t)
  <2>1. flash' = flash
    BY <1>3 DEF SetEnter, Delete, DeleteByPrefix, SetCount, SetTake, SetLock, SearchFails,
         SetFails, PrefixNext, PrefixFails, Store, store
  <2> QED BY <1>1, <2>1, SameBlock
<1> QED BY <1>2, <1>3

\* ... nor do those of the collection but its copying and erasing ...
LEMMA CollectLive ==
  ASSUME IInv, GcLock \/ GcCopyFails \/ GcHeader \/ GcUse \/ GcPost \/ UNCHANGED vars
  PROVE  SameLive
<1>1. /\ flash \in Flash /\ 0 \in Blocks /\ "clean" \in States /\ "used" \in States
      /\ wblk \in Blocks /\ From \in Blocks /\ DiskInv
  BY TypeFacts, BlockFacts DEF IInv, States
<1>2. CASE GcHeader
  <2>1. Moving /\ gc.pc = "header"
    BY <1>2, GcFacts DEF GcHeader, Collecting
  <2>2. flash[From].items = <<>>
    BY <1>1, <2>1 DEF Moving, DiskInv
  <2> QED BY <1>1, <1>2, <2>2, SameBlock DEF GcHeader, Formatted
<1>3. CASE GcUse
  BY <1>1, <1>3, SameBlock DEF GcUse
<1>4. CASE GcLock \/ GcCopyFails \/ GcPost \/ UNCHANGED vars
  <2>1. flash' = flash
    BY <1>4 DEF GcLock, GcCopyFails, GcPost, store, vars
  <2> QED BY <1>1, <2>1, SameBlock
<1> QED BY <1>2, <1>3, <1>4

\* ... nor those of kv_init() that read the headers, that end it or that find
\* no memory.
LEMMA BootLive ==
  ASSUME IInv, BootHead \/ BootReplaceFails \/ BootItemFails \/ BootBlockDone \/ BootReady
  PROVE  SameLive
<1>1. flash \in Flash /\ 0 \in Blocks /\ "clean" \in States /\ DiskInv /\ BootInv
  BY TypeFacts, BlockFacts DEF IInv, States
<1>2. CASE BootHead
  <2>1. boot.b \in Blocks
    BY <1>1, <1>2 DEF BootHead, BootInv, Blocks
  <2>2. \/ flash' = flash
        \/ flash' = Formatted(boot.b) /\ flash[boot.b].items = <<>>
    BY <1>1, <1>2, <2>1 DEF BootHead, DiskInv
  <2> QED BY <1>1, <2>1, <2>2, SameBlock DEF Formatted
<1>3. CASE BootReplaceFails \/ BootItemFails \/ BootBlockDone
  <2>1. flash' = flash
    BY <1>3 DEF BootReplaceFails, BootItemFails, BootBlockDone, store
  <2> QED BY <1>1, <2>1, SameBlock
<1>4. CASE BootReady
  <2>1. PICK w \in Blocks : flash'[Other(w)] = flash[Other(w)] /\ flash'[w].items = flash[w].items
    BY <1>4, BootReadyFacts
  <2>2. \A c \in Blocks : flash'[c].items = flash[c].items
    BY <2>1, BlockFacts
  <2> QED BY <2>2, SameItems DEF SameLive
<1> QED BY <1>2, <1>3, <1>4

\* What kv_init() does at an item: nothing, or it deletes the item this one has
\* replaced.
LEMMA BootItemLive ==
  ASSUME IInv, BootItem
  PROVE  \E s \in Positions :
           /\ boot.ph = "items" /\ s[1] = boot.b /\ s[2] = boot.i
           /\ boot'.ph = "items" /\ boot'.b = boot.b /\ boot'.i = boot.i + 1
           /\ \/ SameLive /\ \A k, q : Live(s, k) /\ ItemAt(s).origin = q /\ q # s /\ q \in Positions
                                          => ~Live(q, k)
              \/ \E q \in Positions : /\ q = ItemAt(s).origin /\ q # s /\ Removes(q)
                                      /\ \E k : Live(s, k) /\ Live(q, k)
<1>1. PICK b \in Blocks, i \in Nat \ {0} :
           /\ boot.ph = "items" /\ boot.b = b /\ boot.i = i /\ i <= Len(flash[b].items)
           /\ boot' = [boot EXCEPT !.i = i + 1] /\ clean' = clean
           /\ UNCHANGED <<wblk, lock, gcvars, tasks, ghosts>>
           /\ \/ /\ flash' = flash /\ info' = info /\ flash[b].items[i].st = "normal"
                 /\ Replaced(<<b, i>>) = None
              \/ \E m \in Blocks, f \in Flash :
                   /\ flash' = MarkFlash(f, m) /\ info' = MarkInfo(m)
                   /\ \/ m = b /\ f = flash /\ flash[b].items[i].st # "normal"
                      \/ \E q \in Positions :
                           /\ f = DeletedAt(q) /\ Written(q) /\ m = q[1]
                           /\ \/ flash[b].items[i].st = "body" /\ q = <<b, i>>
                              \/ /\ flash[b].items[i].st = "normal"
                                 /\ q = ItemAt(<<b, i>>).origin /\ q # <<b, i>>
                                 /\ Live(q, ItemAt(<<b, i>>).key)
  BY BootItemFacts
<1>2. TypeOK /\ BootInv /\ flash \in Flash /\ info \in Infos
  BY TypeFacts DEF IInv
<1>3. boot'.ph = "items" /\ boot'.b = b /\ boot'.i = i + 1
  BY <1>1, <1>2 DEF BootInv
<1>4. PICK s : s = <<b, i>>
  OBVIOUS
<1>5. s \in Positions /\ s[1] = b /\ s[2] = i /\ Written(s) /\ ItemAt(s) = flash[b].items[i]
  <2>1. i \in 1 .. SIZE
    BY SMTT(40), <1>1, <1>2, TypeFacts, SizeFacts
  <2>2. s \in Positions /\ s[1] = b /\ s[2] = i
    BY <1>4, <2>1, PositionFacts
  <2> QED BY <1>1, <2>2 DEF Written, ItemAt
<1>6. CASE flash' = flash /\ ItemAt(s).st = "normal" /\ Replaced(s) = None
  <2>1. SameLive
    BY <1>6 DEF SameLive, Live, Written, ItemAt
  <2>2. ASSUME NEW k, NEW q, Live(s, k), ItemAt(s).origin = q, q # s, q \in Positions, Live(q, k)
        PROVE  FALSE
    <3>1. ItemAt(s).key = k /\ q # None
      BY <2>2, PositionFacts DEF Live
    <3>2. Replaced(s) = q
      BY <2>2, <3>1 DEF Replaced
    <3> QED BY <1>6, <3>1, <3>2
  <2> QED BY <1>1, <1>3, <1>5, <2>1, <2>2
<1>7. ASSUME NEW m \in Blocks, NEW f \in Flash, flash' = MarkFlash(f, m)
      PROVE  \A c \in Blocks : flash'[c].items = f[c].items
  BY SMTT(40), <1>2, <1>7, MarkFacts
<1>8. ASSUME NEW m \in Blocks, flash' = MarkFlash(flash, m), ItemAt(s).st # "normal"
      PROVE  SameLive /\ \A k : ~Live(s, k)
  <2>1. \A c \in Blocks : flash'[c].items = flash[c].items
    BY <1>2, <1>7, <1>8
  <2> QED BY <1>8, <2>1, SameItems DEF SameLive, Live
<1>9. ASSUME NEW m \in Blocks, NEW q \in Positions, Written(q), DeletedAt(q) \in Flash,
             flash' = MarkFlash(DeletedAt(q), m)
      PROVE  Removes(q)
  <2>1. PICK f : f = DeletedAt(q)
    OBVIOUS
  <2>2. \A c \in Blocks : flash'[c].items = f[c].items
    BY <1>7, <1>9, <2>1
  <2>3. \A p \in Positions : /\ p # q /\ Written(p) => ItemAt(p)' = ItemAt(p)
                             /\ \A k : Live(p, k)' <=> Live(p, k) /\ p # q
    BY <1>2, <1>9, <2>1, <2>2, DeleteLive
  <2> QED BY <2>3 DEF Removes, Live
<1>10. ASSUME Removes(s), ItemAt(s).st # "normal" PROVE SameLive /\ \A k : ~Live(s, k)
  BY <1>10 DEF Removes, SameLive, Live
<1>11. \/ flash' = flash /\ ItemAt(s).st = "normal" /\ Replaced(s) = None
       \/ SameLive /\ \A k : ~Live(s, k)
       \/ \E q \in Positions : /\ q = ItemAt(s).origin /\ q # s /\ Removes(q)
                               /\ ItemAt(s).st = "normal" /\ Live(q, ItemAt(s).key)
  BY <1>1, <1>4, <1>5, <1>8, <1>9, <1>10
<1>12. CASE SameLive /\ \A k : ~Live(s, k)
  BY Zenon, <1>1, <1>3, <1>5, <1>12
<1>13. CASE \E q \in Positions : /\ q = ItemAt(s).origin /\ q # s /\ Removes(q)
                                 /\ ItemAt(s).st = "normal" /\ Live(q, ItemAt(s).key)
  <2>1. PICK k : k = ItemAt(s).key
    OBVIOUS
  <2>2. Live(s, k)
    BY <1>5, <1>13, <2>1 DEF Live
  <2> QED BY <1>1, <1>3, <1>5, <1>13, <2>1, <2>2
<1> QED BY <1>6, <1>11, <1>12, <1>13

\* Of an interrupted collection kv_init() drops the copies while the originals
\* are there, or does not change the items.
LEMMA UncleanLive ==
  ASSUME IInv, LInv, BootUnclean
  PROVE  /\ boot' = boot /\ boot.ph = "unclean" /\ boot.b = 2
         /\ \/ SameLive
            \/ \E o \in Blocks :
                 /\ Erases(o)
                 /\ \A k \in Keys \ exposed : \A p \in Positions : Live(p, k) =>
                        \E q \in Positions : Live(q, k) /\ q[1] = o
<1>1. /\ TypeOK /\ BootInv /\ CopyInv /\ flash \in Flash /\ boot.ph = "unclean" /\ boot' = boot
      /\ boot.b = 2 /\ gc.pc = "off" /\ "dirty" \in States /\ "clean" \in States
  BY TypeFacts DEF IInv, LInv, LockInv, BootInv, BootUnclean, States
<1>2. PICK b \in Unclean : IF KeepCopies THEN flash' = [flash EXCEPT ![b].state = "dirty"]
                                         ELSE flash' = Formatted(b)
  <2>1. PICK b : b = CHOOSE c \in Unclean : \A d \in Unclean : d <= c
    OBVIOUS
  <2>2. b \in Unclean
    BY <2>1, UncleanBlock DEF BootUnclean
  <2> QED BY <2>1, <2>2 DEF BootUnclean
<1>3. /\ b \in Blocks /\ Other(b) \in Blocks /\ b = Other(Other(b))
      /\ \A c \in Blocks : c = b \/ c = Other(b)
  BY BlockFacts DEF Unclean
<1>4. CASE KeepCopies
  BY <1>1, <1>2, <1>3, <1>4, SameBlock
<1>5. CASE ~KeepCopies
  <2>1. Erases(Other(b))
    BY <1>1, <1>2, <1>3, <1>5, FormatErases DEF Formatted
  <2>2. /\ flash[b].state = "clean" /\ ~Empty(b) /\ ~Empty(Other(b))
        /\ flash[Other(b)].state \in {"clean", "used", "dirty"}
    <3>1. /\ \A c \in Blocks : info[c] = flash[c].state /\ info[c] \in {"clean", "used", "dirty"}
          /\ clean = (IF Empty(0) THEN 1 ELSE 0) + (IF Empty(1) THEN 1 ELSE 0)
          /\ \A c \in Blocks : c \in Unclean <=> info[c] = "clean" /\ ~Empty(c)
      BY <1>1, UncleanFacts
    <3>2. ~Empty(0) /\ ~Empty(1)
      BY <1>5, <3>1 DEF KeepCopies
    <3> QED BY <1>3, <3>1, <3>2, BlockFacts
  <2>3. flash[Other(b)].state = "dirty"
    BY <1>1, <1>3, <2>2 DEF CopyInv, Empty
  <2>4. ASSUME NEW k \in Keys \ exposed, NEW p \in Positions, Live(p, k)
        PROVE  \E q \in Positions : Live(q, k) /\ q[1] = Other(b)
    <3>1. Originals(k)
      BY <2>4 DEF LInv, KeyInv
    <3>2. p[1] = b \/ p[1] = Other(b)
      BY <1>3, PositionFacts
    <3> QED BY <1>1, <2>2, <2>3, <2>4, <3>1, <3>2 DEF Originals
  <2> QED BY <1>1, <1>3, <2>1, <2>4
<1> QED BY <1>1, <1>4, <1>5

\* The collection erases a block when its items have been copied.
LEMMA EraseLive ==
  ASSUME IInv, LInv, GcErase
  PROVE  \E o \in Blocks :
           /\ Erases(o)
           /\ \A k \in Keys \ exposed : \A p \in Positions : Live(p, k) =>
                \E q \in Positions : Live(q, k) /\ q[1] = o
<1>1. gc.pc = "erase" /\ flash' = [flash EXCEPT ![From] = [state |-> "blank", items |-> <<>>]]
  BY DEF GcErase
<1>2. /\ flash \in Flash /\ "blank" \in States /\ From \in Blocks /\ wblk \in Blocks
      /\ wblk = Other(From) /\ \A c \in Blocks : c = From \/ c = wblk
  BY TypeFacts, BlockFacts DEF From, IInv, States
<1>3. Erases(wblk)
  BY <1>1, <1>2, FormatErases
<1>4. ASSUME NEW k \in Keys \ exposed, NEW p \in Positions, Live(p, k)
      PROVE  \E q \in Positions : Live(q, k) /\ q[1] = wblk
  <2>1. Copies(k)
    BY <1>4 DEF LInv, KeyInv
  <2>2. p[1] = From \/ p[1] = wblk
    BY <1>2, PositionFacts
  <2> QED BY <1>1, <1>4, <2>1, <2>2 DEF Copies
<1> QED BY <1>2, <1>3, <1>4

-----------------------------------------------------------------------------
(* How far kv_init() has come, and what the tasks delete *)

\* The items that kv_init() has passed in the block it reads, and what it leaves of
\* them: none names another live item of its key.
Passed(p) == p[1] = boot.b /\ p[2] < boot.i
PassedInv ==
    boot.ph # "up" =>
        \A p, q \in Positions : \A k \in Keys \ exposed :
            Live(p, k) /\ Passed(p) /\ ItemAt(p).origin = q /\ q # p => ~Live(q, k)

\* An operation that deletes is a set, a delete or one of a prefix, of whose keys
\* it deletes one.
OpKindInv ==
    \A t \in Tasks : pc[t] \in {"delete", "mark"} =>
        \/ op[t].kind \in {"set", "delete"}
        \/ op[t].kind = "prefix" /\ op[t].key \in op[t].keys

MInv == PassedInv /\ OpKindInv

\* Where fewer items are live, fewer are named.
LEMMA FewerLive ==
  ASSUME PassedInv, boot.ph # "up", exposed \subseteq exposed',
         \A p \in Positions : \A k \in Keys \ exposed' : Live(p, k)' =>
             /\ Live(p, k) /\ ItemAt(p)' = ItemAt(p)
             /\ Passed(p)' => \/ Passed(p)
                              \/ \A q \in Positions : ItemAt(p).origin = q /\ q # p => ~Live(q, k)',
         \A q \in Positions : \A k \in Keys \ exposed' : Live(q, k)' => Live(q, k)
  PROVE  PassedInv'
  BY DEF PassedInv

\* At the start of a block nothing of it has been passed.
LEMMA NonePassed == ASSUME boot'.i = 1 PROVE PassedInv'
<1>1. \A p \in Positions : ~Passed(p)'
  BY PositionFacts, SizeFacts DEF Passed
<1> QED BY <1>1 DEF PassedInv

\* The steps of kv_init() keep what they leave behind.
LEMMA PassedStep == ASSUME IInv, LInv, PassedInv, Boot PROVE PassedInv'
<1>1. TypeOK /\ BootInv /\ boot.ph # "up"
  BY DEF IInv, Boot, BootHead, BootItem, BootReplaceFails, BootItemFails, BootBlockDone,
         BootUnclean, BootReady
<1>2. boot' = NextBlock => boot'.i = 1
  BY DEF NextBlock
<1>3. ASSUME SameLive, boot'.b = boot.b, boot'.i = boot.i, exposed' = exposed PROVE PassedInv'
  <2>1. \A p \in Positions : Passed(p)' => Passed(p)
    BY <1>3 DEF Passed
  <2> QED BY <1>1, <1>3, <2>1, FewerLive DEF SameLive
<1>4. CASE BootHead
  <2>1. CASE flash[boot.b].state = "blank"
    BY <1>2, <1>4, <2>1, NonePassed DEF BootHead
  <2>2. CASE flash[boot.b].state # "blank"
    <3>1. boot' = [boot EXCEPT !.ph = "items"] /\ exposed' = exposed
      BY <1>4, <2>2 DEF BootHead, ghosts
    <3>2. boot'.b = boot.b /\ boot'.i = boot.i
      BY <1>1, <3>1 DEF BootInv
    <3> QED BY <1>3, <1>4, <3>1, <3>2, BootLive
  <2> QED BY <2>1, <2>2
<1>5. ASSUME NEW s \in Positions, s[1] = boot.b, s[2] = boot.i, boot'.b = boot.b,
             boot'.i = boot.i + 1
      PROVE  \A p \in Positions : Passed(p)' => Passed(p) \/ p = s
  <2> SUFFICES ASSUME NEW p \in Positions, Passed(p)', ~Passed(p) PROVE p = s
    OBVIOUS
  <2>1. p[1] = s[1] /\ p[2] < boot.i + 1 /\ ~(p[2] < boot.i)
    BY <1>5 DEF Passed
  <2>2. boot.i \in Nat /\ p[2] \in Nat /\ p = <<p[1], p[2]>> /\ s = <<s[1], s[2]>>
    BY <1>5, PositionFacts, SizeFacts
  <2>3. p[2] = s[2]
    BY <1>5, <2>1, <2>2
  <2> QED BY <2>1, <2>2, <2>3
<1>6. CASE BootItem
  <2>1. PICK s \in Positions :
           /\ s[1] = boot.b /\ s[2] = boot.i
           /\ boot'.b = boot.b /\ boot'.i = boot.i + 1
           /\ \/ SameLive /\ \A k, q : Live(s, k) /\ ItemAt(s).origin = q /\ q # s /\ q \in Positions
                                          => ~Live(q, k)
              \/ \E q \in Positions : /\ q = ItemAt(s).origin /\ q # s /\ Removes(q)
                                      /\ \E k : Live(s, k) /\ Live(q, k)
    BY <1>6, BootItemLive
  <2>2. \A p \in Positions : Passed(p)' => Passed(p) \/ p = s
    BY <1>5, <2>1
  <2>3. \A p \in Positions : \A k : Live(p, k)' => Live(p, k) /\ ItemAt(p)' = ItemAt(p)
    BY <2>1 DEF SameLive, Removes
  <2>4. ASSUME NEW k, NEW q \in Positions, Live(s, k), ItemAt(s).origin = q, q # s PROVE ~Live(q, k)'
    BY <2>1, <2>4 DEF SameLive, Removes
  <2>5. exposed' = exposed
    BY <1>6 DEF BootItem, ghosts
  <2> QED BY <1>1, <2>2, <2>3, <2>4, <2>5, FewerLive
<1>7. CASE BootReplaceFails
  <2>1. PICK s : s = <<boot.b, boot.i>>
    OBVIOUS
  <2>2. /\ Written(s) /\ ItemAt(s).st = "normal" /\ boot' = [boot EXCEPT !.i = @ + 1]
        /\ exposed' = exposed \cup {ItemAt(s).key} /\ flash' = flash
    BY <1>7, <2>1 DEF BootReplaceFails, store
  <2>3. /\ s \in Positions /\ s[1] = boot.b /\ s[2] = boot.i
        /\ boot'.b = boot.b /\ boot'.i = boot.i + 1
    <3>1. boot.b \in Blocks /\ boot.i \in Nat \ {0}
      BY <1>1, <1>7 DEF BootReplaceFails, BootInv, Blocks
    <3>2. boot.i \in 1 .. SIZE
      BY SMTT(40), <1>1, <2>1, <2>2, <3>1, TypeFacts, SizeFacts DEF Written
    <3> QED BY <1>1, <2>1, <2>2, <3>1, <3>2, PositionFacts DEF BootInv
  <2>4. \A p \in Positions : Passed(p)' => Passed(p) \/ p = s
    BY <1>5, <2>3
  <2>5. \A k \in Keys \ exposed' : ~Live(s, k)
    BY <2>2 DEF Live
  <2>6. SameLive
    BY <1>7, BootLive DEF IInv
  <2> QED BY <1>1, <2>2, <2>4, <2>5, <2>6, FewerLive DEF SameLive
<1>8. CASE BootItemFails
  <2>1. boot' = NextBlock \/ boot' = [boot EXCEPT !.ph = "astray"]
    BY <1>8 DEF BootItemFails
  <2>2. CASE boot' = NextBlock
    BY <1>2, <2>2, NonePassed
  <2>3. CASE boot' = [boot EXCEPT !.ph = "astray"]
    <3>1. boot'.b = boot.b /\ boot'.i = boot.i /\ exposed' = exposed
      BY <1>1, <1>8, <2>3 DEF BootInv, BootItemFails
    <3> QED BY <1>3, <1>8, <3>1, BootLive
  <2> QED BY <2>1, <2>2, <2>3
<1>9. CASE BootBlockDone
  BY <1>2, <1>9, NonePassed DEF BootBlockDone
<1>10. CASE BootUnclean
  <2>1. boot' = boot /\ exposed' = exposed
        /\ \A p \in Positions : \A k : Live(p, k)' => Live(p, k) /\ ItemAt(p)' = ItemAt(p)
    BY <1>10, UncleanLive DEF SameLive, Erases, BootUnclean, ghosts
  <2>2. \A p \in Positions : Passed(p)' => Passed(p)
    BY <2>1 DEF Passed
  <2> QED BY <1>1, <2>1, <2>2, FewerLive
<1>11. CASE BootReady
  BY <1>11 DEF BootReady, Up, PassedInv
<1> QED BY <1>4, <1>6, <1>7, <1>8, <1>9, <1>10, <1>11 DEF Boot

\* A step of kv_init() or a power failure; the others are taken by a board that
\* is up, and leave it so.
LEMMA UpStep ==
  ASSUME IInv, Next, ~Boot, ~PowerFails PROVE boot' = boot /\ boot.ph = "up"
<1>1. ASSUME NEW t \in Tasks, pc[t] # "idle" PROVE boot.ph = "up"
  BY <1>1, UpFacts
<1>2. gc.pc # "off" \/ posting > 0 => boot.ph = "up"
  <2>1. LockInv
    BY DEF IInv
  <2> QED BY <2>1 DEF LockInv
<1>3. CASE Collect
  BY <1>2, <1>3 DEF Collect, GcLock, GcCopy, GcCopyFails, GcErase, GcHeader, GcUse, GcPost
<1>4. ASSUME NEW t \in Tasks, Work(t) PROVE boot' = boot /\ boot.ph = "up"
  <2>1. pc[t] # "idle"
    BY <1>4 DEF Work, SetCount, SetTake, SetLock, SearchFails, SetFails, AppendItem, DeleteItem,
            MarkDirty, PrefixNext, PrefixFails
  <2>2. boot' = boot
    BY <1>4 DEF Work, SetCount, SetTake, SetLock, SearchFails, SetFails, AppendItem, DeleteItem,
            MarkDirty, PrefixNext, PrefixFails, Store, ghosts
  <2> QED BY <1>1, <2>1, <2>2
<1>5. ASSUME NEW t \in Tasks,
             \/ \E k \in Keys, v \in Vals : SetEnter(t, k, v)
             \/ \E k \in Keys : Delete(t, k)
             \/ \E G \in Groups : DeleteByPrefix(t, G)
      PROVE  boot' = boot /\ boot.ph = "up"
  BY <1>5 DEF SetEnter, Delete, DeleteByPrefix, IsUp, Up
<1> QED BY <1>3, <1>4, <1>5 DEF Next

\* The tasks that do not take a step stay where they are.
LEMMA OthersStay ==
  ASSUME IInv, NEW t \in Tasks, NEW u \in Tasks, u # t,
         \/ \E k \in Keys, v \in Vals : SetEnter(t, k, v)
         \/ \E k \in Keys : Delete(t, k)
         \/ \E G \in Groups : DeleteByPrefix(t, G)
         \/ Work(t)
  PROVE  pc'[u] = pc[u] /\ op'[u] = op[u]
<1>1. pc \in [Tasks -> {"idle", "count", "take", "blocked", "lock", "append", "delete", "mark", "prefix"}]
      /\ op \in [Tasks -> Ops]
  BY TypeFacts DEF IInv, OpInv
<1> DEFINE Only == /\ pc' = pc \/ \E l : pc' = [pc EXCEPT ![t] = l]
                   /\ op' = op \/ \E o : op' = [op EXCEPT ![t] = o]
<1>2. Only
  <2>1. ASSUME NEW k \in Keys, NEW v \in Vals, SetEnter(t, k, v) PROVE Only
    BY <2>1 DEF SetEnter, Goto
  <2>2. ASSUME NEW k \in Keys, Delete(t, k) PROVE Only
    BY <2>2 DEF Delete, Goto
  <2>3. ASSUME NEW G \in Groups, DeleteByPrefix(t, G) PROVE Only
    BY <2>3 DEF DeleteByPrefix, Goto
  <2>4. CASE SetCount(t)
    BY <2>4 DEF SetCount, Goto
  <2>5. CASE SetTake(t)
    BY <2>5 DEF SetTake, Goto
  <2>6. ASSUME NEW p, NEW f, Store(t, p, f) PROVE Only
    <3>1. CASE Space(wblk) > 1
      <4>1. pc' = [pc EXCEPT ![t] = "append"] /\ op' = [op EXCEPT ![t].old = p]
        BY <2>6, <3>1 DEF Store, Goto
      <4> QED BY <4>1
    <3>2. CASE ~(Space(wblk) > 1)
      BY <2>6, <3>2 DEF Store, Goto, Return
    <3> QED BY <3>1, <3>2
  <2>7. CASE SetLock(t)
    BY <2>6, <2>7 DEF SetLock, Goto, Return
  <2>8. CASE SearchFails(t)
    BY <2>6, <2>8 DEF SearchFails
  <2>9. CASE AppendItem(t)
    BY <2>9 DEF AppendItem, Goto, Return
  <2>10. CASE DeleteItem(t)
    BY <2>10 DEF DeleteItem, Goto
  <2>11. CASE MarkDirty(t)
    BY <2>11 DEF MarkDirty, Goto, Return
  <2>12. CASE PrefixNext(t)
    <3>1. PICK p : p = FirstOf({q \in Positions : \E k \in op[t].keys : Live(q, k)})
      OBVIOUS
    <3>2. CASE p = None
      BY <2>12, <3>1, <3>2 DEF PrefixNext, Goto, Return
    <3>3. CASE p # None
      <4>1. pc' = [pc EXCEPT ![t] = "delete"]
            /\ op' = [op EXCEPT ![t].old = p, ![t].key = ItemAt(p).key]
        BY <2>12, <3>1, <3>3 DEF PrefixNext, Goto
      <4> QED BY <4>1
    <3> QED BY <3>2, <3>3
  <2>13. CASE SetFails(t) \/ PrefixFails(t)
    BY <2>13 DEF SetFails, PrefixFails, Goto, Return
  <2> QED BY <2>1, <2>2, <2>3, <2>4, <2>5, <2>7, <2>8, <2>9, <2>10, <2>11, <2>12, <2>13 DEF Work
<1> QED BY <1>1, <1>2

\* The next item of a prefix is one of its keys.
LEMMA PrefixKey ==
  ASSUME IInv, LInv, NEW t \in Tasks, PrefixNext(t)
  PROVE  /\ op[t].kind = "prefix"
         /\ \/ /\ pc'[t] = "idle" /\ op'[t] = NoOp
               /\ \A k \in op[t].keys : \A p \in Positions : ~Live(p, k)
            \/ /\ pc'[t] = "delete" /\ op'[t].kind = "prefix" /\ op'[t].keys = op[t].keys
               /\ op'[t].key \in op[t].keys
<1>1. /\ pc \in [Tasks -> {"idle", "count", "take", "blocked", "lock", "append", "delete", "mark",
                          "prefix"}]
      /\ op \in [Tasks -> Ops] /\ op[t].kind = "prefix" /\ pc[t] = "prefix"
  BY TypeFacts DEF IInv, OpInv, LInv, OwnInv, OwnOf, PrefixNext
<1> DEFINE S == {q \in Positions : \E k \in op[t].keys : Live(q, k)}
<1>2. PICK p : p = FirstOf(S)
  OBVIOUS
<1>3. CASE p = None
  <2>1. S = {}
    BY <1>2, <1>3, FirstFacts
  <2>2. pc' = [pc EXCEPT ![t] = "idle"] /\ op' = [op EXCEPT ![t] = NoOp]
    BY <1>2, <1>3 DEF PrefixNext, Return, Goto
  <2> QED BY <1>1, <2>1, <2>2
<1>4. CASE p # None
  <2>1. p \in S
    <3>1. S # {}
      BY <1>2, <1>4 DEF FirstOf
    <3> QED BY <1>2, <3>1, FirstFacts
  <2>2. ItemAt(p).key \in op[t].keys
    BY <2>1 DEF Live
  <2>3. pc' = [pc EXCEPT ![t] = "delete"] /\ op' = [op EXCEPT ![t].old = p, ![t].key = ItemAt(p).key]
    BY <1>2, <1>4 DEF PrefixNext, Goto
  <2>4. /\ pc'[t] = "delete" /\ op'[t].kind = op[t].kind /\ op'[t].keys = op[t].keys
        /\ op'[t].key = ItemAt(p).key
    BY <1>1, <2>3 DEF Ops
  <2> QED BY <1>1, <2>2, <2>4
<1> QED BY <1>3, <1>4

\* What a task deletes it has been asked to delete.
LEMMA OpKindStep == ASSUME IInv, LInv, OpKindInv, [Next]_vars PROVE OpKindInv'
<1> USE DEF OpKindInv
<1>1. pc \in [Tasks -> {"idle", "count", "take", "blocked", "lock", "append", "delete", "mark",
                          "prefix"}]
      /\ op \in [Tasks -> Ops]
  BY TypeFacts DEF IInv, OpInv
<1>2. ASSUME NEW t \in Tasks,
             \/ \E k \in Keys, v \in Vals : SetEnter(t, k, v)
             \/ \E k \in Keys : Delete(t, k)
             \/ \E G \in Groups : DeleteByPrefix(t, G)
             \/ Work(t)
      PROVE  OpKindInv'
  <2>1. ASSUME pc'[t] \in {"delete", "mark"}
        PROVE  \/ op'[t].kind \in {"set", "delete"}
               \/ op'[t].kind = "prefix" /\ op'[t].key \in op'[t].keys
    <3>1. ASSUME NEW k \in Keys, NEW v \in Vals, SetEnter(t, k, v) PROVE FALSE
      BY <1>1, <2>1, <3>1 DEF SetEnter, Goto
    <3>2. ASSUME NEW k \in Keys, Delete(t, k) PROVE op'[t].kind = "delete"
      BY <1>1, <3>2 DEF Delete
    <3>3. ASSUME NEW G \in Groups, DeleteByPrefix(t, G) PROVE FALSE
      BY <1>1, <2>1, <3>3 DEF DeleteByPrefix, Goto
    <3>4. CASE SetCount(t) \/ SetTake(t)
      BY <1>1, <2>1, <3>4 DEF SetCount, SetTake, Goto
    <3>5. CASE SetLock(t) \/ SearchFails(t)
      BY <1>1, <2>1, <3>5 DEF SetLock, SearchFails, Store, Return, Goto
    <3>6. CASE AppendItem(t)
      <4>1. op[t].kind = "set"
        BY <3>6 DEF AppendItem, IInv, OpInv, Setting
      <4>2. op[t].old # None => op' = op
        BY <3>6 DEF AppendItem
      <4>3. op[t].old = None => pc'[t] = "idle"
        BY <1>1, <3>6 DEF AppendItem, Return, Goto
      <4> QED BY <2>1, <4>1, <4>2, <4>3
    <3>7. CASE DeleteItem(t)
      BY <3>7 DEF DeleteItem
    <3>8. CASE MarkDirty(t)
      BY <1>1, <2>1, <3>8 DEF MarkDirty, Return, Goto
    <3>9. CASE PrefixNext(t)
      BY <2>1, <3>9, PrefixKey
    <3>10. CASE SetFails(t) \/ PrefixFails(t)
      BY <1>1, <2>1, <3>10 DEF SetFails, PrefixFails, Return, Goto
    <3> QED BY <1>2, <3>1, <3>2, <3>3, <3>4, <3>5, <3>6, <3>7, <3>8, <3>9, <3>10 DEF Work
  <2> QED BY <1>2, <2>1, OthersStay
<1>3. CASE Boot
  BY <1>3 DEF Boot, BootHead, BootItem, BootReplaceFails, BootItemFails, BootBlockDone,
              BootUnclean, BootReady, tasks
<1>4. CASE GcLock \/ GcCopy \/ GcCopyFails \/ GcErase \/ GcHeader \/ GcUse
  BY <1>4 DEF GcLock, GcCopy, GcCopyFails, GcErase, GcHeader, GcUse, tasks
<1>5. CASE GcPost
  <2>1. op' = op /\ \A u \in Tasks : pc'[u] = pc[u] \/ pc'[u] = "lock"
    BY <1>5 DEF GcPost
  <2> QED BY <2>1
<1>6. CASE PowerFails
  BY <1>6 DEF PowerFails
<1>7. CASE UNCHANGED vars
  BY <1>7 DEF vars
<1> QED BY <1>2, <1>3, <1>4, <1>5, <1>6, <1>7 DEF Next, Collect

\* Both hold at the start ...
LEMMA InitM == Init => MInv
  BY PositionFacts, SizeFacts DEF Init, MInv, PassedInv, Passed, OpKindInv

\* ... and every step keeps them.
LEMMA MInvStep == IInv /\ LInv /\ MInv /\ [Next]_vars => MInv'
<1> SUFFICES ASSUME IInv, LInv, PassedInv, OpKindInv, [Next]_vars PROVE PassedInv'
  BY OpKindStep DEF MInv
<1>1. CASE Boot
  BY <1>1, PassedStep
<1>2. CASE PowerFails
  BY <1>2, NonePassed DEF PowerFails
<1>3. CASE Next /\ ~Boot /\ ~PowerFails
  BY <1>3, UpStep DEF PassedInv
<1>4. CASE UNCHANGED vars
  BY <1>4 DEF vars, PassedInv, Passed, Live, Written, ItemAt
<1> QED BY <1>1, <1>2, <1>3, <1>4

-----------------------------------------------------------------------------
(* What the steps do to the values *)

\* The value of a key stays when its items stay ...
LEMMA SameValue ==
  ASSUME NEW k, Known(k), Known(k)',
         \A p \in Positions : (Live(p, k)' <=> Live(p, k)) /\ (Live(p, k) => ItemAt(p)' = ItemAt(p))
  PROVE  Recovered(k)' = Recovered(k)
<1>1. CASE \A p \in Positions : ~Live(p, k)
  BY <1>1 DEF Known
<1>2. CASE \E p \in Positions : Live(p, k)
  <2>1. PICK p \in Positions : Kept(p, k)
    BY <1>2 DEF Known
  <2>2. Kept(p, k)' /\ ItemAt(p)' = ItemAt(p)
    BY <2>1 DEF Kept, Outdates
  <2> QED BY <2>1, <2>2 DEF Known
<1> QED BY <1>1, <1>2

\* ... and when copies come or go.
LEMMA CopiedValue ==
  ASSUME NEW k, Known(k), Known(k)', SinglePer(k), SinglePer(k)',
         \A p \in Positions : Live(p, k)' => \E q \in Positions : Live(q, k) /\ ItemAt(p)'.val = ItemAt(q).val,
         (\E p \in Positions : Live(p, k)) => \E p \in Positions : Live(p, k)'
  PROVE  Recovered(k)' = Recovered(k)
<1>1. CASE \A p \in Positions : ~Live(p, k)
  BY <1>1 DEF Known
<1>2. CASE \E p \in Positions : Live(p, k)
  <2>1. PICK p \in Positions, q \in Positions : Live(p, k)' /\ Live(q, k) /\ ItemAt(p)'.val = ItemAt(q).val
    BY <1>2
  <2> QED BY <2>1 DEF Known
<1> QED BY <1>1, <1>2

\* Without an update under way a key has one live item per block.
LEMMA SinglePers ==
  IInv /\ LInv /\ (boot.ph = "up" \/ boot.b = 2) /\ (\A t \in Tasks : pc[t] # "delete")
    => \A k \in Keys \ exposed : SinglePer(k)
  BY NoUpdate DEF LInv, KeyInv

\* ... also after a step.
LEMMA SinglePersNext ==
  IInv' /\ LInv' /\ (boot.ph = "up" \/ boot.b = 2)' /\ (\A t \in Tasks : pc[t] # "delete")'
    => (\A k \in Keys \ exposed : SinglePer(k))'
  BY SinglePers, PTL

\* The map does not change.
SameMap == \A k \in Keys \ exposed' : Recovered(k)' = Recovered(k)

\* A step that leaves the items leaves the map ...
LEMMA LiveMap ==
  ASSUME IInv, LInv, IInv', LInv', SameLive, exposed \subseteq exposed' PROVE SameMap
<1> SUFFICES ASSUME NEW k \in Keys \ exposed' PROVE Recovered(k)' = Recovered(k)
  BY DEF SameMap
<1>1. Known(k) /\ Known(k)'
  BY KnownKeys, KnownNext
<1> QED BY <1>1, SameValue DEF SameLive

\* ... and so does erasing a block whose items are all in the other one.
LEMMA EraseMap ==
  ASSUME IInv, LInv, IInv', LInv', boot.ph = "up" \/ boot.b = 2,
         \A t \in Tasks : pc[t] # "delete", exposed' = exposed, NEW o \in Blocks, Erases(o),
         \A k \in Keys \ exposed : \A p \in Positions : Live(p, k) =>
              \E q \in Positions : Live(q, k) /\ q[1] = o
  PROVE  SameMap
<1> SUFFICES ASSUME NEW k \in Keys \ exposed PROVE Recovered(k)' = Recovered(k)
  BY DEF SameMap
<1>1. Known(k) /\ Known(k)' /\ SinglePer(k)
  BY KnownKeys, KnownNext, SinglePers
<1>2. SinglePer(k)'
  BY <1>1 DEF SinglePer, Erases
<1>3. \A p \in Positions : Live(p, k)' => Live(p, k) /\ ItemAt(p)' = ItemAt(p)
  BY DEF Erases
<1>4. (\E p \in Positions : Live(p, k)) => \E p \in Positions : Live(p, k)'
  BY DEF Erases
<1> QED BY <1>1, <1>2, <1>3, <1>4, CopiedValue

\* The item kv_init() deletes is the one that counts as replaced.
LEMMA ReplacedMap ==
  ASSUME IInv, LInv, PassedInv, IInv', LInv', boot.ph = "items", exposed' = exposed,
         NEW s \in Positions, s[1] = boot.b, s[2] = boot.i,
         NEW q \in Positions, q = ItemAt(s).origin, q # s, Removes(q),
         NEW k0, Live(s, k0), Live(q, k0)
  PROVE  SameMap
<1> SUFFICES ASSUME NEW k \in Keys \ exposed PROVE Recovered(k)' = Recovered(k)
  BY DEF SameMap
<1>1. Known(k) /\ Known(k)' /\ Pairs(k) /\ TypeOK
  BY KnownKeys, KnownNext DEF LInv, KeyInv, IInv
<1>2. \A p \in Positions : Live(p, k)' => Live(p, k) /\ p # q /\ ItemAt(p)' = ItemAt(p)
  BY DEF Removes
<1>3. CASE k # k0
  <2>1. ~Live(q, k)
    BY <1>1, <1>3, LiveFacts
  <2>2. \A p \in Positions : (Live(p, k)' <=> Live(p, k)) /\ (Live(p, k) => ItemAt(p)' = ItemAt(p))
    BY <2>1 DEF Removes
  <2> QED BY <1>1, <2>2, SameValue
<1>4. CASE k = k0 /\ s[1] = q[1]
  <2>1. \A r \in Positions : Live(r, k) => r = s \/ r = q
    BY <1>1, <1>4, TwoOfAKind, Order
  <2>2. ~Outdates(q, s)
    <3> SUFFICES ASSUME ItemAt(q).origin = s, ~Before(s, q) PROVE FALSE
      BY DEF Outdates
    <3>1. q[2] < boot.i
      <4>1. q[2] \in Nat /\ s[2] \in Nat /\ ~(s[2] <= q[2])
        BY <1>4, PositionFacts, SizeFacts DEF Before
      <4> QED BY <4>1
    <3>2. Passed(q) /\ boot.ph # "up"
      BY <1>4, <3>1 DEF Passed
    <3> QED BY <1>4, <3>2, PositionFacts DEF PassedInv
  <2>3. ~Outdates(s, s) /\ ~Outdates(s, s)'
    BY DEF Outdates
  <2>4. Kept(s, k)
    BY <1>4, <2>1, <2>2, <2>3 DEF Kept
  <2>5. Live(s, k)' /\ ItemAt(s)' = ItemAt(s) /\ \A r \in Positions : Live(r, k)' => r = s
    BY <1>4, <2>1 DEF Removes
  <2>6. Kept(s, k)'
    BY <2>3, <2>5 DEF Kept
  <2> QED BY <1>1, <2>4, <2>5, <2>6 DEF Known
<1>5. CASE k = k0 /\ s[1] # q[1]
  <2>1. SinglePer(k)
    <3> SUFFICES ASSUME NEW x \in Positions, NEW y \in Positions, Live(x, k), Live(y, k),
                        x[1] = y[1], x # y
                 PROVE  FALSE
      BY DEF SinglePer
    <3>1. Update(k, x, y) \/ Update(k, y, x)
      BY <1>1, Order DEF Pairs
    <3> QED BY <1>5, <3>1 DEF Update
  <2>2. SinglePer(k)'
    BY <1>2, <2>1 DEF SinglePer
  <2>3. Live(s, k)'
    BY <1>5 DEF Removes
  <2> QED BY <1>1, <1>2, <2>1, <2>2, <2>3, CopiedValue
<1> QED BY <1>3, <1>4, <1>5

\* A copy has the value of its original.
LEMMA CopyMap ==
  ASSUME IInv, LInv, IInv', LInv', GcCopy PROVE SameMap
<1>1. PICK s : s = <<From, gc.i>>
  OBVIOUS
<1>2. /\ gc.pc = "copy" /\ UNCHANGED <<boot, pc, exposed>>
      /\ \/ flash' = flash
         \/ Written(s) /\ ItemAt(s).st = "normal" /\ flash' = Appended(wblk, ItemAt(s))
  BY <1>1 DEF GcCopy, tasks, ghosts
<1>3. /\ TypeOK /\ boot.ph = "up" /\ \A t \in Tasks : pc[t] # "delete"
      /\ Moving /\ From \in Blocks /\ wblk \in Blocks /\ flash \in Flash
      /\ Len(flash[From].items) \in Nat /\ Len(flash[From].items) < SIZE
  BY <1>2, GcFacts, TypeFacts DEF Collecting, Holding
<1>4. CASE flash' = flash
  <2>1. SameLive
    BY <1>4 DEF SameLive, Live, Written, ItemAt
  <2> QED BY <1>2, <2>1, LiveMap
<1>5. CASE Written(s) /\ ItemAt(s).st = "normal" /\ flash' = Appended(wblk, ItemAt(s))
  <2>1. gc.i \in 1 .. Len(flash[From].items) + 1
    BY <1>2, <1>3 DEF Moving
  <2>2. s \in Positions
    BY <1>1, <1>3, <2>1, PositionFacts, SizeFacts
  <2>3. PICK it \in Items : it = ItemAt(s) /\ it.st = "normal"
    BY <1>3, <1>5, <2>2, ItemFacts
  <2>4. PICK x : x = <<wblk, Len(flash[wblk].items) + 1>>
    OBVIOUS
  <2>5. /\ x \in Positions /\ ItemAt(x)' = it
        /\ \A p \in Positions : /\ Written(p) => ItemAt(p)' = ItemAt(p) /\ p # x
                                /\ \A k : Live(p, k)' <=> Live(p, k) \/ (p = x /\ k = it.key)
    <3>1. Len(flash[wblk].items) < SIZE /\ flash' = Appended(wblk, it)
      BY <1>3, <1>5, <2>3, TypeFacts
    <3> QED BY <1>3, <2>3, <2>4, <3>1, AppendLive
  <2> SUFFICES ASSUME NEW k \in Keys \ exposed PROVE Recovered(k)' = Recovered(k)
    BY <1>2 DEF SameMap
  <2>6. Known(k) /\ Known(k)' /\ SinglePer(k) /\ SinglePer(k)'
    BY <1>2, <1>3, KnownKeys, KnownNext, SinglePers, SinglePersNext
  <2>7. ASSUME NEW p \in Positions, Live(p, k)'
        PROVE  \E q \in Positions : Live(q, k) /\ ItemAt(p)'.val = ItemAt(q).val
    <3>1. CASE Live(p, k)
      BY <2>5, <3>1 DEF Live
    <3>2. CASE p = x /\ k = it.key
      BY <1>5, <2>2, <2>3, <2>5, <3>2 DEF Live
    <3> QED BY <2>5, <2>7, <3>1, <3>2
  <2>8. (\E p \in Positions : Live(p, k)) => \E p \in Positions : Live(p, k)'
    BY <2>5
  <2> QED BY <2>6, <2>7, <2>8, CopiedValue
<1> QED BY <1>2, <1>4, <1>5

\* kv_init() does not change the map; it may expose a key.
LEMMA BootMap ==
  ASSUME IInv, LInv, PassedInv, IInv', LInv', Boot
  PROVE  SameMap /\ exposed \subseteq exposed' /\ exposed' \subseteq Keys
<1>1. exposed \subseteq exposed' /\ exposed' \subseteq Keys
  <2>1. exposed \subseteq exposed'
    BY DEF Boot, BootHead, BootItem, BootReplaceFails, BootItemFails, BootBlockDone, BootUnclean,
           BootReady, ghosts
  <2>2. TypeOK'
    BY DEF IInv
  <2> QED BY <2>1, <2>2 DEF TypeOK
<1>2. CASE BootHead \/ BootReplaceFails \/ BootItemFails \/ BootBlockDone \/ BootReady
  BY <1>1, <1>2, BootLive, LiveMap
<1>3. CASE BootItem
  <2>1. exposed' = exposed
    BY <1>3 DEF BootItem, ghosts
  <2> QED BY <1>1, <1>3, <2>1, BootItemLive, LiveMap, ReplacedMap
<1>4. CASE BootUnclean
  <2>1. (\A t \in Tasks : pc[t] # "delete") /\ exposed' = exposed
    BY <1>4 DEF BootUnclean, IInv, LockInv, ghosts
  <2> QED BY <1>1, <1>4, <2>1, UncleanLive, LiveMap, EraseMap
<1> QED BY <1>1, <1>2, <1>3, <1>4 DEF Boot

\* Neither a collection nor a power failure changes the map; they may expose keys.
LEMMA CollectMap ==
  ASSUME IInv, LInv, IInv', LInv', Collect \/ PowerFails \/ UNCHANGED vars
  PROVE  SameMap /\ exposed \subseteq exposed' /\ exposed' \subseteq Keys
<1>1. exposed \subseteq exposed' /\ exposed' \subseteq Keys
  <2>1. exposed \subseteq exposed'
    BY DEF Collect, GcLock, GcCopy, GcCopyFails, GcErase, GcHeader, GcUse, GcPost, PowerFails,
           vars, ghosts
  <2>2. TypeOK'
    BY DEF IInv
  <2> QED BY <2>1, <2>2 DEF TypeOK
<1>2. CASE GcLock \/ GcCopyFails \/ GcHeader \/ GcUse \/ GcPost \/ UNCHANGED vars
  BY <1>1, <1>2, CollectLive, LiveMap
<1>3. CASE GcCopy
  BY <1>1, <1>3, CopyMap
<1>4. CASE GcErase
  <2>1. boot.ph = "up" /\ (\A t \in Tasks : pc[t] # "delete") /\ exposed' = exposed
    BY <1>4, GcFacts DEF GcErase, ghosts, Collecting, Holding
  <2> QED BY <1>1, <1>4, <2>1, EraseLive, EraseMap
<1>5. CASE PowerFails
  BY <1>1, <1>5, PowerLive, LiveMap
<1> QED BY <1>1, <1>2, <1>3, <1>4, <1>5 DEF Collect

-----------------------------------------------------------------------------
(* The steps as steps of the map *)

\* What a task has asked for and not made depends on how far it is, and, once it
\* deletes, on what is stored.
LEMMA TodoFacts ==
  ASSUME NEW t \in Tasks
  PROVE  /\ pc[t] = "idle" => Todo(t) = {}
         /\ pc[t] \in Setting => Todo(t) = {c \in Map!Changes : c[1] = op[t].key /\ c[2] = op[t].val}
         /\ pc[t] = "delete" /\ op[t].kind \in {"set", "delete"} =>
              Todo(t) = {c \in Map!Changes : c[1] = op[t].key /\ c[2] = op[t].val /\ Stored(c[1]) # c[2]}
         /\ pc[t] = "mark" /\ op[t].kind # "prefix" => Todo(t) = {}
         /\ pc[t] \in {"prefix", "delete", "mark"} /\ op[t].kind = "prefix" =>
              Todo(t) = {c \in Map!Changes : c[1] \in op[t].keys /\ c[2] = None /\ Stored(c[1]) # None}
  BY DEF Todo, Pending, Setting, Map!Changes

\* ... also after a step.
LEMMA TodoNext ==
  ASSUME NEW t \in Tasks
  PROVE  /\ pc'[t] = "idle" => Todo(t)' = {}
         /\ pc'[t] \in Setting =>
              Todo(t)' = {c \in Map!Changes : c[1] = op'[t].key /\ c[2] = op'[t].val}
         /\ pc'[t] = "delete" /\ op'[t].kind \in {"set", "delete"} =>
              Todo(t)' = {c \in Map!Changes : /\ c[1] = op'[t].key /\ c[2] = op'[t].val
                                              /\ Stored(c[1])' # c[2]}
         /\ pc'[t] = "mark" /\ op'[t].kind # "prefix" => Todo(t)' = {}
         /\ pc'[t] \in {"prefix", "delete", "mark"} /\ op'[t].kind = "prefix" =>
              Todo(t)' = {c \in Map!Changes : /\ c[1] \in op'[t].keys /\ c[2] = None
                                              /\ Stored(c[1])' # None}
  BY DEF Todo, Pending, Setting, Map!Changes

\* The map of all keys stays, those that are exempt included.
SameStored == \A k \in Keys : Stored(k)' = Stored(k)

\* A step that exposes no key leaves all of it when it leaves the others.
LEMMA MapStored == SameMap /\ exposed' = exposed => SameStored
  BY DEF SameMap, SameStored, Stored

\* A task that stays where it is asks for what it asked for.
LEMMA SameTodo ==
  ASSUME NEW t \in Tasks, pc'[t] = pc[t], op'[t] = op[t],
         SameStored \/ pc[t] \notin {"prefix", "delete", "mark"}
  PROVE  Todo(t)' = Todo(t)
<1>1. \A c \in Keys \X (Vals \cup {None}) : Pending(t, c[1], c[2])' <=> Pending(t, c[1], c[2])
  BY DEF Pending, SameStored
<1> QED BY <1>1 DEF Todo

\* A step that leaves the values, but for keys it exposes, is one that gives up
\* what some tasks asked for ...
LEMMA GiveUpStep ==
  ASSUME SameMap, exposed \subseteq exposed', exposed' \subseteq Keys,
         \A u \in Tasks : Todo(u)' = Todo(u) \/ Todo(u)' = {}
  PROVE  Map!GiveUp
<1>1. \A k \in Keys : Stored(k)' = IF k \in exposed' \ exposed THEN None ELSE Stored(k)
  BY DEF SameMap, Stored
<1>2. \E D \in SUBSET Tasks : \A u \in Tasks : Todo(u)' = IF u \in D THEN {} ELSE Todo(u)
  <2> WITNESS {u \in Tasks : Todo(u)' = {}} \in SUBSET Tasks
  <2> QED OBVIOUS
<1> QED BY <1>1, <1>2 DEF Map!GiveUp

\* ... one that adds to what a task asked for is Ask ...
LEMMA AskStep ==
  ASSUME NEW t \in Tasks, SameStored, exposed' = exposed, Todo(t) = {},
         \A u \in Tasks \ {t} : Todo(u)' = Todo(u),
         \/ \E c \in Map!Changes : Todo(t)' = {c}
         \/ \E G \in SUBSET Keys : Todo(t)' = G \X {None}
  PROVE  Map!Ask(t)
<1>1. [k \in Keys |-> Stored(k)]' = [k \in Keys |-> Stored(k)]
  BY DEF SameStored
<1>2. \A D : Todo(t)' = D => [u \in Tasks |-> Todo(u)]' = [[u \in Tasks |-> Todo(u)] EXCEPT ![t] = D]
  OBVIOUS
<1> QED BY <1>1, <1>2 DEF Map!Ask

\* ... and one that sets a key to what a task asked for is Make.
LEMMA MakeStep ==
  ASSUME NEW t \in Tasks, NEW k \in Keys \ exposed, NEW v, exposed' = exposed,
         Recovered(k)' = v, \A j \in Keys \ exposed : j # k => Recovered(j)' = Recovered(j),
         Todo(t)' = Todo(t) \ {<<k, v>>}, \A u \in Tasks \ {t} : Todo(u)' = Todo(u)
  PROVE  Map!Make(t, <<k, v>>)
<1>1. \A j \in Keys : Stored(j)' = IF j = k THEN v ELSE Stored(j)
  BY DEF Stored
<1>2. [j \in Keys |-> Stored(j)]' = [[j \in Keys |-> Stored(j)] EXCEPT ![k] = v]
  BY <1>1
<1>3. [u \in Tasks |-> Todo(u)]' = [[u \in Tasks |-> Todo(u)] EXCEPT ![t] = @ \ {<<k, v>>}]
  OBVIOUS
<1>4. <<k, v>>[1] = k /\ <<k, v>>[2] = v
  OBVIOUS
<1> QED BY <1>2, <1>3, <1>4 DEF Map!Make

\* A step of task t that leaves the items alone leaves the changes it has asked
\* for or gives them up ...
LEMMA TaskTodo ==
  ASSUME IInv, LInv, IInv', LInv', NEW t \in Tasks,
         \/ SetCount(t) \/ SetTake(t) \/ SetLock(t) \/ SearchFails(t) \/ SetFails(t)
         \/ PrefixNext(t) \/ PrefixFails(t) \/ MarkDirty(t)
  PROVE  Map!GiveUp
<1>1. /\ pc \in [Tasks -> {"idle", "count", "take", "blocked", "lock", "append", "delete", "mark",
                          "prefix"}]
      /\ op \in [Tasks -> Ops]
  BY TypeFacts DEF IInv, OpInv
<1>2. exposed \subseteq exposed' /\ exposed' \subseteq Keys
  <2>1. exposed \subseteq exposed'
    BY DEF SetCount, SetTake, SetLock, SearchFails, SetFails, PrefixNext, PrefixFails, MarkDirty,
           Store, ghosts
  <2>2. TypeOK'
    BY DEF IInv
  <2> QED BY <2>1, <2>2 DEF TypeOK
<1>3. SameMap
  BY <1>2, TaskLive, LiveMap
<1>4. exposed' = exposed => SameStored
  BY <1>3, MapStored
<1>5. ASSUME NEW u \in Tasks \ {t} PROVE Todo(u)' = Todo(u)
  <2>1. pc'[u] = pc[u] /\ op'[u] = op[u]
    BY OthersStay DEF Work
  <2>2. CASE SetLock(t) \/ SearchFails(t) \/ SetFails(t) \/ PrefixFails(t)
    <3>1. pc[u] \notin Holding
      BY <2>2, UpFacts DEF SetLock, SearchFails, SetFails, PrefixFails, Holding
    <3> QED BY <2>1, <3>1, SameTodo DEF Holding
  <2>3. CASE SetCount(t) \/ SetTake(t) \/ PrefixNext(t) \/ MarkDirty(t)
    <3>1. exposed' = exposed
      BY <2>3 DEF SetCount, SetTake, PrefixNext, MarkDirty, ghosts
    <3> QED BY <1>4, <2>1, <3>1, SameTodo
  <2> QED BY <2>2, <2>3
<1>6. Todo(t)' = Todo(t) \/ Todo(t)' = {}
  <2>1. CASE pc'[t] = "idle"
    BY <2>1, TodoNext
  <2>2. CASE pc[t] \in Setting /\ pc'[t] \in Setting /\ op'[t].key = op[t].key /\ op'[t].val = op[t].val
    BY <2>2, TodoFacts, TodoNext
  <2>3. CASE /\ pc[t] \in {"prefix", "delete", "mark"} /\ op[t].kind = "prefix" /\ exposed' = exposed
             /\ pc'[t] \in {"prefix", "delete", "mark"} /\ op'[t].kind = "prefix"
             /\ op'[t].keys = op[t].keys
    <3>1. \A c \in Map!Changes : Stored(c[1])' = Stored(c[1])
      BY <1>4, <2>3 DEF SameStored, Map!Changes
    <3>2. Todo(t)' = {c \in Map!Changes : /\ c[1] \in op[t].keys /\ c[2] = None
                                          /\ Stored(c[1])' # None}
      BY <2>3, TodoNext
    <3>3. Todo(t) = {c \in Map!Changes : /\ c[1] \in op[t].keys /\ c[2] = None
                                         /\ Stored(c[1]) # None}
      BY <2>3, TodoFacts
    <3> QED BY <3>1, <3>2, <3>3
  <2>4. CASE SetCount(t) \/ SetTake(t)
    <3>1. pc[t] \in Setting /\ pc'[t] \in Setting /\ op' = op
      BY <1>1, <2>4 DEF SetCount, SetTake, Goto, Setting
    <3> QED BY <2>2, <3>1
  <2>5. ASSUME pc[t] = "lock", NEW p, NEW f, Store(t, p, f) PROVE Todo(t)' = Todo(t) \/ Todo(t)' = {}
    <3>1. CASE Space(wblk) > 1
      <4>1. pc' = [pc EXCEPT ![t] = "append"] /\ op' = [op EXCEPT ![t].old = p]
        BY <2>5, <3>1 DEF Store, Goto
      <4>2. pc'[t] = "append" /\ op'[t].key = op[t].key /\ op'[t].val = op[t].val
        BY <1>1, <4>1 DEF Ops
      <4> QED BY <2>2, <2>5, <4>2 DEF Setting
    <3>2. CASE ~(Space(wblk) > 1)
      <4>1. pc'[t] = "idle"
        BY <1>1, <2>5, <3>2 DEF Store, Return, Goto
      <4> QED BY <2>1, <4>1
    <3> QED BY <3>1, <3>2
  <2>6. CASE SetLock(t) \/ SearchFails(t)
    <3>1. pc'[t] = "idle" \/ \E p, f : Store(t, p, f)
      BY <1>1, <2>6 DEF SetLock, SearchFails, Return, Goto
    <3> QED BY <2>1, <2>5, <2>6, <3>1 DEF SetLock, SearchFails
  <2>7. CASE PrefixNext(t)
    <3>1. pc[t] = "prefix" /\ exposed' = exposed
      BY <2>7 DEF PrefixNext, ghosts
    <3> QED BY <2>1, <2>3, <2>7, <3>1, PrefixKey
  <2>8. CASE MarkDirty(t)
    <3>1. pc[t] = "mark" /\ exposed' = exposed
          /\ \/ op[t].kind = "prefix" /\ pc'[t] = "prefix" /\ op' = op
             \/ pc'[t] = "idle"
      BY <1>1, <2>8 DEF MarkDirty, Return, Goto
    <3> QED BY <2>1, <2>3, <3>1
  <2>9. CASE SetFails(t) \/ PrefixFails(t)
    <3>1. pc'[t] = "idle"
      BY <1>1, <2>9 DEF SetFails, PrefixFails, Return, Goto
    <3> QED BY <2>1, <3>1
  <2> QED BY <2>4, <2>6, <2>7, <2>8, <2>9
<1> QED BY <1>2, <1>3, <1>5, <1>6, GiveUpStep

\* ... and one that begins an operation asks for them.
LEMMA AskTodo ==
  ASSUME IInv, LInv, IInv', LInv', NEW t \in Tasks,
         \/ \E k \in Keys, v \in Vals : SetEnter(t, k, v)
         \/ \E k \in Keys : Delete(t, k)
         \/ \E G \in Groups : DeleteByPrefix(t, G)
  PROVE  Map!Ask(t)
<1>1. /\ pc \in [Tasks -> {"idle", "count", "take", "blocked", "lock", "append", "delete", "mark",
                          "prefix"}]
      /\ op \in [Tasks -> Ops] /\ Groups \subseteq SUBSET Keys
  BY TypeFacts, KvAssumption DEF IInv, OpInv
<1>2. exposed' = exposed /\ pc[t] = "idle"
  BY DEF SetEnter, Delete, DeleteByPrefix, ghosts
<1>3. SameStored
  BY <1>2, TaskLive, LiveMap, MapStored
<1>4. \A u \in Tasks \ {t} : Todo(u)' = Todo(u)
  BY <1>3, OthersStay, SameTodo
<1>5. Todo(t) = {}
  BY <1>2, TodoFacts
<1>6. ASSUME NEW G \in SUBSET Keys, Todo(t)' = {c \in Map!Changes : /\ c[1] \in G /\ c[2] = None
                                                                    /\ Stored(c[1])' # None}
      PROVE  \E H \in SUBSET Keys : Todo(t)' = H \X {None}
  <2> DEFINE H == {k \in G : Stored(k)' # None}
  <2>1. Todo(t)' = H \X {None}
    BY <1>6 DEF Map!Changes
  <2> QED BY <2>1
<1>7. CASE \E k \in Keys, v \in Vals : SetEnter(t, k, v)
  <2>1. PICK k \in Keys, v \in Vals : SetEnter(t, k, v)
    BY <1>7
  <2>2. op'[t].key = k /\ op'[t].val = v /\ pc'[t] \in Setting
    BY <1>1, <2>1 DEF SetEnter, Goto, Setting
  <2>3. Todo(t)' = {<<k, v>>} /\ <<k, v>> \in Map!Changes
    BY <2>2, TodoNext DEF Map!Changes
  <2> QED BY <1>2, <1>3, <1>4, <1>5, <2>3, AskStep
<1>8. CASE \E k \in Keys : Delete(t, k)
  <2>1. PICK k \in Keys : Delete(t, k)
    BY <1>8
  <2>2. op'[t].key = k /\ op'[t].val = None /\ op'[t].kind = "delete" /\ pc'[t] = "delete"
    BY <1>1, <2>1 DEF Delete, Goto
  <2>3. Todo(t)' = {c \in Map!Changes : c[1] \in {k} /\ c[2] = None /\ Stored(c[1])' # None}
    BY <2>2, TodoNext
  <2>4. \E H \in SUBSET Keys : Todo(t)' = H \X {None}
    <3>1. {k} \in SUBSET Keys
      OBVIOUS
    <3> QED BY <1>6, <2>3, <3>1
  <2> QED BY <1>2, <1>3, <1>4, <1>5, <2>4, AskStep
<1>9. CASE \E G \in Groups : DeleteByPrefix(t, G)
  <2>1. PICK G \in Groups : DeleteByPrefix(t, G)
    BY <1>9
  <2>2. op'[t].keys = G /\ op'[t].kind = "prefix" /\ pc'[t] = "prefix"
    BY <1>1, <2>1 DEF DeleteByPrefix, Goto
  <2>3. Todo(t)' = {c \in Map!Changes : c[1] \in G /\ c[2] = None /\ Stored(c[1])' # None}
    BY <2>2, TodoNext
  <2> QED BY <1>1, <1>2, <1>3, <1>4, <1>5, <1>6, <2>3, AskStep
<1> QED BY <1>7, <1>8, <1>9

\* One key takes a new value, or keeps its own, and the task that asked for it
\* waits for no change of it any more, unless it is still to come.
LEMMA ChangeStep ==
  ASSUME NEW t \in Tasks, NEW k \in Keys, NEW v \in Vals \cup {None}, exposed' = exposed,
         exposed \subseteq Keys,
         \A j \in Keys \ exposed : j # k => Recovered(j)' = Recovered(j),
         k \notin exposed => Recovered(k)' \in {Recovered(k), v},
         \A u \in Tasks \ {t} : Todo(u)' = Todo(u),
         SameStored => Todo(t)' = Todo(t) \/ Todo(t)' = {},
         Stored(k)' = v /\ Stored(k) # v => <<k, v>> \in Todo(t) /\ Todo(t)' = Todo(t) \ {<<k, v>>}
  PROVE  Map!GiveUp \/ \E c \in Todo(t) : Map!Make(t, c)
<1>1. CASE k \in exposed \/ Recovered(k)' = Recovered(k)
  <2>1. SameMap
    BY <1>1 DEF SameMap
  <2> QED BY <2>1, MapStored, GiveUpStep
<1>2. CASE k \notin exposed /\ Recovered(k)' # Recovered(k)
  <2>1. Recovered(k)' = v /\ Stored(k)' = v /\ Stored(k) # v
    BY <1>2 DEF Stored
  <2> QED BY <1>2, <2>1, MakeStep
<1> QED BY <1>1, <1>2

\* A set takes effect when its item is written, if that is the one a recovery
\* would keep ...
LEMMA AppendTodo ==
  ASSUME IInv, LInv, IInv', LInv', NEW t \in Tasks, AppendItem(t)
  PROVE  Map!GiveUp \/ \E c \in Todo(t) : Map!Make(t, c)
<1>1. /\ pc[t] = "append" /\ flash' = Appended(wblk, NewItem(t)) /\ exposed' = exposed
      /\ IF op[t].old = None THEN Return(t) ELSE pc' = [pc EXCEPT ![t] = "delete"] /\ op' = op
  BY DEF AppendItem, Goto
<1>2. /\ TypeOK /\ OwnInv /\ wblk \in Blocks /\ Len(flash[wblk].items) < SIZE
      /\ \A k \in Keys \ exposed : KeyInv(k)
      /\ pc[t] \in Holding /\ boot.ph = "up" /\ gc.pc \notin Collecting
      /\ \A u \in Tasks : pc[u] # "delete"
  BY <1>1, WriteFacts, UpFacts DEF IInv, LInv, Holding
<1>3. PICK k0 \in Keys, v0 \in Vals, old \in Positions \cup {None} :
         op[t].key = k0 /\ op[t].val = v0 /\ op[t].old = old /\ op[t].kind = "set"
  <2>1. op[t] \in Ops
    BY DEF IInv, OpInv
  <2> QED BY <1>1, <2>1 DEF IInv, OpInv, Setting, Ops
<1>4. PICK it : it = NewItem(t)
  OBVIOUS
<1>5. it \in Items /\ it.st = "normal" /\ it.key = k0 /\ it.val = v0
  BY <1>3, <1>4 DEF NewItem, Items
<1>6. PICK x : x = <<wblk, Len(flash[wblk].items) + 1>>
  OBVIOUS
<1>7. /\ x \in Positions /\ ItemAt(x)' = it
      /\ \A p \in Positions : /\ Written(p) => ItemAt(p)' = ItemAt(p) /\ p # x
                              /\ \A k : Live(p, k)' <=> Live(p, k) \/ (p = x /\ k = k0)
  BY <1>1, <1>2, <1>4, <1>5, <1>6, AppendLive
<1>8. \A p \in Positions : \A k : Live(p, k) => ItemAt(p)' = ItemAt(p)
  BY <1>7 DEF Live
<1>9. ASSUME NEW k \in Keys \ exposed PROVE Known(k) /\ Known(k)'
  BY <1>1, KnownKeys, KnownNext
<1>10. ASSUME NEW k \in Keys \ exposed, k # k0 PROVE Recovered(k)' = Recovered(k)
  BY <1>7, <1>8, <1>9, <1>10, SameValue
<1>11. ASSUME k0 \notin exposed PROVE Recovered(k0)' \in {Recovered(k0), v0}
  <2>1. Live(x, k0)'
    BY <1>7
  <2>2. PICK p \in Positions : Kept(p, k0)' /\ Recovered(k0)' = ItemAt(p)'.val
    BY <1>7, <1>9, <1>11, <2>1 DEF Known
  <2>3. CASE p = x
    BY <1>5, <1>7, <2>2, <2>3
  <2>4. CASE p # x
    <3>1. Live(p, k0) /\ ItemAt(p)' = ItemAt(p)
      BY <1>7, <1>8, <2>2, <2>4 DEF Kept
    <3>2. Single(k0) /\ SinglePer(k0)
      BY <1>2, <1>11, OneLive DEF KeyInv, Single, SinglePer
    <3>3. Recovered(k0) = ItemAt(p).val
      BY <1>9, <1>11, <3>1, <3>2 DEF Known
    <3> QED BY <2>2, <3>1, <3>3
  <2> QED BY <2>3, <2>4
<1>12. \A u \in Tasks \ {t} : Todo(u)' = Todo(u)
  <2> SUFFICES ASSUME NEW u \in Tasks \ {t} PROVE Todo(u)' = Todo(u)
    OBVIOUS
  <2>1. pc[u] \notin Holding /\ pc'[u] = pc[u] /\ op'[u] = op[u]
    BY <1>2, UpFacts, OthersStay DEF Work
  <2> QED BY <2>1, SameTodo DEF Holding
<1>13. Todo(t) = {<<k0, v0>>}
  <2>1. Todo(t) = {c \in Map!Changes : c[1] = k0 /\ c[2] = v0}
    BY <1>1, <1>3, TodoFacts DEF Setting
  <2> QED BY <2>1 DEF Map!Changes
<1>14. Todo(t)' = {} \/ (Todo(t)' = {<<k0, v0>>} /\ Stored(k0)' # v0)
  <2>1. CASE old = None
    <3>1. pc'[t] = "idle"
      BY <1>1, <1>2, <1>3, <2>1, ReturnFacts, TypeFacts
    <3> QED BY <3>1, TodoNext
  <2>2. CASE old # None
    <3>1. pc'[t] = "delete" /\ op'[t].kind = "set" /\ op'[t].key = k0 /\ op'[t].val = v0
      BY <1>1, <1>2, <1>3, <2>2, TypeFacts
    <3>2. Todo(t)' = {c \in Map!Changes : c[1] = k0 /\ c[2] = v0 /\ Stored(c[1])' # c[2]}
      BY <3>1, TodoNext
    <3> QED BY <3>2 DEF Map!Changes
  <2> QED BY <2>1, <2>2
<1>15. exposed \subseteq Keys
  BY <1>2 DEF TypeOK
<1> QED BY <1>1, <1>10, <1>11, <1>12, <1>13, <1>14, <1>15, ChangeStep

\* ... and otherwise, like a deletion, with the item it replaces.
LEMMA DeleteTodo ==
  ASSUME IInv, LInv, OpKindInv, IInv', LInv', NEW t \in Tasks, DeleteItem(t)
  PROVE  Map!GiveUp \/ \E c \in Todo(t) : Map!Make(t, c)
<1>1. /\ pc[t] = "delete" /\ flash' = DeletedAt(op[t].old)
      /\ pc' = [pc EXCEPT ![t] = "mark"] /\ UNCHANGED <<exposed, op>>
  BY DEF DeleteItem, Goto
<1>2. /\ TypeOK /\ OwnInv /\ OldInv /\ exposed \subseteq Keys
      /\ pc[t] \in Holding /\ \A u \in Tasks \ {t} : pc[u] \notin Holding
  BY <1>1, UpFacts DEF IInv, LInv, Holding, TypeOK
<1>3. PICK k0 \in Keys, old \in Positions, v0 \in Vals \cup {None} :
         op[t].key = k0 /\ op[t].val = v0 /\ op[t].old = old
  <2>0. op[t].val \in Vals \cup {None}
    BY DEF IInv, OpInv, Ops
  <2>1. op[t].key \in Keys
    BY <1>1 DEF IInv, OpInv
  <2>2. op[t].old \in Positions
    BY <1>1, <1>2 DEF OldInv
  <2> QED BY <2>0, <2>1, <2>2
<1>4. Live(old, k0) /\ Written(old) /\ (op[t].kind # "set" => v0 = None)
  BY <1>1, <1>2, <1>3 DEF OwnInv, OwnOf, Live
<1>5. \A q \in Positions : /\ q # old /\ Written(q) => ItemAt(q)' = ItemAt(q)
                           /\ \A k : Live(q, k)' <=> Live(q, k) /\ q # old
  <2>1. \A b \in Blocks : flash'[b].items = DeletedAt(old)[b].items
    BY <1>1, <1>3
  <2> QED BY <1>2, <1>4, <2>1, DeleteLive, TypeFacts
<1>6. pc'[t] = "mark" /\ op'[t] = op[t] /\ \A u \in Tasks \ {t} : pc'[u] = pc[u] /\ op'[u] = op[u]
  BY <1>1, <1>2, TypeFacts
<1>7. ASSUME NEW k \in Keys \ exposed PROVE Known(k) /\ Known(k)'
  BY <1>1, KnownKeys, KnownNext
<1>8. ASSUME NEW k \in Keys \ exposed, k # k0 PROVE Recovered(k)' = Recovered(k)
  <2>1. ~Live(old, k)
    BY <1>4, <1>8 DEF Live
  <2>2. \A q \in Positions : (Live(q, k)' <=> Live(q, k)) /\ (Live(q, k) => ItemAt(q)' = ItemAt(q))
    BY <1>5, <2>1 DEF Live
  <2> QED BY <1>7, <1>8, <2>2, SameValue
<1>9. ASSUME k0 \notin exposed PROVE Recovered(k0)' = v0
  <2>1. TaskOf(t, k0)'
    BY <1>1, <1>3, <1>6, <1>9 DEF LInv, KeyInv
  <2>2. /\ \A q \in Positions : Live(q, k0)' => ItemAt(q)'.val = v0
        /\ (\A q \in Positions : ~Live(q, k0)') => v0 = None
    BY <1>3, <1>6, <2>1 DEF TaskOf
  <2>3. CASE \A q \in Positions : ~Live(q, k0)'
    BY <1>7, <1>9, <2>2, <2>3 DEF Known
  <2>4. CASE \E q \in Positions : Live(q, k0)'
    <3>1. PICK p \in Positions : Kept(p, k0)' /\ Recovered(k0)' = ItemAt(p)'.val
      BY <1>7, <1>9, <2>4 DEF Known
    <3> QED BY <2>2, <3>1 DEF Kept
  <2> QED BY <2>3, <2>4
<1>10. \A u \in Tasks \ {t} : Todo(u)' = Todo(u)
  BY <1>2, <1>6, SameTodo DEF Holding
<1>11. \A k \in Keys : k # k0 => Stored(k)' = Stored(k)
  BY <1>1, <1>8 DEF Stored
<1>12. CASE op[t].kind \in {"set", "delete"}
  <2>1. Todo(t) = {c \in Map!Changes : c[1] = k0 /\ c[2] = v0 /\ Stored(c[1]) # c[2]}
    BY <1>1, <1>3, <1>12, TodoFacts
  <2>2. Todo(t)' = {}
    BY <1>6, <1>12, TodoNext
  <2>3. Stored(k0) # v0 => Todo(t) = {<<k0, v0>>}
    BY <2>1 DEF Map!Changes
  <2> QED BY <1>1, <1>2, <1>8, <1>9, <1>10, <2>2, <2>3, ChangeStep
<1>13. CASE op[t].kind = "prefix" /\ k0 \in op[t].keys
  <2>1. v0 = None
    BY <1>4, <1>13
  <2>2. Todo(t) = {c \in Map!Changes : c[1] \in op[t].keys /\ c[2] = None /\ Stored(c[1]) # None}
    BY <1>1, <1>13, TodoFacts
  <2>3. Todo(t)' = {c \in Map!Changes : c[1] \in op[t].keys /\ c[2] = None /\ Stored(c[1])' # None}
    BY <1>6, <1>13, TodoNext
  <2>4. SameStored => Todo(t)' = Todo(t)
    <3>1. SameStored => \A c \in Map!Changes : Stored(c[1])' = Stored(c[1])
      BY DEF SameStored, Map!Changes
    <3> QED BY <2>2, <2>3, <3>1
  <2>5. ASSUME Stored(k0)' = None, Stored(k0) # None
        PROVE  <<k0, None>> \in Todo(t) /\ Todo(t)' = Todo(t) \ {<<k0, None>>}
    <3>1. \A c \in Map!Changes : /\ c[1] # k0 => Stored(c[1])' = Stored(c[1])
                                 /\ c[1] = k0 /\ c[2] = None <=> c = <<k0, None>>
      BY <1>11 DEF Map!Changes
    <3>2. <<k0, None>> \in Map!Changes
      BY DEF Map!Changes
    <3> QED BY <1>13, <2>2, <2>3, <2>5, <3>1, <3>2
  <2> QED BY <1>1, <1>2, <1>8, <1>9, <1>10, <2>1, <2>4, <2>5, ChangeStep
<1> QED BY <1>1, <1>3, <1>12, <1>13 DEF OpKindInv

\* kv_init() changes no value, and nobody asks for one ...
LEMMA BootTodo == ASSUME IInv, LInv, PassedInv, IInv', LInv', Boot PROVE Map!GiveUp
<1>1. SameMap /\ exposed \subseteq exposed' /\ exposed' \subseteq Keys
  BY BootMap
<1>2. pc' = pc /\ \A t \in Tasks : pc[t] = "idle"
  BY PhaseFacts DEF Boot, BootHead, BootItem, BootReplaceFails, BootItemFails, BootBlockDone,
                    BootUnclean, BootReady, tasks, IInv, LockInv
<1>3. \A t \in Tasks : Todo(t)' = {}
  BY <1>2, TodoNext
<1> QED BY <1>1, <1>3, GiveUpStep

\* ... nor do a collection or a power failure: at most the tasks give up.
LEMMA CollectTodo ==
  ASSUME IInv, LInv, IInv', LInv', Collect \/ PowerFails \/ UNCHANGED vars PROVE Map!GiveUp
<1>1. SameMap /\ exposed \subseteq exposed' /\ exposed' \subseteq Keys
  BY CollectMap
<1>2. exposed' = exposed => SameStored
  BY <1>1, MapStored
<1> SUFFICES ASSUME NEW t \in Tasks PROVE Todo(t)' = Todo(t) \/ Todo(t)' = {}
  BY <1>1, GiveUpStep
<1>3. CASE GcLock \/ GcCopy \/ GcErase \/ GcHeader \/ GcUse \/ UNCHANGED vars
  <2>1. pc' = pc /\ op' = op /\ exposed' = exposed
    BY <1>3 DEF GcLock, GcCopy, GcErase, GcHeader, GcUse, vars, tasks, ghosts
  <2> QED BY <1>2, <2>1, SameTodo
<1>4. CASE GcCopyFails
  <2>1. pc' = pc /\ op' = op /\ gc.pc = "copy"
    BY <1>4 DEF GcCopyFails, tasks
  <2>2. pc[t] \notin Holding
    BY <2>1, UpFacts DEF Collecting
  <2> QED BY <2>1, <2>2, SameTodo DEF Holding
<1>5. CASE GcPost
  <2>1. op' = op /\ exposed' = exposed /\ (pc'[t] = pc[t] \/ (pc[t] = "blocked" /\ pc'[t] = "lock"))
    BY <1>5 DEF GcPost, ghosts
  <2>2. CASE pc'[t] = pc[t]
    BY <1>2, <2>1, <2>2, SameTodo
  <2>3. CASE pc[t] = "blocked" /\ pc'[t] = "lock"
    BY <2>1, <2>3, TodoFacts, TodoNext DEF Setting
  <2> QED BY <2>1, <2>2, <2>3
<1>6. CASE PowerFails
  <2>1. pc'[t] = "idle"
    BY <1>6 DEF PowerFails
  <2> QED BY <2>1, TodoNext
<1> QED BY <1>3, <1>4, <1>5, <1>6 DEF Collect

\* The store before the first boot is the empty map.
LEMMA InitMap == Init => Map!Init
<1> SUFFICES ASSUME Init PROVE Map!Init
  OBVIOUS
<1>1. /\ \A b \in Blocks : flash[b].items = <<>>
      /\ \A t \in Tasks : pc[t] = "idle"
      /\ exposed = {}
  BY DEF Init
<1>2. \A k \in Keys : ItemsOf(k) = {}
  <2>1. Len(<<>>) = 0
    OBVIOUS
  <2> QED BY <1>1, <2>1, PositionFacts, SizeFacts DEF ItemsOf, Live, Written
<1>3. \A k \in Keys : Stored(k) = None
  BY <1>1, <1>2 DEF Stored, Recovered
<1>4. \A t \in Tasks : Todo(t) = {}
  BY <1>1, TodoFacts
<1> QED BY <1>1, <1>3, <1>4 DEF Map!Init

\* Every step of the store is a step of the map.
LEMMA MapStep ==
  ASSUME IInv, LInv, MInv, IInv', LInv', [Next]_vars PROVE Map!Next
<1>1. CASE Boot
  BY <1>1, BootTodo DEF MInv, Map!Next
<1>2. CASE Collect \/ PowerFails \/ UNCHANGED vars
  BY <1>2, CollectTodo DEF Map!Next
<1>3. ASSUME NEW t \in Tasks,
             \/ \E k \in Keys, v \in Vals : SetEnter(t, k, v)
             \/ \E k \in Keys : Delete(t, k)
             \/ \E G \in Groups : DeleteByPrefix(t, G)
      PROVE  Map!Next
  BY <1>3, AskTodo DEF Map!Next
<1>4. ASSUME NEW t \in Tasks, Work(t) PROVE Map!Next
  <2>1. CASE AppendItem(t)
    BY <2>1, AppendTodo DEF Map!Next
  <2>2. CASE DeleteItem(t)
    BY <2>2, DeleteTodo DEF MInv, Map!Next
  <2>3. CASE ~AppendItem(t) /\ ~DeleteItem(t)
    BY <1>4, <2>3, TaskTodo DEF Work, Map!Next
  <2> QED BY <2>1, <2>2, <2>3
<1> QED BY <1>1, <1>2, <1>3, <1>4 DEF Next

\* The store is a map: a set or delete takes effect in one step or not at all,
\* and no collection, power failure or recovery changes a value.  The map loses
\* the keys that become exposed.
THEOREM StoreImplementsMap == Spec => StoreIsAMap
<1>1. Init => IInv /\ LInv /\ MInv /\ Map!Init
  BY InitIInv, InitL, InitM, InitMap
<1>2. IInv /\ LInv /\ MInv /\ [Next]_vars => IInv' /\ LInv' /\ MInv'
  BY IInvStep, LInvStep, MInvStep
<1>3. IInv /\ LInv /\ MInv /\ IInv' /\ LInv' /\ [Next]_vars => [Map!Next]_(Map!vars)
  BY MapStep
<1> QED BY <1>1, <1>2, <1>3, PTL DEF Spec, StoreIsAMap, Map!Spec

\* ... and for the keys that are not exposed that map is what is read.
THEOREM ReadsAreTheMap == Spec => []ReadsTheMap
<1>1. IInv /\ LInv => ReadsTheMap
  <2> SUFFICES ASSUME IInv, LInv, Quiet, NEW k \in Keys \ exposed PROVE ValueOf(k) = Stored(k)
    BY DEF ReadsTheMap
  <2>1. Single(k) /\ Known(k) /\ Stored(k) = Recovered(k)
    BY QuietFacts, KnownKeys DEF Stored
  <2>2. boot.ph = "up" /\ gc.pc \notin Collecting
    BY KvAssumption DEF Quiet, IsUp, Up, IInv, LockInv
  <2>3. PICK p : p = Find(k)
    OBVIOUS
  <2>4. /\ p # None => p \in Positions /\ Live(p, k)
        /\ p = None => \A q \in Positions : ~Live(q, k)
    BY <2>2, <2>3, FindLive
  <2>5. ValueOf(k) = IF p = None THEN None ELSE ItemAt(p).val
    BY <2>3 DEF ValueOf
  <2> QED BY <2>1, <2>4, <2>5 DEF Known, Single, SinglePer
<1> QED BY <1>1, StoredInv, PTL

===============================================================================
