-------------------------------- MODULE KvMap --------------------------------
(***************************************************************************)
(* What the users of the key-value store may rely on: it is a map from     *)
(* keys to values.  The changes a task asks for are made one by one, each  *)
(* in an indivisible step, at most once and only while the task waits for  *)
(* them; nothing else changes the map, in particular no power failure.     *)
(* Exempt are lost keys, of which the map says nothing any more.           *)
(***************************************************************************)
CONSTANTS
    Keys, Vals,
    Tasks,   \* tasks that use the store
    None     \* no value

\* None is what a deletion writes.
Changes == Keys \X (Vals \cup {None})

VARIABLES
    map,    \* the value of each key
    todo,   \* per task: the changes it has asked for that have not been made
    lost    \* keys the store does not protect

vars == <<map, todo, lost>>

Init ==
    /\ map = [k \in Keys |-> None]
    /\ todo = [t \in Tasks |-> {}]
    /\ lost = {}

\* one change, or the deletion of several keys
Ask(t) ==
    /\ todo[t] = {}
    /\ \/ \E c \in Changes : todo' = [todo EXCEPT ![t] = {c}]
       \/ \E G \in SUBSET Keys : todo' = [todo EXCEPT ![t] = G \X {None}]
    /\ UNCHANGED <<map, lost>>

Make(t, c) ==
    /\ c[1] \notin lost
    /\ map' = [map EXCEPT ![c[1]] = c[2]]
    /\ todo' = [todo EXCEPT ![t] = @ \ {c}]
    /\ UNCHANGED lost

\* Tasks give up what has not been made: because of an error, because there is
\* nothing to change, or all of them because the power fails.  Some of these
\* failures cost the store more keys.
GiveUp ==
    /\ \E D \in SUBSET Tasks : todo' = [t \in Tasks |-> IF t \in D THEN {} ELSE todo[t]]
    /\ lost' \in SUBSET Keys /\ lost \subseteq lost'
    /\ map' = [k \in Keys |-> IF k \in lost' \ lost THEN None ELSE map[k]]

Next == GiveUp \/ \E t \in Tasks : Ask(t) \/ \E c \in todo[t] : Make(t, c)

Spec == Init /\ [][Next]_vars
=============================================================================
