------------------------------- MODULE KeyMap -------------------------------
(***************************************************************************)
(* What every tree of a volume promises: a map from keys to values with an *)
(* answer for each call.  0 stands for "absent"; 1 is the value that is    *)
(* never stored (a reference count of one).  "call" names the operation    *)
(* with its key and value, so that a step is held to what was asked of it. *)
(* "hurt" counts the blocks of the volume that went bad: only then may a   *)
(* value be lost, or a call fail for another reason than a full volume.    *)
(***************************************************************************)
EXTENDS Integers

CONSTANTS Keys, Values, PerOwner

VARIABLES map, call, rc, hurt

vars == <<map, call, rc, hurt>>

Call(do, k, v) == [do |-> do, key |-> k, val |-> v]

NoCall == Call("none", 0, 0)

Init == map = [k \in Keys |-> 0] /\ call = NoCall /\ rc = "ok" /\ hurt = 0

Asked(do, k, v) == call' = Call(do, k, v)

Answer(r, m) == rc' = r /\ map' = m /\ hurt' = hurt

With(k, v) == [map EXCEPT ![k] = IF v = 1 THEN 0 ELSE v]

\* A full volume changes nothing, and what is replaced needs no room.
NoSpace(k) == map[k] = 0 /\ Answer("nospc", map)

Put(k, v) == Asked("put", k, v) /\ (Answer("ok", With(k, v)) \/ NoSpace(k))

\* A value kept outside the tree needs room even when it replaces one.
PutOutside(k, v) ==
    Asked("put outside", k, v) /\ (Answer("ok", With(k, v)) \/ Answer("nospc", map))

\* What is there stays.
Add(k, v) ==
    /\ Asked("add", k, v)
    /\ Answer("ok", IF map[k] = 0 THEN With(k, v) ELSE map) \/ NoSpace(k)

Count(k) == IF map[k] = 0 THEN 1 ELSE map[k]

Increment(k) ==
    Asked("increment", k, 0) /\ (Answer("ok", With(k, Count(k) + 1)) \/ NoSpace(k))

Decrement(k) ==
    /\ Asked("decrement", k, 0)
    /\ Answer("ok", IF Count(k) = 1 THEN map ELSE With(k, Count(k) - 1))

Delete(k) ==
    /\ Asked("delete", k, 0)
    /\ IF map[k] = 0 THEN Answer("notfound", map) ELSE Answer("ok", With(k, 0))

DeleteOwner(o) ==
    /\ Asked("delete owner", o, 0)
    /\ Answer("ok", [k \in Keys |-> IF (k - 1) \div PerOwner = o THEN 0 ELSE map[k]])

Remount == Asked("remount", 0, 0) /\ Answer(rc, map)

\* A block of the volume goes bad: what it held is gone, nothing else is.
Lose ==
    /\ Asked("lose", 0, 0)
    /\ hurt' = hurt + 1 /\ rc' = rc
    /\ map' \in [Keys -> {0} \cup Values]
    /\ \A k \in Keys : map'[k] \in {0, map[k]}

\* On a volume that was hurt an insert may fail, and changes nothing.
Fail(k, v) ==
    hurt > 0 /\ Asked("add", k, v) /\ \E r \in {"io", "badmagic", "inval"} : Answer(r, map)

Next ==
    \/ \E k \in Keys, v \in Values : Put(k, v) \/ PutOutside(k, v) \/ Add(k, v) \/ Fail(k, v)
    \/ \E k \in Keys : Increment(k) \/ Decrement(k) \/ Delete(k)
    \/ \E o \in {(k - 1) \div PerOwner : k \in Keys} : DeleteOwner(o)
    \/ Remount \/ Lose

Spec == Init /\ [][Next]_vars
=============================================================================
