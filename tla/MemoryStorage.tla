--------------------------- MODULE MemoryStorage ----------------------------
(***************************************************************************)
(* The in-process object store, internal/storage/memory.go: a map and a    *)
(* running total under one mutex, so each call is one step.  A payload is  *)
(* its length.                                                             *)
(***************************************************************************)
EXTENDS Integers, FiniteSetsExt

CONSTANTS
    Keys,
    Sizes,      \* payload lengths a caller may write
    Capacity,   \* total bytes, positive (NewMemoryStorage)
    Absent

VARIABLES
    objects,    \* length of each object's data
    usedBytes,
    \* History:
    refused,    \* a PutObject over an existing object was refused
    full        \* the write the last call refused, if it did

vars == <<objects, usedBytes, refused, full>>

Stored == {k \in Keys : objects[k] # Absent}
Bytes(k) == IF k \in Stored THEN objects[k] ELSE 0
Total == MapThenSumSet(Bytes, Stored)

TypeOK ==
    /\ objects \in [Keys -> Sizes \cup {Absent}]
    /\ usedBytes \in Int
    /\ refused \in BOOLEAN
    /\ full \subseteq Keys \X Sizes

Init ==
    /\ objects = [k \in Keys |-> Absent]
    /\ usedBytes = 0
    /\ refused = FALSE
    /\ full = {}

Refuse(k, n) ==
    /\ refused' = (refused \/ k \in Stored)
    /\ full' = {<<k, n>>}
    /\ UNCHANGED objects

Accept(k, n) ==
    /\ objects' = [objects EXCEPT ![k] = n]
    /\ full' = {}
    /\ UNCHANGED refused

\* Mutant: the old object is taken off the total only when the write goes ahead.
PutObjectTwiceCounted(k, n) ==
    \/ usedBytes + n > Capacity /\ Refuse(k, n) /\ UNCHANGED usedBytes
    \/ usedBytes + n <= Capacity /\ Accept(k, n) /\ usedBytes' = usedBytes - Bytes(k) + n

\* The total loses the old object before the capacity is looked at, and a refused
\* overwrite does not put it back.
PutObject(k, n) ==
    LET freed == usedBytes - Bytes(k)
    IN  \/ freed + n > Capacity /\ Refuse(k, n) /\ usedBytes' = freed
        \/ freed + n <= Capacity /\ Accept(k, n) /\ usedBytes' = freed + n

\* Mutant: the bytes of a deleted object stay counted.
DeleteObjectKeepingBytes(k) ==
    /\ objects' = [objects EXCEPT ![k] = Absent]
    /\ full' = {}
    /\ UNCHANGED <<usedBytes, refused>>

\* Deleting a missing key is a no-op.
DeleteObject(k) ==
    /\ k \in Stored
    /\ objects' = [objects EXCEPT ![k] = Absent]
    /\ usedBytes' = usedBytes - objects[k]
    /\ full' = {}
    /\ UNCHANGED refused

Next ==
    \E k \in Keys : DeleteObject(k) \/ \E n \in Sizes : PutObject(k, n)

Spec == Init /\ [][Next]_vars

-----------------------------------------------------------------------------
(* The inductive invariant *)

\* An exact total stays exact unless a refused overwrite takes the old object off
\* it, and can only fall short after one.
Accounted ==
    /\ IsFiniteSet(Stored)
    /\ usedBytes <= Total
    /\ ~refused => usedBytes = Total /\ Total <= Capacity

MemInv == TypeOK /\ Accounted
=============================================================================
