------------------------------ MODULE Storage -------------------------------
(***************************************************************************)
(* One process has one object store, picked from the configuration when it *)
(* starts (internal/storage/factory.go).  The S3 back end is a server's    *)
(* business and is not modelled.                                           *)
(***************************************************************************)
EXTENDS Integers

CONSTANTS Keys, Sizes, Capacity, Absent, Threads, NoKey, Dirs, Base, Up, DirOf

ASSUME StorageAssumption ==
    /\ Sizes \subseteq Nat
    /\ Capacity \in Nat \ {0}
    /\ Absent \notin Sizes
    /\ NoKey \notin Keys
    /\ Base \notin Dirs
    /\ Up \in [Dirs -> Dirs \cup {Base}]
    /\ DirOf \in [Keys -> Dirs]

VARIABLES
    backend,
    objects, usedBytes, refused, full,                        \* memory
    dirs, file, pc, key, at, linked, alone, stored, littered  \* file

Mem  == INSTANCE MemoryStorage
File == INSTANCE FileStorage

memory == <<objects, usedBytes, refused, full>>
files  == <<dirs, file, pc, key, at, linked, alone, stored, littered>>
vars   == <<backend, memory, files>>

\* NewStorageBackend
Init ==
    /\ backend \in {"memory", "file"}
    /\ Mem!Init
    /\ File!Init

MemoryCall == backend = "memory" /\ Mem!Next /\ UNCHANGED <<backend, files>>
FileCall   == backend = "file" /\ File!Next /\ UNCHANGED <<backend, memory>>

Next == MemoryCall \/ FileCall

Spec == Init /\ [][Next]_vars

-----------------------------------------------------------------------------
(* Properties *)

\* Both stores keep their types.
TypeOK == Mem!TypeOK /\ File!TypeOK

\* The memory store's running total is the sum of what it holds, and stays within
\* the capacity, as long as no overwrite was refused (memory.go:142-155).
BytesExactUntilRefusal ==
    ~refused => usedBytes = Mem!Total /\ Mem!Total <= Capacity

\* The total is never above what is held: a write that fits is never refused,
\* whatever overwrites were refused before it (memory.go:145-149).
FittingWriteAccepted ==
    [][\A k \in Keys, n \in Sizes :
          <<k, n>> \in full' => Mem!Total - Mem!Bytes(k) + n > Capacity]_vars

\* An object whose PutObject succeeded stays whole until a call on that very key
\* starts, whatever directories the deletion of its neighbours removes and
\* wherever the process stops (file.go:124-177).
StoredStaysWhole == \A k \in stored : file[k] = "whole"

\* With no call in progress no empty directory is left, unless a PutObject failed
\* or the process was stopped: the last of several deletions cleans up
\* (file.go:163-174).
NoEmptyDirLeft ==
    ((\A t \in Threads : pc[t] = "idle") /\ ~littered)
    => \A d \in dirs : File!Children(d) # {}

\* memory.go:32: "a hard total-byte capacity: a PutObject that would exceed it
\* fails with ErrStorageFull".
CapacityRespected == Mem!Total <= Capacity
=============================================================================
