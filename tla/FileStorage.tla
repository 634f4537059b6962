---------------------------- MODULE FileStorage -----------------------------
(***************************************************************************)
(* The file-system object store, internal/storage/file.go.  It holds no    *)
(* lock: one step per system call, and calls of several goroutines on the  *)
(* same tree interleave.  PutObject makes the directories of a key, and    *)
(* DeleteObject removes the ones that became empty.                        *)
(***************************************************************************)
EXTENDS FiniteSets

CONSTANTS
    Threads,
    Keys,
    NoKey,
    Dirs,       \* directories below the base path
    Base,
    Up,         \* parent of a directory, Base at the top
    DirOf       \* directory of a key's file

VARIABLES
    dirs,       \* directories that exist
    file,       \* "absent", "whole", or "torn": truncated, half written or mixed
    pc,
    key,        \* the object a call works on
    at,         \* the directory DeleteObject looks at
    linked,     \* the file PutObject opened still has its name
    alone,      \* no other writer had the file open
    \* History:
    stored,     \* PutObject returned nil, no other call overlapped it or came later
    littered    \* a PutObject failed, or the process stopped in one

call == <<pc, key, at, linked, alone>>
vars == <<dirs, file, call, stored, littered>>

TypeOK ==
    /\ dirs \subseteq Dirs
    /\ file \in [Keys -> {"absent", "torn", "whole"}]
    /\ pc \in [Threads -> {"idle", "mkdir", "create", "write", "remove", "readdir", "rmdir"}]
    /\ key \in [Threads -> Keys \cup {NoKey}]
    /\ at \in [Threads -> Dirs \cup {Base}]
    /\ linked \in [Threads -> BOOLEAN]
    /\ alone \in [Threads -> BOOLEAN]
    /\ stored \subseteq Keys
    /\ littered \in BOOLEAN

Init ==
    /\ dirs = {}
    /\ file = [k \in Keys |-> "absent"]
    /\ pc = [t \in Threads |-> "idle"]
    /\ key = [t \in Threads |-> NoKey]
    /\ at = [t \in Threads |-> Base]
    /\ linked = [t \in Threads |-> FALSE]
    /\ alone = [t \in Threads |-> FALSE]
    /\ stored = {}
    /\ littered = FALSE

Goto(t, label) == pc' = [pc EXCEPT ![t] = label]
Busy(t, k) == pc[t] # "idle" /\ key[t] = k
Writers(k) == {t \in Threads : pc[t] = "write" /\ key[t] = k /\ linked[t]}
IsThere(d) == d = Base \/ d \in dirs
Children(d) == {c \in dirs : Up[c] = d} \cup {k \in Keys : file[k] # "absent" /\ DirOf[k] = d}

\* The directories from a key's own up to the base: the fewest with their parents.
Above(d) ==
    {e \in Dirs : \A S \in SUBSET Dirs :
                     d \in S /\ (\A c \in S : Up[c] \in S \cup {Base}) => e \in S}
Missing(k) == Above(DirOf[k]) \ dirs

-----------------------------------------------------------------------------
(* PutObject *)

PutObject(t, k) ==
    /\ pc[t] = "idle"
    /\ Goto(t, "mkdir")
    /\ key' = [key EXCEPT ![t] = k]
    /\ stored' = stored \ {k}
    /\ UNCHANGED <<dirs, file, at, linked, alone, littered>>

Fail(t) ==
    /\ Goto(t, "idle")
    /\ littered' = TRUE
    /\ UNCHANGED <<dirs, file, key, at, linked, alone, stored>>

\* Mutant: filepath.Dir taken twice.
MakeParentDir(t) ==
    /\ pc[t] = "mkdir"
    /\ dirs' = dirs \cup {Up[DirOf[key[t]]]}
    /\ Goto(t, "create")
    /\ UNCHANGED <<file, key, at, linked, alone, stored, littered>>

\* MkdirAll, top down, one missing directory per step.
MakeDir(t) ==
    /\ pc[t] = "mkdir"
    /\ \/ /\ Missing(key[t]) = {}
          /\ Goto(t, "create")
          /\ UNCHANGED <<dirs, key, at, linked, alone>>
       \/ \E d \in Missing(key[t]) :
             /\ IsThere(Up[d])
             /\ dirs' = dirs \cup {d}
             /\ UNCHANGED call
    /\ UNCHANGED <<file, stored, littered>>

\* MkdirAll fails, after some directories: no space, or no permission.
MakeDirFails(t) ==
    /\ pc[t] = "mkdir"
    /\ Fail(t)

\* os.Create truncates a file that is there.
CreateFile(t) ==
    /\ pc[t] = "create"
    /\ IsThere(DirOf[key[t]])
    /\ LET k == key[t]
       IN  /\ file' = [file EXCEPT ![k] = "torn"]
           /\ alone' = [u \in Threads |-> IF u = t THEN Writers(k) = {}
                                          ELSE alone[u] /\ u \notin Writers(k)]
    /\ linked' = [linked EXCEPT ![t] = TRUE]
    /\ Goto(t, "write")
    /\ UNCHANGED <<dirs, key, at, stored, littered>>

\* It fails when the directory is gone again, or as MkdirAll does.
CreateFileFails(t) ==
    /\ pc[t] = "create"
    /\ Fail(t)

\* io.Copy, all of it; two writers of one file may mix their bytes.
WriteFile(t) ==
    /\ pc[t] = "write"
    /\ LET k == key[t]
       IN  /\ \/ linked[t] /\ file' = [file EXCEPT ![k] = "whole"]
              \/ linked[t] /\ ~alone[t] /\ file' = [file EXCEPT ![k] = "torn"]
              \/ ~linked[t] /\ UNCHANGED file
           /\ stored' = IF alone[t] /\ linked[t] /\ \A u \in Threads \ {t} : ~Busy(u, k)
                        THEN stored \cup {k} ELSE stored
    /\ Goto(t, "idle")
    /\ UNCHANGED <<dirs, key, at, linked, alone, littered>>

\* io.Copy fails half way: the reader ends, the disk is full.
WriteFileFails(t) ==
    /\ pc[t] = "write"
    /\ Fail(t)

-----------------------------------------------------------------------------
(* DeleteObject *)

DeleteObject(t, k) ==
    /\ pc[t] = "idle"
    /\ Goto(t, "remove")
    /\ key' = [key EXCEPT ![t] = k]
    /\ stored' = stored \ {k}
    /\ UNCHANGED <<dirs, file, at, linked, alone, littered>>

\* os.Remove: a missing file ends the call with an error.
RemoveFile(t) ==
    /\ pc[t] = "remove"
    /\ LET k == key[t]
       IN  /\ Goto(t, IF file[k] = "absent" THEN "idle" ELSE "readdir")
           /\ file' = [file EXCEPT ![k] = "absent"]
           /\ linked' = [u \in Threads |-> linked[u] /\ u \notin Writers(k)]
           /\ at' = [at EXCEPT ![t] = DirOf[k]]
    /\ UNCHANGED <<dirs, key, alone, stored, littered>>

\* The loop over the parents: read the directory ...
ReadDir(t) ==
    /\ pc[t] = "readdir"
    /\ Goto(t, IF at[t] \in dirs /\ Children(at[t]) = {} THEN "rmdir" ELSE "idle")
    /\ UNCHANGED <<dirs, file, key, at, linked, alone, stored, littered>>

\* Mutant: RemoveAll on what was read as empty.
RemoveTree(t) ==
    /\ pc[t] = "rmdir"
    /\ dirs' = dirs \ {at[t]}
    /\ file' = [k \in Keys |-> IF DirOf[k] = at[t] THEN "absent" ELSE file[k]]
    /\ at' = [at EXCEPT ![t] = Up[at[t]]]
    /\ Goto(t, "readdir")
    /\ UNCHANGED <<key, linked, alone, stored, littered>>

\* Mutant: only the key's own directory is cleaned up.
RemoveOneDir(t) ==
    /\ pc[t] = "rmdir"
    /\ dirs' = IF Children(at[t]) = {} THEN dirs \ {at[t]} ELSE dirs
    /\ Goto(t, "idle")
    /\ UNCHANGED <<file, key, at, linked, alone, stored, littered>>

\* ... and remove it, which the system refuses if something is in it by now.
RemoveDir(t) ==
    /\ pc[t] = "rmdir"
    /\ IF at[t] \in dirs /\ Children(at[t]) = {}
       THEN /\ dirs' = dirs \ {at[t]}
            /\ at' = [at EXCEPT ![t] = Up[at[t]]]
            /\ Goto(t, "readdir")
       ELSE /\ Goto(t, "idle")
            /\ UNCHANGED <<dirs, at>>
    /\ UNCHANGED <<file, key, linked, alone, stored, littered>>

\* The process stops: half-made directories and truncated files stay.
Crash ==
    /\ \E t \in Threads : pc[t] # "idle"
    /\ pc' = [t \in Threads |-> "idle"]
    /\ littered' = TRUE
    /\ UNCHANGED <<dirs, file, key, at, linked, alone, stored>>

Next ==
    \/ \E t \in Threads :
          \/ \E k \in Keys : PutObject(t, k) \/ DeleteObject(t, k)
          \/ MakeDir(t) \/ MakeDirFails(t) \/ CreateFile(t) \/ CreateFileFails(t)
          \/ WriteFile(t) \/ WriteFileFails(t)
          \/ RemoveFile(t) \/ ReadDir(t) \/ RemoveDir(t)
    \/ Crash

Spec == Init /\ [][Next]_vars
-----------------------------------------------------------------------------
(* The inductive invariant behind Storage's properties of files (StorageProofs). *)

\* The calls in progress, and the directories.
Calls ==
    /\ TypeOK
    /\ \A t \in Threads : pc[t] # "idle" => key[t] \in Keys
    /\ \A t \in Threads : pc[t] = "rmdir" => at[t] \in Dirs
    /\ \A d \in dirs : Up[d] \in dirs \cup {Base}

\* No call is in progress on an object that counts as stored.
Untouched == \A k \in stored : file[k] = "whole" /\ \A t \in Threads : ~Busy(t, k)

\* The call that will fill an empty directory, or remove it.
Covers(t, d) ==
    \/ pc[t] \in {"readdir", "rmdir"} /\ at[t] = d
    \/ pc[t] \in {"mkdir", "create"} /\ d \in Above(DirOf[key[t]])

Tidied == ~littered => \A d \in dirs : Children(d) = {} => \E t \in Threads : Covers(t, d)

FileInv == Calls /\ Untouched /\ Tidied
=============================================================================
