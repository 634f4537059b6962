------------------------------ MODULE Favorites -----------------------------
(***************************************************************************)
(* The favourites extension (ext/joleuger/favorites): a favourite is a     *)
(* delta object in the storage, mirrored to a column of the element's row. *)
(* A toggle reads the delta, writes it, and then sets the column; toggles  *)
(* run in goroutines of their own, and the process may stop between two of *)
(* their steps.  Sync repeats the deltas into the columns at every start.  *)
(***************************************************************************)
EXTENDS Integers, FiniteSets

CONSTANTS
    Pictures,       \* element ids
    Toggles,        \* toggle requests that may be in progress at the same time
    MaxFavFaults    \* stops, deletions and storage errors

VARIABLES
    kept,       \* elements that have a row (and the objects it is rebuilt from)
    delta,      \* elements with a delta object; it always says is_favorite
    star,       \* rows whose ext_joleuger_favorites_is_favorite is 1
    toggle,     \* [of, step, on] of each toggle in progress, or {}
    favPhase,   \* "up", "down", or "sync" while Sync runs
    listed,     \* keys ListObjects returned that Sync has not looked at yet
    dangling,   \* keys Sync found without an element
    favFaults,
    \* History, both cleared when they no longer matter:
    crossed,    \* elements two toggles of which were in progress together, this run
    adrift      \* elements whose column, or whose key in Sync, an error left behind

storeVars == <<kept, delta, star>>
syncVars == <<favPhase, listed, dangling>>
favVars == <<storeVars, syncVars, toggle, favFaults, crossed, adrift>>

FavoritesConstants == MaxFavFaults \in Nat

ToggleStates == {{}} \cup
    {{[of |-> e, step |-> s, on |-> b]} : e \in Pictures, s \in {"write", "column"}, b \in BOOLEAN}

TypeOK ==
    /\ kept \subseteq Pictures /\ delta \subseteq Pictures /\ star \subseteq kept
    /\ toggle \in [Toggles -> ToggleStates]
    /\ favPhase \in {"up", "down", "sync"}
    /\ listed \subseteq Pictures /\ dangling \subseteq Pictures
    /\ favFaults \in 0..MaxFavFaults
    /\ crossed \subseteq Pictures /\ adrift \subseteq Pictures

Init ==
    /\ kept = Pictures /\ delta = {} /\ star = {}
    /\ toggle = [t \in Toggles |-> {}]
    /\ favPhase = "up" /\ listed = {} /\ dangling = {}
    /\ favFaults = 0 /\ crossed = {} /\ adrift = {}

Fault == favFaults < MaxFavFaults /\ favFaults' = favFaults + 1

Busy(e) == \E t \in Toggles : \E g \in toggle[t] : g.of = e

-----------------------------------------------------------------------------
(* ToggleFavorite *)

\* handleToggleFavorite of a process that runs.
Serves(t) == favPhase = "up" /\ toggle[t] = {}

\* The delta is read; no delta, or one that cannot be read, is no favourite.  Whether
\* the element exists is not checked.
ReadDelta(t, e) ==
    /\ Serves(t)
    /\ \/ /\ toggle' = [toggle EXCEPT ![t] =
                           {[of |-> e, step |-> "write", on |-> e \notin delta]}]
          /\ UNCHANGED favFaults
       \/ /\ e \in delta /\ Fault
          /\ toggle' = [toggle EXCEPT ![t] = {[of |-> e, step |-> "write", on |-> TRUE]}]
    /\ crossed' = IF Busy(e) THEN crossed \cup {e} ELSE crossed
    /\ UNCHANGED <<storeVars, syncVars, adrift>>

\* DeleteObject, whose error is ignored, or PutObject, whose error ends the request; a
\* delta it leaves torn is read as none.
WriteDelta(t) ==
    \E g \in toggle[t] :
        /\ g.step = "write"
        /\ \/ /\ delta' = IF g.on THEN delta \cup {g.of} ELSE delta \ {g.of}
              /\ toggle' = [toggle EXCEPT ![t] = {[g EXCEPT !.step = "column"]}]
              /\ UNCHANGED <<favFaults, adrift>>
           \/ /\ ~g.on /\ Fault
              /\ toggle' = [toggle EXCEPT ![t] = {[g EXCEPT !.step = "column"]}]
              /\ adrift' = adrift \cup {g.of}
              /\ UNCHANGED delta
           \/ /\ g.on /\ Fault
              /\ toggle' = [toggle EXCEPT ![t] = {}]
              /\ \/ UNCHANGED <<delta, adrift>>
                 \/ g.of \in delta /\ delta' = delta \ {g.of} /\ adrift' = adrift \cup {g.of}
        /\ UNCHANGED <<kept, star, syncVars, crossed>>

\* Mutant: the column is set and never reset.
SetColumnOn(t) ==
    \E g \in toggle[t] :
        /\ g.step = "column"
        /\ star' = star \cup ({g.of} \cap kept)
        /\ toggle' = [toggle EXCEPT ![t] = {}]
        /\ UNCHANGED <<kept, delta, syncVars, favFaults, crossed, adrift>>

\* UPDATE elements ... WHERE id = ?, which matches no row of a deleted element.
SetColumn(t) ==
    \E g \in toggle[t] :
        /\ g.step = "column"
        /\ \/ /\ star' = IF g.on THEN star \cup ({g.of} \cap kept) ELSE star \ {g.of}
              /\ UNCHANGED <<favFaults, adrift>>
           \/ /\ Fault
              /\ adrift' = adrift \cup {g.of}
              /\ UNCHANGED star
        /\ toggle' = [toggle EXCEPT ![t] = {}]
        /\ UNCHANGED <<kept, delta, syncVars, crossed>>

\* The core deletes an element: its row goes, its delta stays.
DeleteElement(e) ==
    /\ favPhase = "up"
    /\ e \in kept
    /\ Fault
    /\ kept' = kept \ {e}
    /\ star' = star \ {e}
    /\ UNCHANGED <<delta, toggle, syncVars, crossed, adrift>>

-----------------------------------------------------------------------------
(* Stop and start *)

Torn == {e \in Pictures : \E t \in Toggles : \E g \in toggle[t] :
                             g.of = e /\ g.step = "write" /\ g.on}

\* "lost": the cache database is gone too; the rows come back with the next start.
Stop(lost) ==
    /\ favPhase # "down"
    /\ Fault
    /\ favPhase' = "down"
    /\ adrift' = IF lost THEN {} ELSE adrift \cup {e \in Pictures : Busy(e)} \cup crossed
    /\ toggle' = [t \in Toggles |-> {}]
    /\ star' = IF lost THEN {} ELSE star
    /\ listed' = {} /\ dangling' = {} /\ crossed' = {}
    /\ \E cut \in SUBSET Torn : delta' = delta \ cut
    /\ UNCHANGED kept

\* Sync, after the core's SyncFromStorage: the deltas are listed; a failure is a warning.
StartSync ==
    /\ favPhase = "down"
    /\ favPhase' = "sync"
    /\ \/ listed' = delta /\ UNCHANGED <<favFaults, adrift>>
       \/ Fault /\ listed' = {} /\ adrift' = adrift \cup delta
    /\ UNCHANGED <<storeVars, dangling, toggle, crossed>>

\* Mutant: a key is dangling when its column is not set, not when its row is missing.
SyncDeltaUnstarred(e) ==
    /\ favPhase = "sync"
    /\ e \in listed
    /\ listed' = listed \ {e}
    /\ dangling' = IF e \in star THEN dangling ELSE dangling \cup {e}
    /\ adrift' = adrift \ {e}
    /\ UNCHANGED <<kept, delta, star, favPhase, toggle, favFaults, crossed>>

\* ... each sets its element's column, unless it cannot be read or the UPDATE fails; a
\* lookup of the element that fails counts as an element that is gone, ...
SyncDelta(e) ==
    /\ favPhase = "sync"
    /\ e \in listed
    /\ listed' = listed \ {e}
    /\ \/ /\ IF e \in kept THEN star' = star \cup {e} /\ UNCHANGED dangling
                           ELSE dangling' = dangling \cup {e} /\ UNCHANGED star
          /\ adrift' = adrift \ {e}
          /\ UNCHANGED favFaults
       \/ /\ Fault
          /\ adrift' = adrift \cup {e}
          /\ dangling' \in {dangling, dangling \cup {e}}
          /\ UNCHANGED star
    /\ UNCHANGED <<kept, delta, favPhase, toggle, crossed>>

\* ... and those without an element are deleted at the end, errors ignored.
FinishSync ==
    /\ favPhase = "sync"
    /\ listed = {}
    /\ \/ delta' = delta \ dangling /\ UNCHANGED favFaults
       \/ Fault /\ \E e \in dangling : delta' = delta \ (dangling \ {e})
    /\ dangling' = {}
    /\ favPhase' = "up"
    /\ UNCHANGED <<kept, star, listed, toggle, crossed, adrift>>

Next ==
    \/ \E t \in Toggles : \/ \E e \in Pictures : ReadDelta(t, e)
                          \/ WriteDelta(t) \/ SetColumn(t)
    \/ \E e \in Pictures : DeleteElement(e) \/ SyncDelta(e)
    \/ \E lost \in BOOLEAN : Stop(lost)
    \/ StartSync \/ FinishSync

Spec == Init /\ [][Next]_favVars

-----------------------------------------------------------------------------
(* Properties *)

Settled(e) == favPhase = "up" /\ ~Busy(e) /\ e \notin crossed

\* A favourite of an element that is there is shown if and only if it is stored, once no
\* toggle of it is in progress, through every stop, loss of the cache and failed request:
\* only two toggles that overlapped, or an error, can part the two, and until the next start
\* (which shows every stored star, and takes away none that is not).
StarsMatchDeltas ==
    \A e \in kept : Settled(e) /\ e \notin adrift => (e \in star <=> e \in delta)

\* No start removes the favourite of an element that is there and was found there.
SyncKeepsFavorites ==
    [][favPhase = "sync" => (delta \cap kept) \ adrift \subseteq delta']_favVars
-----------------------------------------------------------------------------
(* The inductive invariant behind the safety properties (FavoritesProofs).  *)

\* Toggles are served by a process that is up; Sync is alone.
Resting == favPhase # "up" => crossed = {} /\ \A t \in Toggles : toggle[t] = {}

\* Sync's keys are deltas, each looked at once; those it will delete have no element, but
\* for an error.
ListedOnce ==
    /\ favPhase # "sync" => listed = {} /\ dangling = {}
    /\ listed \subseteq delta
    /\ listed \cap dangling = {}
    /\ dangling \cap kept \subseteq adrift

\* Two toggles of an element are in progress only if they overlapped.
Alone ==
    \A t, u \in Toggles : \A g \in toggle[t], h \in toggle[u] :
        t # u /\ g.of = h.of => g.of \in crossed

\* A toggle about to set the column will set it to what it stored; before it stores
\* anything, and when there is none, column and delta agree; while the process is down or
\* syncing, a star is stored, and a stored one is shown or still on Sync's list.
InStep ==
    \A e \in kept \ (crossed \cup adrift) :
        /\ \A t \in Toggles : \A g \in toggle[t] : g.of = e /\ g.step = "column" =>
               (g.on <=> e \in delta)
        /\ favPhase = "up" /\ (\A t \in Toggles : \A g \in toggle[t] :
               g.of = e => g.step = "write") => (e \in star <=> e \in delta)
        /\ favPhase # "up" => (e \in star => e \in delta)
        /\ favPhase = "sync" => (e \in delta => e \in star \cup listed)

FavInv ==
    /\ TypeOK
    /\ Resting
    /\ ListedOnce
    /\ Alone
    /\ InStep
=============================================================================
