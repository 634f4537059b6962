--------------------------- MODULE FavoritesProofs ----------------------------
(***************************************************************************)
(* Proofs about Favorites, for any number of elements, of toggles at a     *)
(* time and of faults.                                                     *)
(***************************************************************************)
EXTENDS Favorites, TLAPS

Request == [of : Pictures, step : {"write", "column"}, on : BOOLEAN]

\* Each slot holds at most one request.
LEMMA TogglesAre ==
    ASSUME TypeOK, NEW t \in Toggles
    PROVE  /\ toggle[t] \subseteq Request
           /\ \A g, h \in toggle[t] : g = h
    BY DEF TypeOK, ToggleStates, Request

\* What a slot may hold next.
LEMMA TogglesMayBe ==
    ASSUME TypeOK, NEW t \in Toggles, NEW new,
           new = {} \/ \E g \in Request : new = {g},
           toggle' = [toggle EXCEPT ![t] = new]
    PROVE  /\ toggle' \in [Toggles -> ToggleStates]
           /\ toggle'[t] = new
           /\ \A u \in Toggles \ {t} : toggle'[u] = toggle[u]
<1>1. new \in ToggleStates
  <2>1. ASSUME NEW g \in Request, new = {g} PROVE new \in ToggleStates
    <3>1. g = [of |-> g.of, step |-> g.step, on |-> g.on]
      BY DEF Request
    <3>2. g.of \in Pictures /\ g.step \in {"write", "column"} /\ g.on \in BOOLEAN
      BY DEF Request
    <3> QED
      BY <2>1, <3>1, <3>2 DEF ToggleStates
  <2> QED
    BY <2>1 DEF ToggleStates
<1> QED
    BY <1>1 DEF TypeOK

LEMMA FaultCounts ==
    ASSUME FavoritesConstants, TypeOK, Fault \/ UNCHANGED favFaults
    PROVE  favFaults' \in 0..MaxFavFaults
    BY DEF FavoritesConstants, TypeOK, Fault

-----------------------------------------------------------------------------

\* A request has read the delta: it is the element's only one, or it crossed another.
LEMMA ReadDeltaKeeps ==
    ASSUME FavoritesConstants, FavInv, NEW t \in Toggles, NEW e \in Pictures, ReadDelta(t, e)
    PROVE  FavInv'
<1>1. /\ favPhase = "up" /\ toggle[t] = {}
      /\ UNCHANGED <<kept, delta, star, favPhase, listed, dangling, adrift>>
      /\ crossed' = IF Busy(e) THEN crossed \cup {e} ELSE crossed
    BY DEF ReadDelta, Serves, storeVars, syncVars
<1>2. favFaults' \in 0..MaxFavFaults
    BY FaultCounts DEF ReadDelta, FavInv
<1>3. PICK g \in Request : /\ g.of = e /\ g.step = "write"
                           /\ toggle' = [toggle EXCEPT ![t] = {g}]
  <2>1. \E on \in BOOLEAN :
            toggle' = [toggle EXCEPT ![t] = {[of |-> e, step |-> "write", on |-> on]}]
    BY DEF ReadDelta
  <2>2. PICK on \in BOOLEAN :
            toggle' = [toggle EXCEPT ![t] = {[of |-> e, step |-> "write", on |-> on]}]
    BY <2>1
  <2>3. [of |-> e, step |-> "write", on |-> on] \in Request
    BY DEF Request
  <2> QED
    BY <2>2, <2>3
<1>4. /\ toggle' \in [Toggles -> ToggleStates] /\ toggle'[t] = {g}
      /\ \A u \in Toggles \ {t} : toggle'[u] = toggle[u]
    BY <1>3, TogglesMayBe DEF FavInv
<1>5. TypeOK'
    BY <1>1, <1>2, <1>4 DEF FavInv, TypeOK
<1>6. Resting' /\ ListedOnce'
    BY <1>1 DEF FavInv, Resting, ListedOnce
<1>7. Alone'
  <2>1. ASSUME NEW u \in Toggles, u # t, NEW h \in toggle[u], h.of = e PROVE e \in crossed'
    BY <1>1, <2>1 DEF Busy
  <2>2. crossed \subseteq crossed'
    BY <1>1
  <2> QED
    BY <1>3, <1>4, <2>1, <2>2 DEF FavInv, Alone
<1>8. InStep'
  <2>1. crossed \subseteq crossed'
    BY <1>1
  <2>2. ASSUME NEW e2 \in kept \ (crossed \cup adrift)
        PROVE  /\ \A u \in Toggles : \A h \in toggle'[u] : h.of = e2 /\ h.step = "column" =>
                      (h.on <=> e2 \in delta)
               /\ (\A u \in Toggles : \A h \in toggle'[u] : h.of = e2 => h.step = "write")
                      => (e2 \in star <=> e2 \in delta)
    <3>1. \A u \in Toggles : \A h \in toggle[u] : h \in toggle'[u]
      BY <1>1, <1>4
    <3>2. \A u \in Toggles : \A h \in toggle'[u] : h.step = "column" => h \in toggle[u]
      BY <1>3, <1>4
    <3> QED
      BY <1>1, <3>1, <3>2 DEF FavInv, InStep
  <2> QED
    BY <1>1, <2>1, <2>2 DEF InStep
<1> QED
    BY <1>5, <1>6, <1>7, <1>8 DEF FavInv

\* A request that goes on: another request about its element has crossed it.
LEMMA OnlyOne ==
    ASSUME FavInv, NEW t \in Toggles, NEW g \in toggle[t], g.of \notin crossed
    PROVE  \A u \in Toggles : \A h \in toggle[u] : h.of = g.of => u = t /\ h = g
    BY TogglesAre DEF FavInv, Alone

\* A request goes on or ends; the other slots stay as they are.
LEMMA GoesOn ==
    ASSUME FavInv, NEW t \in Toggles, NEW g \in toggle[t], NEW new,
           new = {} \/ \E h \in Request : new = {h} /\ h.of = g.of,
           toggle' = [toggle EXCEPT ![t] = new], UNCHANGED <<favPhase, crossed>>
    PROVE  /\ favPhase = "up"
           /\ toggle' \in [Toggles -> ToggleStates] /\ toggle'[t] = new
           /\ \A u \in Toggles \ {t} : toggle'[u] = toggle[u]
           /\ Resting' /\ Alone'
           /\ \A u \in Toggles : \A h \in toggle[u] : h.of # g.of => h \in toggle'[u]
           /\ \A u \in Toggles : \A h \in toggle'[u] : h.of # g.of => h \in toggle[u]
<1>1. favPhase = "up"
    BY DEF FavInv, Resting
<1>2. /\ toggle' \in [Toggles -> ToggleStates] /\ toggle'[t] = new
      /\ \A u \in Toggles \ {t} : toggle'[u] = toggle[u]
    BY TogglesMayBe DEF FavInv
<1>3. Resting'
    BY <1>1 DEF Resting
<1>4. \A h \in new : h.of = g.of
    OBVIOUS
<1>5. Alone'
    BY <1>2, <1>4 DEF FavInv, Alone
<1>6. \A h \in toggle[t] : h = g
    BY TogglesAre DEF FavInv
<1> QED
    BY <1>1, <1>2, <1>3, <1>4, <1>5, <1>6

\* What an element nobody toggles keeps, and what the toggled one needs.
LEMMA InStepAfter ==
    ASSUME FavInv, NEW t \in Toggles, NEW g \in toggle[t], favPhase = "up",
           \A u \in Toggles : \A h \in toggle[u] : h.of # g.of => h \in toggle'[u],
           \A u \in Toggles : \A h \in toggle'[u] : h.of # g.of => h \in toggle[u],
           UNCHANGED <<kept, favPhase, crossed>>, adrift \subseteq adrift',
           \A e \in kept \ {g.of} : (e \in star <=> e \in star') /\ (e \in delta <=> e \in delta'),
           g.of \in kept \ (crossed \cup adrift') =>
               /\ \A u \in Toggles : \A h \in toggle'[u] : h.of = g.of /\ h.step = "column" =>
                      (h.on <=> g.of \in delta')
               /\ (\A u \in Toggles : \A h \in toggle'[u] : h.of = g.of => h.step = "write")
                      => (g.of \in star' <=> g.of \in delta')
    PROVE  InStep'
<1>1. ASSUME NEW e \in kept \ (crossed \cup adrift'), e # g.of
      PROVE  /\ \A u \in Toggles : \A h \in toggle'[u] : h.of = e /\ h.step = "column" =>
                    (h.on <=> e \in delta')
             /\ (\A u \in Toggles : \A h \in toggle'[u] : h.of = e => h.step = "write")
                    => (e \in star' <=> e \in delta')
    BY <1>1 DEF FavInv, InStep
<1> QED
    BY <1>1 DEF InStep

\* A request has stored the favourite, or taken it away, or failed to.
LEMMA WriteDeltaKeeps ==
    ASSUME FavoritesConstants, FavInv, NEW t \in Toggles, WriteDelta(t)
    PROVE  FavInv'
<1>1. PICK g \in toggle[t] :
          /\ g.step = "write"
          /\ \/ /\ delta' = IF g.on THEN delta \cup {g.of} ELSE delta \ {g.of}
                /\ toggle' = [toggle EXCEPT ![t] = {[g EXCEPT !.step = "column"]}]
                /\ UNCHANGED <<favFaults, adrift>>
             \/ /\ ~g.on /\ Fault
                /\ toggle' = [toggle EXCEPT ![t] = {[g EXCEPT !.step = "column"]}]
                /\ adrift' = adrift \cup {g.of}
                /\ UNCHANGED delta
             \/ /\ g.on /\ Fault
                /\ toggle' = [toggle EXCEPT ![t] = {}]
                /\ \/ UNCHANGED <<delta, adrift>>
                   \/ /\ g.of \in delta /\ delta' = delta \ {g.of}
                      /\ adrift' = adrift \cup {g.of}
          /\ UNCHANGED <<kept, star, syncVars, crossed>>
    BY DEF WriteDelta
<1>2. UNCHANGED <<kept, star, favPhase, listed, dangling, crossed>>
    BY <1>1 DEF syncVars
<1>3. favFaults' \in 0..MaxFavFaults
    BY <1>1, FaultCounts DEF FavInv
<1>4. g \in Request /\ g.of \in Pictures
    BY TogglesAre DEF FavInv, Request
<1> DEFINE next == [g EXCEPT !.step = "column"]
<1>5. next \in Request /\ next.of = g.of /\ next.step = "column" /\ next.on = g.on
    BY <1>4 DEF Request
<1> HIDE DEF next
<1>6. PICK new : /\ \/ new = {next}
                    \/ g.on /\ new = {} /\ (g.of \in adrift' \/ UNCHANGED <<delta, adrift>>)
                 /\ toggle' = [toggle EXCEPT ![t] = new]
    BY <1>1 DEF next
<1>7. new = {} \/ \E h \in Request : new = {h} /\ h.of = g.of
    BY <1>5, <1>6
<1>8. /\ favPhase = "up"
      /\ toggle' \in [Toggles -> ToggleStates] /\ toggle'[t] = new
      /\ \A u \in Toggles \ {t} : toggle'[u] = toggle[u]
      /\ Resting' /\ Alone'
      /\ \A u \in Toggles : \A h \in toggle[u] : h.of # g.of => h \in toggle'[u]
      /\ \A u \in Toggles : \A h \in toggle'[u] : h.of # g.of => h \in toggle[u]
    BY <1>2, <1>6, <1>7, GoesOn
<1>9. TypeOK'
    BY <1>1, <1>2, <1>3, <1>4, <1>8 DEF FavInv, TypeOK
<1>10. ListedOnce'
    BY <1>1, <1>2, <1>8 DEF FavInv, ListedOnce
<1>11. InStep'
  <2>1. \A e \in kept \ {g.of} : (e \in star <=> e \in star') /\ (e \in delta <=> e \in delta')
    BY <1>1, <1>2
  <2>2. adrift \subseteq adrift'
    BY <1>1
  <2>3. ASSUME g.of \in kept \ (crossed \cup adrift')
        PROVE  /\ \A u \in Toggles : \A h \in toggle'[u] : h.of = g.of /\ h.step = "column" =>
                      (h.on <=> g.of \in delta')
               /\ (\A u \in Toggles : \A h \in toggle'[u] : h.of = g.of => h.step = "write")
                      => (g.of \in star' <=> g.of \in delta')
    <3>1. \A u \in Toggles : \A h \in toggle[u] : h.of = g.of => u = t /\ h = g
      BY <2>3, OnlyOne
    <3>2. \A u \in Toggles : \A h \in toggle'[u] : h.of = g.of => u = t /\ h \in new
      BY <1>8, <3>1
    <3>3. g.of \notin adrift'
      BY <2>3
    <3>4. CASE new = {next}
      <4>1. g.on <=> g.of \in delta'
        <5>1. CASE delta' = IF g.on THEN delta \cup {g.of} ELSE delta \ {g.of}
          BY <5>1
        <5>2. CASE ~(delta' = IF g.on THEN delta \cup {g.of} ELSE delta \ {g.of})
          <6>1. toggle'[t] # {}
            BY <1>8, <3>4
          <6>2. adrift' = adrift \cup {g.of}
            BY <1>1, <5>2, <6>1, <1>8
          <6> QED
            BY <3>3, <6>2
        <5> QED
          BY <5>1, <5>2
      <4>2. next \in toggle'[t]
        BY <1>8, <3>4
      <4> QED
        BY <1>5, <3>2, <3>4, <4>1, <4>2
    <3>5. CASE new = {} /\ UNCHANGED <<delta, adrift>>
      <4>1. \A u \in Toggles : \A h \in toggle[u] : h.of = g.of => h.step = "write"
        BY <1>1, <3>1
      <4>2. g.of \in star <=> g.of \in delta
        BY <1>8, <2>3, <3>5, <4>1 DEF FavInv, InStep
      <4> QED
        BY <1>2, <3>2, <3>5, <4>2
    <3> QED
      BY <1>6, <3>3, <3>4, <3>5
  <2> QED
    BY <1>2, <1>8, <2>1, <2>2, <2>3, InStepAfter
<1> QED
    BY <1>8, <1>9, <1>10, <1>11 DEF FavInv

\* A request has set the column to what it stored, or failed to.
LEMMA SetColumnKeeps ==
    ASSUME FavoritesConstants, FavInv, NEW t \in Toggles, SetColumn(t)
    PROVE  FavInv'
<1>1. PICK g \in toggle[t] :
          /\ g.step = "column"
          /\ \/ /\ star' = IF g.on THEN star \cup ({g.of} \cap kept) ELSE star \ {g.of}
                /\ UNCHANGED <<favFaults, adrift>>
             \/ /\ Fault
                /\ adrift' = adrift \cup {g.of}
                /\ UNCHANGED star
          /\ toggle' = [toggle EXCEPT ![t] = {}]
          /\ UNCHANGED <<kept, delta, syncVars, crossed>>
    BY DEF SetColumn
<1>2. UNCHANGED <<kept, delta, favPhase, listed, dangling, crossed>>
    BY <1>1 DEF syncVars
<1>3. favFaults' \in 0..MaxFavFaults
    BY <1>1, FaultCounts DEF FavInv
<1>4. g.of \in Pictures
    BY TogglesAre DEF FavInv, Request
<1>5. /\ favPhase = "up"
      /\ toggle' \in [Toggles -> ToggleStates] /\ toggle'[t] = {}
      /\ \A u \in Toggles \ {t} : toggle'[u] = toggle[u]
      /\ Resting' /\ Alone'
      /\ \A u \in Toggles : \A h \in toggle[u] : h.of # g.of => h \in toggle'[u]
      /\ \A u \in Toggles : \A h \in toggle'[u] : h.of # g.of => h \in toggle[u]
    BY <1>1, <1>2, GoesOn
<1>6. TypeOK'
    BY <1>1, <1>2, <1>3, <1>4, <1>5 DEF FavInv, TypeOK
<1>7. ListedOnce'
    BY <1>1, <1>2 DEF FavInv, ListedOnce
<1>8. InStep'
  <2>1. \A e \in kept \ {g.of} : (e \in star <=> e \in star') /\ (e \in delta <=> e \in delta')
    BY <1>1, <1>2
  <2>2. adrift \subseteq adrift'
    BY <1>1
  <2>3. ASSUME g.of \in kept \ (crossed \cup adrift')
        PROVE  /\ \A u \in Toggles : \A h \in toggle'[u] : h.of # g.of
               /\ g.of \in star' <=> g.of \in delta'
    <3>1. \A u \in Toggles : \A h \in toggle[u] : h.of = g.of => u = t /\ h = g
      BY <2>3, OnlyOne
    <3>2. \A u \in Toggles : \A h \in toggle'[u] : h.of # g.of
      BY <1>5, <3>1
    <3>3. g.on <=> g.of \in delta
      BY <1>1, <2>2, <2>3 DEF FavInv, InStep
    <3>4. star' = IF g.on THEN star \cup ({g.of} \cap kept) ELSE star \ {g.of}
      BY <1>1, <2>3
    <3>5. g.of \in star' <=> g.on
      BY <2>3, <3>4
    <3> QED
      BY <1>2, <3>2, <3>3, <3>5
  <2> QED
    BY <1>2, <1>5, <2>1, <2>2, <2>3, InStepAfter
<1> QED
    BY <1>5, <1>6, <1>7, <1>8 DEF FavInv

-----------------------------------------------------------------------------

\* An element and its star go together.
LEMMA DeleteElementKeeps ==
    ASSUME FavoritesConstants, FavInv, NEW e \in Pictures, DeleteElement(e)
    PROVE  FavInv'
<1>1. /\ kept' = kept \ {e} /\ star' = star \ {e}
      /\ UNCHANGED <<delta, toggle, favPhase, listed, dangling, crossed, adrift>>
    BY DEF DeleteElement, syncVars
<1>2. favFaults' \in 0..MaxFavFaults
    BY FaultCounts DEF DeleteElement, FavInv
<1>3. TypeOK'
    BY <1>1, <1>2 DEF FavInv, TypeOK
<1>4. Resting' /\ ListedOnce' /\ Alone'
    BY <1>1 DEF FavInv, Resting, ListedOnce, Alone
<1>5. InStep'
    BY <1>1 DEF FavInv, InStep
<1> QED
    BY <1>3, <1>4, <1>5 DEF FavInv

\* Elements that a stop may leave out of step are adrift, unless their columns are gone.
LEMMA StopKeeps ==
    ASSUME FavoritesConstants, FavInv, NEW lost \in BOOLEAN, Stop(lost)
    PROVE  FavInv'
<1>1. /\ favPhase' = "down" /\ toggle' = [t \in Toggles |-> {}]
      /\ listed' = {} /\ dangling' = {} /\ crossed' = {}
      /\ kept' = kept /\ delta' \subseteq delta
      /\ \A e \in delta \ delta' : Busy(e)
      /\ adrift' = IF lost THEN {} ELSE adrift \cup {e \in Pictures : Busy(e)} \cup crossed
      /\ star' = IF lost THEN {} ELSE star
    BY DEF Stop, Torn, Busy
<1>2. favFaults' \in 0..MaxFavFaults
    BY FaultCounts DEF Stop, FavInv
<1>3. TypeOK'
  <2>1. toggle' \in [Toggles -> ToggleStates]
    BY <1>1 DEF ToggleStates
  <2>2. star' \subseteq kept' /\ adrift' \subseteq Pictures
    BY <1>1 DEF FavInv, TypeOK
  <2> QED
    BY <1>1, <1>2, <2>1, <2>2 DEF FavInv, TypeOK
<1>4. Resting' /\ ListedOnce' /\ Alone'
    BY <1>1 DEF FavInv, Resting, ListedOnce, Alone
<1>5. InStep'
  <2>1. ASSUME NEW e \in kept, e \notin adrift', e \in star' PROVE e \in delta'
    <3>1. ~lost /\ e \in star /\ e \notin adrift /\ ~Busy(e) /\ e \notin crossed
      BY <1>1, <2>1 DEF FavInv, TypeOK
    <3>2. \A t \in Toggles : \A g \in toggle[t] : g.of # e
      BY <3>1 DEF Busy
    <3> QED
      BY <1>1, <3>1, <3>2 DEF FavInv, InStep
  <2> QED
    BY <1>1, <2>1 DEF InStep
<1> QED
    BY <1>3, <1>4, <1>5 DEF FavInv

\* Every delta is on the list, or its element is adrift.
LEMMA StartSyncKeeps ==
    ASSUME FavoritesConstants, FavInv, StartSync PROVE FavInv'
<1>1. /\ favPhase = "down" /\ favPhase' = "sync"
      /\ UNCHANGED <<kept, delta, star, dangling, toggle, crossed>>
      /\ \/ listed' = delta /\ UNCHANGED adrift
         \/ listed' = {} /\ adrift' = adrift \cup delta
    BY DEF StartSync, storeVars
<1>2. favFaults' \in 0..MaxFavFaults
    BY FaultCounts DEF StartSync, FavInv
<1>3. TypeOK'
    BY <1>1, <1>2 DEF FavInv, TypeOK
<1>4. Resting' /\ Alone'
    BY <1>1 DEF FavInv, Resting, Alone
<1>5. ListedOnce'
    BY <1>1 DEF FavInv, ListedOnce
<1>6. InStep'
    BY <1>1 DEF FavInv, InStep, Resting
<1> QED
    BY <1>3, <1>4, <1>5, <1>6 DEF FavInv

\* One delta less to look at: it is shown, or has no element, or its element is adrift.
LEMMA SyncDeltaKeeps ==
    ASSUME FavoritesConstants, FavInv, NEW e \in Pictures, SyncDelta(e)
    PROVE  FavInv'
<1>1. /\ favPhase = "sync" /\ e \in listed /\ listed' = listed \ {e}
      /\ UNCHANGED <<kept, delta, favPhase, toggle, crossed>>
    BY DEF SyncDelta
<1>2. favFaults' \in 0..MaxFavFaults
    BY FaultCounts DEF SyncDelta, FavInv
<1>3. \/ e \in kept /\ star' = star \cup {e} /\ dangling' = dangling /\ adrift' = adrift \ {e}
      \/ /\ e \notin kept /\ star' = star /\ dangling' = dangling \cup {e}
         /\ adrift' = adrift \ {e}
      \/ adrift' = adrift \cup {e} /\ star' = star /\ dangling' \in {dangling, dangling \cup {e}}
    BY DEF SyncDelta
<1>4. TypeOK'
    BY <1>1, <1>2, <1>3 DEF FavInv, TypeOK
<1>5. Resting' /\ Alone'
    BY <1>1 DEF FavInv, Resting, Alone
<1>6. ListedOnce'
    BY <1>1, <1>3 DEF FavInv, ListedOnce
<1>7. InStep'
  <2>1. crossed = {} /\ \A t \in Toggles : toggle[t] = {}
    BY <1>1 DEF FavInv, Resting
  <2>2. e \in delta
    BY <1>1 DEF FavInv, ListedOnce
  <2>3. ASSUME NEW f \in kept \ adrift'
        PROVE  /\ f \in star' => f \in delta
               /\ f \in delta => f \in star' \cup listed'
    <3>1. CASE f = e
      BY <1>3, <2>2, <2>3, <3>1
    <3>2. CASE f # e
      <4>1. f \in kept \ (crossed \cup adrift)
        BY <1>3, <2>1, <2>3, <3>2
      <4>2. (f \in star => f \in delta) /\ (f \in delta => f \in star \cup listed)
        BY <1>1, <4>1 DEF FavInv, InStep
      <4> QED
        BY <1>1, <1>3, <3>2, <4>2
    <3> QED
      BY <3>1, <3>2
  <2> QED
    BY <1>1, <2>1, <2>3 DEF InStep
<1> QED
    BY <1>4, <1>5, <1>6, <1>7 DEF FavInv

\* What FinishSync removes.
LEMMA FinishSyncRemoves ==
    ASSUME FinishSync
    PROVE  \A e \in delta : e \notin dangling => e \in delta'
    BY DEF FinishSync

\* Sync is over: what is stored is shown, and what is shown is stored.
LEMMA FinishSyncKeeps ==
    ASSUME FavoritesConstants, FavInv, FinishSync PROVE FavInv'
<1>1. /\ favPhase = "sync" /\ favPhase' = "up" /\ listed = {} /\ dangling' = {}
      /\ UNCHANGED <<kept, star, listed, toggle, crossed, adrift>>
      /\ delta' \subseteq delta
    BY DEF FinishSync
<1>2. favFaults' \in 0..MaxFavFaults
    BY FaultCounts DEF FinishSync, FavInv
<1>3. TypeOK'
    BY <1>1, <1>2 DEF FavInv, TypeOK
<1>4. Resting' /\ ListedOnce' /\ Alone'
    BY <1>1 DEF FavInv, Resting, ListedOnce, Alone
<1>5. InStep'
  <2>1. crossed = {} /\ \A t \in Toggles : toggle[t] = {}
    BY <1>1 DEF FavInv, Resting
  <2>2. ASSUME NEW e \in kept \ adrift PROVE e \in star <=> e \in delta'
    <3>1. e \notin dangling
      BY <2>2 DEF FavInv, ListedOnce
    <3>2. e \in star <=> e \in delta
      BY <1>1, <2>1, <2>2 DEF FavInv, InStep
    <3> QED
      BY <1>1, <3>1, <3>2, FinishSyncRemoves
  <2> QED
    BY <1>1, <2>1, <2>2 DEF InStep
<1> QED
    BY <1>3, <1>4, <1>5 DEF FavInv

-----------------------------------------------------------------------------

\* The inductive invariant holds in every reachable state (ToggleFavorite, Sync).
THEOREM FavoritesInvariance == ASSUME FavoritesConstants PROVE Spec => []FavInv
<1>1. Init => FavInv
  <2> SUFFICES ASSUME Init PROVE FavInv
    OBVIOUS
  <2> USE DEF Init
  <2>1. TypeOK
    <3>1. toggle \in [Toggles -> ToggleStates] /\ 0 \in 0..MaxFavFaults
      BY DEF ToggleStates, FavoritesConstants
    <3> QED
      BY <3>1 DEF TypeOK
  <2>2. Resting /\ ListedOnce /\ Alone /\ InStep
    BY DEF Resting, ListedOnce, Alone, InStep
  <2> QED
    BY <2>1, <2>2 DEF FavInv
<1>2. FavInv /\ [Next]_favVars => FavInv'
  <2> SUFFICES ASSUME FavInv, [Next]_favVars PROVE FavInv'
    OBVIOUS
  <2>1. ASSUME NEW t \in Toggles, \/ \E e \in Pictures : ReadDelta(t, e)
                                  \/ WriteDelta(t) \/ SetColumn(t)
        PROVE  FavInv'
    BY <2>1, ReadDeltaKeeps, WriteDeltaKeeps, SetColumnKeeps
  <2>2. ASSUME NEW e \in Pictures, DeleteElement(e) \/ SyncDelta(e) PROVE FavInv'
    BY <2>2, DeleteElementKeeps, SyncDeltaKeeps
  <2>3. ASSUME NEW lost \in BOOLEAN, Stop(lost) PROVE FavInv'
    BY <2>3, StopKeeps
  <2>4. CASE StartSync \/ FinishSync
    BY <2>4, StartSyncKeeps, FinishSyncKeeps
  <2>5. CASE UNCHANGED favVars
    BY <2>5 DEF favVars, storeVars, syncVars, FavInv, TypeOK, Resting, ListedOnce, Alone, InStep
  <2> QED
    BY <2>1, <2>2, <2>3, <2>4, <2>5 DEF Next
<1> QED
    BY <1>1, <1>2, PTL DEF Spec

\* A star is shown if and only if it is stored (ToggleFavorite, Sync).
THEOREM StarsMatch == ASSUME FavoritesConstants PROVE Spec => []StarsMatchDeltas
<1>1. FavInv => StarsMatchDeltas
    BY DEF FavInv, InStep, StarsMatchDeltas, Settled, Busy
<1> QED
    BY <1>1, FavoritesInvariance, PTL

\* Sync removes no delta of an element it found (Sync, syncFromS3).
THEOREM SyncKeeps == ASSUME FavoritesConstants PROVE Spec => SyncKeepsFavorites
<1>1. FavInv /\ [Next]_favVars =>
          [favPhase = "sync" => (delta \cap kept) \ adrift \subseteq delta']_favVars
  <2> SUFFICES ASSUME FavInv, Next, favPhase = "sync",
                      NEW e \in (delta \cap kept) \ adrift
               PROVE  e \in delta'
    OBVIOUS
  <2>1. \A t \in Toggles : toggle[t] = {}
    BY DEF FavInv, Resting
  <2>2. e \notin dangling
    BY DEF FavInv, ListedOnce
  <2>3. CASE FinishSync
    BY <2>2, <2>3, FinishSyncRemoves
  <2>4. CASE ~FinishSync
    <3>1. Torn = {} /\ \A t \in Toggles : ~WriteDelta(t)
      BY <2>1 DEF Torn, WriteDelta
    <3>2. ASSUME NEW lost \in BOOLEAN, Stop(lost) PROVE delta' = delta
      BY <3>1, <3>2 DEF Stop
    <3>3. CASE \E lost \in BOOLEAN : Stop(lost)
      BY <3>2, <3>3
    <3>4. CASE ~\E lost \in BOOLEAN : Stop(lost)
      <4>1. delta' = delta
        BY <2>4, <3>1, <3>4 DEF Next, ReadDelta, SetColumn, DeleteElement, SyncDelta, StartSync,
           storeVars
      <4> QED
        BY <4>1
    <3> QED
      BY <3>3, <3>4
  <2> QED
    BY <2>3, <2>4
<1> QED
    BY <1>1, FavoritesInvariance, PTL DEF Spec, SyncKeepsFavorites
=============================================================================
