-------------------------- MODULE ExtensionsProofs ---------------------------
(***************************************************************************)
(* What is proved of a part holds of the extensions side by side: every    *)
(* behaviour of Extensions is, for each part, one of its module.  The      *)
(* photobooth, the start-up, the authorization, the listing and the        *)
(* variants are proved about here, the other parts in modules of their own.*)
(***************************************************************************)
EXTENDS Extensions, FiniteSetTheorems, FunctionTheorems, SequenceTheorems, TLAPS

-----------------------------------------------------------------------------
(* The photobooth: BoothInv is inductive. *)

\* What the file says depends on the file only.
LEMMA DeltaOf ==
    /\ settings' = settings => Booth!Delta' = Booth!Delta
    /\ settings' = {} => Booth!Delta' = Booth!Unset
    /\ \A d : settings' = {d} => Booth!Delta' = d
<1>1. settings' = settings => Booth!Delta' = Booth!Delta
    BY DEF Booth!Delta
<1>2. settings' = {} => Booth!Delta' = Booth!Unset
    BY DEF Booth!Delta, Booth!Unset
<1>3. ASSUME NEW d, settings' = {d} PROVE Booth!Delta' = d
  <2>1. Booth!Delta' = CHOOSE x \in {d} : TRUE
    BY <1>3 DEF Booth!Delta
  <2> QED
    BY <2>1
<1> QED
    BY <1>1, <1>2, <1>3

\* A save reads the file: it knows what is stored, or saves mix.
LEMMA ReadSettingsKeeps ==
    ASSUME Booth!BoothInv, NEW s \in Saves, NEW form \in Forms, Booth!ReadSettings(s, form)
    PROVE  Booth!BoothInv'
<1>1. /\ boothUp /\ saving[s] = {}
      /\ UNCHANGED <<booked, column, settings, filtering, filtered, boothUp, wished, behind>>
    BY DEF Booth!ReadSettings, Booth!captureVars
<1>2. PICK copy : /\ Booth!Whole(copy)
                  /\ saving' = [saving EXCEPT
                          ![s] = {[form |-> form, step |-> "write", copy |-> copy]}]
                  /\ \/ copy = Booth!Delta /\ mixed' = (mixed \/ \E o \in Saves : saving[o] # {})
                     \/ mixed' = TRUE
  <2>1. Booth!Whole(Booth!Unset)
    BY DEF Booth!Whole, Booth!Unset, Booth!Fields
  <2> QED
    BY <2>1 DEF Booth!ReadSettings, Booth!BoothInv, Booth!Typed
<1> DEFINE g == [form |-> form, step |-> "write", copy |-> copy]
<1>3. g.form = form /\ g.step = "write" /\ g.copy = copy /\ Booth!Whole(g.copy)
    BY <1>2
<1>4. Booth!InProgress(g)
    BY <1>3 DEF Booth!InProgress
<1>5. saving' = [saving EXCEPT ![s] = {g}]
    BY <1>2
<1> HIDE DEF g
<1>6. /\ saving'[s] = {g} /\ \A r \in Saves \ {s} : saving'[r] = saving[r]
      /\ saving' = [r \in Saves |-> saving'[r]]
    BY <1>5 DEF Booth!BoothInv, Booth!Typed
<1>7. Booth!Delta' = Booth!Delta
    BY <1>1, DeltaOf
<1>8. Booth!Typed'
    BY <1>1, <1>3, <1>4, <1>6, <1>7 DEF Booth!BoothInv, Booth!Typed, Booth!Whole
<1>9. Booth!GoneWhole'
    BY <1>1 DEF Booth!BoothInv, Booth!GoneWhole
<1>10. Booth!SavedAlone'
  <2> SUFFICES ASSUME ~mixed' PROVE Booth!SavedAlone'
    BY DEF Booth!SavedAlone
  <2>1. ~mixed /\ copy = Booth!Delta /\ \A r \in Saves : saving[r] = {}
    BY <1>2
  <2> QED
    BY <1>1, <1>3, <1>6, <1>7, <2>1 DEF Booth!BoothInv, Booth!SavedAlone
<1>11. Booth!Mirrored'
  <2>1. mixed => mixed'
    BY <1>2
  <2>2. (\A r \in Saves : \A h \in saving'[r] : h.step # "mirror") =>
            \A r \in Saves : \A h \in saving[r] : h.step # "mirror"
    BY <1>1, <1>6
  <2> QED
    BY <1>1, <1>7, <2>1, <2>2 DEF Booth!BoothInv, Booth!Mirrored
<1> QED
    BY <1>8, <1>9, <1>10, <1>11 DEF Booth!BoothInv

\* A save writes the file: it stores what was submitted, and the rest as it was.
LEMMA WriteSettingsKeeps ==
    ASSUME Booth!BoothInv, NEW s \in Saves, Booth!WriteSettings(s)
    PROVE  Booth!BoothInv'
<1>1. PICK g \in saving[s] :
          /\ g.step = "write"
          /\ \/ /\ settings' = {Booth!Applied(g.form, g.copy)}
                /\ saving' = [saving EXCEPT ![s] =
                       IF "prompt" \in DOMAIN g.form
                       THEN {[form |-> g.form, step |-> "mirror",
                             copy |-> Booth!Applied(g.form, g.copy)]}
                       ELSE {}]
                /\ wished' = [f \in Booth!Fields |-> IF f \in DOMAIN g.form
                                               THEN Booth!Applied(g.form, g.copy)[f] ELSE wished[f]]
             \/ /\ saving' = [saving EXCEPT ![s] = {}]
                /\ UNCHANGED <<settings, wished>>
    BY DEF Booth!WriteSettings
<1>2. UNCHANGED <<booked, column, filtering, filtered, boothUp, mixed, behind>>
    BY DEF Booth!WriteSettings, Booth!captureVars
<1>3. saving[s] = {g} /\ Booth!InProgress(g)
    BY DEF Booth!BoothInv, Booth!Typed
<1> DEFINE new == Booth!Applied(g.form, g.copy)
<1>4. /\ Booth!Whole(new)
      /\ \A f \in Booth!Fields : f \notin DOMAIN g.form => new[f] = g.copy[f]
      /\ new.prompt = new["prompt"] /\ g.copy.prompt = g.copy["prompt"] /\ "prompt" \in Booth!Fields
    BY <1>3 DEF Booth!InProgress, Booth!Whole, Booth!Applied, Booth!Fields
<1>5. boothUp
    BY <1>1 DEF Booth!BoothInv, Booth!GoneWhole
<1>6. CASE /\ settings' = {new}
           /\ saving' = [saving EXCEPT ![s] = IF "prompt" \in DOMAIN g.form
                                              THEN {[form |-> g.form, step |-> "mirror",
                                                     copy |-> new]}
                                              ELSE {}]
           /\ wished' = [f \in Booth!Fields |-> IF f \in DOMAIN g.form THEN new[f] ELSE wished[f]]
  <2> HIDE DEF new
  <2> DEFINE next == [form |-> g.form, step |-> "mirror", copy |-> new]
  <2>1. saving' = [saving EXCEPT ![s] = IF "prompt" \in DOMAIN g.form THEN {next} ELSE {}]
    BY <1>6
  <2>2. Booth!InProgress(next) /\ next.step = "mirror" /\ next.copy = new
    BY <1>4 DEF Booth!InProgress
  <2> HIDE DEF next
  <2>3. /\ saving'[s] = IF "prompt" \in DOMAIN g.form THEN {next} ELSE {}
        /\ \A r \in Saves \ {s} : saving'[r] = saving[r]
        /\ saving' = [r \in Saves |-> saving'[r]]
    BY <2>1 DEF Booth!BoothInv, Booth!Typed
  <2>4. Booth!Delta' = new
    BY <1>6, DeltaOf
  <2>5. Booth!Whole(wished)'
    BY <1>6 DEF Booth!Whole
  <2>6. Booth!Typed'
    BY <1>2, <1>4, <1>6, <2>2, <2>3, <2>4, <2>5 DEF Booth!BoothInv, Booth!Typed, Booth!Whole
  <2>7. Booth!GoneWhole'
    BY <1>2, <1>5 DEF Booth!BoothInv, Booth!GoneWhole
  <2>8. ~mixed => /\ Booth!Delta = wished /\ g.copy = Booth!Delta
                  /\ \A r \in Saves \ {s} : saving[r] = {}
    BY <1>3 DEF Booth!BoothInv, Booth!SavedAlone
  <2>9. ~mixed => wished' = new
    <3>1. ASSUME ~mixed PROVE wished' = [f \in Booth!Fields |-> new[f]]
      BY <1>4, <1>6, <2>8, <3>1
    <3> QED
      BY <1>4, <3>1 DEF Booth!Whole
  <2>10. Booth!SavedAlone'
    BY <1>2, <2>2, <2>3, <2>4, <2>8, <2>9 DEF Booth!SavedAlone
  <2>11. Booth!Mirrored'
    <3> SUFFICES ASSUME ~mixed, ~behind,
                        (\A r \in Saves : \A h \in saving'[r] : h.step # "mirror")
                 PROVE  column' = Booth!Delta'.prompt
      BY <1>2 DEF Booth!Mirrored
    <3>1. "prompt" \notin DOMAIN g.form
      BY <2>2, <2>3
    <3>2. new.prompt = Booth!Delta.prompt
      BY <1>4, <2>8, <3>1
    <3>3. \A r \in Saves : \A h \in saving[r] : h.step # "mirror"
      BY <1>1, <1>3, <2>8
    <3> QED
      BY <1>2, <2>4, <3>2, <3>3 DEF Booth!BoothInv, Booth!Mirrored
  <2> QED
    BY <2>6, <2>7, <2>10, <2>11 DEF Booth!BoothInv
<1>7. CASE saving' = [saving EXCEPT ![s] = {}] /\ UNCHANGED <<settings, wished>>
  <2>1. /\ saving'[s] = {} /\ \A r \in Saves \ {s} : saving'[r] = saving[r]
        /\ saving' = [r \in Saves |-> saving'[r]]
    BY <1>7 DEF Booth!BoothInv, Booth!Typed
  <2>2. Booth!Delta' = Booth!Delta
    BY <1>7, DeltaOf
  <2>3. Booth!Typed'
    BY <1>2, <1>7, <2>1, <2>2 DEF Booth!BoothInv, Booth!Typed, Booth!Whole
  <2>4. Booth!GoneWhole'
    BY <1>2, <1>5 DEF Booth!BoothInv, Booth!GoneWhole
  <2>5. Booth!SavedAlone'
    BY <1>2, <1>7, <2>1, <2>2 DEF Booth!BoothInv, Booth!SavedAlone
  <2>6. Booth!Mirrored'
    BY <1>1, <1>2, <1>3, <2>1, <2>2 DEF Booth!BoothInv, Booth!Mirrored
  <2> QED
    BY <2>3, <2>4, <2>5, <2>6 DEF Booth!BoothInv
<1> QED
    BY <1>1, <1>6, <1>7

\* The column repeats what the save stored, or is behind.
LEMMA MirrorSettingsKeeps ==
    ASSUME Booth!BoothInv, NEW s \in Saves, Booth!MirrorSettings(s)
    PROVE  Booth!BoothInv'
<1>1. PICK g \in saving[s] :
          /\ g.step = "mirror"
          /\ \/ column' = (IF booked THEN g.copy.prompt ELSE column)
                /\ behind' = (behind \/ ~booked)
             \/ behind' = TRUE /\ column' = column
          /\ saving' = [saving EXCEPT ![s] = {}]
          /\ UNCHANGED <<booked, settings, Booth!captureVars, boothUp, wished, mixed>>
    BY DEF Booth!MirrorSettings
<1>2. UNCHANGED <<booked, settings, filtering, filtered, boothUp, wished, mixed>>
    BY <1>1 DEF Booth!captureVars
<1>3. /\ saving'[s] = {} /\ \A r \in Saves \ {s} : saving'[r] = saving[r]
      /\ saving' = [r \in Saves |-> saving'[r]]
    BY <1>1 DEF Booth!BoothInv, Booth!Typed
<1>4. Booth!Delta' = Booth!Delta
    BY <1>2, DeltaOf
<1>5. Booth!Typed'
  <2>1. \A r \in Saves : \A h \in saving'[r] : Booth!InProgress(h) /\ saving'[r] = {h}
    BY <1>3 DEF Booth!BoothInv, Booth!Typed
  <2> QED
    BY <1>2, <1>3, <1>4, <2>1 DEF Booth!BoothInv, Booth!Typed, Booth!Whole
<1>6. Booth!GoneWhole'
  <2>1. boothUp /\ boothUp' = boothUp
    BY <1>1, <1>2 DEF Booth!BoothInv, Booth!GoneWhole
  <2>2. ~booked => column' = ""
    BY <1>1 DEF Booth!BoothInv, Booth!GoneWhole
  <2>3. \A c \in filtering' : filtered'[c] = ""
    BY <1>2 DEF Booth!BoothInv, Booth!GoneWhole
  <2>4. booked' = booked
    BY <1>2
  <2> QED
    BY <2>1, <2>2, <2>3, <2>4 DEF Booth!GoneWhole
<1>7. Booth!SavedAlone'
    BY <1>2, <1>3, <1>4 DEF Booth!BoothInv, Booth!SavedAlone
<1>8. Booth!Mirrored'
  <2> SUFFICES ASSUME ~mixed, ~behind' PROVE column' = Booth!Delta'.prompt
    BY <1>2 DEF Booth!Mirrored
  <2>1. column' = g.copy.prompt /\ g.copy = Booth!Delta
    BY <1>1 DEF Booth!BoothInv, Booth!SavedAlone
  <2> QED
    BY <1>4, <2>1
<1> QED
    BY <1>5, <1>6, <1>7, <1>8 DEF Booth!BoothInv

\* The project goes, with its file: no save is in progress, or saves mix.
LEMMA DeleteProjectKeeps ==
    ASSUME Booth!BoothInv, Booth!DeleteProject PROVE Booth!BoothInv'
<1>1. /\ boothUp /\ ~booked' /\ column' = "" /\ settings' = {} /\ wished' = Booth!Unset
      /\ mixed' = \E s \in Saves : saving[s] # {}
      /\ UNCHANGED <<saving, filtering, filtered, boothUp, behind>>
    BY DEF Booth!DeleteProject
<1>2. Booth!Delta' = Booth!Unset
    BY <1>1, DeltaOf
<1>3. Booth!Typed'
  <2>1. Booth!Whole(Booth!Delta)' /\ Booth!Whole(wished)'
    BY <1>1, <1>2 DEF Booth!Whole, Booth!Unset, Booth!Fields
  <2> QED
    BY <1>1, <2>1 DEF Booth!BoothInv, Booth!Typed, Booth!Whole
<1>4. Booth!GoneWhole'
    BY <1>1 DEF Booth!BoothInv, Booth!GoneWhole
<1>5. Booth!SavedAlone'
    BY <1>1, <1>2 DEF Booth!SavedAlone
<1>6. Booth!Mirrored'
    BY <1>1, <1>2 DEF Booth!Mirrored, Booth!Unset
<1> QED
    BY <1>3, <1>4, <1>5, <1>6 DEF Booth!BoothInv

\* A project is created, a picture taken, a capture passed on.
LEMMA CapturesKeep ==
    ASSUME Booth!BoothInv,
           \/ Booth!CreateProject
           \/ \E c \in Captures : Booth!Capture(c) \/ Booth!StartPostFilterJob(c)
    PROVE  Booth!BoothInv'
<1>1. UNCHANGED <<column, settings, saving, boothUp, wished, mixed, behind>>
    BY DEF Booth!CreateProject, Booth!Capture, Booth!StartPostFilterJob, Booth!boothHistory
<1>2. /\ filtering' \subseteq Captures /\ filtered' = [c \in Captures |-> filtered'[c]]
      /\ \A c \in filtering' : filtered'[c] = ""
      /\ boothUp \/ filtering' = {}
      /\ ~booked' => ~booked
  <2>0. /\ filtering \subseteq Captures /\ filtered = [c \in Captures |-> filtered[c]]
        /\ \A c \in filtering : filtered[c] = ""
        /\ boothUp \/ filtering = {}
    BY DEF Booth!BoothInv, Booth!Typed, Booth!GoneWhole
  <2>1. CASE Booth!CreateProject
    BY <2>0, <2>1 DEF Booth!CreateProject, Booth!captureVars
  <2>2. ASSUME NEW c \in Captures, Booth!Capture(c)
        PROVE  /\ boothUp /\ filtered[c] = "" /\ filtering' = filtering \cup {c}
               /\ UNCHANGED <<booked, filtered>>
    BY <2>2 DEF Booth!Capture
  <2>3. ASSUME NEW c \in Captures, Booth!StartPostFilterJob(c)
        PROVE  /\ c \in filtering /\ filtering' = filtering \ {c} /\ booked' = booked
               /\ filtered' = [filtered EXCEPT ![c] = column] \/ filtered' = filtered
    BY <2>3 DEF Booth!StartPostFilterJob, Booth!PostFilter
  <2>4. CASE \E c \in Captures : Booth!Capture(c)
    BY <2>0, <2>2, <2>4
  <2>5. CASE \E c \in Captures : Booth!StartPostFilterJob(c)
    <3>1. PICK c \in Captures : Booth!StartPostFilterJob(c)
      BY <2>5
    <3>2. filtered' = [d \in Captures |-> filtered'[d]]
      BY <2>0, <2>3, <3>1
    <3>3. \A d \in filtering' : filtered'[d] = filtered[d]
      BY <2>0, <2>3, <3>1
    <3>4. booked' = booked /\ filtering' \subseteq filtering
      BY <2>3, <3>1
    <3> QED
      BY <2>0, <3>2, <3>3, <3>4
  <2> QED
    BY <2>1, <2>4, <2>5
<1>3. Booth!Delta' = Booth!Delta
    BY <1>1, DeltaOf
<1>4. Booth!Typed'
    BY <1>1, <1>2, <1>3 DEF Booth!BoothInv, Booth!Typed, Booth!Whole
<1>5. Booth!GoneWhole'
    BY <1>1, <1>2 DEF Booth!BoothInv, Booth!GoneWhole
<1>6. Booth!SavedAlone' /\ Booth!Mirrored'
    BY <1>1, <1>3 DEF Booth!BoothInv, Booth!SavedAlone, Booth!Mirrored
<1> QED
    BY <1>4, <1>5, <1>6 DEF Booth!BoothInv

\* The process stops: the column of a save between file and column is behind.
LEMMA StopBoothKeeps ==
    ASSUME Booth!BoothInv, Booth!StopBooth PROVE Booth!BoothInv'
<1>1. /\ saving' = [s \in Saves |-> {}] /\ filtering' = {}
      /\ behind' = (behind \/ \E s \in Saves : \E g \in saving[s] : g.step = "mirror")
      /\ UNCHANGED <<booked, column, settings, filtered, wished, mixed>>
    BY DEF Booth!StopBooth
<1>2. Booth!Delta' = Booth!Delta
    BY <1>1, DeltaOf
<1>3. Booth!Typed'
    BY <1>1, <1>2 DEF Booth!BoothInv, Booth!Typed, Booth!Whole
<1>4. Booth!GoneWhole'
    BY <1>1 DEF Booth!BoothInv, Booth!GoneWhole
<1>5. Booth!SavedAlone' /\ Booth!Mirrored'
    BY <1>1, <1>2 DEF Booth!BoothInv, Booth!SavedAlone, Booth!Mirrored
<1> QED
    BY <1>3, <1>4, <1>5 DEF Booth!BoothInv

\* The process starts: the columns repeat the file.
LEMMA StartBoothKeeps ==
    ASSUME Booth!BoothInv, NEW lost \in BOOLEAN, Booth!StartBooth(lost) PROVE Booth!BoothInv'
<1> DEFINE old == IF lost THEN "" ELSE column
<1>1. /\ ~boothUp /\ boothUp' = TRUE
      /\ \/ /\ column' = Booth!SyncedColumn(old)
            /\ behind' = (behind /\ IF settings = {} THEN ~lost ELSE ~booked)
            /\ UNCHANGED <<settings, mixed>>
         \/ /\ settings # {} /\ booked /\ column' = old /\ behind' = TRUE
            /\ \/ UNCHANGED <<settings, mixed>>
               \/ settings' = {} /\ mixed' = TRUE
      /\ UNCHANGED <<booked, saving, filtering, filtered, wished>>
    BY DEF Booth!StartBooth
<1>2. /\ settings' = settings => Booth!Delta' = Booth!Delta
      /\ settings' = {} => Booth!Delta' = Booth!Unset
    BY DeltaOf
<1>3. filtering = {} /\ \A s \in Saves : saving[s] = {}
    BY <1>1 DEF Booth!BoothInv, Booth!GoneWhole
<1>4. Booth!Typed'
  <2>1. Booth!Whole(Booth!Delta)'
    <3>1. CASE settings' = settings
      BY <1>2, <3>1 DEF Booth!BoothInv, Booth!Typed, Booth!Whole
    <3>2. CASE settings' = {}
      BY <1>2, <3>2 DEF Booth!Whole, Booth!Unset, Booth!Fields
    <3> QED
      BY <1>1, <3>1, <3>2
  <2>2. settings' = {} \/ settings' = {Booth!Delta'}
    BY <1>1, <1>2 DEF Booth!BoothInv, Booth!Typed
  <2> QED
    BY <1>1, <1>3, <2>1, <2>2 DEF Booth!BoothInv, Booth!Typed, Booth!Whole
<1>5. Booth!GoneWhole'
  <2>1. ~booked => column' = ""
    BY <1>1 DEF Booth!BoothInv, Booth!GoneWhole, Booth!SyncedColumn
  <2> QED
    BY <1>1, <1>3, <2>1 DEF Booth!BoothInv, Booth!GoneWhole
<1>6. Booth!SavedAlone'
  <2> SUFFICES ASSUME ~mixed' PROVE Booth!SavedAlone'
    BY DEF Booth!SavedAlone
  <2>1. ~mixed /\ settings' = settings
    <3>1. CASE UNCHANGED <<settings, mixed>>
      BY <3>1
    <3>2. CASE mixed' = TRUE
      BY <3>2
    <3> QED
      BY <1>1, <3>1, <3>2
  <2>2. wished' = wished /\ \A s \in Saves : saving'[s] = {}
    BY <1>1, <1>3
  <2> QED
    BY <1>2, <2>1, <2>2 DEF Booth!BoothInv, Booth!SavedAlone
<1>7. Booth!Mirrored'
  <2> SUFFICES ASSUME ~mixed', ~behind' PROVE column' = Booth!Delta'.prompt
    BY DEF Booth!Mirrored
  <2>1. /\ column' = Booth!SyncedColumn(old) /\ ~mixed /\ Booth!Delta' = Booth!Delta
        /\ ~behind \/ ~(IF settings = {} THEN ~lost ELSE ~booked)
    <3>1. /\ column' = Booth!SyncedColumn(old) /\ UNCHANGED <<settings, mixed>>
          /\ behind' = (behind /\ IF settings = {} THEN ~lost ELSE ~booked)
      BY <1>1
    <3>2. ~(behind /\ IF settings = {} THEN ~lost ELSE ~booked)
      BY <3>1
    <3> QED
      BY <1>2, <3>1, <3>2
  <2>2. ~behind => column = Booth!Delta.prompt
    BY <1>3, <2>1 DEF Booth!BoothInv, Booth!Mirrored
  <2>3. CASE settings # {} /\ booked
    BY <2>1, <2>3 DEF Booth!SyncedColumn
  <2>4. CASE settings # {} /\ ~booked
    <3>1. column = "" /\ column' = old
      BY <2>1, <2>4 DEF Booth!BoothInv, Booth!GoneWhole, Booth!SyncedColumn
    <3> QED
      BY <2>1, <2>2, <2>4, <3>1
  <2>5. CASE settings = {}
    <3>1. column' = old /\ Booth!Delta.prompt = ""
      BY <2>1, <2>5 DEF Booth!SyncedColumn, Booth!Delta, Booth!Unset
    <3> QED
      BY <2>1, <2>2, <2>5, <3>1
  <2> QED
    BY <2>3, <2>4, <2>5
<1> QED
    BY <1>4, <1>5, <1>6, <1>7 DEF Booth!BoothInv

\* The inductive invariant of the photobooth holds in every reachable state.
LEMMA BoothInvariance == Booth!Spec => []Booth!BoothInv
<1>1. Booth!Init => Booth!BoothInv
  <2> SUFFICES ASSUME Booth!Init PROVE Booth!BoothInv
    OBVIOUS
  <2>1. Booth!Delta = Booth!Unset /\ Booth!Whole(Booth!Unset) /\ Booth!Unset.prompt = ""
    BY DEF Booth!Init, Booth!Delta, Booth!Whole, Booth!Unset, Booth!Fields
  <2> QED
    BY <2>1 DEF Booth!Init, Booth!BoothInv, Booth!Typed, Booth!GoneWhole, Booth!SavedAlone,
       Booth!Mirrored
<1>2. Booth!BoothInv /\ [Booth!Next]_(Booth!boothVars) => Booth!BoothInv'
  <2> SUFFICES ASSUME Booth!BoothInv, [Booth!Next]_(Booth!boothVars) PROVE Booth!BoothInv'
    OBVIOUS
  <2>1. ASSUME NEW s \in Saves, \/ \E form \in Forms : Booth!ReadSettings(s, form)
                                \/ Booth!WriteSettings(s) \/ Booth!MirrorSettings(s)
        PROVE  Booth!BoothInv'
    BY <2>1, ReadSettingsKeeps, WriteSettingsKeeps, MirrorSettingsKeeps
  <2>2. CASE Booth!DeleteProject \/ Booth!StopBooth
    BY <2>2, DeleteProjectKeeps, StopBoothKeeps
  <2>3. CASE \/ Booth!CreateProject
             \/ \E c \in Captures : Booth!Capture(c) \/ Booth!StartPostFilterJob(c)
    BY <2>3, CapturesKeep
  <2>4. ASSUME NEW lost \in BOOLEAN, Booth!StartBooth(lost) PROVE Booth!BoothInv'
    BY <2>4, StartBoothKeeps
  <2>5. CASE UNCHANGED Booth!boothVars
    <3>1. /\ UNCHANGED <<booked, column, settings, saving, filtering, filtered, boothUp, wished>>
          /\ UNCHANGED <<mixed, behind>>
      BY <2>5 DEF Booth!boothVars, Booth!captureVars, Booth!boothHistory
    <3>2. Booth!Delta' = Booth!Delta
      BY <3>1, DeltaOf
    <3> QED
      BY <3>1, <3>2 DEF Booth!BoothInv, Booth!Typed, Booth!GoneWhole, Booth!SavedAlone,
         Booth!Mirrored, Booth!Whole
  <2> QED
    BY <2>1, <2>2, <2>3, <2>4, <2>5 DEF Booth!Next
<1> QED
    BY <1>1, <1>2, PTL DEF Booth!Spec

\* Faults are counted.
FaultsCounted == boothFaults \in Nat

LEMMA FaultsAreCounted == Booth!Spec => []FaultsCounted
<1>1. Booth!Init => FaultsCounted
  <2>1. Booth!Init => boothFaults = 0
    BY Zenon DEF Booth!Init
  <2> QED
    BY <2>1 DEF FaultsCounted
<1>2. FaultsCounted /\ [Booth!Next]_(Booth!boothVars) => FaultsCounted'
  <2>1. boothFaults \in Nat /\ Booth!Slip => boothFaults' \in Nat
    BY DEF Booth!Slip
  <2> QED
    BY <2>1 DEF Booth!Next, Booth!ReadSettings, Booth!WriteSettings, Booth!MirrorSettings,
       Booth!DeleteProject, Booth!CreateProject,
       Booth!Capture, Booth!StartPostFilterJob, Booth!StopBooth, Booth!StartBooth,
       Booth!boothVars, FaultsCounted
<1> QED
    BY <1>1, <1>2, PTL DEF Booth!Spec

\* The two properties.
LEMMA BoothSettings == Booth!Spec => []Booth!SettingsAsSubmitted
<1>1. Booth!BoothInv => Booth!SettingsAsSubmitted
    BY DEF Booth!BoothInv, Booth!SavedAlone, Booth!SettingsAsSubmitted
<1> QED
    BY <1>1, BoothInvariance, PTL

LEMMA BoothFilters == Booth!Spec => Booth!FilteredAsStored
<1>1. Booth!BoothInv /\ FaultsCounted /\ [Booth!Next]_(Booth!boothVars) =>
      [\A c \in Captures :
          /\ filtered'[c] # filtered[c] \/ (c \in filtering \ filtering' /\ UNCHANGED boothFaults)
          /\ ~mixed /\ ~behind /\ \A s \in Saves : saving[s] = {}
          => filtered'[c] = Booth!Delta.prompt]_(Booth!boothVars)
  <2> SUFFICES ASSUME Booth!BoothInv, FaultsCounted, Booth!Next, NEW c \in Captures,
                      \/ filtered'[c] # filtered[c]
                      \/ c \in filtering \ filtering' /\ UNCHANGED boothFaults,
                      ~mixed, ~behind, \A s \in Saves : saving[s] = {}
               PROVE  filtered'[c] = Booth!Delta.prompt
    OBVIOUS
  <2>c. ~Booth!Slip \/ boothFaults' # boothFaults
    BY DEF Booth!Slip, FaultsCounted
  <2>1. column = Booth!Delta.prompt
    BY DEF Booth!BoothInv, Booth!Mirrored
  <2>2. PICK d \in Captures : Booth!StartPostFilterJob(d)
    <3>1. ~Booth!StopBooth \/ (filtered' = filtered /\ boothFaults' # boothFaults)
      BY <2>c DEF Booth!StopBooth
    <3> QED
      BY <3>1 DEF Booth!Next, Booth!ReadSettings, Booth!WriteSettings, Booth!MirrorSettings,
         Booth!DeleteProject, Booth!CreateProject,
         Booth!Capture, Booth!StartBooth, Booth!captureVars
  <2>3. \/ filtered' = [filtered EXCEPT ![d] = column]
        \/ Booth!Slip /\ filtered' = filtered
    BY <2>2 DEF Booth!StartPostFilterJob, Booth!PostFilter
  <2>4. d = c
    BY <2>2, <2>3 DEF Booth!StartPostFilterJob, Booth!BoothInv, Booth!Typed
  <2> QED
    BY <2>1, <2>3, <2>4, <2>c DEF Booth!BoothInv, Booth!Typed
<1> QED
    BY <1>1, BoothInvariance, FaultsAreCounted, PTL DEF Booth!Spec, Booth!FilteredAsStored

-----------------------------------------------------------------------------
(* The start-up: StartInv is inductive. *)

\* The graph and the cache decide Validate; nothing else does.
LEMMA GraphSame ==
    ASSUME UNCHANGED Boot!graph
    PROVE  /\ Boot!Validate' = Boot!Validate
           /\ \A k : Boot!Requires(k)' = Boot!Requires(k)
           /\ decls' = decls /\ enabled' = enabled
    BY DEF Boot!graph, Boot!Validate, Boot!Ring, Boot!Requires, Boot!Declares

\* An extension that waits for one that waits ... is in a ring, which Validate refuses: of
\* the extensions that wait, one is ready.
LEMMA SomeReady ==
    ASSUME Boot!StartupConstants, Boot!Placing, Boot!Validate, enabled \ Boot!Placed # {}
    PROVE  \E k \in enabled \ Boot!Placed : Boot!Ready(k)
<1> SUFFICES ASSUME \A k \in enabled \ Boot!Placed : ~Boot!Ready(k) PROVE FALSE
    OBVIOUS
<1>1. \A k \in enabled \ Boot!Placed : Boot!Declares(k) /\ decls[k].key \in enabled \ Boot!Placed
    BY DEF Boot!Ready, Boot!Requires
<1>2. Boot!Ring
    BY <1>1 DEF Boot!Ring
<1> QED
    BY <1>2 DEF Boot!Validate

\* What leads to a new start keeps it, whatever was decided.
LEMMA ExitKeeps ==
    ASSUME Boot!StartupConstants, Boot!StartInv, NEW reason, Boot!Exit(reason),
           reason # "order", reason = "migrate" => torn', torn' \/ columns' \subseteq recorded'
    PROVE  Boot!StartInv'
<1>1. /\ stage' = "down" /\ why' = reason /\ enabled' = {} /\ order' = <<>> /\ turn' = 1
      /\ initd' = {} /\ decls' = [k \in Boot!Bundled |-> None]
    BY DEF Boot!Exit
<1>2. Boot!Placing'
  <2>1. decls' \in [Boot!Bundled -> {None} \cup Boot!Dependency] /\ order' \in Seq(enabled')
    BY <1>1
  <2>2. \A i : i \notin DOMAIN order'
    BY <1>1
  <2> QED
    BY <1>1, <2>1, <2>2 DEF Boot!Placing, Boot!RequiredFirst
<1>3. Boot!Initialized'
    BY <1>1 DEF Boot!Initialized
<1>4. Boot!Migrated'
    BY <1>1 DEF Boot!Migrated, Boot!StartsUnlessTorn
<1> QED
    BY <1>2, <1>3, <1>4 DEF Boot!StartInv

\* A migration that fails with columns made has torn it.
LEMMA MigrationFailsKeeps ==
    ASSUME Boot!StartupConstants, Boot!StartInv, Boot!MigrationFails
    PROVE  Boot!StartInv'
<1>1. /\ Boot!Exit("database") /\ recorded' = recorded
      /\ columns' = columns \/ order[turn] \in columns'
      /\ torn' = (torn \/ order[turn] \in columns')
    BY DEF Boot!MigrationFails
<1>2. torn \/ columns \subseteq recorded \cup {order[turn]}
    BY DEF Boot!StartInv, Boot!Migrated
<1>3. torn' \/ columns' \subseteq recorded'
    BY <1>1, <1>2
<1> QED
    BY <1>1, <1>3, ExitKeeps

\* The steps before the order is known.
LEMMA BeginningsKeep ==
    ASSUME Boot!StartupConstants, Boot!StartInv,
           Boot!Bootstrap \/ Boot!ResolveEnabled \/ Boot!ValidateGraph
    PROVE  Boot!StartInv'
<1>1. /\ UNCHANGED <<columns, recorded, torn>> /\ stage \in {"down", "register", "validate"}
      /\ torn' \/ columns' \subseteq recorded'
    BY DEF Boot!Bootstrap, Boot!ResolveEnabled, Boot!ValidateGraph, Boot!cache, Boot!StartInv,
       Boot!Migrated
<1>2. order = <<>> /\ turn = 1 /\ initd = {} /\ \A i : i \notin DOMAIN order
    BY <1>1 DEF Boot!StartInv, Boot!Placing, Boot!Initialized
<1>3. ASSUME NEW reason \in {"bootstrap", "config", "graph"}, Boot!Exit(reason) PROVE Boot!StartInv'
    BY <1>1, <1>3, ExitKeeps
<1>4. ASSUME stage' \in {"register", "validate", "order"}, UNCHANGED <<order, turn, initd>>,
             decls' \in [Boot!Bundled -> {None} \cup Boot!Dependency],
             enabled' \subseteq Boot!Bundled,
             stage' = "order" => Boot!Validate', why' = None \/ why' = why
      PROVE  Boot!StartInv'
  <2>1. Boot!Placing'
    BY <1>2, <1>4 DEF Boot!Placing, Boot!RequiredFirst
  <2>2. Boot!Initialized'
    BY <1>2, <1>4 DEF Boot!Initialized
  <2>3. Boot!Migrated'
    BY <1>1, <1>4 DEF Boot!StartInv, Boot!Migrated, Boot!StartsUnlessTorn, Boot!StartupConstants
  <2> QED
    BY <2>1, <2>2, <2>3 DEF Boot!StartInv
<1>5. CASE Boot!Bootstrap
    BY <1>3, <1>4, <1>5 DEF Boot!Bootstrap, Boot!graph, Boot!StartInv, Boot!Placing
<1>6. CASE Boot!ResolveEnabled
  <2>1. CASE Boot!Exit("config")
    BY <1>3, <2>1
  <2>2. CASE ~Boot!Exit("config")
    <3>1. PICK E \in SUBSET Boot!Bundled : \E d \in [E -> {None} \cup Boot!Dependency] :
              /\ enabled' = E /\ decls' = [k \in Boot!Bundled |-> IF k \in E THEN d[k] ELSE None]
              /\ stage' = "validate" /\ UNCHANGED <<order, turn, initd, why>>
      BY <1>6, <2>2 DEF Boot!ResolveEnabled
    <3> QED
      BY <1>4, <3>1
  <2> QED
    BY <2>1, <2>2
<1>7. CASE Boot!ValidateGraph
  <2>1. CASE Boot!Validate
    <3>1. Boot!Validate' /\ UNCHANGED <<decls, enabled>> /\ stage' = "order"
      BY <1>7, <2>1, GraphSame DEF Boot!ValidateGraph, Boot!graph
    <3> QED
      BY <1>4, <1>7, <2>1, <3>1 DEF Boot!ValidateGraph, Boot!StartInv, Boot!Placing
  <2>2. CASE ~Boot!Validate
    BY <1>3, <1>7, <2>2 DEF Boot!ValidateGraph
  <2> QED
    BY <2>1, <2>2
<1> QED
    BY <1>5, <1>6, <1>7

\* One round of Kahn's algorithm places an extension whose requirement is placed, and there
\* is one as long as extensions wait.
LEMMA PlaceNextKeeps ==
    ASSUME Boot!StartupConstants, Boot!StartInv, Boot!PlaceNext PROVE Boot!StartInv'
<1> DEFINE waiting == {i \in DOMAIN Keys : Keys[i] \in enabled \ Boot!Placed}
           ready == {i \in waiting : Boot!Ready(Keys[i])}
           first == CHOOSE i \in ready : \A j \in ready : i <= j
<1>1. /\ stage = "order" /\ UNCHANGED <<columns, recorded, torn>>
      /\ IF waiting = {} THEN stage' = "migrate"
                           /\ UNCHANGED <<Boot!graph, order, turn, initd, why>>
         ELSE IF ready = {} THEN Boot!Exit("order")
         ELSE /\ order' = Append(order, Keys[first])
              /\ UNCHANGED <<stage, Boot!graph, turn, initd, why>>
    BY DEF Boot!PlaceNext, Boot!cache
<1>2. /\ decls \in [Boot!Bundled -> {None} \cup Boot!Dependency] /\ enabled \subseteq Boot!Bundled
      /\ order \in Seq(enabled) /\ Boot!Validate /\ Boot!RequiredFirst
    BY <1>1 DEF Boot!StartInv, Boot!Placing
<1>3. turn = 1 /\ initd = {}
    BY <1>1 DEF Boot!StartInv, Boot!Initialized
<1>4. Boot!StartsUnlessTorn /\ (torn \/ columns \subseteq recorded)
    BY <1>1 DEF Boot!StartInv, Boot!Migrated
<1>5. CASE waiting = {}
  <2>1. /\ stage' = "migrate"
                           /\ UNCHANGED <<Boot!graph, order, turn, initd, why>>
    BY <1>1, <1>5
  <2>2. Boot!Placing'
    BY <1>2, <2>1, GraphSame DEF Boot!Placing, Boot!RequiredFirst
  <2>3. Boot!Initialized'
    BY <1>2, <1>3, <2>1 DEF Boot!Initialized
  <2>4. Boot!Migrated'
    BY <1>1, <1>4, <2>1 DEF Boot!Migrated, Boot!StartsUnlessTorn
  <2> QED
    BY <2>2, <2>3, <2>4 DEF Boot!StartInv
<1>6. CASE waiting # {}
  <2>1. ready # {} /\ first \in ready
    <3>1. enabled \ Boot!Placed # {}
      BY <1>6
    <3>2. PICK k \in enabled \ Boot!Placed : Boot!Ready(k)
      BY <1>2, <3>1, SomeReady DEF Boot!StartInv
    <3>3. PICK i \in DOMAIN Keys : Keys[i] = k
      BY <1>2 DEF Boot!Bundled, Boot!ToSet
    <3>4. i \in ready
      BY <3>2, <3>3
    <3>5. ready \in SUBSET Nat
      BY DEF Boot!StartupConstants
    <3>6. \E m \in ready : \A n \in ready : m <= n
      <4> HIDE DEF ready
      <4> QED
        BY <3>4, <3>5, TheBatch!Least
    <3> QED
      BY <3>4, <3>6
  <2> DEFINE k == Keys[first]
  <2>2. k \in enabled /\ Boot!Ready(k)
    BY <2>1
  <2>3. order' = Append(order, k) /\ UNCHANGED <<stage, Boot!graph, turn, initd, why>>
    BY <1>1, <1>6, <2>1
  <2> HIDE DEF waiting, ready, first, k
  <2>4. /\ Len(order') = Len(order) + 1 /\ order' \in Seq(enabled)
        /\ \A i \in DOMAIN order : order'[i] = order[i]
        /\ order'[Len(order) + 1] = k
    BY <1>2, <2>2, <2>3
  <2>5. UNCHANGED <<decls, enabled>>
    BY <2>3, GraphSame
  <2>6. Boot!Requires(k) => \E j \in 1..Len(order) : order[j] = decls[k].key
    <3> SUFFICES ASSUME Boot!Requires(k) PROVE \E j \in 1..Len(order) : order[j] = decls[k].key
      OBVIOUS
    <3>1. decls[k].key \in enabled
      BY <1>2, <2>2 DEF Boot!Validate
    <3>2. decls[k].key \in Boot!Placed
      BY <2>2, <3>1 DEF Boot!Ready
    <3> QED
      BY <1>2, <3>2 DEF Boot!Placed, Boot!ToSet
  <2>7. ASSUME NEW i \in DOMAIN order', Boot!Requires(order'[i])
        PROVE  \E j \in 1..(i - 1) : order'[j] = decls[order'[i]].key
    <3>1. CASE i \in DOMAIN order
      <4>1. PICK j \in 1..(i - 1) : order[j] = decls[order[i]].key
        BY <1>2, <2>4, <2>7, <3>1 DEF Boot!RequiredFirst
      <4>2. j \in DOMAIN order
        BY <1>2, <3>1, <4>1
      <4> QED
        BY <2>4, <3>1, <4>1, <4>2
    <3>2. CASE i = Len(order) + 1
      <4>1. PICK j \in 1..Len(order) : order[j] = decls[k].key
        BY <2>4, <2>6, <2>7, <3>2
      <4>2. order'[j] = order[j] /\ j \in 1..(i - 1)
        BY <1>2, <2>4, <3>2, <4>1
      <4> QED
        BY <2>4, <3>2, <4>1, <4>2
    <3> QED
      BY <1>2, <2>4, <3>1, <3>2
  <2>8. Boot!Placing'
    <3>1. Boot!Validate'
      BY <1>2, <2>3, GraphSame
    <3>2. Boot!RequiredFirst'
      BY <2>5, <2>7 DEF Boot!RequiredFirst, Boot!Requires, Boot!Declares
    <3> QED
      BY <1>1, <1>2, <2>3, <2>4, <2>5, <3>1, <3>2 DEF Boot!Placing
  <2>9. Boot!Initialized'
    BY <1>1, <1>2, <1>3, <2>3, <2>4 DEF Boot!Initialized
  <2>10. Boot!Migrated'
    BY <1>1, <1>4, <2>3 DEF Boot!Migrated, Boot!StartsUnlessTorn
  <2> QED
    BY <2>8, <2>9, <2>10 DEF Boot!StartInv
<1> QED
    BY <1>5, <1>6

\* The steps that leave the order as it is.
LEMMA OrderStays ==
    ASSUME Boot!Placing, UNCHANGED <<Boot!graph, order>>,
           stage \notin {"down", "register", "validate"},
           stage' \notin {"down", "register", "validate"}
    PROVE  Boot!Placing'
BY GraphSame DEF Boot!Placing, Boot!RequiredFirst

\* Migrations: the columns come before their row, with a stop in between.
LEMMA MigrationsKeep ==
    ASSUME Boot!StartupConstants, Boot!StartInv,
           Boot!AlterTable \/ Boot!RecordMigration \/ Boot!StartInitializing
    PROVE  Boot!StartInv'
<1>1. /\ stage \in {"migrate", "record"} /\ torn' = torn
      /\ order \in Seq(enabled) /\ turn \in 1..(Len(order) + 1) /\ initd = {}
      /\ Len(order) \in Nat
    BY DEF Boot!AlterTable, Boot!RecordMigration, Boot!StartInitializing, Boot!cache,
       Boot!StartInv, Boot!Placing, Boot!Initialized
<1>2. Boot!Migrated
    BY DEF Boot!StartInv
<1>3. CASE Boot!AlterTable
  <2> DEFINE k == order[turn]
  <2>1. turn <= Len(order) /\ stage = "migrate" /\ recorded' = recorded
    BY <1>1, <1>3 DEF Boot!AlterTable, Boot!AtEnd
  <2>2. CASE k \notin Alters \/ k \in recorded
    <3>1. turn' = turn + 1 /\ UNCHANGED <<stage, Boot!graph, order, initd, why, columns>>
      BY <1>3, <2>2 DEF Boot!AlterTable
    <3>2. Boot!Initialized'
      BY <1>1, <2>1, <3>1 DEF Boot!Initialized
    <3>3. Boot!Migrated'
      BY <1>1, <1>2, <2>1, <3>1 DEF Boot!Migrated, Boot!StartsUnlessTorn
    <3> QED
      BY <2>1, <3>1, <3>2, <3>3, OrderStays DEF Boot!StartInv
  <2>3. CASE ~(k \notin Alters \/ k \in recorded) /\ k \in columns
    <3>1. Boot!Exit("migrate") /\ columns' = columns
      BY <1>3, <2>3 DEF Boot!AlterTable
    <3>2. torn
      BY <1>2, <2>1, <2>3 DEF Boot!Migrated
    <3> QED
      BY <1>1, <3>1, <3>2, ExitKeeps
  <2>4. CASE ~(k \notin Alters \/ k \in recorded) /\ k \notin columns
    <3>1. /\ columns' = columns \cup {k} /\ stage' = "record"
          /\ UNCHANGED <<Boot!graph, order, turn, initd, why>>
      BY <1>3, <2>4 DEF Boot!AlterTable
    <3>2. Boot!Initialized'
      BY <1>1, <2>1, <3>1 DEF Boot!Initialized
    <3>3. Boot!Migrated'
      BY <1>1, <1>2, <2>1, <3>1 DEF Boot!Migrated, Boot!StartsUnlessTorn
    <3> QED
      BY <2>1, <3>1, <3>2, <3>3, OrderStays DEF Boot!StartInv
  <2> QED
    BY <2>2, <2>3, <2>4
<1>4. CASE Boot!RecordMigration
  <2>1. /\ stage = "record" /\ recorded' = recorded \cup {order[turn]} /\ columns' = columns
        /\ stage' = "migrate" /\ turn' = turn + 1
        /\ UNCHANGED <<Boot!graph, order, initd, why>>
    BY <1>4 DEF Boot!RecordMigration
  <2>2. turn <= Len(order)
    BY <1>2, <2>1 DEF Boot!Migrated
  <2>3. Boot!Initialized'
    BY <1>1, <2>1, <2>2 DEF Boot!Initialized
  <2>4. Boot!Migrated'
    BY <1>1, <1>2, <2>1 DEF Boot!Migrated, Boot!StartsUnlessTorn
  <2> QED
    BY <2>1, <2>3, <2>4, OrderStays DEF Boot!StartInv
<1>5. CASE Boot!StartInitializing
  <2>1. /\ stage = "migrate" /\ stage' = "initialize" /\ turn' = 1
        /\ UNCHANGED <<Boot!graph, order, initd, columns, recorded, torn, why>>
    BY <1>5 DEF Boot!StartInitializing, Boot!cache
  <2>2. Boot!Initialized'
    BY <1>1, <2>1 DEF Boot!Initialized
  <2>3. Boot!Migrated'
    BY <1>2, <2>1 DEF Boot!Migrated, Boot!StartsUnlessTorn
  <2> QED
    BY <2>1, <2>2, <2>3, OrderStays DEF Boot!StartInv
<1> QED
    BY <1>3, <1>4, <1>5

\* Initialization follows the order; then the syncs.
LEMMA InitializationKeeps ==
    ASSUME Boot!StartupConstants, Boot!StartInv, Boot!Initialize \/ Boot!SyncEverything
    PROVE  Boot!StartInv'
<1>1. /\ stage \in {"initialize", "sync"} /\ UNCHANGED <<columns, recorded, torn>>
      /\ order \in Seq(enabled) /\ turn \in 1..(Len(order) + 1)
      /\ initd = {order[i] : i \in 1..(turn - 1)}
      /\ Len(order) \in Nat
    BY DEF Boot!Initialize, Boot!SyncEverything, Boot!cache, Boot!StartInv, Boot!Placing,
       Boot!Initialized
<1>2. Boot!Migrated /\ (torn \/ columns \subseteq recorded)
    BY <1>1 DEF Boot!StartInv, Boot!Migrated
<1>3. CASE Boot!Exit("initialize") \/ Boot!Exit("sync")
    BY <1>1, <1>2, <1>3, ExitKeeps
<1>4. CASE /\ stage' = stage /\ turn <= Len(order)
           /\ initd' = initd \cup {order[turn]} /\ turn' = turn + 1
           /\ UNCHANGED <<Boot!graph, order, why>>
  <2>1. initd' = {order[i] : i \in 1..(turn' - 1)}
    BY <1>1, <1>4
  <2>2. Boot!Initialized'
    BY <1>1, <1>4, <2>1 DEF Boot!Initialized
  <2>3. Boot!Migrated'
    BY <1>1, <1>2, <1>4 DEF Boot!Migrated, Boot!StartsUnlessTorn
  <2> QED
    BY <1>1, <1>4, <2>2, <2>3, OrderStays DEF Boot!StartInv
<1>5. CASE stage' \in {"sync", "up"} /\ UNCHANGED <<Boot!graph, order, turn, initd, why>>
  <2>1. Boot!Initialized'
    BY <1>1, <1>5 DEF Boot!Initialized
  <2>2. Boot!Migrated'
    BY <1>1, <1>2, <1>5 DEF Boot!Migrated, Boot!StartsUnlessTorn
  <2> QED
    BY <1>1, <1>5, <2>1, <2>2, OrderStays DEF Boot!StartInv
<1> QED
    BY <1>1, <1>3, <1>4, <1>5 DEF Boot!Initialize, Boot!SyncEverything, Boot!AtEnd

\* A stop, and the removal of the cache.
LEMMA StopsKeep ==
    ASSUME Boot!StartupConstants, Boot!StartInv, Boot!StopProcess \/ Boot!RemoveCache
    PROVE  Boot!StartInv'
<1>1. CASE Boot!StopProcess
  <2>1. /\ Boot!Exit("stopped") /\ torn' = (torn \/ stage = "record")
        /\ UNCHANGED <<columns, recorded>>
    BY <1>1 DEF Boot!StopProcess
  <2>2. torn' \/ columns' \subseteq recorded'
    <3>1. CASE torn \/ stage = "record"
      BY <2>1, <3>1
    <3>2. CASE ~(torn \/ stage = "record")
      BY <2>1, <3>2 DEF Boot!StartInv, Boot!Migrated
    <3> QED
      BY <3>1, <3>2
  <2> QED
    BY <2>1, <2>2, ExitKeeps
<1>2. CASE Boot!RemoveCache
  <2>1. /\ columns' = {} /\ torn' = FALSE /\ why' = None /\ stage = "down"
        /\ UNCHANGED <<stage, Boot!graph, order, turn, initd>>
    BY <1>2 DEF Boot!RemoveCache
  <2>2. Boot!Placing'
    BY <2>1, GraphSame DEF Boot!StartInv, Boot!Placing, Boot!RequiredFirst
  <2>3. Boot!Initialized'
    BY <2>1 DEF Boot!StartInv, Boot!Initialized
  <2>4. Boot!Migrated'
    BY <2>1 DEF Boot!Migrated, Boot!StartsUnlessTorn, Boot!StartupConstants
  <2> QED
    BY <2>2, <2>3, <2>4 DEF Boot!StartInv
<1> QED
    BY <1>1, <1>2

\* The inductive invariant of the start holds in every reachable state.
LEMMA StartInvariance == ASSUME Boot!StartupConstants PROVE Boot!Spec => []Boot!StartInv
<1>1. Boot!Init => Boot!StartInv
  <2> SUFFICES ASSUME Boot!Init PROVE Boot!StartInv
    OBVIOUS
  <2>1. order = <<>> /\ enabled = {} /\ \A i : i \notin DOMAIN order
    BY DEF Boot!Init
  <2>2. Boot!Placing
    BY <2>1 DEF Boot!Init, Boot!Placing, Boot!RequiredFirst
  <2>3. Boot!Initialized
    BY <2>1 DEF Boot!Init, Boot!Initialized
  <2>4. Boot!Migrated
    BY DEF Boot!Init, Boot!Migrated, Boot!StartsUnlessTorn, Boot!StartupConstants
  <2> QED
    BY <2>2, <2>3, <2>4 DEF Boot!StartInv
<1>2. Boot!StartInv /\ [Boot!Next]_(Boot!startVars) => Boot!StartInv'
  <2> SUFFICES ASSUME Boot!StartInv, [Boot!Next]_(Boot!startVars) PROVE Boot!StartInv'
    OBVIOUS
  <2>1. CASE Boot!Next
    BY <2>1, BeginningsKeep, PlaceNextKeeps, MigrationsKeep, MigrationFailsKeeps,
       InitializationKeeps, StopsKeep
       DEF Boot!Next
  <2>2. CASE UNCHANGED Boot!startVars
    <3>1. /\ UNCHANGED <<stage, Boot!graph, order, turn, initd, columns, recorded, why, torn>>
      BY <2>2 DEF Boot!startVars, Boot!graph
    <3>2. Boot!Placing'
      BY <3>1, GraphSame DEF Boot!StartInv, Boot!Placing, Boot!RequiredFirst
    <3> QED
      BY <3>1, <3>2 DEF Boot!StartInv, Boot!Initialized, Boot!Migrated, Boot!StartsUnlessTorn
  <2> QED
    BY <2>1, <2>2
<1> QED
    BY <1>1, <1>2, PTL DEF Boot!Spec

\* The two properties.
LEMMA StartProperties ==
    ASSUME Boot!StartupConstants
    PROVE  Boot!Spec => [](Boot!DependencyFirst /\ Boot!StartsUnlessTorn)
<1>1. Boot!StartInv => Boot!DependencyFirst /\ Boot!StartsUnlessTorn
  <2> SUFFICES ASSUME Boot!StartInv PROVE Boot!DependencyFirst
    BY DEF Boot!StartInv, Boot!Migrated
  <2> SUFFICES ASSUME NEW k \in initd, Boot!Requires(k) PROVE decls[k].key \in initd
    BY DEF Boot!DependencyFirst
  <2>1. /\ order \in Seq(enabled) /\ turn \in 1..(Len(order) + 1) /\ Boot!RequiredFirst
        /\ initd = {order[i] : i \in 1..(turn - 1)}
    BY DEF Boot!StartInv, Boot!Placing, Boot!Initialized
  <2>2. PICK i \in 1..(turn - 1) : k = order[i]
    BY <2>1
  <2>3. i \in DOMAIN order
    BY <2>1, <2>2
  <2>4. PICK j \in 1..(i - 1) : order[j] = decls[k].key
    BY <2>1, <2>2, <2>3 DEF Boot!RequiredFirst
  <2>5. j \in 1..(turn - 1)
    BY <2>1, <2>2, <2>4
  <2> QED
    BY <2>1, <2>4, <2>5
<1> QED
    BY <1>1, StartInvariance, PTL

-----------------------------------------------------------------------------
(* The authorization: AuthzInv is inductive. *)

\* No code is a code record.
LEMMA NoCodeTyped == ASSUME Authz!Distinct PROVE Authz!NoCode \in Authz!Codes
<1>0. MaxCodes \in Nat
    BY Zenon DEF Authz!Distinct
<1>1. 0 \in 0..MaxCodes
    BY <1>0
<1>2. FALSE \in BOOLEAN
    OBVIOUS
<1> QED
    BY <1>1, <1>2, Zenon DEF Authz!NoCode, Authz!Codes

\* A start ends with root's engine, with none, or, without a file, with every request
\* allowed: the bootstrap check lets nobody else's through.
LEMMA StartServerStep ==
    ASSUME Authz!Distinct, Authz!AuthzInv, Authz!StartServer
    PROVE  Authz!AuthzInv'
<1>1. /\ launched' = policy /\ pageCode' = Authz!NoCode /\ coreCode' = Authz!NoCode
      /\ claim' = None /\ UNCHANGED <<policy, policyEdits>>
      /\ enforcer' = IF policy = None THEN Authz!Off ELSE Authz!Built(policy)
    BY DEF Authz!StartServer
<1>2. Authz!Built(policy) \in {None, Authz!Static(Root)}
  <2>1. Authz!Static(Authz!ParsedPrincipal(policy)).principal = Authz!ParsedPrincipal(policy)
    BY DEF Authz!Static
  <2> QED
    BY <2>1 DEF Authz!Built, Authz!VerifyBootstrap, Authz!StaticEnforce
<1> QED
    BY <1>1, <1>2, NoCodeTyped DEF Authz!AuthzInv, Authz!TypeOK, Authz!Distinct

\* An edit changes the file only.
LEMMA EditPolicyStep ==
    ASSUME Authz!Distinct, Authz!AuthzInv, Authz!EditPolicy
    PROVE  Authz!AuthzInv'
<1>1. policy' \in {None} \cup Authz!Sections /\ policyEdits' \in 0..MaxPolicyEdits
    BY DEF Authz!EditPolicy, Authz!AuthzInv, Authz!TypeOK, Authz!Distinct
<1> QED
    BY <1>1 DEF Authz!EditPolicy, Authz!AuthzInv, Authz!TypeOK

\* Codes are made by the page's Authorizer, ...
LEMMA CodeStep ==
    ASSUME Authz!Distinct, Authz!AuthzInv, Authz!GenerateCode \/ Authz!CodeExpires
    PROVE  Authz!AuthzInv'
<1>1. pageCode' \in Authz!Codes
  <2>1. pageCode \in [code : 0..MaxCodes, expired : BOOLEAN]
    BY DEF Authz!AuthzInv, Authz!TypeOK, Authz!Codes
  <2>2. CASE Authz!GenerateCode
    <3>1. pageCode.code + 1 \in 0..MaxCodes
      BY <2>1, <2>2 DEF Authz!GenerateCode, Authz!Distinct
    <3>2. pageCode' = [code |-> pageCode.code + 1, expired |-> FALSE]
      BY <2>2 DEF Authz!GenerateCode
    <3> QED
      BY <3>1, <3>2, Zenon DEF Authz!Codes
  <2>3. CASE Authz!CodeExpires
    BY <2>1, <2>3 DEF Authz!CodeExpires, Authz!Codes
  <2> QED
    BY <2>2, <2>3
<1> QED
    BY <1>1 DEF Authz!GenerateCode, Authz!CodeExpires, Authz!AuthzInv, Authz!TypeOK

\* ... so core's accepts none, and no claim changes the engine.
LEMMA ClaimStep ==
    ASSUME Authz!AuthzInv,
           Authz!OpenClaimPage \/ \E submitted \in 1..MaxCodes : Authz!PostClaim(submitted)
    PROVE  Authz!AuthzInv'
<1>1. \A submitted \in 1..MaxCodes : ~Authz!Authenticate(submitted)
    BY DEF Authz!Authenticate, Authz!AuthzInv, Authz!NoCode
<1>2. /\ UNCHANGED <<policy, launched, enforcer, pageCode, coreCode, policyEdits>>
      /\ claim' \in {"form", "refused", "panic"}
    BY <1>1 DEF Authz!OpenClaimPage, Authz!PostClaim
<1> QED
    BY <1>2 DEF Authz!AuthzInv, Authz!TypeOK

\* The inductive invariant holds in every reachable state.
LEMMA AuthzInvariance == ASSUME Authz!Distinct PROVE Authz!Spec => []Authz!AuthzInv
<1>1. Authz!Init => Authz!AuthzInv
  <2>0. MaxPolicyEdits \in Nat
    BY Zenon DEF Authz!Distinct
  <2>1. 0 \in 0..MaxPolicyEdits
    BY <2>0
  <2>2. Authz!Off # None
    BY DEF Authz!Distinct
  <2> QED
    BY <2>1, <2>2, NoCodeTyped DEF Authz!Init, Authz!AuthzInv, Authz!TypeOK
<1>2. Authz!AuthzInv /\ [Authz!Next]_(Authz!authzVars) => Authz!AuthzInv'
    <2> SUFFICES ASSUME Authz!AuthzInv, [Authz!Next]_(Authz!authzVars) PROVE Authz!AuthzInv'
        OBVIOUS
    <2>1. CASE UNCHANGED Authz!authzVars
        BY <2>1 DEF Authz!authzVars, Authz!AuthzInv, Authz!TypeOK
    <2> QED
        BY <2>1, StartServerStep, EditPolicyStep, CodeStep, ClaimStep DEF Authz!Next
<1> QED
    BY <1>1, <1>2, PTL DEF Authz!Spec

\* Whoever is served is what the engine says: root alone, or everybody where there is none.
LEMMA ServedByEngine == ASSUME Authz!Distinct PROVE Authz!Spec => []Authz!OwnerServed
<1>1. Authz!AuthzInv => Authz!OwnerServed
  <2>1. Authz!Static(Root).principal = Root /\ Authz!Static(Root) # Authz!Off
    <3>1. Authz!Static(Root).engine = "static" /\ Authz!Off.engine = "off"
      BY DEF Authz!Static, Authz!Off
    <3> QED
      BY <3>1 DEF Authz!Static
  <2> QED
    BY <2>1 DEF Authz!AuthzInv, Authz!OwnerServed, Authz!RequireAction, Authz!StaticEnforce
<1> QED
    BY <1>1, AuthzInvariance, PTL

-----------------------------------------------------------------------------
(* The listing: ListInv is inductive. *)

\* How far a page reaches: the next one begins where it ends, and it is the last one when
\* the count is within it.
LEMMA PageReaches ==
    ASSUME NEW n \in Nat, NEW d \in Nat \ {0}, NEW p \in Nat \ {0}
    PROVE  LET pages == n \div d + (IF n % d > 0 THEN 1 ELSE 0)
           IN  /\ (p - 1) * d \in Nat /\ ((p + 1) - 1) * d = (p - 1) * d + d
               /\ p < pages => (p - 1) * d + d <= n
               /\ p >= pages => (p - 1) * d + d >= n
<1> DEFINE q == n \div d
           r == n % d
           pages == q + (IF r > 0 THEN 1 ELSE 0)
<1>1. q \in Nat /\ r \in Nat /\ r < d /\ n = q * d + r
    OBVIOUS
<1>2. (p - 1) * d \in Nat /\ ((p + 1) - 1) * d = (p - 1) * d + d /\ (p - 1) * d + d = p * d
    OBVIOUS
<1> HIDE DEF q, r
<1>3. ASSUME NEW a \in Nat, NEW b \in Nat, a <= b PROVE a * d <= b * d
  <2>1. b = a + (b - a) /\ b - a \in Nat
    BY <1>3
  <2>2. b * d = a * d + (b - a) * d /\ (b - a) * d \in Nat /\ a * d \in Nat
    BY <2>1
  <2> QED
    BY <2>2
<1>4. ASSUME p < pages PROVE p * d <= n
  <2>1. p <= q
    BY <1>1, <1>4
  <2>2. p * d <= q * d /\ p * d \in Nat /\ q * d \in Nat
    BY <1>1, <1>3, <2>1
  <2> QED
    BY <1>1, <2>2
<1>5. ASSUME p >= pages PROVE p * d >= n
  <2>1. CASE r > 0
    <3>1. (q + 1) * d <= p * d /\ (q + 1) * d = q * d + d /\ q * d \in Nat /\ p * d \in Nat
      BY <1>1, <1>3, <1>5, <2>1
    <3> QED
      BY <1>1, <3>1
  <2>2. CASE ~(r > 0)
    <3>1. q * d <= p * d /\ q * d \in Nat /\ p * d \in Nat
      BY <1>1, <1>3, <1>5, <2>2
    <3> QED
      BY <1>1, <2>2, <3>1
  <2> QED
    BY <2>1, <2>2
<1> QED
    BY <1>2, <1>4, <1>5 DEF q, r

\* What s has, t has there or further on.
MovedOn(s, t) == \A j \in DOMAIN s : \E k \in DOMAIN t : k >= j /\ t[k] = s[j]

\* An insertion moves rows towards the end, and no row away.
LEMMA InsertMoves ==
    ASSUME NEW S, NEW s \in Seq(S), NEW e \in S, NEW i \in 1..(Len(s) + 1)
    PROVE  /\ Pages!InsertAt(s, i, e) \in Seq(S) /\ Len(Pages!InsertAt(s, i, e)) = Len(s) + 1
           /\ MovedOn(s, Pages!InsertAt(s, i, e))
<1> DEFINE a == SubSeq(s, 1, i - 1)
           b == SubSeq(s, i, Len(s))
           c == a \o <<e>>
           t == Pages!InsertAt(s, i, e)
<1>1. /\ a \in Seq(S) /\ Len(a) = i - 1 /\ \A j \in 1..(i - 1) : a[j] = s[j]
  <2>1. \A j \in 1..(i - 1) : s[j] \in S
    OBVIOUS
  <2> QED
    BY <2>1, SubSeqProperties
<1>2. /\ b \in Seq(S) /\ Len(b) = Len(s) - i + 1
      /\ \A j \in 1..(Len(s) - i + 1) : b[j] = s[i + j - 1]
  <2>1. \A j \in i..Len(s) : s[j] \in S
    OBVIOUS
  <2> QED
    BY <2>1, SubSeqProperties
<1> HIDE DEF a, b
<1>3. <<e>> \in Seq(S) /\ Len(<<e>>) = 1
    OBVIOUS
<1>4. /\ c \in Seq(S) /\ Len(c) = i /\ \A j \in 1..(i - 1) : c[j] = a[j]
    BY <1>1, <1>3, ConcatProperties
<1> HIDE DEF c
<1>5. /\ t = c \o b
    BY DEF a, b, c, Pages!InsertAt
<1>6. /\ t \in Seq(S) /\ Len(t) = Len(s) + 1
      /\ \A j \in 1..(Len(s) + 1) : t[j] = IF j <= i THEN c[j] ELSE b[j - i]
  <2>1. /\ c \o b \in Seq(S) /\ Len(c \o b) = Len(c) + Len(b)
        /\ \A j \in 1..(Len(c) + Len(b)) :
               (c \o b)[j] = IF j <= Len(c) THEN c[j] ELSE b[j - Len(c)]
    BY <1>2, <1>4, ConcatProperties
  <2>2. Len(c) = i /\ Len(c) + Len(b) = Len(s) + 1
    BY <1>2, <1>4
  <2> HIDE DEF t
  <2> QED
    BY <1>5, <2>1, <2>2
<1> HIDE DEF t
<1>7. ASSUME NEW j \in DOMAIN s PROVE \E k \in DOMAIN t : k >= j /\ t[k] = s[j]
  <2>1. j \in 1..Len(s) /\ DOMAIN t = 1..(Len(s) + 1)
    BY <1>6
  <2>2. CASE j < i
    <3>1. t[j] = s[j]
      BY <1>1, <1>4, <1>6, <2>1, <2>2
    <3> QED
      BY <2>1, <3>1
  <2>3. CASE j >= i
    <3>1. t[j + 1] = b[(j + 1) - i] /\ b[(j + 1) - i] = s[i + ((j + 1) - i) - 1]
      <4>1. (j + 1) - i \in 1..(Len(s) - i + 1)
        BY <2>1, <2>3
      <4>2. j + 1 \in 1..(Len(s) + 1) /\ ~(j + 1 <= i)
        BY <2>1, <2>3
      <4> QED
        BY <1>2, <1>6, <4>1, <4>2
    <3>2. i + ((j + 1) - i) - 1 = j
      BY <2>1
    <3> QED
      BY <2>1, <3>1, <3>2
  <2> QED
    BY <2>1, <2>2, <2>3
<1> QED
    BY <1>6, <1>7 DEF t, MovedOn

\* A removal leaves a sequence.
LEMMA RemoveTyped ==
    ASSUME NEW S, NEW s \in Seq(S), NEW i \in DOMAIN s
    PROVE  Pages!RemoveAt(s, i) \in Seq(S)
<1>1. SubSeq(s, 1, i - 1) \in Seq(S)
  <2>1. \A j \in 1..(i - 1) : s[j] \in S
    OBVIOUS
  <2> QED
    BY <2>1, SubSeqProperties
<1>2. SubSeq(s, i + 1, Len(s)) \in Seq(S)
  <2>1. \A j \in (i + 1)..Len(s) : s[j] \in S
    OBVIOUS
  <2> QED
    BY <2>1, SubSeqProperties
<1> QED
    BY <1>1, <1>2, ConcatProperties DEF Pages!RemoveAt

\* The elements of a sequence are where it says.
LEMMA ToSetIs ==
    ASSUME NEW S, NEW s \in Seq(S)
    PROVE  Pages!ToSet(s) \subseteq S /\ DOMAIN s = 1..Len(s) /\ Len(s) \in Nat
BY LenProperties DEF Pages!ToSet

\* The rows there can be.
Items == Pages!ToSet(Elements) \cup Newcomers

\* A walk begins on the first page, with a valid number of rows on it.
LEMMA OpenKeeps ==
    ASSUME Pages!ListingConstants, Pages!ListInv, NEW default \in {GalleryPerPage, DefaultPerPage},
           Pages!Open(default)
    PROVE  Pages!ListInv'
<1>1. /\ opts = None /\ before' = rows /\ UNCHANGED <<rows, counting, total, shown, gone, slid>>
    BY DEF Pages!Open
<1>2. PICK page \in {0, 1}, perPage \in PerPages :
          opts' = Pages!ParsedOptions(page, perPage, default)
    BY DEF Pages!Open
<1>3. opts' \in [page : {1}, perPage : 1..MaxPerPage]
  <2>1. \A n \in Int : (IF n < 1 THEN DefaultPerPage ELSE IF n > MaxPerPage THEN MaxPerPage ELSE n)
                       \in 1..MaxPerPage
    BY DEF Pages!ListingConstants
  <2>2. perPage = All \/ perPage = None \/ perPage \in Int
    BY DEF Pages!ListingConstants
  <2> DEFINE n == CASE perPage = All -> MaxPerPage [] perPage = None -> default [] OTHER -> perPage
  <2>3. n \in Int
    BY <2>2 DEF Pages!ListingConstants
  <2> HIDE DEF n
  <2>4. opts' = Pages!Validated(page, n)
    BY <1>2 DEF Pages!ParsedOptions, n
  <2>5. (IF page < 1 THEN 1 ELSE page) = 1
    OBVIOUS
  <2> QED
    BY <2>1, <2>3, <2>4, <2>5 DEF Pages!Validated
<1>4. /\ opts'.page = 1 /\ opts'.perPage \in 1..MaxPerPage /\ opts'.perPage \in Int
      /\ opts' \notin {None, Pages!Over} /\ opts' \in [page : Nat \ {0}, perPage : 1..MaxPerPage]
    BY <1>3 DEF Pages!ListingConstants, Pages!Over
<1>5. Pages!Walking' /\ Pages!Offset' = 0 /\ Pages!ReadSoFar' = 0
    BY <1>4 DEF Pages!Walking, Pages!Offset, Pages!ReadSoFar
<1>6. rows \in Seq(Items) /\ counting /\ shown = <<>>
    BY <1>1 DEF Pages!ListInv, Items
<1>7. Pages!WalkSound'
  <2>1. Pages!ShownOrAhead'
    BY <1>1, <1>5, <1>6, ToSetIs DEF Pages!ShownOrAhead, Pages!ToSet
  <2>2. Pages!Growing'
    BY <1>1, <1>5, <1>6 DEF Pages!Growing
  <2> QED
    BY <1>1, <1>5, <1>6, <2>1, <2>2 DEF Pages!WalkSound
<1> QED
    BY <1>1, <1>4, <1>6, <1>7 DEF Pages!ListInv, Pages!TypeOK, Items

\* The count reads and moves nothing.
LEMMA CountKeeps ==
    ASSUME Pages!ListingConstants, Pages!ListInv, Pages!CountRows PROVE Pages!ListInv'
<1>1. /\ Pages!Walking /\ counting /\ total' = Len(rows) /\ counting' = FALSE
      /\ UNCHANGED <<rows, opts, shown, before, gone, slid>>
    BY DEF Pages!CountRows
<1>2. rows \in Seq(Items) /\ Len(rows) \in Nat /\ opts # None
    BY <1>1 DEF Pages!ListInv, Items, Pages!Walking
<1>3. Pages!Walking' /\ Pages!ReadSoFar' = Pages!ReadSoFar
    BY <1>1 DEF Pages!Walking, Pages!ReadSoFar, Pages!Offset
<1>4. Pages!WalkSound'
    BY <1>1, <1>2, <1>3 DEF Pages!ListInv, Pages!WalkSound, Pages!ShownOrAhead, Pages!Growing
<1> QED
    BY <1>1, <1>2, <1>4 DEF Pages!ListInv, Pages!TypeOK

\* A page shows what lies between where the last one ended and where it ends.
LEMMA SelectKeeps ==
    ASSUME Pages!ListingConstants, Pages!ListInv, Pages!SelectPage PROVE Pages!ListInv'
<1> DEFINE d == opts.perPage
           end == IF Pages!Offset + d < Len(rows) THEN Pages!Offset + d ELSE Len(rows)
           page == SubSeq(rows, Pages!Offset + 1, end)
<1>1. /\ Pages!Walking /\ ~counting /\ counting' = TRUE
      /\ shown' = shown \o page
      /\ opts' = IF opts.page < Pages!TotalPages(total)
                 THEN [opts EXCEPT !.page = @ + 1] ELSE Pages!Over
      /\ UNCHANGED <<rows, total, before, gone, slid>>
    BY DEF Pages!SelectPage
<1>2. /\ opts \in [page : Nat \ {0}, perPage : 1..MaxPerPage] /\ opts # None
      /\ opts.page \in Nat \ {0} /\ d \in Nat \ {0} /\ total \in Nat
    BY <1>1 DEF Pages!ListInv, Pages!TypeOK, Pages!Walking, Pages!ListingConstants
<1>3. /\ rows \in Seq(Items) /\ shown \in Seq(Items) /\ before \in Seq(Items)
      /\ DOMAIN rows = 1..Len(rows) /\ Len(rows) \in Nat
      /\ \A i \in 1..Len(rows) : rows[i] \in Items
    BY ToSetIs DEF Pages!ListInv, Items
<1>4. /\ Pages!Offset \in Nat
      /\ Pages!Offset + d = ((opts.page + 1) - 1) * d
      /\ opts.page < Pages!TotalPages(total) => Pages!Offset + d <= total
      /\ opts.page >= Pages!TotalPages(total) => Pages!Offset + d >= total
    BY <1>2, PageReaches DEF Pages!Offset, Pages!TotalPages
<1>5. Pages!TotalPages(total) \in Int
    BY <1>2 DEF Pages!TotalPages
<1>6. \/ /\ opts.page < Pages!TotalPages(total)
         /\ Pages!Walking' /\ Pages!Offset' = Pages!Offset + d
         /\ opts' \in [page : Nat \ {0}, perPage : 1..MaxPerPage]
      \/ opts.page >= Pages!TotalPages(total) /\ opts' = Pages!Over /\ ~Pages!Walking'
  <2>1. CASE opts.page < Pages!TotalPages(total)
    <3>1. opts' = [page |-> opts.page + 1, perPage |-> d]
      BY <1>1, <1>2, <2>1
    <3>2. opts' \notin {None, Pages!Over}
      <4>1. opts.page + 1 \in Int /\ opts.page + 1 # 0 /\ d \in Int
        BY <1>2
      <4> QED
        BY <3>1, <4>1 DEF Pages!ListingConstants, Pages!Over
    <3> QED
      BY <1>2, <1>4, <2>1, <3>1, <3>2 DEF Pages!Walking, Pages!Offset
  <2>2. CASE ~(opts.page < Pages!TotalPages(total))
    BY <1>1, <1>2, <1>5, <2>2 DEF Pages!Walking
  <2> QED
    BY <2>1, <2>2
<1> HIDE DEF d
<1>7. /\ end \in Int /\ end <= Len(rows)
      /\ page \in Seq(Items)
      /\ \A i \in (Pages!Offset + 1)..end :
             i - Pages!Offset \in DOMAIN page /\ page[i - Pages!Offset] = rows[i]
  <2>1. end \in Int /\ end <= Len(rows)
    BY <1>2, <1>3, <1>4
  <2>2. \A i \in (Pages!Offset + 1)..end : rows[i] \in Items
    BY <1>3, <1>4, <2>1
  <2>3. /\ page \in Seq(Items)
        /\ Len(page) = IF Pages!Offset + 1 <= end THEN end - (Pages!Offset + 1) + 1 ELSE 0
        /\ \A i \in 1..(end - (Pages!Offset + 1) + 1) : page[i] = rows[(Pages!Offset + 1) + i - 1]
    BY <1>4, <2>1, <2>2, SubSeqProperties
  <2> HIDE DEF page, end
  <2>4. ASSUME NEW i \in (Pages!Offset + 1)..end
        PROVE  i - Pages!Offset \in DOMAIN page /\ page[i - Pages!Offset] = rows[i]
    <3>1. /\ i - Pages!Offset \in 1..(end - (Pages!Offset + 1) + 1)
          /\ (Pages!Offset + 1) + (i - Pages!Offset) - 1 = i
      BY <1>4, <2>1
    <3>2. DOMAIN page = 1..Len(page)
      BY <2>3, ToSetIs
    <3> QED
      BY <1>4, <2>1, <2>3, <3>1, <3>2
  <2> QED
    BY <2>1, <2>3, <2>4
<1>8. /\ shown' \in Seq(Items)
      /\ Pages!ToSet(shown) \subseteq Pages!ToSet(shown')
      /\ Pages!ToSet(page) \subseteq Pages!ToSet(shown')
  <2> HIDE DEF page
  <2>1. /\ shown' \in Seq(Items) /\ Len(shown') = Len(shown) + Len(page)
        /\ \A i \in 1..(Len(shown) + Len(page)) :
               shown'[i] = IF i <= Len(shown) THEN shown[i] ELSE page[i - Len(shown)]
    BY <1>1, <1>3, <1>7, ConcatProperties
  <2>2. /\ DOMAIN shown = 1..Len(shown) /\ Len(shown) \in Nat
        /\ DOMAIN page = 1..Len(page) /\ Len(page) \in Nat
        /\ DOMAIN shown' = 1..Len(shown')
    BY <1>3, <1>7, <2>1, ToSetIs
  <2>3. ASSUME NEW i \in DOMAIN shown PROVE shown[i] \in Pages!ToSet(shown')
    BY <2>1, <2>2 DEF Pages!ToSet
  <2>4. ASSUME NEW i \in DOMAIN page PROVE page[i] \in Pages!ToSet(shown')
    <3>1. Len(shown) + i \in DOMAIN shown' /\ shown'[Len(shown) + i] = page[i]
      BY <2>1, <2>2
    <3> QED
      BY <3>1 DEF Pages!ToSet
  <2> QED
    BY <2>1, <2>3, <2>4 DEF Pages!ToSet
<1>9. Pages!WalkSound'
  <2> SUFFICES ASSUME ~gone, ~slid PROVE Pages!WalkSound'
    BY <1>1 DEF Pages!WalkSound
  <2>1. /\ Pages!ReadSoFar = Pages!Offset /\ Pages!Offset <= Len(rows) /\ total = Len(rows)
        /\ Pages!ShownOrAhead /\ Pages!Growing
    BY <1>1, <1>2 DEF Pages!ListInv, Pages!WalkSound, Pages!ReadSoFar
  <2>2. Pages!ReadSoFar' = end /\ end \in 0..Len(rows) /\ Pages!Offset <= end
    <3>1. CASE /\ opts.page < Pages!TotalPages(total)
               /\ Pages!Walking' /\ Pages!Offset' = Pages!Offset + d
      <4>1. Pages!Offset + d <= Len(rows)
        BY <1>4, <2>1, <3>1
      <4>2. end = Pages!Offset + d
        <5> DEFINE far == Pages!Offset + d
        <5>1. far \in Int /\ Len(rows) \in Int
          BY <1>2, <1>3, <1>4
        <5> HIDE DEF far
        <5> QED
          BY <4>1, <5>1 DEF far
      <4> HIDE DEF end
      <4> QED
        BY <1>2, <1>3, <1>4, <3>1, <4>1, <4>2 DEF Pages!ReadSoFar
    <3>2. CASE opts.page >= Pages!TotalPages(total) /\ ~Pages!Walking'
      <4>1. Pages!Offset + d >= Len(rows)
        BY <1>4, <2>1, <3>2
      <4>2. end = Len(rows)
        <5> DEFINE far == Pages!Offset + d
        <5>1. far \in Int /\ Len(rows) \in Int
          BY <1>2, <1>3, <1>4
        <5> HIDE DEF far
        <5> QED
          BY <4>1, <5>1 DEF far
      <4>3. Pages!ReadSoFar' = Len(rows)
        BY <1>1, <3>2 DEF Pages!ReadSoFar
      <4> HIDE DEF end
      <4> QED
        BY <1>3, <2>1, <4>2, <4>3
    <3> QED
      BY <1>6, <3>1, <3>2
  <2> HIDE DEF end, page
  <2>3. Pages!ShownOrAhead'
    <3> SUFFICES ASSUME NEW e \in Pages!ToSet(before) \ Pages!ToSet(shown')
                 PROVE  \E i \in DOMAIN rows : i > end /\ rows[i] = e
      BY <1>1, <2>2 DEF Pages!ShownOrAhead
    <3>1. PICK i \in DOMAIN rows : i > Pages!Offset /\ rows[i] = e
      BY <1>8, <2>1 DEF Pages!ShownOrAhead
    <3>2. ASSUME i <= end PROVE FALSE
      <4>1. i - Pages!Offset \in DOMAIN page /\ page[i - Pages!Offset] = e
        BY <1>3, <1>4, <1>7, <2>2, <3>1, <3>2
      <4>2. e \in Pages!ToSet(page)
        BY <4>1 DEF Pages!ToSet
      <4> QED
        BY <1>8, <4>2
    <3> QED
      BY <1>3, <2>2, <3>1, <3>2
  <2>4. Pages!Growing'
    <3> SUFFICES ASSUME Len(before) = Len(rows)
                 PROVE  rows = before /\ shown' = SubSeq(rows, 1, end)
      BY <1>1, <2>1, <2>2 DEF Pages!Growing
    <3>1. rows = before /\ shown = SubSeq(rows, 1, Pages!Offset)
      BY <2>1 DEF Pages!Growing
    <3>2. SubSeq(rows, 1, Pages!Offset) \o SubSeq(rows, Pages!Offset + 1, end)
              = SubSeq(rows, 1, end)
      <4>1. /\ rows \in Seq(Items) /\ 1 \in 1..(Len(rows) + 1)
            /\ Pages!Offset \in (1 - 1)..Len(rows) /\ end \in Pages!Offset..Len(rows)
        BY <1>3, <1>4, <2>1, <2>2
      <4> QED
        BY <4>1, ConcatAdjacentSubSeq
    <3> QED
      BY <1>1, <3>1, <3>2 DEF page
  <2> QED
    BY <1>1, <2>2, <2>3, <2>4 DEF Pages!WalkSound
<1> QED
  <2>1. opts' \in {Pages!Over} \cup [page : Nat \ {0}, perPage : 1..MaxPerPage] /\ opts' # None
    BY <1>6 DEF Pages!Walking, Pages!Over, Pages!ListingConstants
  <2> HIDE DEF page, end
  <2>2. Pages!TypeOK'
    BY <1>1, <1>2, <2>1 DEF Pages!ListInv, Pages!TypeOK
  <2> QED
    BY <1>1, <1>3, <1>8, <1>9, <2>1, <2>2 DEF Pages!ListInv, Items

\* An insertion pushes what is ahead further ahead.
LEMMA InsertKeeps ==
    ASSUME Pages!ListingConstants, Pages!ListInv, NEW e \in Newcomers, Pages!InsertRow(e)
    PROVE  Pages!ListInv'
<1>1. PICK i \in 1..(Len(rows) + 1) : rows' = Pages!InsertAt(rows, i, e)
    BY DEF Pages!InsertRow
<1>2. /\ slid' = (slid \/ (Pages!Walking /\ ~counting))
      /\ UNCHANGED <<opts, counting, total, shown, before, gone>>
    BY DEF Pages!InsertRow
<1>3. rows \in Seq(Items) /\ e \in Items /\ Len(rows) \in Nat /\ DOMAIN rows = 1..Len(rows)
    BY ToSetIs DEF Pages!ListInv, Items
<1>4. /\ rows' \in Seq(Items) /\ Len(rows') = Len(rows) + 1
      /\ \A j \in DOMAIN rows : \E k \in DOMAIN rows' : k >= j /\ rows'[k] = rows[j]
      /\ DOMAIN rows' = 1..(Len(rows) + 1)
  <2>0. rows \in Seq(Items) /\ e \in Items /\ i \in 1..(Len(rows) + 1)
    BY <1>3
  <2>1. /\ Pages!InsertAt(rows, i, e) \in Seq(Items)
        /\ Len(Pages!InsertAt(rows, i, e)) = Len(rows) + 1
        /\ MovedOn(rows, Pages!InsertAt(rows, i, e))
    BY <2>0, InsertMoves, Zenon
  <2>2. DOMAIN Pages!InsertAt(rows, i, e) = 1..Len(Pages!InsertAt(rows, i, e))
    BY <2>1, ToSetIs
  <2> QED
    BY <1>1, <2>1, <2>2 DEF MovedOn
<1>5. Pages!WalkSound'
  <2> SUFFICES ASSUME opts # None, ~gone, ~slid, ~(Pages!Walking /\ ~counting)
               PROVE  Pages!WalkSound'
    BY <1>2 DEF Pages!WalkSound
  <2>1. /\ Pages!ReadSoFar \in 0..Len(rows) /\ counting
        /\ Pages!ShownOrAhead /\ Len(before) <= Len(rows)
    BY DEF Pages!ListInv, Pages!WalkSound, Pages!Growing
  <2>2. Pages!Walking' = Pages!Walking /\ Pages!Offset' = Pages!Offset
    BY <1>2 DEF Pages!Walking, Pages!Offset
  <2>3. /\ Pages!ReadSoFar' = IF Pages!Walking THEN Pages!ReadSoFar ELSE Len(rows) + 1
        /\ ~Pages!Walking => Pages!ReadSoFar = Len(rows)
    BY <1>4, <2>2 DEF Pages!ReadSoFar
  <2>4. Pages!ShownOrAhead'
    <3> SUFFICES ASSUME NEW x \in Pages!ToSet(before) \ Pages!ToSet(shown)
                 PROVE  \E k \in DOMAIN rows' : k > Pages!ReadSoFar' /\ rows'[k] = x
      BY <1>2 DEF Pages!ShownOrAhead
    <3>1. PICK j \in DOMAIN rows : j > Pages!ReadSoFar /\ rows[j] = x
      BY <2>1 DEF Pages!ShownOrAhead
    <3>2. Pages!Walking
      BY <1>3, <2>3, <3>1
    <3>3. PICK k \in DOMAIN rows' : k >= j /\ rows'[k] = rows[j]
      BY <1>4
    <3> QED
      BY <1>3, <1>4, <2>1, <2>3, <3>1, <3>2, <3>3
  <2>5. Len(before) \in Nat
    BY ToSetIs DEF Pages!ListInv
  <2>6. Pages!Growing'
    BY <1>2, <1>3, <1>4, <2>1, <2>5 DEF Pages!Growing
  <2> QED
    <3>1. Pages!ReadSoFar' \in 0..Len(rows')
      <4>1. CASE Pages!Walking
        BY <1>3, <1>4, <2>1, <2>3, <4>1
      <4>2. CASE ~Pages!Walking
        BY <1>3, <1>4, <2>1, <2>3, <4>2
      <4> QED
        BY <4>1, <4>2
    <3>2. counting'
      BY <1>2, <2>1
    <3> QED
      BY <2>4, <2>6, <3>1, <3>2 DEF Pages!WalkSound
<1>6. \A s \in {rows, shown, before}' : s \in Seq(Pages!ToSet(Elements) \cup Newcomers)
    BY <1>2, <1>4 DEF Pages!ListInv, Items
<1>7. Pages!TypeOK'
  <2>1. Pages!ToSet(rows') \subseteq Items
    BY <1>4, ToSetIs
  <2> QED
    BY <1>2, <2>1 DEF Pages!ListInv, Pages!TypeOK, Items
<1>8. gone' \in BOOLEAN /\ slid' \in BOOLEAN
    BY <1>2, Zenon DEF Pages!ListInv
<1> QED
    BY <1>2, <1>5, <1>6, <1>7, <1>8 DEF Pages!ListInv

\* A removal ends what the walk can be held to.
LEMMA RemoveKeeps ==
    ASSUME Pages!ListingConstants, Pages!ListInv, NEW i \in DOMAIN rows, Pages!RemoveRow(i)
    PROVE  Pages!ListInv'
<1>1. /\ rows' = Pages!RemoveAt(rows, i) /\ gone' = (gone \/ opts # None)
      /\ UNCHANGED <<opts, counting, total, shown, before, slid>>
    BY DEF Pages!RemoveRow
<1>2. rows' \in Seq(Items)
    BY <1>1, RemoveTyped DEF Pages!ListInv, Items
<1>3. Pages!TypeOK'
  <2>1. Pages!ToSet(rows') \subseteq Items
    BY <1>2, ToSetIs
  <2> QED
    BY <1>1, <2>1 DEF Pages!ListInv, Pages!TypeOK, Items
<1>4. gone' \in BOOLEAN /\ (gone' \/ opts = None)
    BY <1>1, Zenon DEF Pages!ListInv
<1>5. Pages!WalkSound'
    BY <1>1, <1>4 DEF Pages!WalkSound
<1> QED
    BY <1>1, <1>2, <1>3, <1>4, <1>5 DEF Pages!ListInv, Items

\* The inductive invariant of a walk holds in every reachable state.
LEMMA ListInvariance == ASSUME Pages!ListingConstants PROVE Pages!Spec => []Pages!ListInv
<1>1. Pages!Init => Pages!ListInv
  <2> SUFFICES ASSUME Pages!Init PROVE Pages!ListInv
    OBVIOUS
  <2>1. rows \in Seq(Items) /\ Pages!ToSet(rows) \subseteq Items
    <3>1. Elements \in Seq(Pages!ToSet(Elements)) /\ rows = Elements
      BY DEF Pages!Init, Pages!ListingConstants
    <3>2. Elements \in Seq(Items)
      BY <3>1, SeqMonotonic DEF Items
    <3> QED
      BY <3>1 , <3>2 DEF Items
  <2>2. <<>> \in Seq(Items)
    OBVIOUS
  <2> QED
    BY <2>1, <2>2 DEF Pages!Init, Pages!ListInv, Pages!TypeOK, Pages!WalkSound, Items
<1>2. Pages!ListInv /\ [Pages!Next]_(Pages!listVars) => Pages!ListInv'
  <2> SUFFICES ASSUME Pages!ListInv, [Pages!Next]_(Pages!listVars) PROVE Pages!ListInv'
    OBVIOUS
  <2>1. CASE Pages!Next
    <3>1. CASE Pages!OpenGallery \/ Pages!OpenElementsJSON
      BY <3>1, OpenKeeps DEF Pages!OpenGallery, Pages!OpenElementsJSON
    <3>2. CASE Pages!CountRows \/ Pages!SelectPage
      BY <3>2, CountKeeps, SelectKeeps
    <3>3. CASE \/ \E e \in Newcomers : Pages!InsertRow(e)
               \/ \E i \in DOMAIN rows : Pages!RemoveRow(i)
      BY <3>3, InsertKeeps, RemoveKeeps
    <3> QED
      BY <2>1, <3>1, <3>2, <3>3 DEF Pages!Next
  <2>2. CASE UNCHANGED Pages!listVars
    BY <2>2 DEF Pages!listVars, Pages!ListInv, Pages!TypeOK, Pages!WalkSound, Pages!ReadSoFar,
       Pages!Walking, Pages!Offset, Pages!ShownOrAhead,
       Pages!Growing
  <2> QED
    BY <2>1, <2>2
<1> QED
    BY <1>1, <1>2, PTL DEF Pages!Spec

\* What the invariant says of a walk that is over.
LEMMA WalkComplete ==
    ASSUME Pages!ListingConstants PROVE Pages!Spec => [](Pages!TypeOK /\ Pages!WalkMissesNone)
<1>1. Pages!ListInv => Pages!WalkMissesNone
  <2> SUFFICES ASSUME Pages!ListInv, opts = Pages!Over, ~gone, ~slid
               PROVE  /\ Pages!ToSet(before) \subseteq Pages!ToSet(shown)
                      /\ rows = before => shown = before
    BY DEF Pages!WalkMissesNone
  <2>1. /\ rows \in Seq(Items) /\ DOMAIN rows = 1..Len(rows) /\ Len(rows) \in Nat
    BY ToSetIs DEF Pages!ListInv, Items
  <2>2. opts # None
    BY DEF Pages!Over, Pages!ListingConstants
  <2>3. Pages!ReadSoFar = Len(rows) /\ Pages!ShownOrAhead /\ Pages!Growing
    BY <2>2 DEF Pages!ListInv, Pages!WalkSound, Pages!ReadSoFar, Pages!Walking
  <2>4. SubSeq(rows, 1, Len(rows)) = rows
    BY <2>1, SubSeqFull
  <2> QED
    BY <2>1, <2>3, <2>4 DEF Pages!ShownOrAhead, Pages!Growing
<1>2. Pages!ListInv => Pages!TypeOK
    BY DEF Pages!ListInv
<1> QED
    BY <1>1, <1>2, ListInvariance, PTL

-----------------------------------------------------------------------------
(* What is left of the types *)

\* The photobooth's flags, and its bound.
Flags == booked \in BOOLEAN /\ boothUp \in BOOLEAN /\ boothFaults \in 0..MaxBoothFaults

\* The photobooth keeps its types.
LEMMA BoothTypes == ASSUME MaxBoothFaults \in Nat PROVE Booth!Spec => []Booth!TypeOK
<1>1. Booth!Init => Flags
  <2>1. Booth!Init => booked = TRUE /\ boothUp = TRUE /\ boothFaults = 0
    BY Zenon DEF Booth!Init
  <2> QED
    BY <2>1 DEF Flags
<1>2. Flags /\ [Booth!Next]_(Booth!boothVars) => Flags'
  <2> SUFFICES ASSUME Flags, [Booth!Next]_(Booth!boothVars) PROVE Flags'
    OBVIOUS
  <2>1. Booth!Slip \/ boothFaults' = boothFaults
    BY DEF Booth!Next, Booth!ReadSettings, Booth!WriteSettings, Booth!MirrorSettings,
       Booth!DeleteProject, Booth!CreateProject, Booth!Capture, Booth!StartPostFilterJob,
       Booth!StopBooth, Booth!StartBooth, Booth!boothVars
  <2>2. boothFaults' \in 0..MaxBoothFaults
    BY <2>1 DEF Booth!Slip, Flags
  <2>3. booked' \in {TRUE, FALSE, booked} /\ boothUp' \in {TRUE, FALSE, boothUp}
    BY DEF Booth!Next, Booth!ReadSettings, Booth!WriteSettings, Booth!MirrorSettings,
       Booth!DeleteProject, Booth!CreateProject, Booth!Capture, Booth!StartPostFilterJob,
       Booth!StopBooth, Booth!StartBooth, Booth!boothVars
  <2> QED
    BY <2>2, <2>3 DEF Flags
<1>3. Flags /\ Booth!BoothInv => Booth!TypeOK
  <2> SUFFICES ASSUME Flags, Booth!BoothInv PROVE Booth!TypeOK
    OBVIOUS
  <2>1. Booth!Typed
    BY DEF Booth!BoothInv
  <2>2. \A c, d \in settings : c = d
    BY <2>1 DEF Booth!Typed
  <2>3. \A d : Booth!Whole(d) => DOMAIN d = Booth!Fields
    BY DEF Booth!Whole
  <2>4. \A d \in settings \cup {wished} : DOMAIN d = Booth!Fields
    BY <2>1, <2>3 DEF Booth!Typed
  <2>5. \A s \in Saves : \A g \in saving[s] : g.step \in {"read", "write", "mirror"}
    BY <2>1 DEF Booth!Typed, Booth!InProgress
  <2>6. filtering \subseteq Captures /\ DOMAIN filtered = Captures
    BY <2>1 DEF Booth!Typed
  <2> QED
    BY <2>2, <2>4, <2>5, <2>6 DEF Flags, Booth!TypeOK
<1> QED
    BY <1>1, <1>2, <1>3, BoothInvariance, PTL DEF Booth!Spec

\* What the start decides has its types, and only what alters a table is migrated.
StartTyped ==
    /\ stage \in {"down", "register", "validate", "order", "migrate", "record", "initialize",
                  "sync", "up"}
    /\ Boot!IsInjective(order)
    /\ columns \subseteq Alters /\ recorded \subseteq Alters
    /\ stage = "record" => order[turn] \in Alters
    /\ launches \in 0..MaxLaunches /\ torn \in BOOLEAN

\* The end of a start keeps them.
LEMMA ExitTyped ==
    ASSUME StartTyped, NEW reason, Boot!Exit(reason), UNCHANGED <<columns, recorded>>,
           launches' \in 0..MaxLaunches, torn' \in BOOLEAN
    PROVE  StartTyped'
<1>1. stage' = "down" /\ order' = <<>>
    BY DEF Boot!Exit
<1>2. Boot!IsInjective(order')
    BY <1>1 DEF Boot!IsInjective
<1> QED
    BY <1>1, <1>2 DEF StartTyped

\* Kahn's algorithm places an extension that is not placed yet, so each once.
LEMMA PlacedOnce ==
    ASSUME Boot!StartupConstants, Boot!StartInv, StartTyped, Boot!PlaceNext PROVE StartTyped'
<1> DEFINE waiting == {i \in DOMAIN Keys : Keys[i] \in enabled \ Boot!Placed}
           ready == {i \in waiting : Boot!Ready(Keys[i])}
           first == CHOOSE i \in ready : \A j \in ready : i <= j
<1>1. UNCHANGED <<columns, recorded, torn, launches>> /\ stage = "order"
    BY DEF Boot!PlaceNext, Boot!cache
<1>2. CASE stage' \in {stage, "migrate"} /\ order' = order
    BY <1>1, <1>2 DEF StartTyped
<1>3. CASE Boot!Exit("order")
    BY <1>1, <1>3, ExitTyped DEF StartTyped
<1>4. CASE ready # {} /\ order' = Append(order, Keys[first]) /\ stage' = stage
  <2>1. first \in ready
    <3>1. ready \in SUBSET Nat
      BY DEF Boot!StartupConstants
    <3>2. \E m \in ready : \A n \in ready : m <= n
      <4> HIDE DEF ready
      <4> QED
        BY <1>4, <3>1, TheBatch!Least
    <3> QED
      BY <3>2
  <2> DEFINE k == Keys[first]
  <2>2. k \in enabled /\ k \notin Boot!Placed
    BY <2>1
  <2>3. order \in Seq(enabled) /\ Boot!IsInjective(order)
    BY DEF Boot!StartInv, Boot!Placing, StartTyped
  <2> HIDE DEF waiting, ready, first, k
  <2>4. /\ DOMAIN order' = DOMAIN order \cup {Len(order) + 1}
        /\ \A i \in DOMAIN order : order'[i] = order[i] /\ order[i] # k
        /\ order'[Len(order) + 1] = k
    <3>1. order' = Append(order, k)
      BY <1>4 DEF k
    <3>2. \A i \in DOMAIN order : order[i] # k
      BY <2>2 DEF Boot!Placed, Boot!ToSet
    <3> QED
      BY <2>2, <2>3, <3>1, <3>2
  <2>5. Boot!IsInjective(order')
    BY <2>3, <2>4 DEF Boot!IsInjective
  <2> QED
    BY <1>1, <1>4, <2>5 DEF StartTyped
<1> QED
    BY <1>2, <1>3, <1>4 DEF Boot!PlaceNext

\* The start keeps its types.
LEMMA StartTypes == ASSUME Boot!StartupConstants PROVE Boot!Spec => []Boot!TypeOK
<1>1. Boot!Init => StartTyped
  <2> SUFFICES ASSUME Boot!Init PROVE StartTyped
    OBVIOUS
  <2>1. order = <<>> /\ columns = {} /\ recorded = {} /\ launches = 0 /\ torn = FALSE
        /\ stage = "down"
    BY DEF Boot!Init
  <2>2. Boot!IsInjective(order)
    BY <2>1 DEF Boot!IsInjective
  <2>3. launches \in 0..MaxLaunches
    BY <2>1 DEF Boot!StartupConstants
  <2> QED
    BY <2>1, <2>2, <2>3 DEF StartTyped
<1>2. Boot!StartInv /\ StartTyped /\ [Boot!Next]_(Boot!startVars) => StartTyped'
  <2> SUFFICES ASSUME Boot!StartInv, StartTyped, [Boot!Next]_(Boot!startVars) PROVE StartTyped'
    OBVIOUS
  <2>1. CASE Boot!Bootstrap
    <3>1. launches' \in 0..MaxLaunches /\ UNCHANGED <<columns, recorded, torn>>
      BY <2>1 DEF Boot!Bootstrap, Boot!cache, StartTyped, Boot!StartupConstants
    <3>2. Boot!Exit("bootstrap") \/ (stage' = "register" /\ order' = order)
      BY <2>1 DEF Boot!Bootstrap
    <3> QED
      BY <3>1, <3>2, ExitTyped DEF StartTyped
  <2>2. CASE Boot!ResolveEnabled
    <3>1. UNCHANGED <<columns, recorded, torn, launches>>
      BY <2>2 DEF Boot!ResolveEnabled, Boot!cache
    <3>2. Boot!Exit("config") \/ (stage' = "validate" /\ order' = order)
      BY <2>2 DEF Boot!ResolveEnabled
    <3> QED
      BY <3>1, <3>2, ExitTyped DEF StartTyped
  <2>3. CASE Boot!ValidateGraph
    <3>1. UNCHANGED <<columns, recorded, torn, launches>>
      BY <2>3 DEF Boot!ValidateGraph, Boot!cache
    <3>2. Boot!Exit("graph") \/ (stage' = "order" /\ order' = order)
      BY <2>3 DEF Boot!ValidateGraph
    <3> QED
      BY <3>1, <3>2, ExitTyped DEF StartTyped
  <2>4. CASE Boot!AlterTable
    <3>1. UNCHANGED <<recorded, torn, launches>> /\ stage = "migrate"
      BY <2>4 DEF Boot!AlterTable
    <3>2. \/ columns' = columns /\ stage' = stage /\ order' = order
          \/ columns' = columns /\ Boot!Exit("migrate")
          \/ /\ order[turn] \in Alters /\ columns' = columns \cup {order[turn]}
             /\ stage' = "record" /\ order' = order /\ turn' = turn
      BY <2>4 DEF Boot!AlterTable
    <3> QED
      BY <3>1, <3>2, ExitTyped DEF StartTyped
  <2>5. CASE Boot!RecordMigration
    BY <2>5 DEF Boot!RecordMigration, StartTyped
  <2>6. CASE Boot!StartInitializing
    BY <2>6 DEF Boot!StartInitializing, Boot!cache, StartTyped
  <2>11. CASE Boot!MigrationFails
    <3>1. /\ order[turn] \in Alters /\ stage' = "down" /\ order' = <<>>
          /\ columns' \in {columns, columns \cup {order[turn]}}
          /\ torn' = (torn \/ order[turn] \in columns')
          /\ UNCHANGED <<recorded, launches>>
      BY <2>11 DEF Boot!MigrationFails, Boot!Exit
    <3>2. Boot!IsInjective(order')
      BY <3>1 DEF Boot!IsInjective
    <3> QED
      BY <3>1, <3>2 DEF StartTyped
  <2>7. CASE Boot!Initialize \/ Boot!SyncEverything
    <3>1. UNCHANGED <<columns, recorded, torn, launches>>
      BY <2>7 DEF Boot!Initialize, Boot!SyncEverything, Boot!cache
    <3>2. \/ Boot!Exit("initialize") \/ Boot!Exit("sync")
          \/ stage' \in {"initialize", "sync", "up"} /\ order' = order
      BY <2>7 DEF Boot!Initialize, Boot!SyncEverything
    <3> QED
      BY <3>1, <3>2, ExitTyped DEF StartTyped
  <2>8. CASE Boot!StopProcess
    <3>1. /\ Boot!Exit("stopped") /\ UNCHANGED <<columns, recorded, launches>>
          /\ torn' \in BOOLEAN
      BY <2>8 DEF Boot!StopProcess
    <3> QED
      BY <3>1, ExitTyped DEF StartTyped
  <2>9. CASE Boot!RemoveCache
    BY <2>9 DEF Boot!RemoveCache, StartTyped
  <2>10. CASE UNCHANGED Boot!startVars
    BY <2>10 DEF Boot!startVars, StartTyped
  <2> QED
    BY <2>1, <2>2, <2>3, <2>4, <2>5, <2>6, <2>7, <2>8, <2>9, <2>10, <2>11, PlacedOnce DEF Boot!Next
<1>3. Boot!StartInv /\ StartTyped => Boot!TypeOK
  <2> SUFFICES ASSUME Boot!StartInv, StartTyped PROVE Boot!TypeOK
    OBVIOUS
  <2>1. /\ enabled \subseteq Boot!Bundled /\ order \in Seq(enabled)
        /\ turn \in 1..(Len(order) + 1)
        /\ decls \in [Boot!Bundled -> {None} \cup Boot!Dependency]
    BY DEF Boot!StartInv, Boot!Placing, Boot!Initialized
  <2>2. order \in Seq(Boot!Bundled) /\ \A i \in 1..(turn - 1) : order[i] \in Boot!Bundled
    BY <2>1
  <2>3. initd \subseteq Boot!Bundled
    BY <2>2 DEF Boot!StartInv, Boot!Initialized
  <2> QED
    BY <2>1, <2>2, <2>3 DEF StartTyped, Boot!TypeOK
<1> QED
    BY <1>1, <1>2, <1>3, StartInvariance, PTL DEF Boot!Spec

\* Authorization keeps its types.
LEMMA AuthzTypes == ASSUME Authz!Distinct PROVE Authz!Spec => []Authz!TypeOK
<1>1. Authz!AuthzInv => Authz!TypeOK
    BY DEF Authz!AuthzInv
<1> QED
    BY <1>1, AuthzInvariance, PTL

-----------------------------------------------------------------------------
(* The variants: lists and bijections *)

\* Cardinality is the same in Variants and here.
LEMMA SameCardinality == \A S : TheVariants!Cardinality(S) = Cardinality(S)
BY Zenon DEF TheVariants!Cardinality, Cardinality

\* A function on 1..Size is a sequence of length Size,
LEMMA FunctionIsSequence ==
    ASSUME NEW S, NEW Size \in Nat, NEW f \in [1..Size -> S]
    PROVE  f \in Seq(S) /\ Len(f) = Size
<1>1. f \in Seq(S)
    BY SeqDef
<1> QED
    BY <1>1, LenProperties

\* and a sequence is one.
LEMMA SequenceIsFunction ==
    ASSUME NEW S, NEW f \in Seq(S)
    PROVE  f \in [1..Len(f) -> S]
BY LenProperties

\* The text with one more option.
LEMMA AppendedText ==
    ASSUME NEW n \in Nat \ {0}, NEW t \in [1..(n - 1) -> Int], NEW x \in Int
    PROVE  /\ Append(t, x) \in [1..n -> Int] /\ Append(t, x)[n] = x
           /\ \A g \in 1..(n - 1) : Append(t, x)[g] = t[g]
<1>1. t \in Seq(Int) /\ Len(t) = n - 1
    BY FunctionIsSequence
<1>2. /\ Append(t, x) \in Seq(Int) /\ Len(Append(t, x)) = n
      /\ \A g \in 1..(n - 1) : Append(t, x)[g] = t[g]
      /\ Append(t, x)[n] = x
    BY <1>1
<1> QED
    BY <1>2, SequenceIsFunction
\* A bijection is total, and meets each element of its range from one place.
LEMMA BijectionFacts ==
    ASSUME NEW S, NEW T, NEW f \in Bijection(S, T)
    PROVE  /\ f \in [S -> T]
           /\ \A k, h \in S : f[k] = f[h] => k = h
           /\ \A c \in T : \E k \in S : f[k] = c
BY Fun_BijectionProperties

\* And such a function is a bijection.
LEMMA IsBijection ==
    ASSUME NEW S, NEW T, NEW f \in [S -> T],
           \A k, h \in S : f[k] = f[h] => k = h,
           \A c \in T : \E k \in S : f[k] = c
    PROVE  f \in Bijection(S, T)
BY Fun_IsInj, Fun_IsSurj, Fun_IsBij

\* Both of its sets have as many elements.
LEMMA BijectionCounts ==
    ASSUME NEW S, NEW T, NEW f \in Bijection(S, T), IsFiniteSet(S)
    PROVE  IsFiniteSet(T) /\ Cardinality(T) = Cardinality(S)
<1>1. ExistsBijection(S, T)
    BY DEF ExistsBijection
<1> QED
    BY <1>1, FS_Bijection

-----------------------------------------------------------------------------
(* The variants: two nested loops *)

\* Each turn of two nested loops has its places, and each two places have their turn.
LEMMA LoopIndices ==
    ASSUME NEW n \in Nat, NEW m \in Nat
    PROVE  /\ \A k \in 1..(n * m) :
                /\ TheVariants!Outer(k, m) \in 1..n /\ TheVariants!Inner(k, m) \in 1..m
                /\ k = (TheVariants!Outer(k, m) - 1) * m + TheVariants!Inner(k, m)
           /\ \A i \in 1..n, j \in 1..m :
                /\ (i - 1) * m + j \in 1..(n * m)
                /\ TheVariants!Outer((i - 1) * m + j, m) = i
                /\ TheVariants!Inner((i - 1) * m + j, m) = j
<1>1. ASSUME NEW k \in 1..(n * m)
      PROVE  /\ TheVariants!Outer(k, m) \in 1..n /\ TheVariants!Inner(k, m) \in 1..m
             /\ k = (TheVariants!Outer(k, m) - 1) * m + TheVariants!Inner(k, m)
  <2>1. m > 0
    <3>1. m = 0 => n * m = 0
      OBVIOUS
    <3> QED
      BY <3>1
  <2> DEFINE q == (k - 1) \div m
             r == (k - 1) % m
  <2>2. q \in Int /\ r \in 0..(m - 1) /\ k - 1 = q * m + r
    BY <2>1
  <2>3. q >= 0
    BY <2>1
  <2>4. q < n
    <3>1. q >= n => q * m >= n * m
      BY <2>1, <2>2
    <3> HIDE DEF q, r
    <3> QED
      BY <2>2, <3>1
  <2>5. TheVariants!Outer(k, m) = q + 1 /\ TheVariants!Inner(k, m) = r + 1
    BY DEF TheVariants!Outer, TheVariants!Inner
  <2> HIDE DEF q, r
  <2>6. q + 1 - 1 = q
    BY <2>2
  <2> QED
    BY <2>2, <2>3, <2>4, <2>5, <2>6
<1>2. ASSUME NEW i \in 1..n, NEW j \in 1..m
      PROVE  /\ (i - 1) * m + j \in 1..(n * m)
             /\ TheVariants!Outer((i - 1) * m + j, m) = i
             /\ TheVariants!Inner((i - 1) * m + j, m) = j
  <2>1. (i - 1) * m >= 0 /\ (i - 1) * m + m <= n * m
    <3>1. i * m <= n * m
      OBVIOUS
    <3>2. (i - 1) * m = i * m - m
      OBVIOUS
    <3>3. (i - 1) * m >= 0
      OBVIOUS
    <3> QED
      BY <3>1, <3>2, <3>3
  <2>2. /\ ((i - 1) * m + (j - 1)) \div m = i - 1
        /\ ((i - 1) * m + (j - 1)) % m = j - 1
    OBVIOUS
  <2>3. (i - 1) * m + j - 1 = (i - 1) * m + (j - 1)
    OBVIOUS
  <2> QED
    BY <2>1, <2>2, <2>3 DEF TheVariants!Outer, TheVariants!Inner
<1> QED
    BY <1>1, <1>2

-----------------------------------------------------------------------------
(* The variants: the order of texts of one length *)

\* Before is irreflexive, asymmetric, transitive and total on the texts of one length.
LEMMA BeforeOrders ==
    ASSUME NEW n \in Nat, NEW s \in [1..n -> Int], NEW t \in [1..n -> Int]
    PROVE  /\ ~TheVariants!Before(s, s)
           /\ TheVariants!Before(s, t) => ~TheVariants!Before(t, s)
           /\ \A u \in [1..n -> Int] :
                TheVariants!Before(s, t) /\ TheVariants!Before(t, u) => TheVariants!Before(s, u)
           /\ s # t => TheVariants!Before(s, t) \/ TheVariants!Before(t, s)
<1>1. ~TheVariants!Before(s, s)
    BY DEF TheVariants!Before
<1>2. ASSUME TheVariants!Before(s, t), TheVariants!Before(t, s) PROVE FALSE
  <2>1. PICK i \in 1..n : s[i] < t[i] /\ \A j \in 1..(i - 1) : s[j] = t[j]
    BY <1>2 DEF TheVariants!Before
  <2>2. PICK k \in 1..n : t[k] < s[k] /\ \A j \in 1..(k - 1) : t[j] = s[j]
    BY <1>2 DEF TheVariants!Before
  <2>3. i < k => i \in 1..(k - 1)
    OBVIOUS
  <2>4. k < i => k \in 1..(i - 1)
    OBVIOUS
  <2> QED
    BY <2>1, <2>2, <2>3, <2>4
<1>3. ASSUME NEW u \in [1..n -> Int], TheVariants!Before(s, t), TheVariants!Before(t, u)
      PROVE  TheVariants!Before(s, u)
  <2>1. PICK i \in 1..n : s[i] < t[i] /\ \A j \in 1..(i - 1) : s[j] = t[j]
    BY <1>3 DEF TheVariants!Before
  <2>2. PICK k \in 1..n : t[k] < u[k] /\ \A j \in 1..(k - 1) : t[j] = u[j]
    BY <1>3 DEF TheVariants!Before
  <2> DEFINE d == IF i < k THEN i ELSE k
  <2>3. d \in 1..n /\ \A j \in 1..(d - 1) : j \in 1..(i - 1) /\ j \in 1..(k - 1)
    OBVIOUS
  <2>4. s[d] < u[d]
    <3>1. CASE i < k
      <4>1. t[i] = u[i]
        BY <2>2, <3>1
      <4> QED
        BY <2>1, <3>1, <4>1
    <3>2. CASE k < i
      <4>1. s[k] = t[k]
        BY <2>1, <3>2
      <4> QED
        BY <2>2, <3>2, <4>1
    <3>3. CASE i = k
      BY <2>1, <2>2, <3>3
    <3> QED
      BY <3>1, <3>2, <3>3
  <2>5. \A j \in 1..(d - 1) : s[j] = u[j]
    BY <2>1, <2>2, <2>3
  <2> HIDE DEF d
  <2> QED
    BY <2>3, <2>4, <2>5 DEF TheVariants!Before
<1>4. ASSUME s # t PROVE TheVariants!Before(s, t) \/ TheVariants!Before(t, s)
  <2> DEFINE D == {i \in 1..n : s[i] # t[i]}
  <2>1. D # {} /\ D \in SUBSET Nat
    BY <1>4
  <2>2. PICK i \in D : \A j \in D : i <= j
    <3> HIDE DEF D
    <3> QED
      BY <2>1, TheBatch!Least
  <2>3. \A j \in 1..(i - 1) : s[j] = t[j] /\ t[j] = s[j]
    <3> TAKE j \in 1..(i - 1)
    <3>1. j \notin D /\ j \in 1..n
      BY <2>2
    <3> QED
      BY <3>1
  <2>4. i \in 1..n /\ (s[i] < t[i] \/ t[i] < s[i])
    BY <2>2
  <2> QED
    BY <2>3, <2>4 DEF TheVariants!Before
<1> QED
    BY <1>1, <1>2, <1>3, <1>4

\* Sorting texts of one length permutes them.
LEMMA InOrderPermutes ==
    ASSUME NEW n \in Nat, NEW texts \in Seq([1..n -> Int])
    PROVE  \E p \in Bijection(1..Len(texts), 1..Len(texts)) :
               TheVariants!InOrder(texts) = [k \in 1..Len(texts) |-> texts[p[k]]]
<1> DEFINE L == Len(texts)
           NB(i) == TheVariants!NotBehind(texts, i)
           r == [i \in 1..L |-> Cardinality(NB(i))]
           p == [k \in 1..L |-> CHOOSE i \in DOMAIN texts : TheVariants!Cardinality(NB(i)) = k]
<1>1. L \in Nat /\ DOMAIN texts = 1..L /\ \A i \in 1..L : texts[i] \in [1..n -> Int]
    OBVIOUS
<1>2. IsFiniteSet(1..L) /\ Cardinality(1..L) = L
    BY <1>1, FS_Interval
<1>3. \A i \in 1..L : i \in NB(i) /\ NB(i) \in SUBSET (1..L)
    BY <1>1 DEF TheVariants!NotBehind
<1>4. ASSUME NEW i \in 1..L, NEW j \in 1..L
      PROVE  (i # j => i \notin NB(j) \/ j \notin NB(i)) /\ (i \in NB(j) \/ j \in NB(i))
  <2>1. texts[i] \in [1..n -> Int] /\ texts[j] \in [1..n -> Int]
    BY <1>1
  <2> DEFINE s == texts[i]
             t == texts[j]
  <2>2. /\ i \in NB(j) <=> TheVariants!Before(s, t) \/ (s = t /\ i <= j)
        /\ j \in NB(i) <=> TheVariants!Before(t, s) \/ (t = s /\ j <= i)
    BY <1>1 DEF TheVariants!NotBehind
  <2> HIDE DEF NB
  <2>3. /\ ~TheVariants!Before(s, s)
        /\ TheVariants!Before(s, t) => ~TheVariants!Before(t, s)
        /\ s # t => TheVariants!Before(s, t) \/ TheVariants!Before(t, s)
    BY <2>1, BeforeOrders, Zenon
  <2> HIDE DEF s, t
  <2> QED
    BY <2>2, <2>3
<1>5. \A i, j \in 1..L : i \in NB(j) => NB(i) \subseteq NB(j)
  <2> SUFFICES ASSUME NEW i \in 1..L, NEW j \in 1..L, i \in NB(j), NEW h \in NB(i)
               PROVE  h \in NB(j)
    OBVIOUS
  <2>1. h \in 1..L
    BY <1>3
  <2>2. TheVariants!Before(texts[h], texts[i]) \/ (texts[h] = texts[i] /\ h <= i)
    BY DEF TheVariants!NotBehind
  <2>3. TheVariants!Before(texts[i], texts[j]) \/ (texts[i] = texts[j] /\ i <= j)
    BY DEF TheVariants!NotBehind
  <2>4. TheVariants!Before(texts[h], texts[j]) \/ (texts[h] = texts[j] /\ h <= j)
    <3>1. CASE TheVariants!Before(texts[h], texts[i]) /\ TheVariants!Before(texts[i], texts[j])
      <4>1. /\ texts[h] \in [1..n -> Int] /\ texts[i] \in [1..n -> Int]
            /\ texts[j] \in [1..n -> Int]
        BY <1>1, <2>1
      <4> QED
        BY <3>1, <4>1, BeforeOrders, Zenon
    <3> QED
      BY <2>1, <2>2, <2>3, <3>1
  <2> QED
    BY <1>1, <2>1, <2>4 DEF TheVariants!NotBehind
<1>6. \A i \in 1..L : IsFiniteSet(NB(i)) /\ r[i] \in 1..L
  <2> SUFFICES ASSUME NEW i \in 1..L PROVE IsFiniteSet(NB(i)) /\ Cardinality(NB(i)) \in 1..L
    OBVIOUS
  <2> HIDE DEF NB
  <2>1. IsFiniteSet(NB(i)) /\ Cardinality(NB(i)) <= L
    BY <1>2, <1>3, FS_Subset
  <2>2. Cardinality(NB(i)) \in Nat /\ Cardinality(NB(i)) # 0
    BY <1>3, <2>1, FS_CardinalityType, FS_EmptySet
  <2> QED
    BY <1>1, <2>1, <2>2
<1>7. \A i, j \in 1..L : r[i] = r[j] => i = j
  <2> SUFFICES ASSUME NEW i \in 1..L, NEW j \in 1..L, r[i] = r[j], i # j, i \in NB(j)
               PROVE  FALSE
    BY <1>4
  <2> HIDE DEF NB
  <2>1. NB(i) \in SUBSET NB(j) /\ j \notin NB(i) /\ j \in NB(j)
    BY <1>3, <1>4, <1>5
  <2>2. Cardinality(NB(i)) = Cardinality(NB(j)) /\ IsFiniteSet(NB(j))
    BY <1>6
  <2>3. NB(i) = NB(j)
    BY <2>1, <2>2, FS_Subset
  <2> QED
    BY <2>1, <2>3
<1>8. r \in Surjection(1..L, 1..L)
  <2> HIDE DEF NB
  <2>1. r \in [1..L -> 1..L]
    BY <1>6
  <2> HIDE DEF r
  <2>2. r \in Injection(1..L, 1..L)
    BY <1>7, <2>1, Fun_IsInj
  <2> QED
    BY <1>2, <2>2, FS_Injection
<1> HIDE DEF NB, r
<1>9. \A k \in 1..L : p[k] \in 1..L /\ r[p[k]] = k
  <2> SUFFICES ASSUME NEW k \in 1..L PROVE p[k] \in 1..L /\ r[p[k]] = k
    OBVIOUS
  <2>1. PICK i \in 1..L : r[i] = k
    BY <1>8 DEF Surjection
  <2>2. \A h \in 1..L : r[h] = TheVariants!Cardinality(NB(h))
    BY SameCardinality DEF r
  <2>3. \E h \in DOMAIN texts : TheVariants!Cardinality(NB(h)) = k
    BY <1>1, <2>1, <2>2
  <2>4. p[k] \in DOMAIN texts /\ TheVariants!Cardinality(NB(p[k])) = k
    BY <2>3
  <2> QED
    BY <1>1, <2>2, <2>4
<1>10. p \in Bijection(1..L, 1..L)
  <2>1. p \in [1..L -> 1..L]
    BY <1>9
  <2>2. \A i, j \in 1..L : p[i] = p[j] => i = j
    BY <1>9
  <2> HIDE DEF p
  <2>3. p \in Injection(1..L, 1..L)
    BY <2>1, <2>2, Fun_IsInj
  <2>4. p \in Surjection(1..L, 1..L)
    BY <1>2, <2>3, FS_Injection
  <2> QED
    BY <2>3, <2>4, Fun_IsBij
<1>11. TheVariants!InOrder(texts) = [k \in 1..L |-> texts[p[k]]]
  <2> DEFINE c(k) == CHOOSE i \in DOMAIN texts : TheVariants!Cardinality(NB(i)) = k
  <2>1. TheVariants!InOrder(texts) = [k \in DOMAIN texts |-> texts[c(k)]]
    BY Zenon DEF TheVariants!InOrder, NB
  <2>2. \A k \in 1..L : p[k] = c(k)
    BY Zenon
  <2> HIDE DEF c, p
  <2> QED
    BY <1>1, <2>1, <2>2
<1> QED
    BY <1>10, <1>11

-----------------------------------------------------------------------------
(* The variants: the texts of all choices *)

\* The choices of the first n groups, and what one says.
Picks(groups, n) == {c \in [1..n -> Nat] : \A g \in 1..n : c[g] \in DOMAIN groups[g]}
Spoken(groups, c) == [g \in DOMAIN c |-> groups[g][c[g]]]

\* A list says each choice of the first n groups once.
SaysAll(texts, groups, n) ==
    /\ texts \in Seq([1..n -> Int])
    /\ \E b \in Bijection(1..Len(texts), Picks(groups, n)) :
           \A i \in 1..Len(texts) : texts[i] = Spoken(groups, b[i])

\* The next group doubles, triples, ... them.
LEMMA JoinedSaysAll ==
    ASSUME NEW groups \in Seq(Seq(Int)), NEW n \in 1..Len(groups), NEW texts,
           SaysAll(texts, groups, n - 1)
    PROVE  SaysAll(TheVariants!Joined(texts, groups[n]), groups, n)
<1> DEFINE L == Len(texts)
           m == Len(groups[n])
           next == TheVariants!Joined(texts, groups[n])
           o(k) == TheVariants!Outer(k, m)
           i(k) == TheVariants!Inner(k, m)
<1>1. PICK b \in Bijection(1..L, Picks(groups, n - 1)) :
          \A k \in 1..L : texts[k] = Spoken(groups, b[k])
    BY DEF SaysAll
<1>2. /\ texts \in Seq([1..(n - 1) -> Int]) /\ L \in Nat /\ m \in Nat /\ n \in Nat \ {0}
      /\ groups[n] \in Seq(Int) /\ DOMAIN groups[n] = 1..m
      /\ \A k \in 1..L : texts[k] \in [1..(n - 1) -> Int]
      /\ \A j \in 1..m : groups[n][j] \in Int
    BY DEF SaysAll
<1>3. /\ b \in [1..L -> Picks(groups, n - 1)]
      /\ \A k, h \in 1..L : b[k] = b[h] => k = h
      /\ \A c \in Picks(groups, n - 1) : \E k \in 1..L : b[k] = c
    BY <1>1, BijectionFacts
<1>4. /\ \A k \in 1..(L * m) :
           o(k) \in 1..L /\ i(k) \in 1..m /\ k = (o(k) - 1) * m + i(k)
      /\ \A k \in 1..L, j \in 1..m :
           /\ (k - 1) * m + j \in 1..(L * m)
           /\ o((k - 1) * m + j) = k /\ i((k - 1) * m + j) = j
    BY <1>2, LoopIndices, Zenon
<1>5. next = [k \in 1..(L * m) |-> Append(texts[o(k)], groups[n][i(k)])]
  <2>1. TheVariants!Pairs(texts, groups[n]) =
            [k \in 1..(L * m) |-> <<texts[o(k)], groups[n][i(k)]>>]
    BY Zenon DEF TheVariants!Pairs
  <2> HIDE DEF o, i
  <2> QED
    BY <2>1 DEF TheVariants!Joined
<1> HIDE DEF o, i
<1> DEFINE e(k) == [g \in 1..n |-> IF g = n THEN i(k) ELSE b[o(k)][g]]
           d == [k \in 1..(L * m) |-> e(k)]
<1>6. \A k \in 1..(L * m) :
          /\ b[o(k)] \in [1..(n - 1) -> Nat]
          /\ \A g \in 1..(n - 1) : b[o(k)][g] \in DOMAIN groups[g]
    BY <1>3, <1>4 DEF Picks
<1>7. \A k \in 1..(L * m) : e(k) \in Picks(groups, n)
  <2> TAKE k \in 1..(L * m)
  <2>1. \A g \in 1..n : g = n \/ g \in 1..(n - 1)
    BY <1>2
  <2>2. \A g \in 1..n : e(k)[g] \in DOMAIN groups[g] /\ e(k)[g] \in Nat
    <3> TAKE g \in 1..n
    <3>1. CASE g = n
      BY <1>2, <1>4, <3>1
    <3>2. CASE g \in 1..(n - 1)
      <4>1. e(k)[g] = b[o(k)][g]
        BY <1>2, <3>2
      <4> QED
        BY <1>6, <3>2, <4>1
    <3> QED
      BY <2>1, <3>1, <3>2
  <2> QED
    BY <2>2 DEF Picks
<1>8. \A k, h \in 1..(L * m) : e(k) = e(h) => k = h
  <2> SUFFICES ASSUME NEW k \in 1..(L * m), NEW h \in 1..(L * m), e(k) = e(h) PROVE k = h
    OBVIOUS
  <2>1. i(k) = i(h)
    <3>1. e(k)[n] = i(k) /\ e(h)[n] = i(h)
      BY <1>2
    <3> QED
      BY <3>1
  <2>2. \A g \in 1..(n - 1) : b[o(k)][g] = b[o(h)][g]
    <3> TAKE g \in 1..(n - 1)
    <3>1. e(k)[g] = b[o(k)][g] /\ e(h)[g] = b[o(h)][g]
      BY <1>2
    <3> QED
      BY <3>1
  <2>3. b[o(k)] = b[o(h)]
    <3>1. b[o(k)] \in [1..(n - 1) -> Nat] /\ b[o(h)] \in [1..(n - 1) -> Nat]
      BY <1>6
    <3> DEFINE bk == b[o(k)]
               bh == b[o(h)]
    <3> HIDE DEF bk, bh
    <3>2. bk \in [1..(n - 1) -> Nat] /\ bh \in [1..(n - 1) -> Nat]
          /\ \A g \in 1..(n - 1) : bk[g] = bh[g]
      BY <2>2, <3>1 DEF bk, bh
    <3>3. bk = bh
      BY <3>2
    <3> QED
      BY <3>3 DEF bk, bh
  <2>4. o(k) = o(h)
    BY <1>3, <1>4, <2>3
  <2> QED
    BY <1>4, <2>1, <2>4
<1>9. \A c \in Picks(groups, n) : \E k \in 1..(L * m) : e(k) = c
  <2> TAKE c \in Picks(groups, n)
  <2> DEFINE short == [g \in 1..(n - 1) |-> c[g]]
  <2>1. c \in [1..n -> Nat] /\ \A g \in 1..n : c[g] \in DOMAIN groups[g]
    BY DEF Picks
  <2>2. short \in Picks(groups, n - 1) /\ c[n] \in 1..m
    BY <1>2, <2>1 DEF Picks
  <2>3. PICK h \in 1..L : b[h] = short
    BY <1>3, <2>2
  <2> DEFINE k == (h - 1) * m + c[n]
  <2>4. k \in 1..(L * m) /\ o(k) = h /\ i(k) = c[n]
    BY <1>4, <2>2
  <2>5. \A g \in 1..n : e(k)[g] = c[g]
    <3> TAKE g \in 1..n
    <3>1. CASE g = n
      BY <2>4, <3>1
    <3>2. CASE g # n
      <4>1. g \in 1..(n - 1)
        BY <1>2, <3>2
      <4>2. b[o(k)][g] = c[g]
        BY <2>3, <2>4, <4>1
      <4> QED
        BY <3>2, <4>2
    <3> QED
      BY <3>1, <3>2
  <2>6. e(k) = c
    <3> HIDE DEF k
    <3> QED
      BY <2>1, <2>5
  <2> QED
    BY <2>4, <2>6
<1>10. d \in Bijection(1..(L * m), Picks(groups, n))
  <2>1. d \in [1..(L * m) -> Picks(groups, n)]
    BY <1>7
  <2>2. \A k, h \in 1..(L * m) : d[k] = d[h] => k = h
    BY <1>8
  <2>3. \A c \in Picks(groups, n) : \E k \in 1..(L * m) : d[k] = c
    BY <1>9
  <2> HIDE DEF d
  <2> QED
    BY <2>1, <2>2, <2>3, IsBijection, Zenon
<1>11. \A k \in 1..(L * m) : next[k] = Spoken(groups, d[k]) /\ next[k] \in [1..n -> Int]
  <2> TAKE k \in 1..(L * m)
  <2>1. texts[o(k)] = [g \in 1..(n - 1) |-> groups[g][b[o(k)][g]]]
    BY <1>1, <1>4, <1>6 DEF Spoken
  <2>2. texts[o(k)] \in [1..(n - 1) -> Int] /\ groups[n][i(k)] \in Int
    BY <1>2, <1>4
  <2> DEFINE t == texts[o(k)]
             x == groups[n][i(k)]
  <2>3. next[k] = Append(t, x)
    BY <1>5
  <2>5. Append(t, x) \in [1..n -> Int] /\ Append(t, x)[n] = x
        /\ \A g \in 1..(n - 1) : Append(t, x)[g] = t[g]
    <3> HIDE DEF t, x
    <3>1. n \in Nat \ {0} /\ t \in [1..(n - 1) -> Int] /\ x \in Int
      BY <1>2, <2>2 DEF t, x
    <3> QED
      BY <3>1, AppendedText, Zenon
  <2>6. Spoken(groups, d[k]) = [g \in 1..n |-> groups[g][e(k)[g]]]
    BY DEF Spoken
  <2>7. \A g \in 1..n : groups[g][e(k)[g]] = Append(t, x)[g]
    <3> TAKE g \in 1..n
    <3>1. CASE g = n
      BY <2>5, <3>1
    <3>2. CASE g # n
      <4>1. g \in 1..(n - 1) /\ e(k)[g] = b[o(k)][g]
        BY <1>2, <3>2
      <4> QED
        BY <2>1, <2>5, <4>1
    <3> QED
      BY <3>1, <3>2
  <2> HIDE DEF t, x, e, d
  <2>8. [g \in 1..n |-> groups[g][e(k)[g]]] = Append(t, x)
    BY <2>5, <2>7
  <2> QED
    BY <2>3, <2>5, <2>6, <2>8
<1>12. Len(next) = L * m /\ next \in Seq([1..n -> Int])
  <2>1. L * m \in Nat
    BY <1>2
  <2>2. DOMAIN next = 1..(L * m) /\ next = [k \in 1..(L * m) |-> next[k]]
    BY <1>5
  <2> DEFINE Size == L * m
             Texts == [1..n -> Int]
  <2>3. \A k \in 1..Size : next[k] \in Texts
    BY <1>11
  <2> HIDE DEF next, d, Size, Texts
  <2>4. Size \in Nat /\ next = [k \in 1..Size |-> next[k]]
    BY <2>1, <2>2 DEF Size
  <2>5. next \in [1..Size -> Texts]
    BY <2>3, <2>4
  <2>6. next \in Seq(Texts) /\ Len(next) = Size
    BY <2>4, <2>5, FunctionIsSequence, Zenon
  <2> QED
    BY <2>6 DEF Size, Texts
<1>13. SaysAll(next, groups, n)
  <2> HIDE DEF next, d
  <2> QED
    BY <1>10, <1>11, <1>12 DEF SaysAll
<1> QED
    BY <1>13

\* The loop of cartesianProduct after n groups is a function of n,
LEMMA LoopDefined ==
    ASSUME NEW groups, NEW m \in Nat
    PROVE  \E f : f = [n \in 0..m |-> IF n = 0 THEN <<<<>>>>
                                      ELSE TheVariants!Joined(f[n - 1], groups[n])]
<1> DEFINE Loop(f, k) == f = [n \in 0..k |-> IF n = 0 THEN <<<<>>>>
                                             ELSE TheVariants!Joined(f[n - 1], groups[n])]
           Fails == {k \in Nat : ~\E f : Loop(f, k)}
<1>1. ASSUME NEW k \in Nat, NEW f, Loop(f, k) PROVE \E h : Loop(h, k + 1)
  <2> DEFINE h == [n \in 0..(k + 1) |-> IF n = 0 THEN <<<<>>>>
                                        ELSE TheVariants!Joined(f[n - 1], groups[n])]
  <2>1. \A n \in 0..k : h[n] = f[n]
    <3> TAKE n \in 0..k
    <3>1. f[n] = IF n = 0 THEN <<<<>>>> ELSE TheVariants!Joined(f[n - 1], groups[n])
      BY <1>1
    <3>2. n \in 0..(k + 1)
      OBVIOUS
    <3>3. h[n] = IF n = 0 THEN <<<<>>>> ELSE TheVariants!Joined(f[n - 1], groups[n])
      BY <3>2
    <3> QED
      BY <3>1, <3>3
  <2> DEFINE g == [n \in 0..(k + 1) |-> IF n = 0 THEN <<<<>>>>
                                        ELSE TheVariants!Joined(h[n - 1], groups[n])]
  <2>2. \A n \in 0..(k + 1) : h[n] = g[n]
    <3> TAKE n \in 0..(k + 1)
    <3>1. CASE n = 0
      BY <3>1
    <3>2. CASE n # 0
      <4>1. n - 1 \in 0..k
        BY <3>2
      <4>2. h[n - 1] = f[n - 1]
        BY <2>1, <4>1
      <4>3. h[n] = TheVariants!Joined(f[n - 1], groups[n])
        BY <3>2
      <4>4. g[n] = TheVariants!Joined(h[n - 1], groups[n])
        <5> HIDE DEF h
        <5> QED
          BY <3>2
      <4> QED
        BY <4>2, <4>3, <4>4
    <3> QED
      BY <3>1, <3>2
  <2>3. h = g
    <3>1. DOMAIN h = 0..(k + 1) /\ h = [n \in 0..(k + 1) |-> h[n]]
      OBVIOUS
    <3>2. g = [n \in 0..(k + 1) |-> g[n]]
      <4> HIDE DEF h
      <4> QED
        OBVIOUS
    <3> HIDE DEF h, g
    <3> QED
      BY <2>2, <3>1, <3>2
  <2>4. Loop(h, k + 1)
    <3> HIDE DEF h
    <3> QED
      BY <2>3
  <2> HIDE DEF h, Loop
  <2> QED
    BY <2>4
<1>2. \E f : Loop(f, 0)
  <2> DEFINE f == [n \in 0..0 |-> <<<<>>>>]
             g == [n \in 0..0 |-> IF n = 0 THEN <<<<>>>>
                                  ELSE TheVariants!Joined(f[n - 1], groups[n])]
  <2>1. \A n \in 0..0 : n = 0
    OBVIOUS
  <2>2. f = g
    BY <2>1
  <2> HIDE DEF f
  <2> QED
    BY <2>2
<1> HIDE DEF Loop
<1>3. Fails = {}
  <2> SUFFICES ASSUME Fails # {} PROVE FALSE
    OBVIOUS
  <2>1. PICK k \in Fails : \A j \in Fails : k <= j
    <3>1. Fails \in SUBSET Nat
      OBVIOUS
    <3> HIDE DEF Fails
    <3> QED
      BY <3>1, TheBatch!Least
  <2>2. k \in Nat /\ k # 0
    BY <1>2
  <2>3. k - 1 \in Nat /\ k - 1 \notin Fails
    BY <2>1, <2>2
  <2>4. \E f : Loop(f, k - 1)
    BY <2>3
  <2>5. k - 1 + 1 = k
    BY <2>2
  <2>6. \E h : Loop(h, k - 1 + 1)
    BY <1>1, <2>3, <2>4
  <2> QED
    BY <2>5, <2>6
<1>4. \E f : Loop(f, m)
    BY <1>3
<1> QED
    BY <1>4, Zenon DEF Loop

\* and says each choice of the first n groups once.
LEMMA LoopSaysAll ==
    ASSUME NEW groups \in Seq(Seq(Int))
    PROVE  SaysAll(TheVariants!JoinedUpTo(Len(groups), groups), groups, Len(groups))
<1> DEFINE m == Len(groups)
           after == CHOOSE f : f = [n \in 0..m |-> IF n = 0 THEN <<<<>>>>
                                         ELSE TheVariants!Joined(f[n - 1], groups[n])]
           Fails == {n \in 0..m : ~SaysAll(after[n], groups, n)}
<1>1. m \in Nat
    OBVIOUS
<1>2. after = [n \in 0..m |-> IF n = 0 THEN <<<<>>>>
                              ELSE TheVariants!Joined(after[n - 1], groups[n])]
  <2> HIDE DEF m
  <2>1. \E f : f = [n \in 0..m |-> IF n = 0 THEN <<<<>>>>
                                   ELSE TheVariants!Joined(f[n - 1], groups[n])]
    BY <1>1, LoopDefined, Zenon
  <2> QED
    BY <2>1, Zenon
<1>3. TheVariants!JoinedUpTo(m, groups) = after[m]
    BY Zenon DEF TheVariants!JoinedUpTo
<1> HIDE DEF after, m
<1>4. after[0] = <<<<>>>> /\ \A n \in 1..m : after[n] = TheVariants!Joined(after[n - 1], groups[n])
  <2>1. 0 \in 0..m /\ \A n \in 1..m : n \in 0..m /\ n # 0
    BY <1>1
  <2> QED
    BY <1>2, <2>1
<1>5. SaysAll(<<<<>>>>, groups, 0)
  <2> DEFINE none == <<>>
             one == [k \in 1..1 |-> none]
  <2>1. none \in [1..0 -> Int] /\ none \in [1..0 -> Nat] /\ \A c \in [1..0 -> Nat] : c = none
    OBVIOUS
  <2>2. <<none>> \in Seq([1..0 -> Int]) /\ Len(<<none>>) = 1 /\ <<none>>[1] = none
    BY <2>1
  <2>3. \A c : c \in Picks(groups, 0) <=> c = none
    <3>1. \A c : c \in Picks(groups, 0) <=> c \in [1..0 -> Nat]
      <4>1. \A g \in 1..0 : FALSE
        OBVIOUS
      <4> QED
        BY <4>1, Zenon DEF Picks
    <3> HIDE DEF none
    <3> QED
      BY <2>1, <3>1
  <2>4. Spoken(groups, none) = none
    BY DEF Spoken
  <2> HIDE DEF none
  <2>5. one \in Bijection(1..1, Picks(groups, 0)) /\ one[1] = none
    <3>1. one \in [1..1 -> Picks(groups, 0)] /\ one[1] = none
      BY <2>3
    <3>2. \A i, j \in 1..1 : i = j
      OBVIOUS
    <3>3. \A c \in Picks(groups, 0) : \E k \in 1..1 : one[k] = c
      BY <2>3
    <3> HIDE DEF one
    <3> QED
      BY <3>1, <3>2, <3>3, IsBijection, Zenon
  <2> HIDE DEF one
  <2>6. \A i \in 1..1 : <<none>>[i] = Spoken(groups, one[i])
    BY <2>2, <2>4, <2>5
  <2>7. SaysAll(<<none>>, groups, 0)
    BY <2>2, <2>5, <2>6 DEF SaysAll
  <2> QED
    BY <2>7 DEF none
<1>6. \A n \in 1..m : SaysAll(after[n - 1], groups, n - 1) => SaysAll(after[n], groups, n)
  <2> TAKE n \in 1..m
  <2>1. n \in 1..Len(groups)
    BY DEF m
  <2> QED
    BY <1>4, <2>1, JoinedSaysAll, Zenon
<1>7. Fails = {}
  <2> SUFFICES ASSUME Fails # {} PROVE FALSE
    OBVIOUS
  <2>1. PICK n \in Fails : \A j \in Fails : n <= j
    <3>1. Fails \in SUBSET Nat
      BY <1>1
    <3> HIDE DEF Fails
    <3> QED
      BY <2>1, <3>1, TheBatch!Least
  <2>2. n \in 1..m
    <3>1. n \in 0..m /\ ~SaysAll(after[n], groups, n)
      OBVIOUS
    <3>2. n # 0
      BY <1>4, <1>5, <3>1
    <3> QED
      BY <1>1, <3>1, <3>2
  <2>3. n - 1 \in 0..m /\ n - 1 \notin Fails
    BY <1>1, <2>1, <2>2
  <2> QED
    BY <1>6, <2>2, <2>3
<1>8. m \in 0..m
    BY <1>1
<1>9. SaysAll(after[m], groups, m)
    BY <1>7, <1>8
<1> QED
    BY <1>3, <1>9 DEF m

\* cartesianProduct says each choice of options once.
LEMMA ProductSaysAll ==
    ASSUME NEW groups \in Seq(Seq(Int))
    PROVE  SaysAll(TheVariants!CartesianProduct(groups), groups, Len(groups))
<1> DEFINE n == Len(groups)
           texts == TheVariants!JoinedUpTo(n, groups)
           sorted == TheVariants!InOrder(texts)
           L == Len(texts)
<1>1. n \in Nat /\ SaysAll(texts, groups, n)
    BY LoopSaysAll
<1>2. TheVariants!CartesianProduct(groups) = sorted
    BY DEF TheVariants!CartesianProduct
<1> HIDE DEF texts, n
<1>3. texts \in Seq([1..n -> Int]) /\ L \in Nat /\ \A k \in 1..L : texts[k] \in [1..n -> Int]
    BY <1>1 DEF SaysAll
<1>4. PICK b : /\ b \in Bijection(1..L, Picks(groups, n))
               /\ \A i \in 1..L : texts[i] = Spoken(groups, b[i])
    BY <1>1 DEF SaysAll
<1>5. PICK p : p \in Bijection(1..L, 1..L) /\ sorted = [k \in 1..L |-> texts[p[k]]]
    BY <1>1, <1>3, InOrderPermutes, Zenon
<1> HIDE DEF sorted
<1> DEFINE d == [k \in 1..L |-> b[p[k]]]
<1> HIDE DEF L
<1>6. /\ b \in [1..L -> Picks(groups, n)]
      /\ \A k, h \in 1..L : b[k] = b[h] => k = h
      /\ \A c \in Picks(groups, n) : \E k \in 1..L : b[k] = c
  <2> DEFINE I == 1..L
             T == Picks(groups, n)
  <2>1. b \in Bijection(I, T)
    BY <1>4
  <2> HIDE DEF I, T
  <2>2. /\ b \in [I -> T]
        /\ \A k, h \in I : b[k] = b[h] => k = h
        /\ \A c \in T : \E k \in I : b[k] = c
    BY <2>1, BijectionFacts
  <2> QED
    BY <2>2, Zenon DEF I, T
<1>7. /\ p \in [1..L -> 1..L]
      /\ \A k, h \in 1..L : p[k] = p[h] => k = h
      /\ \A c \in 1..L : \E k \in 1..L : p[k] = c
    BY <1>5, BijectionFacts
<1>8. d \in Bijection(1..L, Picks(groups, n))
  <2>1. d \in [1..L -> Picks(groups, n)]
    BY <1>6, <1>7
  <2>2. \A k, h \in 1..L : d[k] = d[h] => k = h
    BY <1>6, <1>7
  <2>3. \A c \in Picks(groups, n) : \E k \in 1..L : d[k] = c
    <3> TAKE c \in Picks(groups, n)
    <3>1. PICK h \in 1..L : b[h] = c
      BY <1>6
    <3>2. PICK k \in 1..L : p[k] = h
      BY <1>7
    <3> QED
      BY <3>1, <3>2
  <2> HIDE DEF d
  <2> QED
    BY <2>1, <2>2, <2>3, IsBijection, Zenon
<1>9. \A k \in 1..L : sorted[k] = Spoken(groups, d[k]) /\ sorted[k] \in [1..n -> Int]
    BY <1>3, <1>4, <1>5, <1>6, <1>7
<1>10. sorted \in Seq([1..n -> Int]) /\ Len(sorted) = L
  <2> DEFINE Texts == [1..n -> Int]
  <2>1. \A k \in 1..L : sorted[k] \in Texts
    BY <1>9
  <2> HIDE DEF Texts, d
  <2>2. L \in Nat /\ sorted \in [1..L -> Texts]
    BY <1>3, <1>5, <2>1
  <2>3. sorted \in Seq(Texts) /\ Len(sorted) = L
    BY <2>2, FunctionIsSequence, Zenon
  <2> QED
    BY <2>3 DEF Texts
<1>11. SaysAll(sorted, groups, n)
  <2> HIDE DEF d
  <2> QED
    BY <1>8, <1>9, <1>10 DEF SaysAll
<1> QED
    BY <1>2, <1>11 DEF n

-----------------------------------------------------------------------------
(* The variants: every choice with every seed *)

\* The seed field is a list of numbers, and so is what the batch uses.
LEMMA SeedsAreNumbers ==
    ASSUME NEW field \in [kind : {"list"}, of : Seq(Int)] \cup [kind : {"range"}, of : Int \X Int]
    PROVE  TheVariants!SeedList(field) \in Seq(Int)
<1>1. CASE field \in [kind : {"list"}, of : Seq(Int)]
  <2>1. TheVariants!ParsedSeeds(field) \in Seq(Int)
    BY <1>1 DEF TheVariants!ParsedSeeds
  <2> QED
    BY <2>1 DEF TheVariants!SeedList
<1>2. CASE field \in [kind : {"range"}, of : Int \X Int]
  <2>1. field.kind # "list" /\ field.of[1] \in Int /\ field.of[2] \in Int
    BY <1>2
  <2> DEFINE from == field.of[1]
             many == field.of[2] - field.of[1] + 1
             list == [i \in 1..many |-> from + i - 1]
  <2>2. from \in Int /\ many \in Int /\ TheVariants!ParsedSeeds(field) = list
    BY <2>1 DEF TheVariants!ParsedSeeds
  <2> HIDE DEF from, many
  <2> DEFINE Size == IF many > 0 THEN many ELSE 0
  <2>3. Size \in Nat /\ 1..many = 1..Size
    BY <2>2
  <2>4. list \in [1..Size -> Int]
    BY <2>2, <2>3
  <2> HIDE DEF list, Size
  <2>5. TheVariants!ParsedSeeds(field) \in Seq(Int)
    BY <2>2, <2>3, <2>4, FunctionIsSequence
  <2> QED
    BY <2>5 DEF TheVariants!SeedList
<1> QED
    BY <1>1, <1>2

\* A batch is two nested loops, the seeds outside.
LEMMA ExpandedLoops ==
    ASSUME NEW groups, NEW field,
           TheVariants!CartesianProduct(groups) \in Seq(Seq(Int)),
           TheVariants!SeedList(field) \in Seq(Int)
    PROVE  LET texts == TheVariants!CartesianProduct(groups)
               list == TheVariants!SeedList(field)
           IN  TheVariants!Expanded(groups, field) =
                   [k \in 1..(Len(list) * Len(texts)) |->
                       [prompt |-> texts[TheVariants!Inner(k, Len(texts))],
                        seed |-> list[TheVariants!Outer(k, Len(texts))]]]
<1> DEFINE texts == TheVariants!CartesianProduct(groups)
           list == TheVariants!SeedList(field)
           L == Len(texts)
           pairs == TheVariants!Pairs(list, texts)
<1>1. pairs = [k \in 1..(Len(list) * L) |->
                  <<list[TheVariants!Outer(k, L)], texts[TheVariants!Inner(k, L)]>>]
    BY Zenon DEF TheVariants!Pairs
<1>2. TheVariants!Expanded(groups, field) =
          [k \in DOMAIN pairs |-> [prompt |-> pairs[k][2], seed |-> pairs[k][1]]]
    BY Zenon DEF TheVariants!Expanded
<1> HIDE DEF pairs, L, list, texts
<1>3. TheVariants!Expanded(groups, field) =
          [k \in 1..(Len(list) * L) |->
              [prompt |-> texts[TheVariants!Inner(k, L)], seed |-> list[TheVariants!Outer(k, L)]]]
    BY <1>1, <1>2
<1> QED
    BY <1>3, Zenon DEF L, list, texts

\* The places of an element in a list, and the choices that say a text.
Places(list, x) == {h \in DOMAIN list : list[h] = x}
Saying(groups, n, said) == {d \in Picks(groups, n) : Spoken(groups, d) = said}

\* A list that says each choice once: as many texts as choices, and each text as often as
\* choices say it.
LEMMA TextsPerChoice ==
    ASSUME NEW groups, NEW n \in Nat, NEW texts, SaysAll(texts, groups, n)
    PROVE  /\ IsFiniteSet(Picks(groups, n)) /\ Cardinality(Picks(groups, n)) = Len(texts)
           /\ \A said : Cardinality(Places(texts, said)) = Cardinality(Saying(groups, n, said))
<1> DEFINE I == 1..Len(texts)
           T == Picks(groups, n)
           S(d) == Spoken(groups, d)
<1>1. Len(texts) \in Nat /\ DOMAIN texts = I
    BY DEF SaysAll
<1>2. IsFiniteSet(I) /\ Cardinality(I) = Len(texts)
  <2> DEFINE L == Len(texts)
  <2> HIDE DEF L
  <2>1. L \in Nat
    BY <1>1 DEF L
  <2>2. IsFiniteSet(1..L) /\ Cardinality(1..L) = L
    BY <2>1, FS_Interval
  <2> QED
    BY <2>2 DEF L
<1>3. PICK b : b \in Bijection(I, T) /\ \A i \in I : texts[i] = S(b[i])
    BY DEF SaysAll
<1> HIDE DEF I, T, S
<1>4. /\ b \in [I -> T]
      /\ \A k, h \in I : b[k] = b[h] => k = h
      /\ \A c \in T : \E k \in I : b[k] = c
    BY <1>3, BijectionFacts
<1>5. IsFiniteSet(T) /\ Cardinality(T) = Cardinality(I)
    BY <1>2, <1>3, BijectionCounts, Zenon
<1>6. ASSUME NEW said
      PROVE  Cardinality(Places(texts, said)) = Cardinality(Saying(groups, n, said))
  <2> DEFINE C == {j \in I : texts[j] = said}
             D == {d \in T : S(d) = said}
             f == [j \in C |-> b[j]]
  <2>1. f \in [C -> D]
    BY <1>3, <1>4
  <2>2. \A k, h \in C : f[k] = f[h] => k = h
    BY <1>4
  <2>3. \A d \in D : \E k \in C : f[k] = d
    BY <1>3, <1>4
  <2>4. C \in SUBSET I
    OBVIOUS
  <2> HIDE DEF C, D, f
  <2>5. f \in Bijection(C, D)
    BY <2>1, <2>2, <2>3, IsBijection, Zenon
  <2>6. IsFiniteSet(C)
    BY <1>2, <2>4, FS_Subset
  <2>7. Cardinality(C) = Cardinality(D)
    BY <2>5, <2>6, BijectionCounts, Zenon
  <2>8. Places(texts, said) = C
    BY <1>1 DEF Places, C
  <2>9. Saying(groups, n, said) = D
    BY DEF Saying, D, T, S
  <2> QED
    BY <2>7, <2>8, <2>9
<1>7. IsFiniteSet(T) /\ Cardinality(T) = Len(texts)
    BY <1>2, <1>5
<1> QED
    BY <1>6, <1>7, Zenon DEF T

\* The turns of two nested loops that meet a text and a seed.
Meetings(texts, list, said, s) ==
    {k \in 1..(Len(list) * Len(texts)) :
        /\ texts[TheVariants!Inner(k, Len(texts))] = said
        /\ list[TheVariants!Outer(k, Len(texts))] = s}

\* Two nested loops over texts and seeds meet a text and a seed as often as the product of
\* the two lists' counts.
LEMMA LoopsCount ==
    ASSUME NEW texts \in Seq(Seq(Int)), NEW list \in Seq(Int), NEW said, NEW s
    PROVE  Cardinality(Meetings(texts, list, said, s))
           = Cardinality(Places(texts, said)) * Cardinality(Places(list, s))
<1> DEFINE L == Len(texts)
           M == Len(list)
           o(k) == TheVariants!Outer(k, L)
           i(k) == TheVariants!Inner(k, L)
           A == {k \in 1..(M * L) : texts[i(k)] = said /\ list[o(k)] = s}
           B == {h \in 1..M : list[h] = s}
           C == {j \in 1..L : texts[j] = said}
           f == [k \in A |-> <<o(k), i(k)>>]
<1>1. L \in Nat /\ M \in Nat
    BY DEF L, M
<1> HIDE DEF L, M
<1>2. /\ \A k \in 1..(M * L) :
           o(k) \in 1..M /\ i(k) \in 1..L /\ k = (o(k) - 1) * L + i(k)
      /\ \A h \in 1..M, j \in 1..L :
           /\ (h - 1) * L + j \in 1..(M * L)
           /\ o((h - 1) * L + j) = h /\ i((h - 1) * L + j) = j
    BY <1>1, LoopIndices, Zenon
<1> HIDE DEF o, i
<1>3. f \in [A -> B \X C]
    BY <1>2, <1>1
<1>4. \A k, h \in A : f[k] = f[h] => k = h
  <2> SUFFICES ASSUME NEW k \in A, NEW h \in A, f[k] = f[h] PROVE k = h
    OBVIOUS
  <2>1. o(k) = o(h) /\ i(k) = i(h)
    OBVIOUS
  <2>2. k = (o(k) - 1) * L + i(k) /\ h = (o(h) - 1) * L + i(h)
    BY <1>2, <1>1
  <2> QED
    BY <1>1, <2>1, <2>2
<1>5. \A c \in B \X C : \E k \in A : f[k] = c
  <2> TAKE c \in B \X C
  <2> DEFINE h == c[1]
             j == c[2]
  <2>1. h \in 1..M /\ j \in 1..L /\ list[h] = s /\ texts[j] = said /\ c = <<h, j>>
    OBVIOUS
  <2> HIDE DEF h, j
  <2> DEFINE k == (h - 1) * L + j
  <2>2. k \in 1..(M * L) /\ o(k) = h /\ i(k) = j
    BY <1>2, <1>1, <2>1
  <2> HIDE DEF k
  <2>3. k \in A
    BY <2>1, <2>2
  <2> QED
    BY <2>1, <2>2, <2>3
<1>6. IsFiniteSet(1..M) /\ IsFiniteSet(1..L) /\ B \in SUBSET (1..M) /\ C \in SUBSET (1..L)
    BY <1>1, FS_Interval
<1> HIDE DEF A, B, C, f
<1>7. f \in Bijection(A, B \X C)
    BY <1>3, <1>4, <1>5, IsBijection, Zenon
<1>8. IsFiniteSet(B) /\ IsFiniteSet(C)
    BY <1>6, FS_Subset
<1>9. IsFiniteSet(B \X C) /\ Cardinality(B \X C) = Cardinality(B) * Cardinality(C)
    BY <1>8, FS_Product
<1>10. Cardinality(A) = Cardinality(B \X C)
  <2>1. \E g : g \in Bijection(B \X C, A)
    BY <1>7, Fun_BijInverse
  <2> QED
    BY <1>9, <2>1, BijectionCounts, Zenon
<1>11. Cardinality(B) * Cardinality(C) = Cardinality(C) * Cardinality(B)
  <2>1. Cardinality(B) \in Nat /\ Cardinality(C) \in Nat
    BY <1>8, FS_CardinalityType
  <2> QED
    BY <2>1
<1>12. Cardinality(A) = Cardinality(C) * Cardinality(B)
    BY <1>9, <1>10, <1>11
<1>13. Meetings(texts, list, said, s) = A
    BY Zenon DEF Meetings, A, o, i, L, M
<1>14. Places(texts, said) = C /\ Places(list, s) = B
    BY DEF Places, B, C, L, M
<1> QED
    BY <1>12, <1>13, <1>14

\* What a batch should be: every choice with every seed as often as it is written.
Counted(groups, field, made) ==
    LET all == Picks(groups, Len(groups))
        list == TheVariants!SeedList(field)
    IN  /\ Len(made) = Cardinality(all) * Len(list)
        /\ \A said, s :
               Cardinality(Places(made, [prompt |-> said, seed |-> s]))
               = Cardinality(Saying(groups, Len(groups), said))
                 * Cardinality(Places(list, s))

\* Expand makes such a batch.
LEMMA ExpandedOnce ==
    ASSUME NEW groups \in Seq(Seq(Int)), NEW field, TheVariants!SeedList(field) \in Seq(Int),
           NEW made, made = TheVariants!Expanded(groups, field)
    PROVE  Counted(groups, field, made)
<1> DEFINE n == Len(groups)
           all == Picks(groups, n)
           texts == TheVariants!CartesianProduct(groups)
           list == TheVariants!SeedList(field)
           L == Len(texts)
           M == Len(list)
           o(k) == TheVariants!Outer(k, L)
           i(k) == TheVariants!Inner(k, L)
<1>1. SaysAll(texts, groups, n) /\ n \in Nat
    BY ProductSaysAll
<1>2. texts \in Seq(Seq(Int)) /\ list \in Seq(Int) /\ L \in Nat /\ M \in Nat /\ DOMAIN list = 1..M
  <2>1. texts \in Seq([1..n -> Int])
    BY <1>1 DEF SaysAll
  <2>2. [1..n -> Int] \in SUBSET Seq(Int)
    BY <1>1, FunctionIsSequence
  <2> HIDE DEF texts, n
  <2>3. texts \in Seq(Seq(Int))
    BY <2>1, <2>2
  <2> QED
    BY <2>3
<1>3. made = [k \in 1..(M * L) |-> [prompt |-> texts[i(k)], seed |-> list[o(k)]]]
    BY <1>2, ExpandedLoops, Zenon
<1>4. /\ IsFiniteSet(all) /\ Cardinality(all) = L
      /\ \A said : Cardinality(Places(texts, said)) = Cardinality(Saying(groups, n, said))
    BY <1>1, TextsPerChoice, Zenon
<1>5. \A said, s :
          Cardinality(Meetings(texts, list, said, s))
          = Cardinality(Places(texts, said)) * Cardinality(Places(list, s))
    BY <1>2, LoopsCount, Zenon
<1>6. /\ \A k \in 1..(M * L) :
           o(k) \in 1..M /\ i(k) \in 1..L /\ k = (o(k) - 1) * L + i(k)
      /\ \A h \in 1..M, j \in 1..L :
           /\ (h - 1) * L + j \in 1..(M * L)
           /\ o((h - 1) * L + j) = h /\ i((h - 1) * L + j) = j
    BY <1>2, LoopIndices, Zenon
<1> HIDE DEF n, all, texts, list, L, M, o, i
<1>7. Len(made) = L * M /\ DOMAIN made = 1..(M * L)
  <2>1. M * L \in Nat /\ M * L = L * M
    BY <1>2
  <2>2. DOMAIN made = 1..(M * L)
    BY <1>3
  <2> DEFINE Size == M * L
             R == {made[k] : k \in 1..Size}
  <2>3. Size \in Nat /\ made \in [1..Size -> R]
    BY <1>3, <2>1
  <2> HIDE DEF Size, R
  <2>4. Len(made) = Size
    BY <2>3, FunctionIsSequence
  <2> QED
    BY <2>1, <2>2, <2>4 DEF Size
<1>8. ASSUME NEW said, NEW s
      PROVE  Cardinality(Places(made, [prompt |-> said, seed |-> s]))
             = Cardinality(Saying(groups, n, said)) * Cardinality(Places(list, s))
  <2>1. Places(made, [prompt |-> said, seed |-> s]) = Meetings(texts, list, said, s)
    <3>1. \A k \in 1..(M * L) :
              made[k] = [prompt |-> said, seed |-> s] <=> texts[i(k)] = said /\ list[o(k)] = s
      BY <1>3
    <3>2. Meetings(texts, list, said, s) =
              {k \in 1..(M * L) : texts[i(k)] = said /\ list[o(k)] = s}
      BY Zenon DEF Meetings, o, i, L, M
    <3> QED
      BY <1>7, <3>1, <3>2 DEF Places
  <2> QED
    BY <1>4, <1>5, <2>1, Zenon
<1> QED
    BY <1>4, <1>7, <1>8, Zenon DEF Counted, n, all, list, M

\* While a batch is shown, it is what Expand makes of the form.
ShownInv ==
    prompt # None /\ ~refused =>
        /\ prompt \in Prompts /\ seeds \in SeedFields
        /\ variants = TheVariants!Expanded(prompt, seeds)

LEMMA ShownInvariance == TheVariants!Spec => []ShownInv
<1>1. TheVariants!Init => ShownInv
    BY DEF TheVariants!Init, ShownInv
<1>2. ShownInv /\ [TheVariants!Next]_(TheVariants!variantVars) => ShownInv'
  <2> SUFFICES ASSUME ShownInv, [TheVariants!Next]_(TheVariants!variantVars) PROVE ShownInv'
    OBVIOUS
  <2>1. CASE TheVariants!ExpandForm
    <3>1. PICK p \in Prompts, field \in SeedFields :
              /\ prompt' = p /\ seeds' = field
              /\ refused' # TRUE => variants' = TheVariants!Expanded(p, field)
      BY <2>1 DEF TheVariants!ExpandForm
    <3> QED
      BY <3>1 DEF ShownInv
  <2>2. CASE TheVariants!AnotherForm
    BY <2>2 DEF TheVariants!AnotherForm, ShownInv
  <2>3. CASE UNCHANGED TheVariants!variantVars
    BY <2>3 DEF TheVariants!variantVars, ShownInv
  <2> QED
    BY <2>1, <2>2, <2>3 DEF TheVariants!Next
<1> QED
    BY <1>1, <1>2, PTL DEF TheVariants!Spec

\* So it has every choice with every seed as often as it is written.
LEMMA ShownHasAll ==
    ASSUME TheVariants!VariantsConstants, ShownInv
    PROVE  TheVariants!EveryCombinationOnce
<1> SUFFICES ASSUME prompt # None, ~refused PROVE TheVariants!EveryCombinationOnce
    BY DEF TheVariants!EveryCombinationOnce
<1> DEFINE n == Len(prompt)
           all == Picks(prompt, n)
           list == TheVariants!SeedList(seeds)
           Options == UNION {DOMAIN prompt[g] : g \in DOMAIN prompt}
<1>1. /\ prompt \in Seq(Seq(Int)) /\ list \in Seq(Int)
      /\ variants = TheVariants!Expanded(prompt, seeds)
    BY SeedsAreNumbers DEF ShownInv, TheVariants!VariantsConstants
<1>2. DOMAIN prompt = 1..n /\ n \in Nat /\ \A g \in 1..n : DOMAIN prompt[g] \subseteq Nat
    BY <1>1
<1>3. TheVariants!Possible = all
  <2>1. \A c : c \in TheVariants!Possible =>
                   c \in [1..n -> Nat] /\ \A g \in 1..n : c[g] \in DOMAIN prompt[g]
    <3> TAKE c
    <3> HAVE c \in TheVariants!Possible
    <3>1. c \in [1..n -> Options] /\ \A g \in 1..n : c[g] \in DOMAIN prompt[g]
      BY <1>2 DEF TheVariants!Possible
    <3> HIDE DEF n, Options
    <3>2. \A g \in 1..n : c[g] \in Nat
      BY <1>2, <3>1
    <3> QED
      BY <3>1, <3>2
  <2>2. \A c : c \in all => c \in [1..n -> Options] /\ \A g \in 1..n : c[g] \in DOMAIN prompt[g]
    <3> TAKE c
    <3> HAVE c \in all
    <3>1. c \in [1..n -> Nat] /\ \A g \in 1..n : c[g] \in DOMAIN prompt[g]
      BY DEF Picks
    <3>2. \A g \in 1..n : c[g] \in Options
      BY <1>2, <3>1
    <3> HIDE DEF n, Options
    <3> QED
      BY <3>1, <3>2
  <2>3. \A c : c \in TheVariants!Possible <=>
                   c \in [1..n -> Options] /\ \A g \in 1..n : c[g] \in DOMAIN prompt[g]
    BY <1>2 DEF TheVariants!Possible
  <2>4. \A c : c \in all <=> c \in [1..n -> Nat] /\ \A g \in 1..n : c[g] \in DOMAIN prompt[g]
    BY DEF Picks
  <2> HIDE DEF all, n, Options
  <2> QED
    BY <2>1, <2>2, <2>3, <2>4
<1>4. \A c \in all : TheVariants!Says(c) = Spoken(prompt, c)
    BY <1>2 DEF TheVariants!Says, Spoken, Picks
<1>5. /\ Len(variants) = Cardinality(all) * Len(list)
      /\ \A said, s :
             Cardinality(Places(variants, [prompt |-> said, seed |-> s]))
             = Cardinality(Saying(prompt, n, said)) * Cardinality(Places(list, s))
  <2>1. Counted(prompt, seeds, variants)
    <3> HIDE DEF n, all, list
    <3>1. prompt \in Seq(Seq(Int)) /\ TheVariants!SeedList(seeds) \in Seq(Int)
      BY <1>1 DEF list
    <3> QED
      BY <1>1, <3>1, ExpandedOnce
  <2> QED
    BY <2>1, Zenon DEF Counted
<1>6. \A c \in all : {d \in all : TheVariants!Says(d) = TheVariants!Says(c)}
                     = Saying(prompt, n, TheVariants!Says(c))
    BY <1>4 DEF Saying
<1> HIDE DEF n, all, list
<1>7. \A c \in all : \A s :
          Cardinality(Places(variants, [prompt |-> TheVariants!Says(c), seed |-> s]))
          = Cardinality({d \in all : TheVariants!Says(d) = TheVariants!Says(c)})
            * Cardinality(Places(list, s))
  <2> TAKE c \in all
  <2> TAKE s
  <2>1. Cardinality(Places(variants, [prompt |-> TheVariants!Says(c), seed |-> s]))
        = Cardinality(Saying(prompt, n, TheVariants!Says(c))) * Cardinality(Places(list, s))
    BY <1>5, Zenon
  <2> QED
    BY <1>6, <2>1
<1> QED
    BY <1>3, <1>5, <1>7, SameCardinality, Zenon
       DEF TheVariants!EveryCombinationOnce, Places, list

-----------------------------------------------------------------------------
(* The parts side by side *)

\* A step of Extensions is a step of the batch or leaves it alone, ...
LEMMA BatchPart == Spec => TheBatch!Steps
<1>1. Init => TheBatch!Init
    BY DEF Init
<1>2. [Next]_allVars => [TheBatch!Next]_(TheBatch!vars)
    BY DEF Next, allVars, batchVars, TheBatch!vars, TheBatch!rows, TheBatch!work, TheBatch!history
<1> QED
    BY <1>1, <1>2, PTL DEF Spec, TheBatch!Steps

\* ... of the favorites or leaves them alone, ...
LEMMA FavoritesPart == Spec => TheFavorites!Spec
<1>1. Init => TheFavorites!Init
    BY DEF Init
<1>2. [Next]_allVars => [TheFavorites!Next]_(TheFavorites!favVars)
    BY DEF Next, allVars, favoritesVars, TheFavorites!favVars, TheFavorites!storeVars,
       TheFavorites!syncVars
<1> QED
    BY <1>1, <1>2, PTL DEF Spec, TheFavorites!Spec

\* ... of the photobooth or leaves it alone, ...
LEMMA BoothPart == Spec => Booth!Spec
<1>1. Init => Booth!Init
    BY DEF Init
<1>2. [Next]_allVars => [Booth!Next]_(Booth!boothVars)
    BY DEF Next, allVars, photoboothVars, Booth!boothVars, Booth!captureVars, Booth!boothHistory
<1> QED
    BY <1>1, <1>2, PTL DEF Spec, Booth!Spec

\* ... of the wizard or leaves it alone, ...
LEMMA WizardPart == Spec => TheWizard!Spec
<1>1. Init => TheWizard!Init
    BY DEF Init
<1>2. [Next]_allVars => [TheWizard!Next]_(TheWizard!wizardVars)
    BY DEF Next, allVars, wizardVars, TheWizard!wizardVars, TheWizard!seen
<1> QED
    BY <1>1, <1>2, PTL DEF Spec, TheWizard!Spec

\* ... and so for the printer ...
LEMMA PrinterPart == Spec => ThePrinter!Spec
<1>1. Init => ThePrinter!Init
    BY DEF Init
<1>2. [Next]_allVars => [ThePrinter!Next]_(ThePrinter!printVars)
    BY DEF Next, allVars, printerVars, ThePrinter!printVars
<1> QED
    BY <1>1, <1>2, PTL DEF Spec, ThePrinter!Spec

\* ... the start-up ...
LEMMA BootPart == Spec => Boot!Spec
<1>1. Init => Boot!Init
    BY DEF Init
<1>2. [Next]_allVars => [Boot!Next]_(Boot!startVars)
    BY DEF Next, allVars, startupVars, Boot!startVars, Boot!graph, Boot!cache
<1> QED
    BY <1>1, <1>2, PTL DEF Spec, Boot!Spec

\* ... the listing ...
LEMMA PagesPart == Spec => Pages!Spec
<1>1. Init => Pages!Init
    BY DEF Init
<1>2. [Next]_allVars => [Pages!Next]_(Pages!listVars)
    BY DEF Next, allVars, listingVars, Pages!listVars
<1> QED
    BY <1>1, <1>2, PTL DEF Spec, Pages!Spec

\* ... the variants ...
LEMMA VariantsPart == Spec => TheVariants!Spec
<1>1. Init => TheVariants!Init
    BY DEF Init
<1>2. [Next]_allVars => [TheVariants!Next]_(TheVariants!variantVars)
    BY DEF Next, allVars, variantsVars, TheVariants!variantVars
<1> QED
    BY <1>1, <1>2, PTL DEF Spec, TheVariants!Spec

\* ... and the authorization.
LEMMA AuthorizationPart == Spec => Authz!Spec
<1>1. Init => Authz!Init
    BY DEF Init
<1>2. [Next]_allVars => [Authz!Next]_(Authz!authzVars)
    BY DEF Next, allVars, authzVars, Authz!authzVars
<1> QED
    BY <1>1, <1>2, PTL DEF Spec, Authz!Spec

\* Every part keeps its types: its rows, documents and requests in progress are ones the
\* code writes, a request has one picture at a time in hand (printHandler), the settings
\* file is one document (saveProjectSettings), and an extension is placed once (Order).
THEOREM ExtensionsTypes == Spec => []TypeOK
<1>1. Init => part \in Parts
    BY DEF Init
<1>2. part \in Parts /\ [Next]_allVars => (part \in Parts)'
    BY DEF Next, allVars
<1>3. Spec => [](part \in Parts)
    BY <1>1, <1>2, PTL DEF Spec
<1>4. Spec => []TheBatch!TypeOK
  <2>1. TheBatch!BatchInv => TheBatch!TypeOK
    BY DEF TheBatch!BatchInv
  <2> QED
    BY <2>1, BatchPart, TheBatch!BatchInvariance, BatchAssumption, PTL
<1>5. Spec => []TheFavorites!TypeOK
  <2>1. TheFavorites!FavInv => TheFavorites!TypeOK
    BY DEF TheFavorites!FavInv
  <2> QED
    BY <2>1, FavoritesPart, TheFavorites!FavoritesInvariance, FavoritesAssumption, PTL
<1>6. Spec => []Booth!TypeOK
    BY BoothPart, BoothTypes, BoothAssumption, PTL
<1>7. Spec => []ThePrinter!TypeOK
    BY PrinterPart, ThePrinter!PrinterTypes, PrinterAssumption, PTL
<1>8. Spec => []Boot!TypeOK
    BY BootPart, StartTypes, StartupAssumption, PTL
<1>9. Spec => []TheWizard!TypeOK
  <2>1. TheWizard!IInv => TheWizard!TypeOK
    BY DEF TheWizard!IInv
  <2> QED
    BY <2>1, WizardPart, TheWizard!Invariance, WizardAssumption, PTL
<1>10. Spec => []Pages!TypeOK
  <2>1. Pages!ListInv => Pages!TypeOK
    BY DEF Pages!ListInv
  <2> QED
    BY <2>1, PagesPart, ListInvariance, ListingAssumption, PTL
<1>11. Spec => []Authz!TypeOK
    BY AuthorizationPart, AuthzTypes, AuthorizationAssumption, PTL
<1> QED
    BY <1>3, <1>4, <1>5, <1>6, <1>7, <1>8, <1>9, <1>10, <1>11, PTL DEF TypeOK

\* A batch has at most one job row at a time (CreateBatchFromVariants, HandleJobTerminal).
THEOREM OneJobAtATime == Spec => []Sequential
BY BatchPart, TheBatch!OneJobAtATime, BatchAssumption, PTL DEF Sequential

\* Items are started in the order of their positions (nextPendingItem).
THEOREM StartsInOrder == Spec => []StartedInOrder
BY BatchPart, TheBatch!StartsInOrder, BatchAssumption, PTL DEF StartedInOrder

\* A completed batch has no item waiting (HandleJobTerminal, CompleteBatch).
THEOREM CompletedIsOver == Spec => []CompletedMeansNoneWaiting
BY BatchPart, TheBatch!CompletedIsOver, BatchAssumption, PTL DEF CompletedMeansNoneWaiting

\* A star is shown if and only if it is stored (ToggleFavorite, Sync).
THEOREM StarsMatch == Spec => []StarsMatchDeltas
BY FavoritesPart, TheFavorites!StarsMatch, FavoritesAssumption, PTL DEF StarsMatchDeltas

\* Sync removes no delta of an element it found (Sync, syncFromS3).
THEOREM SyncKeeps == Spec => SyncKeepsFavorites
BY FavoritesPart, TheFavorites!SyncKeeps, FavoritesAssumption, PTL DEF SyncKeepsFavorites

\* Each field of the settings is as last submitted (saveProjectSettings).
THEOREM SettingsStay == Spec => []SettingsAsSubmitted
BY BoothPart, BoothSettings, PTL DEF SettingsAsSubmitted

\* Captures are filtered by the stored prompt (GetPostFilter, syncPostFilterFromS3).
THEOREM FiltersFollow == Spec => FilteredAsStored
BY BoothPart, BoothFilters, PTL DEF FilteredAsStored

\* An extension is initialized after what it requires (order, Initialize).
THEOREM DependenciesFirst == Spec => []DependencyFirst
BY BootPart, StartProperties, StartupAssumption, PTL DEF DependencyFirst

\* Kahn's algorithm finds an order for whatever Validate lets through, and a migration
\* fails only after a start that was stopped in the middle of one (extdep.go, migrate.go).
THEOREM StartsComplete == Spec => []StartsUnlessTorn
BY BootPart, StartProperties, StartupAssumption, PTL DEF StartsUnlessTorn

\* The owner's sections of config.yaml survive the wizard (configwrite.go, applyProfile).
THEOREM SectionsSurvive == Spec => []OwnersSectionsKept
BY WizardPart, TheWizard!SectionsSurvive, WizardAssumption, PTL DEF OwnersSectionsKept

\* What the wizard leaves loads at the next start (writeConfigFile, applyProfile, Load).
THEOREM FilesLoad == Spec => []WizardFilesLoad
BY WizardPart, TheWizard!FilesLoad, WizardAssumption, PTL DEF WizardFilesLoad

\* Going through all the pages shows every element that was there from the first to the
\* last (ListElements: the count, and LIMIT and OFFSET).
THEOREM WalksComplete == Spec => []WalkMissesNone
BY PagesPart, WalkComplete, ListingAssumption, PTL DEF WalkMissesNone

\* A temporary file on disk is one a request in progress will remove (printHandler,
\* previewHandler, GmProcessor.Process).
THEOREM NoneLeft == Spec => []NoTempLeft
BY PrinterPart, ThePrinter!NoneLeft, PrinterAssumption, PTL DEF NoTempLeft

\* Printing and previewing remove no stored picture (LocalFile of the file back end).
THEOREM PicturesStay == Spec => []StoredPicturesStay
BY PrinterPart, ThePrinter!PicturesStay, PrinterAssumption, PTL DEF StoredPicturesStay

\* Whatever auth section the owner writes, whichever starts fail on it and whatever is
\* claimed, a server that runs serves root, and with a file nobody else (StaticEnforcer,
\* VerifyBootstrapInvariant).
THEOREM OwnerKept == Spec => []OwnerServed
BY AuthorizationPart, ServedByEngine, AuthorizationAssumption, PTL DEF OwnerServed

\* A batch has each combination of options with each seed exactly once (Expand).
THEOREM CombinationsOnce == Spec => []EveryCombinationOnce
<1>1. ShownInv => EveryCombinationOnce
    BY ShownHasAll, VariantsAssumption DEF EveryCombinationOnce
<1> QED
    BY <1>1, VariantsPart, ShownInvariance, PTL
=============================================================================
