----------------------------- MODULE Photobooth -----------------------------
(***************************************************************************)
(* The photobooth extension (ext/joleuger/photobooth) of one project: its  *)
(* settings file in the storage, the columns of the project's row that     *)
(* mirror part of it, and the captures.  Saves and captures run in         *)
(* goroutines of their own and may be interrupted between two steps.       *)
(***************************************************************************)
EXTENDS Integers

CONSTANTS
    Saves,          \* settings saves that may be in progress at the same time
    Forms,          \* what a save may submit: some of the fields, with their values
    Captures,       \* elements of captures
    MaxBoothFaults

\* post_filter_prompt is mirrored to the row; keep_on_cancel (a pointer, so that an
\* explicit "no" is not "unset") and max_photos are in the file only.
Fields == {"prompt", "keep", "photos"}
Unset == [prompt |-> "", keep |-> "unset", photos |-> 0]

VARIABLES
    booked,     \* whether the project has a row
    column,     \* its ext_joleuger_photobooth_post_filter_prompt; "" for NULL
    settings,   \* the file, {} or a set of one record
    saving,     \* [form, step, copy] of each save in progress, or {}
    filtering,  \* captures that are saved and whose post-filter job is still to be started
    filtered,   \* the prompt of each capture's post-filter job, "" without one
    boothUp, boothFaults,
    \* History:
    wished,     \* each field as last submitted to the project
    mixed,      \* two saves overlapped, a deletion cut one, or one read nothing by error
    behind      \* a save reached the file and not the columns

boothHistory == <<wished, mixed, behind>>
captureVars == <<filtering, filtered>>
boothVars == <<booked, column, settings, saving, captureVars, boothUp, boothFaults, boothHistory>>

Delta == IF settings = {} THEN Unset ELSE CHOOSE d \in settings : TRUE

TypeOK ==
    /\ booked \in BOOLEAN /\ boothUp \in BOOLEAN /\ \A c, d \in settings : c = d
    /\ \A d \in settings \cup {wished} : DOMAIN d = Fields
    /\ \A s \in Saves : \A g \in saving[s] : g.step \in {"read", "write", "mirror"}
    /\ filtering \subseteq Captures /\ DOMAIN filtered = Captures
    /\ boothFaults \in 0..MaxBoothFaults

Init ==
    /\ booked = TRUE /\ column = "" /\ settings = {}
    /\ saving = [s \in Saves |-> {}]
    /\ filtering = {} /\ filtered = [c \in Captures |-> ""]
    /\ boothUp = TRUE /\ boothFaults = 0
    /\ wished = Unset /\ mixed = FALSE /\ behind = FALSE

Slip == boothFaults < MaxBoothFaults /\ boothFaults' = boothFaults + 1

-----------------------------------------------------------------------------
(* saveProjectSettings *)

\* validateSettingsFields: max_photos is clamped to 1..maxPhotosCap (here 10).
Coerced(f, v) == IF f # "photos" THEN v ELSE IF v < 1 THEN 1 ELSE IF v > 10 THEN 10 ELSE v

\* Mutant: fields that were not submitted are reset.
AppliedAlone(form, copy) ==
    [f \in Fields |-> IF f \in DOMAIN form THEN Coerced(f, form[f]) ELSE Unset[f]]

Applied(form, copy) ==
    [f \in Fields |-> IF f \in DOMAIN form THEN Coerced(f, form[f]) ELSE copy[f]]

\* The file is read; one that is missing or cannot be read is taken as empty.  (One that
\* does not parse ends the request, and nothing has changed.)  Neither
\* the saver nor updateProjectSettings, which calls it, asks whether the project exists.
ReadSettings(s, form) ==
    /\ boothUp
    /\ saving[s] = {}
    /\ \/ /\ saving' = [saving EXCEPT ![s] = {[form |-> form, step |-> "write", copy |-> Delta]}]
          /\ mixed' = (mixed \/ \E o \in Saves : saving[o] # {})
          /\ UNCHANGED boothFaults
       \/ /\ settings # {} /\ Slip
          /\ saving' = [saving EXCEPT ![s] = {[form |-> form, step |-> "write", copy |-> Unset]}]
          /\ mixed' = TRUE
    /\ UNCHANGED <<booked, column, settings, captureVars, boothUp, wished, behind>>

\* PutObject; a failure ends the request.
WriteSettings(s) ==
    \E g \in saving[s] :
        /\ g.step = "write"
        /\ LET new == Applied(g.form, g.copy)
           IN  \/ /\ settings' = {new}
                  /\ saving' = [saving EXCEPT ![s] = IF "prompt" \in DOMAIN g.form
                                   THEN {[form |-> g.form, step |-> "mirror", copy |-> new]} ELSE {}]
                  /\ wished' = [f \in Fields |-> IF f \in DOMAIN g.form THEN new[f] ELSE wished[f]]
                  /\ UNCHANGED boothFaults
               \/ /\ Slip
                  /\ saving' = [saving EXCEPT ![s] = {}]
                  /\ UNCHANGED <<settings, wished>>
    /\ UNCHANGED <<booked, column, captureVars, boothUp, mixed, behind>>

\* UPDATE projects SET ..., which matches no row of a deleted project; a failure ends the
\* request.
MirrorSettings(s) ==
    \E g \in saving[s] :
        /\ g.step = "mirror"
        /\ \/ /\ column' = IF booked THEN g.copy.prompt ELSE column
              /\ behind' = (behind \/ ~booked)
              /\ UNCHANGED boothFaults
           \/ /\ Slip /\ behind' = TRUE
              /\ UNCHANGED column
        /\ saving' = [saving EXCEPT ![s] = {}]
        /\ UNCHANGED <<booked, settings, captureVars, boothUp, wished, mixed>>

-----------------------------------------------------------------------------
(* The project, as the core deletes and creates it *)

\* Every object under projects/<name>/ goes, and the row, and the rows of its elements.
DeleteProject ==
    /\ boothUp /\ booked
    /\ Slip
    /\ booked' = FALSE /\ column' = "" /\ settings' = {}
    /\ wished' = Unset
    /\ mixed' = \E s \in Saves : saving[s] # {}
    /\ UNCHANGED <<saving, filtering, filtered, boothUp, behind>>

CreateProject ==
    /\ boothUp /\ ~booked
    /\ booked' = TRUE
    /\ UNCHANGED <<column, settings, saving, captureVars, boothUp, boothFaults, boothHistory>>

-----------------------------------------------------------------------------
(* handleSaveImage *)

\* The project's row is looked for, the picture is decoded and the element created.
Capture(c) ==
    /\ boothUp /\ booked
    /\ c \notin filtering /\ filtered[c] = ""
    /\ filtering' = filtering \cup {c}
    /\ UNCHANGED <<booked, column, settings, saving, filtered, boothUp, boothFaults, boothHistory>>

\* GetPostFilter; NULL is "", and so is a project without a row, whose column is "".
PostFilter == column

\* A capture without a prompt starts no job; a job that cannot be started is a warning.
StartPostFilterJob(c) ==
    /\ c \in filtering
    /\ filtering' = filtering \ {c}
    /\ \/ filtered' = [filtered EXCEPT ![c] = PostFilter] /\ UNCHANGED boothFaults
       \/ PostFilter # "" /\ Slip /\ UNCHANGED filtered
    /\ UNCHANGED <<booked, column, settings, saving, boothUp, boothHistory>>

-----------------------------------------------------------------------------
(* Stop and start *)

StopBooth ==
    /\ boothUp
    /\ Slip
    /\ boothUp' = FALSE
    /\ behind' = (behind \/ \E s \in Saves : \E g \in saving[s] : g.step = "mirror")
    /\ saving' = [s \in Saves |-> {}]
    /\ filtering' = {}
    /\ UNCHANGED <<booked, column, settings, filtered, wished, mixed>>

\* Mutant: the columns of a project whose settings are stored without a prompt stay.
SyncedColumnUnlessEmpty(old) ==
    IF settings # {} /\ booked /\ Delta.prompt # "" THEN Delta.prompt ELSE old

\* syncPostFilterFromS3: the columns of a project without a file are left as they are.
SyncedColumn(old) == IF settings # {} /\ booked THEN Delta.prompt ELSE old

\* The core rebuilds a lost database first.  A project without a row has no settings
\* looked for.  The file may be unreadable or the UPDATE fail; a lookup of the project's
\* row that fails counts as a project that is gone, and its settings are deleted.
StartBooth(lost) ==
    LET old == IF lost THEN "" ELSE column
    IN  /\ ~boothUp
        /\ boothUp' = TRUE
        /\ \/ /\ column' = SyncedColumn(old)
              /\ behind' = (behind /\ IF settings = {} THEN ~lost ELSE ~booked)
              /\ UNCHANGED <<settings, boothFaults, mixed>>
           \/ /\ settings # {} /\ booked /\ Slip
              /\ column' = old
              /\ behind' = TRUE
              /\ \/ UNCHANGED <<settings, mixed>>
                 \/ settings' = {} /\ mixed' = TRUE
        /\ UNCHANGED <<booked, saving, filtering, filtered, wished>>

Next ==
    \/ \E s \in Saves : \/ \E form \in Forms : ReadSettings(s, form)
                        \/ WriteSettings(s) \/ MirrorSettings(s)
    \/ DeleteProject \/ CreateProject
    \/ \E c \in Captures : Capture(c) \/ StartPostFilterJob(c)
    \/ StopBooth \/ \E lost \in BOOLEAN : StartBooth(lost)

Spec == Init /\ [][Next]_boothVars

-----------------------------------------------------------------------------
(* Properties *)

\* Every field of the settings is what was last submitted for it to this project, an
\* explicit "no" included: a save of other fields, a failed save, a stop at any point and
\* a deletion and new creation of the project do not bring an older value back.  The
\* exceptions: saves that overlap each other or a deletion, or that fail to read the file.
SettingsAsSubmitted == ~mixed => Delta = wished

\* A capture is filtered with the prompt that is stored, and without one if none is, through
\* every start, when no save is in progress and no error stops its job, unless a save reached
\* the file and not the columns and no start with the project's row came since.
FilteredAsStored ==
    [][\A c \in Captures :
          /\ filtered'[c] # filtered[c] \/ (c \in filtering \ filtering' /\ UNCHANGED boothFaults)
          /\ ~mixed /\ ~behind /\ \A s \in Saves : saving[s] = {}
          => filtered'[c] = Delta.prompt]_boothVars
-----------------------------------------------------------------------------
(* The inductive invariant behind the two properties (ExtensionsProofs).    *)

\* A value of every field, and nothing else.
Whole(d) == d = [f \in Fields |-> d[f]]

\* What a slot of saves in progress may hold.
InProgress(g) ==
    /\ g = [form |-> g.form, step |-> g.step, copy |-> g.copy]
    /\ g.step \in {"write", "mirror"}
    /\ Whole(g.copy)

Typed ==
    /\ settings = {} \/ settings = {Delta}
    /\ Whole(Delta) /\ Whole(wished)
    /\ saving = [s \in Saves |-> saving[s]]
    /\ \A s \in Saves : \A g \in saving[s] : InProgress(g) /\ saving[s] = {g}
    /\ filtered = [c \in Captures |-> filtered[c]]
    /\ filtering \subseteq Captures

\* No request outlives its process, and no column its row.
GoneWhole ==
    /\ ~boothUp => filtering = {} /\ \A s \in Saves : saving[s] = {}
    /\ ~booked => column = ""
    /\ \A c \in filtering : filtered[c] = ""

\* Saves that do not mix come one after the other, and know what is stored.
SavedAlone ==
    ~mixed =>
        /\ Delta = wished
        /\ \A r, s \in Saves : saving[r] # {} /\ saving[s] # {} => r = s
        /\ \A s \in Saves : \A g \in saving[s] : g.copy = Delta

\* The column repeats the file unless a save is between the two or has failed there.
Mirrored ==
    ~mixed /\ ~behind /\ (\A s \in Saves : \A g \in saving[s] : g.step # "mirror")
        => column = Delta.prompt

BoothInv ==
    /\ Typed
    /\ GoneWhole
    /\ SavedAlone
    /\ Mirrored
=============================================================================
