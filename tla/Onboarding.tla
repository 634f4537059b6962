----------------------------- MODULE Onboarding -----------------------------
(***************************************************************************)
(* The set-up wizard (ext/joleuger/onboarding) and the one file it owns,   *)
(* config.yaml, with what the next start-up asks of that file.  The owner  *)
(* edits the file by hand meanwhile; requests write it at the same time,   *)
(* with no lock between the gate, the read and the rename.                 *)
(*                                                                         *)
(* A configuration is a record of what the wizard and config.Load tell     *)
(* apart (titles are left out):                                            *)
(*   storage   "memory", "file" or "s3" with what they need; "untyped", s3 *)
(*             whose type is left to the default; "host", s3 with an       *)
(*             endpoint that is not a URL; "bare", s3 without one          *)
(*   url       the first backend's: "plain", or "upper" with a scheme in   *)
(*             capitals; "missing" where the file has no sdcpp section     *)
(*   rest      the sections and other backends the wizard does not know,   *)
(*             by the edit that wrote them; None when there are none.      *)
(*             Load is taken to accept them                                *)
(*   writes    allow_config_write                                          *)
(*   off       the extensions, of those that matter, that are switched off *)
(***************************************************************************)
EXTENDS Naturals

CONSTANTS
    Submits,        \* requests to the wizard, each made once
    Choices,        \* the storage sections they ask for
    Edits,          \* the configurations the owner may write, by hand
    Odd,            \* a file that is empty or holds no mapping
    None,
    MaxEdits        \* edits, removals and restarts

Storages == {"memory", "file", "s3", "untyped", "host", "bare"}

\* The catalog, by the extensions a dependency binds: a profile has both or neither.
Profiles == {[k \in {"printer", "imageproc"} |-> on] : on \in BOOLEAN}

\* What a form may hold besides is "bad", no http URL in any spelling.
Urls == {"plain", "upper", "bad"}

Configurations == [storage : Storages, url : {"missing"} \cup Urls,
                   rest : {None} \cup {c.rest : c \in Edits},
                   writes : BOOLEAN, off : SUBSET {"printer", "imageproc"}]
Completions == [what : {"complete"}, storage : Choices, url : Urls, profile : {None} \cup Profiles]

\* A profile's fresh file takes storage and URL from the configuration in force.
ProfileRequests == [what : {"profile"}, storage : Storages, url : Urls, profile : Profiles]
Over == [step |-> "over"]

VARIABLES
    file,           \* config.yaml: None without one
    running,        \* the configuration the process runs on, None while it is down
    submit,         \* the requests in progress
    project,        \* the project ensureProject makes
    edits,
    \* History:
    owned,          \* rest, as the owner last put it in place
    overlapped,     \* the owner changed the file between a request's read and its rename
    spoilt          \* a configuration that does not load was edited in, or asked for

wizardVars == <<file, running, submit, project, edits, owned, overlapped, spoilt>>
seen == <<owned, overlapped, spoilt>>

TypeOK ==
    /\ file \in {None, Odd} \cup Configurations
    /\ running \in {None} \cup Configurations
    /\ submit \in [Submits -> {None, Over} \cup
           [asked : Completions \cup ProfileRequests,
            step : {"look", "reread", "write", "project"},
            read : {None, Odd} \cup Configurations]]
    /\ project \in BOOLEAN
    /\ edits \in 0..MaxEdits

Busy(s) == submit[s] \notin {None, Over}

\* noConfigDefaults.
Defaults == [storage |-> "memory", url |-> "plain", rest |-> None, writes |-> FALSE, off |-> {}]

\* Validate: a storage type has what it needs, s3 (the default) an endpoint that is a URL;
\* there is a backend, whose URL begins with http or https in small letters (isValidURL).
\* Load calls it before it fills in defaults.
Valid(c) ==
    /\ c.storage \in {"memory", "file", "s3", "untyped"}
    /\ c.url = "plain"

\* Load accepts it, and then the printer finds the extension it requires.
Loads(c) ==
    /\ c # Odd
    /\ Valid(c)
    /\ "imageproc" \in c.off => "printer" \in c.off

Init ==
    /\ file = None /\ running = Defaults
    /\ submit = [s \in Submits |-> None]
    /\ project = FALSE
    /\ edits = 0
    /\ owned = None /\ overlapped = FALSE /\ spoilt = FALSE

\* Mutant: S3 storage is not asked for its endpoint.
CheckedType(asked) == asked.storage # "untyped" /\ asked.url \in {"plain", "upper"}

\* validateComplete: an endpoint has to be there, not to be a URL; url.Parse, which turns a
\* scheme into small letters, looks at the backend's.
Checked(asked) ==
    /\ asked.storage \in {"memory", "file", "s3", "host"}
    /\ asked.url \in {"plain", "upper"}

\* writeGate.
Gate == file # None => running.writes

Begin(s, asked) ==
    /\ submit' = [submit EXCEPT ![s] = [asked |-> asked, step |-> "look", read |-> None]]
    /\ UNCHANGED <<file, running, project, edits, seen>>

\* handleComplete up to writeConfigFile: it asks for a confirmation besides.
AskComplete(s) ==
    /\ running # None /\ submit[s] = None
    /\ \E asked \in Completions, confirm \in BOOLEAN :
           /\ Checked(asked)
           /\ Gate /\ (file # None => confirm)
           /\ Begin(s, asked)

\* handleProfile up to applyProfile.
AskProfile(s) ==
    /\ running # None /\ submit[s] = None
    /\ Gate
    /\ \E asked \in ProfileRequests :
           asked.storage = running.storage /\ asked.url = running.url /\ Begin(s, asked)

\* writeConfigFile looks whether there is a file, and reads it.
LookAgain(s) ==
    /\ Busy(s) /\ submit[s].step = "look" /\ submit[s].asked.what = "complete"
    /\ submit' = [submit EXCEPT ![s].step = "write", ![s].read = file]
    /\ UNCHANGED <<file, running, project, edits, seen>>

\* applyProfile does so too, once more after a fresh file of its own; it cannot be applied
\* to an odd file, nor when its own is gone.
LookForProfile(s) ==
    /\ Busy(s) /\ submit[s].step \in {"look", "reread"} /\ submit[s].asked.what = "profile"
    /\ submit' = [submit EXCEPT ![s] =
           IF file = Odd \/ (file = None /\ @.step = "reread") THEN Over
           ELSE [@ EXCEPT !.step = "write", !.read = file]]
    /\ UNCHANGED <<file, running, project, edits, seen>>

\* applyProfileFlags: only the keys a profile lists change.
Switched(off, profile) ==
    IF profile = None THEN off
    ELSE (off \ DOMAIN profile) \cup {k \in DOMAIN profile : ~profile[k]}

\* buildFreshConfig: a type that is left out loses the fields with it, and the profile of
\* applyProfile comes with its second write.
FreshConfig(asked) ==
    [storage |-> IF asked.storage = "untyped" THEN "bare" ELSE asked.storage,
     url |-> asked.url, rest |-> None, writes |-> FALSE,
     off |-> Switched({}, IF asked.what = "profile" THEN None ELSE asked.profile)]

\* Mutant: an existing file is rendered anew from the wizard's fields.
UpdatedAnew(c, asked) == FreshConfig(asked)

\* updateConfigFile, and applyProfile in place: storage and backends are none of a
\* profile's business, and a file without an sdcpp section gets none.
Updated(c, asked) ==
    [c EXCEPT !.off = Switched(@, asked.profile),
              !.storage = IF asked.what = "profile" THEN @ ELSE asked.storage,
              !.url = IF asked.what = "profile" \/ @ = "missing" THEN @ ELSE asked.url]

Writes(s, what) == Busy(s) /\ submit[s].step = "write" /\ submit[s].asked.what = what

\* updateConfigFile, which falls back to a fresh file, replaces the file as a whole.
WriteCompletion(s) ==
    /\ Writes(s, "complete")
    /\ LET asked == submit[s].asked
           old == submit[s].read
       IN  /\ file' = IF old \in {None, Odd} THEN FreshConfig(asked) ELSE Updated(old, asked)
           /\ spoilt' = (spoilt \/ asked.storage = "host" \/ asked.url = "upper")
    /\ submit' = [submit EXCEPT ![s].step = "project"]
    /\ UNCHANGED <<running, project, edits, owned, overlapped>>

\* applyProfile: without a file it writes a fresh one first and goes on with that.
WriteProfile(s) ==
    /\ Writes(s, "profile")
    /\ LET asked == submit[s].asked
           old == submit[s].read
       IN  /\ file' = IF old = None THEN FreshConfig(asked) ELSE Updated(old, asked)
           /\ submit' = [submit EXCEPT ![s] = IF old = None THEN [@ EXCEPT !.step = "reread"] ELSE Over]
           /\ spoilt' = (spoilt \/ (old = None /\ asked.storage = "untyped"))
    /\ UNCHANGED <<running, project, edits, owned, overlapped>>

\* atomicWrite fails before its rename: the file is as it was.
WriteFails(s) ==
    /\ Busy(s) /\ submit[s].step = "write"
    /\ submit' = [submit EXCEPT ![s] = Over]
    /\ UNCHANGED <<file, running, project, edits, seen>>

\* ensureProject, best effort.
EnsureProject(s) ==
    /\ Busy(s) /\ submit[s].step = "project"
    /\ project' \in {project, TRUE}
    /\ submit' = [submit EXCEPT ![s] = Over]
    /\ UNCHANGED <<file, running, edits, seen>>

\* The owner writes or removes the file.
Edit ==
    /\ edits < MaxEdits /\ edits' = edits + 1
    /\ \E c \in {None, Odd} \cup Edits :
           /\ c # file /\ file' = c
           /\ owned' = IF c \in {None, Odd} THEN None ELSE c.rest
           /\ spoilt' = (spoilt \/ (c \notin {None, Odd} /\ ~Loads(c)))
    /\ overlapped' = (overlapped \/ \E s \in Submits : Busy(s) /\ submit[s].step = "write")
    /\ UNCHANGED <<running, submit, project>>

\* The process is started anew; on a file that does not load it stays down.
RestartOnFile ==
    /\ edits < MaxEdits /\ edits' = edits + 1
    /\ running' = IF file = None THEN Defaults ELSE IF Loads(file) THEN file ELSE None
    /\ submit' = [s \in Submits |-> IF Busy(s) THEN Over ELSE submit[s]]
    /\ UNCHANGED <<file, project, owned, overlapped, spoilt>>

Next ==
    \/ \E s \in Submits : \/ AskComplete(s) \/ AskProfile(s)
                          \/ LookAgain(s) \/ LookForProfile(s)
                          \/ WriteCompletion(s) \/ WriteProfile(s) \/ WriteFails(s)
                          \/ EnsureProject(s)
    \/ Edit \/ RestartOnFile

Spec == Init /\ [][Next]_wizardVars

-----------------------------------------------------------------------------
(* Properties *)

\* "sections the wizard does not know about — auth, extensions, extra backends — survive
\* untouched": whatever requests write, the file has the owner's as last edited, unless
\* that edit came between a request's read and its rename.
OwnersSectionsKept == file \notin {None, Odd} /\ ~overlapped => file.rest = owned

\* The next start-up accepts what the wizard leaves: a profile or another storage never
\* makes a file that loads one that does not.  Three ways out are known: an S3 endpoint that is not a URL, a backend URL with its
\* scheme in capitals, and a profile for a file that is gone when the storage type was
\* left out.
WizardFilesLoad == file \notin {None, Odd} /\ ~spoilt => Loads(file)

=============================================================================
