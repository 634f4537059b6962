-------------------------- MODULE OnboardingProofs --------------------------
(***************************************************************************)
(* Proofs about Onboarding, for any number of requests, choices, edits and *)
(* restarts.                                                               *)
(***************************************************************************)
EXTENDS Onboarding, TLAPS

\* What the owner has in a file beside what the wizard knows.
Rest(c) == IF c \in {None, Odd} THEN None ELSE c.rest

Pending(s) == Busy(s) /\ submit[s].step = "write"

\* A profile is never applied to an odd file.
ProfilesFitFiles ==
    \A s \in Submits : Pending(s) /\ submit[s].asked.what = "profile" => submit[s].read # Odd

\* What a request read is, in the owner's sections, what the owner last put in place, and
\* so is the file.
OwnersRest ==
    ~overlapped => /\ Rest(file) = owned
                   /\ \A s \in Submits : Pending(s) => Rest(submit[s].read) = owned

IInv == TypeOK /\ ProfilesFitFiles /\ OwnersRest

\* A request in progress.
Progress == [asked : Completions \cup ProfileRequests,
             step : {"look", "reread", "write", "project"},
             read : {None, Odd} \cup Configurations]

\* The constants are told apart: no configuration is taken for a missing or odd file, nor
\* a request for one that is over.
Distinct ==
    /\ None \notin Configurations /\ Odd \notin Configurations /\ None # Odd
    /\ None # Over /\ None \notin Progress
    /\ Edits \subseteq Configurations
    /\ Choices \subseteq Storages
    /\ MaxEdits \in Nat

\* An update of a file keeps what the wizard does not know; a fresh file has none of it.
LEMMA UpdatedKeepsRest ==
    ASSUME Distinct, NEW c \in Configurations, NEW asked \in Completions \cup ProfileRequests
    PROVE  /\ Updated(c, asked) \in Configurations
           /\ Rest(Updated(c, asked)) = Rest(c)
<1>1. /\ asked.profile \in {None} \cup Profiles
      /\ asked.storage \in Storages /\ asked.url \in Urls
    BY DEF Distinct, Completions, ProfileRequests
<1>2. Switched(c.off, asked.profile) \in SUBSET {"printer", "imageproc"}
    BY <1>1 DEF Switched, Profiles, Configurations
<1>3. Updated(c, asked) \in Configurations /\ Updated(c, asked).rest = c.rest
    BY <1>1, <1>2 DEF Updated, Configurations
<1> QED
    BY <1>3 DEF Rest, Distinct

LEMMA FreshHasNoRest ==
    ASSUME Distinct, NEW asked \in Completions \cup ProfileRequests
    PROVE  /\ FreshConfig(asked) \in Configurations
           /\ Rest(FreshConfig(asked)) = None
<1>1. /\ asked.profile \in {None} \cup Profiles
      /\ asked.storage \in Storages /\ asked.url \in Urls
    BY DEF Distinct, Completions, ProfileRequests
<1> DEFINE profile == IF asked.what = "profile" THEN None ELSE asked.profile
<1>2. Switched({}, profile) \in SUBSET {"printer", "imageproc"}
    BY <1>1 DEF Switched, Profiles
<1>3. FreshConfig(asked) \in Configurations /\ FreshConfig(asked).rest = None
    BY <1>1, <1>2 DEF FreshConfig, Configurations, Storages
<1> QED
    BY <1>3 DEF Rest, Distinct

\* The first state satisfies the invariant.
LEMMA InitInvariant == ASSUME Distinct PROVE Init => IInv
<1> SUFFICES ASSUME Init PROVE IInv
    OBVIOUS
<1>1. TypeOK
    <2>1. Defaults \in Configurations
        BY DEF Defaults, Configurations, Storages, Urls
    <2>2. 0 \in 0..MaxEdits
        BY DEF Distinct
    <2> QED
        BY <2>1, <2>2 DEF Init, TypeOK
<1>2. \A s \in Submits : ~Pending(s)
    BY DEF Init, Pending, Busy
<1>3. Rest(file) = owned
    BY DEF Init, Rest
<1> QED
    BY <1>1, <1>2, <1>3 DEF IInv, ProfilesFitFiles, OwnersRest

\* The step of one request keeps the invariant.
LEMMA RequestStep ==
    ASSUME Distinct, IInv, NEW s \in Submits,
           \/ AskComplete(s) \/ AskProfile(s) \/ LookAgain(s) \/ LookForProfile(s)
           \/ WriteCompletion(s) \/ WriteProfile(s) \/ WriteFails(s) \/ EnsureProject(s)
    PROVE  IInv'
<1> USE DEF IInv
<1>t. \A u \in Submits : Busy(u) => submit[u] \in Progress
    BY DEF TypeOK, Progress, Busy
<1>o. Over \notin Progress /\ None \notin Progress
    <2>1. \A p \in Progress : p.step # "over"
        BY DEF Progress
    <2> QED
        BY <2>1 DEF Over, Distinct
<1>p. submit \in [Submits -> {None, Over} \cup Progress]
    BY DEF TypeOK, Progress
<1>a. CASE AskComplete(s) \/ AskProfile(s)
    <2>1. PICK asked \in Completions \cup ProfileRequests : Begin(s, asked)
        BY <1>a DEF AskComplete, AskProfile
    <2>2. submit'[s] \in Progress /\ submit'[s].step = "look"
        BY <2>1, <1>p DEF Begin, Progress
    <2> QED
        BY <2>1, <2>2, <1>p
        DEF Begin, seen, TypeOK, Progress, ProfilesFitFiles, OwnersRest, Pending, Busy, Rest
<1>b. CASE LookAgain(s)
    <2>1. submit'[s] \in Progress /\ submit'[s].read = file /\ submit'[s].asked.what = "complete"
        BY <1>b, <1>p, <1>t DEF LookAgain, Progress, TypeOK
    <2> QED
        BY <1>b, <2>1, <1>p
        DEF LookAgain, seen, TypeOK, Progress, ProfilesFitFiles, OwnersRest, Pending, Busy, Rest
<1>c. CASE LookForProfile(s)
    <2>1. \/ submit'[s] = Over
          \/ submit'[s] \in Progress /\ submit'[s].read = file /\ file # Odd
        BY <1>c, <1>p, <1>t DEF LookForProfile, Progress, TypeOK
    <2> QED
        BY <1>c, <2>1, <1>p
        DEF LookForProfile, seen, TypeOK, Progress, ProfilesFitFiles, OwnersRest, Pending, Busy, Rest
<1>d. CASE WriteCompletion(s)
    <2>0. Pending(s) /\ submit[s] \in Progress
        BY <1>d, <1>t DEF WriteCompletion, Writes, Pending
    <2> DEFINE old == submit[s].read
               asked == submit[s].asked
    <2>1. asked \in Completions \cup ProfileRequests /\ old \in {None, Odd} \cup Configurations
        BY <2>0 DEF Progress
    <2>2. file' \in Configurations /\ Rest(file') = Rest(old)
        <3>1. CASE old \in {None, Odd}
            BY <1>d, <2>1, <3>1, FreshHasNoRest DEF WriteCompletion, Rest
        <3>2. CASE old \notin {None, Odd}
            BY <1>d, <2>1, <3>2, UpdatedKeepsRest DEF WriteCompletion
        <3> QED
            BY <3>1, <3>2
    <2>3. submit'[s] \in Progress /\ submit'[s].step = "project"
        BY <1>d, <1>p, <2>0 DEF WriteCompletion, Progress
    <2>4. UNCHANGED <<running, project, edits, owned, overlapped>>
        BY <1>d DEF WriteCompletion
    <2>5. \A u \in Submits \ {s} : submit'[u] = submit[u]
        BY <1>d, <1>p DEF WriteCompletion
    <2>6. submit' \in [Submits -> {None, Over} \cup Progress]
        BY <1>d, <2>3, <1>p DEF WriteCompletion
    <2>7. TypeOK'
        BY <2>2, <2>4, <2>6 DEF TypeOK, Progress
    <2>8. ProfilesFitFiles' /\ OwnersRest'
        BY <2>0, <2>2, <2>3, <2>4, <2>5 DEF ProfilesFitFiles, OwnersRest, Pending, Busy, Rest
    <2> QED
        BY <2>7, <2>8
<1>e. CASE WriteProfile(s)
    <2>0. Pending(s) /\ submit[s] \in Progress /\ submit[s].asked.what = "profile"
        BY <1>e, <1>t DEF WriteProfile, Writes, Pending
    <2> DEFINE old == submit[s].read
               asked == submit[s].asked
    <2>1. /\ asked \in Completions \cup ProfileRequests
          /\ old \in {None} \cup Configurations
        BY <2>0 DEF Progress, ProfilesFitFiles
    <2>2. file' \in Configurations /\ Rest(file') = Rest(old)
        <3>1. CASE old = None
            BY <1>e, <2>1, <3>1, FreshHasNoRest DEF WriteProfile, Rest
        <3>2. CASE old # None
            BY <1>e, <2>1, <3>2, UpdatedKeepsRest DEF WriteProfile
        <3> QED
            BY <3>1, <3>2
    <2>3. \/ submit'[s] = Over
          \/ submit'[s] \in Progress /\ submit'[s].step = "reread"
        BY <1>e, <1>p, <2>0 DEF WriteProfile, Progress
    <2>4. UNCHANGED <<running, project, edits, owned, overlapped>>
        BY <1>e DEF WriteProfile
    <2>5. \A u \in Submits \ {s} : submit'[u] = submit[u]
        BY <1>e, <1>p DEF WriteProfile
    <2>6. submit' \in [Submits -> {None, Over} \cup Progress]
        BY <1>e, <2>3, <1>p DEF WriteProfile
    <2>7. TypeOK'
        BY <2>2, <2>4, <2>6 DEF TypeOK, Progress
    <2>8. ProfilesFitFiles' /\ OwnersRest'
        BY <2>0, <2>2, <2>3, <2>4, <2>5 DEF ProfilesFitFiles, OwnersRest, Pending, Busy, Rest
    <2> QED
        BY <2>7, <2>8
<1>f. CASE WriteFails(s) \/ EnsureProject(s)
    <2>1. submit' = [submit EXCEPT ![s] = Over] /\ UNCHANGED <<file, running, edits, seen>>
        BY <1>f DEF WriteFails, EnsureProject
    <2>2. project' \in BOOLEAN
        BY <1>f DEF WriteFails, EnsureProject, TypeOK
    <2> QED
        BY <2>1, <2>2, <1>p
        DEF seen, TypeOK, Progress, ProfilesFitFiles, OwnersRest, Pending, Busy, Rest
<1> QED
    BY <1>a, <1>b, <1>c, <1>d, <1>e, <1>f

\* The owner's own steps keep it.
LEMMA OwnerStep ==
    ASSUME Distinct, IInv, Edit \/ RestartOnFile
    PROVE  IInv'
<1> USE DEF IInv
<1>1. CASE Edit
    <2>1. PICK c \in {None, Odd} \cup Edits :
              /\ file' = c
              /\ owned' = IF c \in {None, Odd} THEN None ELSE c.rest
        BY <1>1 DEF Edit
    <2>2. /\ UNCHANGED <<running, submit, project>>
          /\ ~overlapped' => \A s \in Submits : ~Pending(s)
        BY <1>1 DEF Edit, Pending
    <2>5. edits' \in 0..MaxEdits
        BY <1>1 DEF Edit, TypeOK, Distinct
    <2>3. TypeOK'
        BY <2>1, <2>2, <2>5 DEF TypeOK, Distinct
    <2>4. Rest(file') = owned'
        BY <2>1 DEF Rest
    <2> QED
        BY <2>2, <2>3, <2>4 DEF ProfilesFitFiles, OwnersRest, Pending, Busy, Rest
<1>2. CASE RestartOnFile
    <2>1. running' \in {None} \cup Configurations
        <3>1. Defaults \in Configurations
            BY DEF Defaults, Configurations, Storages, Urls
        <3>2. Loads(file) => file # Odd
            BY DEF Loads
        <3> QED
            BY <1>2, <3>1, <3>2 DEF RestartOnFile, TypeOK
    <2>2. edits' \in 0..MaxEdits
        BY <1>2 DEF RestartOnFile, TypeOK, Distinct
    <2>3. \A s \in Submits : submit'[s] \in {submit[s], Over}
        BY <1>2 DEF RestartOnFile
    <2>4. UNCHANGED <<file, project, owned, overlapped>>
        BY <1>2 DEF RestartOnFile
    <2>5. TypeOK'
        <3>1. submit' \in [Submits -> {None, Over} \cup Progress]
            BY <1>2, <2>3 DEF RestartOnFile, TypeOK, Progress
        <3> QED
            BY <2>1, <2>2, <2>4, <3>1 DEF TypeOK, Progress
    <2> QED
        BY <2>3, <2>4, <2>5 DEF ProfilesFitFiles, OwnersRest, Pending, Busy, Rest
<1> QED
    BY <1>1, <1>2

\* The invariant holds in every reachable state.
THEOREM Invariance == ASSUME Distinct PROVE Spec => []IInv
<1>1. Init => IInv
    BY InitInvariant
<1>2. IInv /\ [Next]_wizardVars => IInv'
    <2> SUFFICES ASSUME IInv, [Next]_wizardVars PROVE IInv'
        OBVIOUS
    <2>1. CASE Next
        BY <2>1, RequestStep, OwnerStep DEF Next
    <2>2. CASE UNCHANGED wizardVars
        BY <2>2 DEF wizardVars, seen, IInv, TypeOK, ProfilesFitFiles, OwnersRest, Pending, Busy, Rest
    <2> QED
        BY <2>1, <2>2
<1> QED
    BY <1>1, <1>2, PTL DEF Spec

\* "sections the wizard does not know about survive untouched": writeConfigFile and
\* applyProfile, with any number of requests at a time, keep the owner's sections as he
\* last left them, unless he changed the file between a request's read and its rename.
THEOREM SectionsSurvive == ASSUME Distinct PROVE Spec => []OwnersSectionsKept
<1>1. IInv => OwnersSectionsKept
    BY DEF IInv, OwnersRest, OwnersSectionsKept, Rest
<1> QED
    BY <1>1, Invariance, PTL
-----------------------------------------------------------------------------
(* What the wizard leaves loads. *)

\* The next start does not refuse it.
Accepted(c) == c \notin {None, Odd} => Loads(c)

\* The file, and what a request read of it, load; requests ask for storage and a URL that were
\* checked, by validateComplete or by the start of the process that they run on.
LoadInv ==
    /\ ~spoilt => Accepted(file) /\ \A s \in Submits : Pending(s) => Accepted(submit[s].read)
    /\ running # None => Valid(running)
    /\ \A s \in Submits : Busy(s) =>
           IF submit[s].asked.what = "profile" THEN Valid(submit[s].asked)
                                               ELSE Checked(submit[s].asked)

\* A profile has the printer and the image processing on, or both off: a fresh file has
\* what the printer requires, and an update leaves it so.
LEMMA SwitchedTogether ==
    ASSUME Distinct, NEW off \in SUBSET {"printer", "imageproc"},
           NEW profile \in {None} \cup Profiles, "imageproc" \in off => "printer" \in off
    PROVE  "imageproc" \in Switched(off, profile) => "printer" \in Switched(off, profile)
<1>1. CASE profile = None
    BY <1>1 DEF Switched
<1>2. CASE profile # None
    <2>1. PICK on \in BOOLEAN : profile = [k \in {"printer", "imageproc"} |-> on]
        BY <1>2 DEF Profiles
    <2>2. DOMAIN profile = {"printer", "imageproc"} /\ profile["printer"] = profile["imageproc"]
        BY <2>1
    <2> QED
        BY <1>2, <2>2 DEF Switched
<1> QED
    BY <1>1, <1>2

LEMMA UpdatedLoads ==
    ASSUME Distinct, NEW c \in Configurations, Loads(c),
           NEW asked \in Completions \cup ProfileRequests,
           asked.what = "profile" \/ Valid(asked)
    PROVE  Accepted(Updated(c, asked))
<1>1. asked.profile \in {None} \cup Profiles
    BY DEF Completions, ProfileRequests
<1>2. c.off \in SUBSET {"printer", "imageproc"} /\ Valid(c)
    BY DEF Configurations, Loads
<1>3. "imageproc" \in c.off => "printer" \in c.off
    BY DEF Loads
<1>4. Updated(c, asked).off = Switched(c.off, asked.profile)
    BY DEF Updated, Configurations
<1>5. Valid(Updated(c, asked))
    BY <1>2 DEF Updated, Configurations, Valid
<1>6. Updated(c, asked) # Odd
    BY UpdatedKeepsRest DEF Distinct
<1> QED
    BY <1>1, <1>2, <1>3, <1>4, <1>5, <1>6, SwitchedTogether DEF Loads, Accepted

LEMMA FreshLoads ==
    ASSUME Distinct, NEW asked \in Completions \cup ProfileRequests,
           Valid(asked), asked.storage # "untyped"
    PROVE  Accepted(FreshConfig(asked))
<1> DEFINE profile == IF asked.what = "profile" THEN None ELSE asked.profile
<1>1. profile \in {None} \cup Profiles
    BY DEF Completions, ProfileRequests
<1>2. /\ FreshConfig(asked).off = Switched({}, profile)
      /\ FreshConfig(asked).storage = asked.storage /\ FreshConfig(asked).url = asked.url
    BY DEF FreshConfig
<1>3. FreshConfig(asked) # Odd
    BY FreshHasNoRest DEF Distinct
<1> HIDE DEF profile
<1>4. "imageproc" \in Switched({}, profile) => "printer" \in Switched({}, profile)
    BY <1>1, SwitchedTogether
<1> QED
    BY <1>2, <1>3, <1>4 DEF Loads, Accepted, Valid

\* The step of one request keeps what is loaded.
LEMMA RequestLoads ==
    ASSUME Distinct, IInv, LoadInv, NEW s \in Submits,
           \/ AskComplete(s) \/ AskProfile(s) \/ LookAgain(s) \/ LookForProfile(s)
           \/ WriteCompletion(s) \/ WriteProfile(s) \/ WriteFails(s) \/ EnsureProject(s)
    PROVE  LoadInv'
<1>t. \A u \in Submits : Busy(u) => submit[u] \in Progress
    BY DEF IInv, TypeOK, Progress, Busy
<1>p. submit \in [Submits -> {None, Over} \cup Progress]
    BY DEF IInv, TypeOK, Progress
<1>a. CASE AskComplete(s) \/ AskProfile(s)
    <2>1. PICK asked \in Completions \cup ProfileRequests :
              /\ Begin(s, asked)
              /\ IF asked.what = "profile" THEN Valid(asked) ELSE Checked(asked)
        <3>1. CASE AskComplete(s)
            BY <3>1 DEF AskComplete, Completions
        <3>2. CASE AskProfile(s)
            BY <3>2 DEF AskProfile, ProfileRequests, LoadInv, Valid
        <3> QED
            BY <1>a, <3>1, <3>2
    <2>2. submit'[s].asked = asked /\ submit'[s].step = "look"
        BY <2>1, <1>p DEF Begin
    <2>3. UNCHANGED <<file, running, spoilt>> /\ \A u \in Submits \ {s} : submit'[u] = submit[u]
        BY <2>1, <1>p DEF Begin, seen
    <2> QED
        BY <2>1, <2>2, <2>3 DEF LoadInv, Pending, Busy
<1>b. CASE LookAgain(s) \/ LookForProfile(s)
    <2>1. /\ Busy(s) /\ UNCHANGED <<file, running, spoilt>>
          /\ \A u \in Submits \ {s} : submit'[u] = submit[u]
        BY <1>b, <1>p DEF LookAgain, LookForProfile, seen
    <2>2. \/ submit'[s] = Over
          \/ submit'[s].asked = submit[s].asked /\ submit'[s].read = file
        BY <1>b, <1>p, <1>t DEF LookAgain, LookForProfile, Progress
    <2> QED
        BY <2>1, <2>2 DEF LoadInv, Pending, Busy
<1>c. CASE WriteCompletion(s)
    <2> DEFINE old == submit[s].read
               asked == submit[s].asked
    <2>1. Pending(s) /\ asked.what = "complete" /\ submit[s] \in Progress
        BY <1>c, <1>t DEF WriteCompletion, Writes, Pending
    <2>2. asked \in Completions \cup ProfileRequests /\ old \in {None, Odd} \cup Configurations
        BY <2>1 DEF Progress
    <2>3. /\ file' = IF old \in {None, Odd} THEN FreshConfig(asked) ELSE Updated(old, asked)
          /\ ~spoilt' => ~spoilt /\ asked.storage # "host" /\ asked.url # "upper"
          /\ running' = running
          /\ \A u \in Submits \ {s} : submit'[u] = submit[u]
        BY <1>c, <1>p DEF WriteCompletion
    <2>4. submit'[s].asked = asked /\ submit'[s].step = "project"
        BY <1>c, <1>p, <2>1 DEF WriteCompletion, Progress
    <2>5. Checked(asked) /\ (~spoilt => Accepted(old))
        BY <2>1 DEF LoadInv, Pending
    <2>6. ~spoilt' => Accepted(file')
        <3> SUFFICES ASSUME ~spoilt' PROVE Accepted(file')
            OBVIOUS
        <3>1. ~spoilt /\ Valid(asked) /\ asked.storage # "untyped"
            BY <2>3, <2>5 DEF Checked, Valid
        <3>2. CASE old \in {None, Odd}
            BY <2>2, <2>3, <3>1, <3>2, FreshLoads
        <3>3. CASE old \notin {None, Odd}
            <4>1. Loads(old)
                BY <2>5, <3>1, <3>3 DEF Accepted
            <4> QED
                BY <2>2, <2>3, <3>1, <3>3, <4>1, UpdatedLoads
        <3> QED
            BY <3>2, <3>3
    <2> QED
        BY <2>1, <2>3, <2>4, <2>5, <2>6 DEF LoadInv, Pending, Busy
<1>d. CASE WriteProfile(s)
    <2> DEFINE old == submit[s].read
               asked == submit[s].asked
    <2>1. Pending(s) /\ asked.what = "profile" /\ submit[s] \in Progress
        BY <1>d, <1>t DEF WriteProfile, Writes, Pending
    <2>2. asked \in Completions \cup ProfileRequests /\ old \in {None} \cup Configurations
        BY <2>1 DEF Progress, IInv, ProfilesFitFiles
    <2>3. /\ file' = IF old = None THEN FreshConfig(asked) ELSE Updated(old, asked)
          /\ ~spoilt' => ~spoilt /\ (old = None => asked.storage # "untyped")
          /\ running' = running
          /\ \A u \in Submits \ {s} : submit'[u] = submit[u]
        BY <1>d, <1>p DEF WriteProfile
    <2>4. \/ submit'[s] = Over
          \/ submit'[s].asked = asked /\ submit'[s].step = "reread"
        BY <1>d, <1>p, <2>1 DEF WriteProfile, Progress
    <2>5. Valid(asked) /\ (~spoilt => Accepted(old))
        BY <2>1 DEF LoadInv, Pending
    <2>6. ~spoilt' => Accepted(file')
        <3> SUFFICES ASSUME ~spoilt' PROVE Accepted(file')
            OBVIOUS
        <3>1. CASE old = None
            BY <2>2, <2>3, <2>5, <3>1, FreshLoads
        <3>2. CASE old # None
            <4>1. Loads(old) /\ old \in Configurations
                BY <2>2, <2>3, <2>5, <3>2 DEF Accepted, Distinct
            <4> QED
                BY <2>1, <2>2, <2>3, <3>2, <4>1, UpdatedLoads
        <3> QED
            BY <3>1, <3>2
    <2> QED
        BY <2>1, <2>3, <2>4, <2>5, <2>6 DEF LoadInv, Pending, Busy
<1>e. CASE WriteFails(s) \/ EnsureProject(s)
    <2>1. submit' = [submit EXCEPT ![s] = Over] /\ UNCHANGED <<file, running, spoilt>>
        BY <1>e DEF WriteFails, EnsureProject, seen
    <2> QED
        BY <2>1, <1>p DEF LoadInv, Pending, Busy
<1> QED
    BY <1>a, <1>b, <1>c, <1>d, <1>e

\* The owner's own steps keep it: a file of his that does not load spoils.
LEMMA OwnerLoads ==
    ASSUME Distinct, IInv, LoadInv, Edit \/ RestartOnFile
    PROVE  LoadInv'
<1>1. CASE Edit
    <2>1. /\ UNCHANGED <<running, submit>>
          /\ ~spoilt' => ~spoilt /\ Accepted(file')
        BY <1>1 DEF Edit, Accepted
    <2> QED
        BY <2>1 DEF LoadInv, Pending, Busy
<1>2. CASE RestartOnFile
    <2>1. UNCHANGED <<file, spoilt>> /\ \A s \in Submits : submit'[s] \in {submit[s], Over}
        BY <1>2 DEF RestartOnFile
    <2>2. running' # None => Valid(running')
        BY <1>2 DEF RestartOnFile, Defaults, Valid, Loads
    <2> QED
        BY <2>1, <2>2 DEF LoadInv, Pending, Busy
<1> QED
    BY <1>1, <1>2

\* Neither writeConfigFile nor applyProfile, with any number of requests at a time, makes a
\* file that config.Load or the printer's dependency refuses at the next start, but for an
\* endpoint that is not a URL, a scheme in capitals and a profile for a file that is gone
\* (WizardFilesLoad).
THEOREM FilesLoad == ASSUME Distinct PROVE Spec => []WizardFilesLoad
<1>1. Init => LoadInv
    BY DEF Init, LoadInv, Accepted, Defaults, Valid, Pending, Busy
<1>2. IInv /\ LoadInv /\ [Next]_wizardVars => LoadInv'
    <2> SUFFICES ASSUME IInv, LoadInv, [Next]_wizardVars PROVE LoadInv'
        OBVIOUS
    <2>1. CASE Next
        BY <2>1, RequestLoads, OwnerLoads DEF Next
    <2>2. CASE UNCHANGED wizardVars
        BY <2>2 DEF wizardVars, seen, LoadInv, Pending, Busy
    <2> QED
        BY <2>1, <2>2
<1>3. LoadInv => WizardFilesLoad
    BY DEF LoadInv, Accepted, WizardFilesLoad
<1> QED
    BY <1>1, <1>2, <1>3, Invariance, PTL DEF Spec
=============================================================================
