------------------------------- MODULE Printer ------------------------------
(***************************************************************************)
(* The files of a print request (ext/joleuger/printer) and of an imageproc *)
(* preview (ext/joleuger/imageproc): the picture is fetched as a local     *)
(* file, brought onto the print canvas when the printer crops, and handed  *)
(* to lp or sent back.  The file storage hands out the path of the stored  *)
(* picture itself, the others a temporary copy with a cleanup.             *)
(***************************************************************************)
EXTENDS Integers

CONSTANTS
    Prints,         \* requests that may be in progress at the same time
    Shop,           \* projects
    OwnerOf,        \* the project of each picture
    MaxPrints       \* requests in all

Images == DOMAIN OwnerOf
\* A configured printer crops or not; one lpstat found is not in the config: raw.
Printers == {"crop", "raw", "discovered"}
Engines == {"gm", "none", "gm missing"}

VARIABLES
    serves,     \* "path" or "copy", what LocalFile hands out; "" before the start
    engine,     \* imageproc engine
    pictures,   \* stored pictures
    temps,      \* temporary files, each <<request, "source" or "output">>
    printing,   \* each request's progress, or {}
    asked,      \* number of requests so far
    deleted     \* history: pictures of elements that were deleted

printVars == <<serves, engine, pictures, temps, printing, asked, deleted>>

TypeOK ==
    /\ serves \in {"", "path", "copy"} /\ engine \in Engines
    /\ pictures \subseteq Images
    /\ temps \subseteq Prints \X {"source", "output"}
    /\ DOMAIN printing = Prints
    /\ \A r \in Prints : \A g \in printing[r] :
           g.step \in {"fetch", "process", "convert", "deliver"} /\ \A e, f \in g.file : e = f
    /\ asked \in 0..MaxPrints /\ deleted \subseteq Images

Init ==
    /\ serves = "" /\ engine = "gm"
    /\ pictures = Images /\ temps = {}
    /\ printing = [r \in Prints |-> {}]
    /\ asked = 0 /\ deleted = {}

\* NewProcessor: the engine is configured; gm may not be on the PATH.
Configure ==
    /\ serves = ""
    /\ serves' \in {"path", "copy"}
    /\ engine' \in Engines
    /\ UNCHANGED <<pictures, temps, printing, asked, deleted>>

\* The element must exist, belong to the project and have an image.
Admissible(project, image) == image \in pictures /\ OwnerOf[image] = project

\* printHandler up to LocalFile.
AskPrint(r, project, image, printer) ==
    /\ serves # "" /\ asked < MaxPrints
    /\ printing[r] = {}
    /\ Admissible(project, image)
    /\ asked' = asked + 1
    /\ printing' = [printing EXCEPT ![r] =
           {[image |-> image, printer |-> printer, step |-> "fetch", own |-> {}, file |-> {}]}]
    /\ UNCHANGED <<serves, engine, pictures, temps, deleted>>

\* previewHandler likewise, for no printer; its params have been validated.
AskPreview(r, project, image) == AskPrint(r, project, image, "preview")

\* A request returns: its deferred calls remove the files it owns.
Return(r, g) ==
    /\ printing' = [printing EXCEPT ![r] = {}]
    /\ temps' = temps \ g.own
    /\ pictures' = pictures \ g.own

\* LocalFile of the file storage: the stored picture's own path, and no cleanup.
FetchPath(r) ==
    \E g \in printing[r] :
        /\ g.step = "fetch" /\ serves = "path"
        /\ g.image \in pictures
        /\ printing' = [printing EXCEPT ![r] = {[g EXCEPT !.step = "process", !.file = {g.image}]}]
        /\ UNCHANGED <<serves, engine, pictures, temps, asked, deleted>>

\* LocalFile of the others: a temporary copy, which the cleanup removes.
FetchCopy(r) ==
    \E g \in printing[r] :
        /\ g.step = "fetch" /\ serves = "copy"
        /\ g.image \in pictures
        /\ temps' = temps \cup {<<r, "source">>}
        /\ printing' = [printing EXCEPT ![r] = {[g EXCEPT !.step = "process",
               !.own = {<<r, "source">>}, !.file = {<<r, "source">>}]}]
        /\ UNCHANGED <<serves, engine, pictures, asked, deleted>>

\* A picture that is gone by now, or a copy that fails (and is removed), ends the request.
FetchFails(r) ==
    \E g \in printing[r] :
        /\ g.step = "fetch"
        /\ Return(r, g)
        /\ UNCHANGED <<serves, engine, asked, deleted>>

\* Only a configured crop printer, or a preview, has the picture processed.
Crops(g) == g.printer \in {"crop", "preview"}

\* Mutant: what Process returned is removed even when it is the source itself.
ProcessOwningResult(r) ==
    \E g \in printing[r] :
        /\ g.step = "process"
        /\ \/ /\ ~Crops(g) \/ engine # "gm"
              /\ printing' = [printing EXCEPT ![r] = {[g EXCEPT !.step = "deliver", !.own = @ \cup g.file]}]
              /\ UNCHANGED temps
           \/ /\ Crops(g) /\ engine = "gm"
              /\ temps' = temps \cup {<<r, "output">>}
              /\ printing' = [printing EXCEPT ![r] = {[g EXCEPT !.step = "convert"]}]
        /\ UNCHANGED <<serves, engine, pictures, asked, deleted>>

\* GmProcessor.Process creates a file for its output; the other engines hand the source
\* back.
Process(r) ==
    \E g \in printing[r] :
        /\ g.step = "process"
        /\ \/ /\ ~Crops(g) \/ engine # "gm"
              /\ printing' = [printing EXCEPT ![r] = {[g EXCEPT !.step = "deliver"]}]
              /\ UNCHANGED temps
           \/ /\ Crops(g) /\ engine = "gm"
              /\ temps' = temps \cup {<<r, "output">>}
              /\ printing' = [printing EXCEPT ![r] = {[g EXCEPT !.step = "convert"]}]
        /\ UNCHANGED <<serves, engine, pictures, asked, deleted>>

\* Mutant: the output of a failed conversion is left to the caller, who never hears of it.
ConvertLeavingOutput(r) ==
    \E g \in printing[r] :
        /\ g.step = "convert"
        /\ \/ /\ printing' = [printing EXCEPT ![r] = {[g EXCEPT !.step = "deliver",
                     !.own = @ \cup {<<r, "output">>}, !.file = {<<r, "output">>}]}]
              /\ UNCHANGED <<temps, pictures>>
           \/ Return(r, g)
        /\ UNCHANGED <<serves, engine, asked, deleted>>

\* gm converts the source; it fails when that is gone by now, or for reasons of its own,
\* and the output is removed then.
Convert(r) ==
    \E g \in printing[r] :
        /\ g.step = "convert"
        /\ \/ /\ g.file \subseteq pictures \cup temps
              /\ printing' = [printing EXCEPT ![r] = {[g EXCEPT !.step = "deliver",
                     !.own = @ \cup {<<r, "output">>}, !.file = {<<r, "output">>}]}]
              /\ UNCHANGED <<temps, pictures>>
           \/ Return(r, [g EXCEPT !.own = @ \cup {<<r, "output">>}])
        /\ UNCHANGED <<serves, engine, asked, deleted>>

\* lp takes the file or fails, a preview sends it back; either way the request ends.
Deliver(r) ==
    \E g \in printing[r] :
        /\ g.step = "deliver"
        /\ Return(r, g)
        /\ UNCHANGED <<serves, engine, asked, deleted>>

\* The element is deleted meanwhile.
DeletePicture(image) ==
    /\ serves # ""
    /\ image \in pictures
    /\ pictures' = pictures \ {image}
    /\ deleted' = deleted \cup {image}
    /\ UNCHANGED <<serves, engine, temps, printing, asked>>

Next ==
    \/ Configure
    \/ \E r \in Prints :
          \/ \E p \in Shop, i \in Images : \/ \E on \in Printers : AskPrint(r, p, i, on)
                                           \/ AskPreview(r, p, i)
          \/ FetchPath(r) \/ FetchCopy(r) \/ FetchFails(r)
          \/ Process(r) \/ Convert(r) \/ Deliver(r)
    \/ \E i \in Images : DeletePicture(i)

Spec == Init /\ [][Next]_printVars

-----------------------------------------------------------------------------
(* Properties *)

\* However a request ends, no temporary file of it is left: each one there is will be
\* removed by the request that made it, or is the output of a conversion in progress.
NoTempLeft ==
    \A f \in temps : \E g \in printing[f[1]] : f \in g.own \/ (g.step = "convert" /\ f[2] = "output")

\* Printing and previewing never remove a stored picture, whatever the storage hands out,
\* whichever engine is there and wherever the request fails.
StoredPicturesStay == pictures \cup deleted = Images
=============================================================================
