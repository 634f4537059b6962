---------------------------- MODULE PrinterProofs ----------------------------
(***************************************************************************)
(* Proofs about Printer, for any number of requests and pictures.          *)
(***************************************************************************)
EXTENDS Printer, TLAPS

Temps == Prints \X {"source", "output"}
TempsOf(r) == {<<r, "source">>, <<r, "output">>}

\* A temporary file is never where a picture is stored; the bound is a number.
Apart == Images \cap Temps = {} /\ MaxPrints \in Nat

Request(r) == [image : Images, printer : Printers \cup {"preview"},
               step : {"fetch", "process", "convert", "deliver"},
               own : SUBSET TempsOf(r), file : SUBSET (Images \cup TempsOf(r))]

\* A request is one of its kind, owns temporary files of its own only, and none before it
\* has fetched its picture.
RequestsSound ==
    /\ printing \in [Prints -> UNION {SUBSET Request(r) : r \in Prints}]
    /\ \A r \in Prints : /\ printing[r] \subseteq Request(r)
                         /\ \A g, h \in printing[r] : g = h
                         /\ \A g \in printing[r] : g.step = "fetch" => g.own = {}

TempsSound == temps \subseteq Temps

IInv == RequestsSound /\ TempsSound /\ NoTempLeft /\ StoredPicturesStay

\* The files of a request that returns are those it owns.
LEMMA ReturnStep ==
    ASSUME Apart, IInv, NEW r \in Prints, NEW g \in printing[r], NEW own \in SUBSET TempsOf(r),
           \A f \in temps : f[1] = r => f \in own,
           printing' = [printing EXCEPT ![r] = {}],
           temps' = temps \ own, pictures' = pictures \ own, deleted' = deleted
    PROVE  IInv'
<1> USE DEF IInv
<1>1. RequestsSound'
    BY DEF RequestsSound
<1>2. TempsSound'
    BY DEF TempsSound
<1>3. NoTempLeft'
    <2> SUFFICES ASSUME NEW f \in temps'
                 PROVE  \E h \in printing'[f[1]] : f \in h.own \/ (h.step = "convert" /\ f[2] = "output")
        BY DEF NoTempLeft
    <2>1. f \in temps /\ f[1] # r /\ f[1] \in Prints
        BY DEF TempsSound, Temps
    <2>2. printing'[f[1]] = printing[f[1]]
        BY <2>1 DEF RequestsSound
    <2> QED
        BY <2>1, <2>2 DEF NoTempLeft
<1>4. StoredPicturesStay'
    <2>1. own \subseteq Temps
        BY DEF Temps, TempsOf
    <2>2. pictures \subseteq Images
        BY DEF StoredPicturesStay
    <2> QED
        BY <2>1, <2>2 DEF StoredPicturesStay, Apart
<1> QED
    BY <1>1, <1>2, <1>3, <1>4

\* A request that goes on keeps what it owns, and answers for a file it adds.
LEMMA GoOn ==
    ASSUME IInv, NEW r \in Prints, NEW h \in Request(r), h.step # "fetch",
           NEW new \in SUBSET TempsOf(r),
           printing' = [printing EXCEPT ![r] = {h}],
           temps' = temps \cup new, UNCHANGED <<pictures, deleted>>,
           \A f \in temps' : f[1] = r => f \in h.own \/ (h.step = "convert" /\ f[2] = "output")
    PROVE  IInv'
<1> USE DEF IInv
<1>1. printing'[r] = {h} /\ \A q \in Prints \ {r} : printing'[q] = printing[q]
    BY DEF RequestsSound
<1>2. RequestsSound'
    <2>1. {h} \in UNION {SUBSET Request(q) : q \in Prints}
        OBVIOUS
    <2> QED
        BY <1>1, <2>1 DEF RequestsSound
<1>3. TempsSound'
    BY DEF TempsSound, Temps, TempsOf
<1>4. NoTempLeft'
    <2> SUFFICES ASSUME NEW f \in temps'
                 PROVE  \E k \in printing'[f[1]] : f \in k.own \/ (k.step = "convert" /\ f[2] = "output")
        BY DEF NoTempLeft
    <2>1. f[1] \in Prints
        BY <1>3 DEF TempsSound, Temps
    <2>2. CASE f[1] = r
        BY <2>2, <1>1
    <2>3. CASE f[1] # r
        <3>1. f \in temps
            BY <2>3 DEF TempsOf
        <3> QED
            BY <2>1, <2>3, <3>1, <1>1 DEF NoTempLeft
    <2> QED
        BY <2>2, <2>3
<1> QED
    BY <1>2, <1>3, <1>4 DEF StoredPicturesStay

\* What a request has on disk while it is not converting is what it owns.
LEMMA OwnsItsTemps ==
    ASSUME IInv, NEW r \in Prints, NEW g \in printing[r]
    PROVE  /\ g \in Request(r)
           /\ \A f \in temps : f[1] = r => f \in g.own \/ (g.step = "convert" /\ f[2] = "output")
BY DEF IInv, RequestsSound, NoTempLeft

LEMMA RequestStep ==
    ASSUME Apart, IInv, NEW r \in Prints,
           \/ FetchPath(r) \/ FetchCopy(r) \/ FetchFails(r)
           \/ Process(r) \/ Convert(r) \/ Deliver(r)
    PROVE  IInv'
<1>1. CASE FetchPath(r)
    <2>1. PICK g \in printing[r] :
              /\ g.step = "fetch" /\ g.image \in pictures
              /\ printing' = [printing EXCEPT ![r] = {[g EXCEPT !.step = "process", !.file = {g.image}]}]
              /\ UNCHANGED <<temps, pictures, deleted>>
        BY <1>1 DEF FetchPath
    <2> DEFINE h == [g EXCEPT !.step = "process", !.file = {g.image}]
    <2>2. h \in Request(r) /\ h.step = "process" /\ h.own = g.own
        BY <2>1, OwnsItsTemps DEF Request
    <2> HIDE DEF h
    <2>3. \A f \in temps' : f[1] = r => f \in h.own
        BY <2>1, <2>2, OwnsItsTemps
    <2>4. temps' = temps \cup {} /\ {} \in SUBSET TempsOf(r)
        BY <2>1
    <2>5. printing' = [printing EXCEPT ![r] = {h}]
        BY <2>1 DEF h
    <2> QED
        BY <2>1, <2>2, <2>3, <2>4, <2>5, GoOn
<1>2. CASE FetchCopy(r)
    <2>1. PICK g \in printing[r] :
              /\ g.step = "fetch"
              /\ temps' = temps \cup {<<r, "source">>}
              /\ printing' = [printing EXCEPT ![r] = {[g EXCEPT !.step = "process",
                     !.own = {<<r, "source">>}, !.file = {<<r, "source">>}]}]
              /\ UNCHANGED <<pictures, deleted>>
        BY <1>2 DEF FetchCopy
    <2> DEFINE h == [g EXCEPT !.step = "process", !.own = {<<r, "source">>}, !.file = {<<r, "source">>}]
    <2>2. h \in Request(r) /\ h.step = "process" /\ h.own = {<<r, "source">>}
        BY <2>1, OwnsItsTemps DEF Request, TempsOf
    <2> HIDE DEF h
    <2>3. g.own = {}
        BY <2>1 DEF IInv, RequestsSound
    <2>4. \A f \in temps : f[1] # r
        BY <2>1, <2>3, OwnsItsTemps
    <2>5. printing' = [printing EXCEPT ![r] = {h}] /\ {<<r, "source">>} \in SUBSET TempsOf(r)
        BY <2>1 DEF h, TempsOf
    <2>6. \A f \in temps' : f[1] = r => f \in h.own
        BY <2>1, <2>2, <2>4
    <2> QED
        BY <2>1, <2>2, <2>5, <2>6, GoOn
<1>3. CASE FetchFails(r) \/ Deliver(r)
    <2>1. PICK g \in printing[r] : g.step \in {"fetch", "deliver"} /\ Return(r, g) /\ deleted' = deleted
        BY <1>3 DEF FetchFails, Deliver
    <2>2. g.own \in SUBSET TempsOf(r) /\ \A f \in temps : f[1] = r => f \in g.own
        BY <2>1, OwnsItsTemps DEF Request
    <2> QED
        BY <2>1, <2>2, ReturnStep DEF Return
<1>4. CASE Process(r)
    <2>1. PICK g \in printing[r] :
              /\ g.step = "process"
              /\ \/ /\ printing' = [printing EXCEPT ![r] = {[g EXCEPT !.step = "deliver"]}]
                    /\ UNCHANGED temps
                 \/ /\ temps' = temps \cup {<<r, "output">>}
                    /\ printing' = [printing EXCEPT ![r] = {[g EXCEPT !.step = "convert"]}]
              /\ UNCHANGED <<pictures, deleted>>
        BY <1>4 DEF Process
    <2>2. PICK step \in {"deliver", "convert"}, new \in {{}, {<<r, "output">>}} :
              /\ printing' = [printing EXCEPT ![r] = {[g EXCEPT !.step = step]}]
              /\ temps' = temps \cup new
              /\ step = "deliver" => new = {}
        BY <2>1
    <2> DEFINE h == [g EXCEPT !.step = step]
    <2>3. h \in Request(r) /\ h.step = step /\ h.own = g.own
        BY <2>1, OwnsItsTemps DEF Request
    <2> HIDE DEF h
    <2>4. \A f \in temps' : f[1] = r => f \in h.own \/ (h.step = "convert" /\ f[2] = "output")
        BY <2>1, <2>2, <2>3, OwnsItsTemps
    <2>5. printing' = [printing EXCEPT ![r] = {h}] /\ new \in SUBSET TempsOf(r)
        BY <2>2 DEF h, TempsOf
    <2>6. h.step # "fetch" /\ temps' = temps \cup new /\ UNCHANGED <<pictures, deleted>>
        BY <2>1, <2>2, <2>3
    <2> QED
        BY <2>3, <2>4, <2>5, <2>6, GoOn
<1>5. CASE Convert(r)
    <2>1. PICK g \in printing[r] :
              /\ g.step = "convert"
              /\ \/ /\ printing' = [printing EXCEPT ![r] = {[g EXCEPT !.step = "deliver",
                           !.own = @ \cup {<<r, "output">>}, !.file = {<<r, "output">>}]}]
                    /\ UNCHANGED <<temps, pictures>>
                 \/ Return(r, [g EXCEPT !.own = @ \cup {<<r, "output">>}])
              /\ deleted' = deleted
        BY <1>5 DEF Convert
    <2>2. \A f \in temps : f[1] = r => f \in g.own \cup {<<r, "output">>}
        BY <2>1, OwnsItsTemps DEF IInv, TempsSound, Temps
    <2>3. g \in Request(r) /\ g.own \cup {<<r, "output">>} \in SUBSET TempsOf(r)
        BY OwnsItsTemps DEF Request, TempsOf
    <2>4. CASE /\ printing' = [printing EXCEPT ![r] = {[g EXCEPT !.step = "deliver",
                      !.own = @ \cup {<<r, "output">>}, !.file = {<<r, "output">>}]}]
               /\ UNCHANGED <<temps, pictures>>
        <3> DEFINE h == [g EXCEPT !.step = "deliver", !.own = @ \cup {<<r, "output">>},
                                  !.file = {<<r, "output">>}]
        <3>1. h \in Request(r) /\ h.step = "deliver" /\ h.own = g.own \cup {<<r, "output">>}
            BY <2>3 DEF Request, TempsOf
        <3> HIDE DEF h
        <3>2. printing' = [printing EXCEPT ![r] = {h}] /\ temps' = temps \cup {}
            BY <2>4 DEF h
        <3> QED
            BY <2>1, <2>2, <2>4, <3>1, <3>2, GoOn
    <2>5. CASE Return(r, [g EXCEPT !.own = @ \cup {<<r, "output">>}])
        <3>1. [g EXCEPT !.own = @ \cup {<<r, "output">>}].own = g.own \cup {<<r, "output">>}
            BY <2>3 DEF Request
        <3> QED
            BY <2>1, <2>2, <2>3, <2>5, <3>1, ReturnStep DEF Return
    <2> QED
        BY <2>1, <2>4, <2>5
<1> QED
    BY <1>1, <1>2, <1>3, <1>4, <1>5

\* A request that arrives has nothing on disk.
LEMMA AskStep ==
    ASSUME IInv, NEW r \in Prints, NEW p \in Shop, NEW i \in Images,
           NEW on \in Printers \cup {"preview"}, AskPrint(r, p, i, on)
    PROVE  IInv'
<1> DEFINE g == [image |-> i, printer |-> on, step |-> "fetch", own |-> {}, file |-> {}]
<1>1. printing' = [printing EXCEPT ![r] = {g}] /\ UNCHANGED <<pictures, temps, deleted>> /\ printing[r] = {}
    BY DEF AskPrint
<1>2. g \in Request(r) /\ g.own = {}
    BY DEF Request
<1> HIDE DEF g
<1>3. RequestsSound'
    <2>1. {g} \in UNION {SUBSET Request(q) : q \in Prints}
        BY <1>2
    <2> QED
        BY <1>1, <1>2, <2>1 DEF IInv, RequestsSound
<1>4. NoTempLeft'
    <2>1. \A f \in temps : f[1] # r
        BY <1>1 DEF IInv, NoTempLeft
    <2> QED
        BY <1>1, <2>1 DEF IInv, NoTempLeft, RequestsSound
<1> QED
    BY <1>1, <1>3, <1>4 DEF IInv, TempsSound, StoredPicturesStay

\* The invariant holds in every reachable state.
THEOREM Invariance == ASSUME Apart PROVE Spec => []IInv
<1>1. Init => IInv
    <2> SUFFICES ASSUME Init PROVE IInv
        OBVIOUS
    <2>1. RequestsSound
        <3>1. \A r \in Prints : {} \in UNION {SUBSET Request(q) : q \in Prints}
            OBVIOUS
        <3>2. printing = [r \in Prints |-> {}]
            BY DEF Init
        <3> QED
            BY <3>1, <3>2 DEF RequestsSound
    <2> QED
        BY <2>1 DEF Init, IInv, TempsSound, NoTempLeft, StoredPicturesStay
<1>2. IInv /\ [Next]_printVars => IInv'
    <2> SUFFICES ASSUME IInv, [Next]_printVars PROVE IInv'
        OBVIOUS
    <2>1. CASE Configure \/ UNCHANGED printVars
        BY <2>1 DEF Configure, printVars, IInv, RequestsSound, TempsSound, NoTempLeft, StoredPicturesStay
    <2>2. ASSUME NEW r \in Prints, NEW p \in Shop, NEW i \in Images,
                 (\E on \in Printers : AskPrint(r, p, i, on)) \/ AskPreview(r, p, i)
          PROVE  IInv'
        BY <2>2, AskStep DEF AskPreview
    <2>3. ASSUME NEW i \in Images, DeletePicture(i)
          PROVE  IInv'
        <3>1. StoredPicturesStay'
            BY <2>3 DEF DeletePicture, IInv, StoredPicturesStay
        <3>2. UNCHANGED <<printing, temps>>
            BY <2>3 DEF DeletePicture
        <3> QED
            BY <3>1, <3>2 DEF IInv, RequestsSound, TempsSound, NoTempLeft
    <2> QED
        BY <2>1, <2>2, <2>3, RequestStep DEF Next
<1> QED
    BY <1>1, <1>2, PTL DEF Spec

\* printHandler, previewHandler and GmProcessor.Process leave no temporary file behind,
\* however many requests run at a time and wherever they fail.
THEOREM NoneLeft == ASSUME Apart PROVE Spec => []NoTempLeft
<1>1. IInv => NoTempLeft
    BY DEF IInv
<1> QED
    BY <1>1, Invariance, PTL

\* No request removes a stored picture, although the file back end's LocalFile hands out
\* the path of the picture itself.
THEOREM PicturesStay == ASSUME Apart PROVE Spec => []StoredPicturesStay
<1>1. IInv => StoredPicturesStay
    BY DEF IInv
<1> QED
    BY <1>1, Invariance, PTL

\* What else the types say: the options, the bound, and at most one file at a time.
Options ==
    /\ serves \in {"", "path", "copy"} /\ engine \in Engines
    /\ asked \in 0..MaxPrints

Single(g) == \A e, f \in g.file : e = f
OneFile == \A r \in Prints : \A g \in printing[r] : Single(g)

\* A step of a request goes on with the request's file or with another one.
LEMMA OneFileStep ==
    ASSUME IInv, OneFile, NEW r \in Prints,
           \/ \E p \in Shop, i \in Images, on \in Printers \cup {"preview"} : AskPrint(r, p, i, on)
           \/ FetchPath(r) \/ FetchCopy(r) \/ FetchFails(r)
           \/ Process(r) \/ Convert(r) \/ Deliver(r)
    PROVE  OneFile'
<1>1. printing \in [Prints -> UNION {SUBSET Request(q) : q \in Prints}]
    BY DEF IInv, RequestsSound
<1>2. \A q \in Prints : \A g \in printing[q] : g \in Request(q) /\ Single(g)
    BY DEF IInv, RequestsSound, OneFile
<1>3. ASSUME printing' = [printing EXCEPT ![r] = {}] PROVE OneFile'
  <2>1. \A q \in Prints : printing'[q] = IF q = r THEN {} ELSE printing[q]
    BY <1>1, <1>3
  <2> QED
    BY <1>2, <2>1, Zenon DEF OneFile
<1>4. ASSUME NEW h, printing' = [printing EXCEPT ![r] = {h}], Single(h)
      PROVE  OneFile'
  <2>1. \A q \in Prints : printing'[q] = IF q = r THEN {h} ELSE printing[q]
    BY <1>1, <1>4
  <2>2. ASSUME NEW q \in Prints, NEW g \in printing'[q] PROVE Single(g)
    <3>1. CASE q = r
      <4>1. g = h
        BY <2>1, <2>2, <3>1
      <4> QED
        BY <1>4, <4>1
    <3>2. CASE q # r
      <4>1. g \in printing[q]
        BY <2>1, <2>2, <3>2
      <4> QED
        BY <1>2, <4>1
    <3> QED
      BY <3>1, <3>2
  <2> QED
    BY <2>2, Zenon DEF OneFile
<1>5. CASE \E p \in Shop, i \in Images, on \in Printers \cup {"preview"} : AskPrint(r, p, i, on)
  <2>1. PICK p \in Shop, i \in Images, on \in Printers \cup {"preview"} : AskPrint(r, p, i, on)
    BY <1>5
  <2> DEFINE h == [image |-> i, printer |-> on, step |-> "fetch", own |-> {}, file |-> {}]
  <2>2. printing' = [printing EXCEPT ![r] = {h}]
    BY <2>1 DEF AskPrint
  <2>3. Single(h)
    <3>1. h.file = {}
      OBVIOUS
    <3> QED
      BY <3>1 DEF Single
  <2> HIDE DEF h
  <2> QED
    BY <1>4, <2>2, <2>3
<1>6. CASE FetchPath(r)
  <2>1. PICK g \in printing[r] :
            printing' = [printing EXCEPT
                ![r] = {[g EXCEPT !.step = "process", !.file = {g.image}]}]
    BY <1>6 DEF FetchPath
  <2> DEFINE h == [g EXCEPT !.step = "process", !.file = {g.image}]
  <2>2. Single(h)
    <3>1. h.file = {g.image}
      BY <1>2 DEF Request
    <3> QED
      BY <3>1 DEF Single
  <2>3. printing' = [printing EXCEPT ![r] = {h}]
    BY <2>1
  <2> HIDE DEF h
  <2> QED
    BY <1>4, <2>2, <2>3
<1>7. CASE FetchCopy(r)
  <2>1. PICK g \in printing[r] :
            printing' = [printing EXCEPT ![r] = {[g EXCEPT !.step = "process",
                !.own = {<<r, "source">>}, !.file = {<<r, "source">>}]}]
    BY <1>7 DEF FetchCopy
  <2> DEFINE h == [g EXCEPT !.step = "process", !.own = {<<r, "source">>},
                            !.file = {<<r, "source">>}]
  <2>2. Single(h)
    <3>1. h.file = {<<r, "source">>}
      BY <1>2 DEF Request
    <3> QED
      BY <3>1 DEF Single
  <2>3. printing' = [printing EXCEPT ![r] = {h}]
    BY <2>1
  <2> HIDE DEF h
  <2> QED
    BY <1>4, <2>2, <2>3
<1>8. CASE FetchFails(r) \/ Deliver(r)
  <2>1. printing' = [printing EXCEPT ![r] = {}]
    BY <1>8 DEF FetchFails, Deliver, Return
  <2> QED
    BY <1>3, <2>1
<1>9. CASE Process(r)
  <2>1. PICK g \in printing[r], s \in {"deliver", "convert"} :
            printing' = [printing EXCEPT ![r] = {[g EXCEPT !.step = s]}]
    BY <1>9 DEF Process
  <2> DEFINE h == [g EXCEPT !.step = s]
  <2>2. h.file = g.file
    BY <1>2 DEF Request
  <2>3. Single(h)
    BY <1>2, <2>2 DEF Single
  <2>4. printing' = [printing EXCEPT ![r] = {h}]
    BY <2>1
  <2> HIDE DEF h
  <2> QED
    BY <1>4, <2>3, <2>4
<1>10. CASE Convert(r)
  <2>1. PICK g \in printing[r] :
            \/ printing' = [printing EXCEPT ![r] = {[g EXCEPT !.step = "deliver",
                   !.own = @ \cup {<<r, "output">>}, !.file = {<<r, "output">>}]}]
            \/ printing' = [printing EXCEPT ![r] = {}]
    BY <1>10 DEF Convert, Return
  <2> DEFINE h == [g EXCEPT !.step = "deliver", !.own = @ \cup {<<r, "output">>},
                            !.file = {<<r, "output">>}]
  <2>2. Single(h)
    <3>1. h.file = {<<r, "output">>}
      BY <1>2 DEF Request
    <3> QED
      BY <3>1 DEF Single
  <2>3. printing' = [printing EXCEPT ![r] = {h}] \/ printing' = [printing EXCEPT ![r] = {}]
    BY <2>1
  <2> HIDE DEF h
  <2> QED
    BY <1>3, <1>4, <2>2, <2>3
<1> QED
    BY <1>5, <1>6, <1>7, <1>8, <1>9, <1>10

\* The printer keeps its types.
THEOREM PrinterTypes == ASSUME Apart PROVE Spec => []TypeOK
<1>0. MaxPrints \in Nat
    BY DEF Apart
<1>1. Init => Options /\ OneFile
  <2> SUFFICES ASSUME Init PROVE Options /\ OneFile
    OBVIOUS
  <2>1. asked = 0 /\ printing = [r \in Prints |-> {}]
    BY Zenon DEF Init
  <2>2. serves \in {"", "path", "copy"} /\ engine \in Engines
    BY Zenon DEF Init, Engines
  <2>3. asked \in 0..MaxPrints
    BY <1>0, <2>1
  <2>4. OneFile
    BY <2>1 DEF OneFile
  <2> QED
    BY <2>2, <2>3, <2>4, Zenon DEF Options
<1>2. IInv /\ Options /\ OneFile /\ [Next]_printVars => Options' /\ OneFile'
  <2> SUFFICES ASSUME IInv, Options, OneFile, [Next]_printVars
               PROVE  Options' /\ OneFile'
    OBVIOUS
  <2>1. CASE Configure
    BY <2>1 DEF Configure, Options, OneFile
  <2>2. ASSUME NEW r \in Prints, NEW p \in Shop, NEW i \in Images,
               NEW on \in Printers \cup {"preview"}, AskPrint(r, p, i, on)
        PROVE  Options' /\ OneFile'
    <3>1. asked < MaxPrints /\ asked' = asked + 1 /\ UNCHANGED <<serves, engine>>
      BY <2>2 DEF AskPrint
    <3>2. asked' \in 0..MaxPrints
      <4>1. asked \in 0..MaxPrints
        BY Zenon DEF Options
      <4> QED
        BY <1>0, <3>1, <4>1
    <3> QED
      BY <2>2, <3>1, <3>2, OneFileStep DEF Options
  <2>3. ASSUME NEW r \in Prints, \/ FetchPath(r) \/ FetchCopy(r) \/ FetchFails(r)
                                 \/ Process(r) \/ Convert(r) \/ Deliver(r)
        PROVE  Options' /\ OneFile'
    <3>1. UNCHANGED <<serves, engine, asked>>
      BY <2>3 DEF FetchPath, FetchCopy, FetchFails, Process, Convert, Deliver
    <3> QED
      BY <2>3, <3>1, OneFileStep DEF Options
  <2>4. CASE \E i \in Images : DeletePicture(i)
    BY <2>4 DEF DeletePicture, Options, OneFile
  <2>5. CASE UNCHANGED printVars
    BY <2>5 DEF printVars, Options, OneFile
  <2> QED
    BY <2>1, <2>2, <2>3, <2>4, <2>5 DEF Next, AskPreview
<1>3. IInv /\ Options /\ OneFile => TypeOK
  <2> SUFFICES ASSUME IInv, Options, OneFile PROVE TypeOK
    OBVIOUS
  <2>1. pictures \subseteq Images /\ deleted \subseteq Images
    BY DEF IInv, StoredPicturesStay
  <2>2. temps \subseteq Prints \X {"source", "output"}
    BY DEF IInv, TempsSound, Temps
  <2>3. DOMAIN printing = Prints
    BY DEF IInv, RequestsSound
  <2>4. \A r \in Prints : \A g \in printing[r] :
            g.step \in {"fetch", "process", "convert", "deliver"}
    BY DEF IInv, RequestsSound, Request
  <2> QED
    BY <2>1, <2>2, <2>3, <2>4 DEF Options, OneFile, Single, TypeOK
<1> QED
    BY <1>1, <1>2, <1>3, Invariance, PTL DEF Spec
=============================================================================
