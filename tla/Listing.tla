------------------------------- MODULE Listing ------------------------------
(***************************************************************************)
(* Going through the gallery, or the elements API, page by page            *)
(* (server.parseListOptions, data.ListOptions, ElementRepository.          *)
(* ListElements), while elements are made and removed.  Every page is two  *)
(* statements, a count and a SELECT with LIMIT and OFFSET, with no         *)
(* transaction around them.                                                *)
(***************************************************************************)
EXTENDS Integers, Sequences, SequencesExt

CONSTANTS
    Elements,       \* a sequence: the elements in the listing's order, at first
    Newcomers,      \* elements made meanwhile
    PerPages,       \* what per_page says: numbers, or All, or None when it is absent
    All,
    DefaultPerPage,
    GalleryPerPage,
    MaxPerPage,
    None

\* What the proofs ask of the constants (ExtensionsProofs).
ListingConstants ==
    /\ MaxPerPage \in Nat /\ DefaultPerPage \in 1..MaxPerPage /\ GalleryPerPage \in Int
    /\ PerPages \subseteq Int \cup {All, None}
    /\ Elements \in Seq(ToSet(Elements))
    /\ None \notin [page : Int, perPage : Int]

VARIABLES
    rows,           \* the matching rows in the order of the query
    opts,           \* the options of the walk under way, None without one
    counting,       \* whether its next statement is the count
    total,          \* what the last count said
    shown,          \* the elements on the pages so far
    \* History:
    before,         \* rows when the walk began
    gone,           \* a row was removed since the walk began
    slid            \* a row was inserted between a page's count and its SELECT

listVars == <<rows, opts, counting, total, shown, before, gone, slid>>

Over == [page |-> 0, perPage |-> 0]

TypeOK ==
    /\ ToSet(rows) \subseteq ToSet(Elements) \cup Newcomers
    /\ opts \in {None, Over} \cup [page : Nat \ {0}, perPage : 1..MaxPerPage]
    /\ counting \in BOOLEAN
    /\ total \in Nat

Init ==
    /\ rows = Elements
    /\ opts = None /\ counting = TRUE /\ total = 0
    /\ shown = <<>> /\ before = <<>> /\ gone = FALSE /\ slid = FALSE

\* Mutant: what the query says is taken as it is.
ValidatedNot(page, perPage) == [page |-> page, perPage |-> perPage]

\* ListOptions.Validate.
Validated(page, perPage) ==
    [page    |-> IF page < 1 THEN 1 ELSE page,
     perPage |-> IF perPage < 1 THEN DefaultPerPage
                 ELSE IF perPage > MaxPerPage THEN MaxPerPage ELSE perPage]

\* parseListOptions.
ParsedOptions(page, perPage, default) ==
    Validated(page, CASE perPage = All -> MaxPerPage [] perPage = None -> default
                      [] OTHER -> perPage)

\* A page that is missing is the first, and so is one that is out of range.
Open(default) ==
    /\ opts = None
    /\ \E page \in {0, 1}, perPage \in PerPages : opts' = ParsedOptions(page, perPage, default)
    /\ before' = rows
    /\ UNCHANGED <<rows, counting, total, shown, gone, slid>>

\* GET /{project}/gallery, and its JSON twin.
OpenGallery == Open(GalleryPerPage)
OpenElementsJSON == Open(DefaultPerPage)

\* Mutant: the last page is not counted when it is not full.
TotalPagesFull(n) == n \div opts.perPage

TotalPages(n) == n \div opts.perPage + IF n % opts.perPage > 0 THEN 1 ELSE 0

Offset == (opts.page - 1) * opts.perPage

Walking == opts \notin {None, Over}

\* SELECT count(*).
CountRows ==
    /\ Walking /\ counting
    /\ total' = Len(rows)
    /\ counting' = FALSE
    /\ UNCHANGED <<rows, opts, shown, before, gone, slid>>

\* SELECT ... LIMIT ? OFFSET ?, and on to the next page while there is one.
SelectPage ==
    /\ Walking /\ ~counting
    /\ shown' = shown \o SubSeq(rows, Offset + 1,
                                IF Offset + opts.perPage < Len(rows) THEN Offset + opts.perPage
                                                                     ELSE Len(rows))
    /\ opts' = IF opts.page < TotalPages(total) THEN [opts EXCEPT !.page = @ + 1] ELSE Over
    /\ counting' = TRUE
    /\ UNCHANGED <<rows, total, before, gone, slid>>

\* A row appears: first when the newest come first, anywhere when sorted by seed or model.
InsertRow(e) ==
    /\ e \notin ToSet(rows) \cup ToSet(shown)
    /\ \E i \in 1..(Len(rows) + 1) : rows' = InsertAt(rows, i, e)
    /\ slid' = (slid \/ (Walking /\ ~counting))
    /\ UNCHANGED <<opts, counting, total, shown, before, gone>>

\* A row goes, or ceases to match the filters.
RemoveRow(i) ==
    /\ rows' = RemoveAt(rows, i)
    /\ gone' = (gone \/ opts # None)
    /\ UNCHANGED <<opts, counting, total, shown, before, slid>>

Next ==
    \/ OpenGallery \/ OpenElementsJSON \/ CountRows \/ SelectPage
    \/ \E e \in Newcomers : InsertRow(e)
    \/ \E i \in DOMAIN rows : RemoveRow(i)

Spec == Init /\ [][Next]_listVars

-----------------------------------------------------------------------------
(* Properties *)

\* Whoever goes through the pages to the last one has seen every element that was there
\* when he began, unless one was removed meanwhile or one was inserted between a page's
\* count and its rows; and has seen none twice when there was no insertion at all.
WalkMissesNone ==
    opts = Over /\ ~gone /\ ~slid =>
        /\ ToSet(before) \subseteq ToSet(shown)
        /\ rows = before => shown = before

-----------------------------------------------------------------------------
(* The inductive invariant behind it (ExtensionsProofs). *)

\* How many rows the pages so far went over.
ReadSoFar == IF Walking THEN Offset ELSE Len(rows)

\* What was there at first has been shown or is still to come.
ShownOrAhead ==
    \A e \in ToSet(before) \ ToSet(shown) : \E i \in DOMAIN rows : i > ReadSoFar /\ rows[i] = e

\* Rows only come, and without any the pages are the listing in order.
Growing ==
    /\ Len(before) <= Len(rows)
    /\ Len(before) = Len(rows) => rows = before /\ shown = SubSeq(rows, 1, ReadSoFar)

WalkSound ==
    opts # None /\ ~gone /\ ~slid =>
        /\ ReadSoFar \in 0..Len(rows)
        /\ counting \/ (Walking /\ total = Len(rows))
        /\ ShownOrAhead
        /\ Growing

ListInv ==
    /\ TypeOK
    /\ \A s \in {rows, shown, before} : s \in Seq(ToSet(Elements) \cup Newcomers)
    /\ gone \in BOOLEAN /\ slid \in BOOLEAN
    /\ opts = None => counting /\ shown = <<>>
    /\ WalkSound
=============================================================================
