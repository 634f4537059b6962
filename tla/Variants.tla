------------------------------ MODULE Variants ------------------------------
(***************************************************************************)
(* The variants a batch is made of (ext/joleuger/batch/expand.go): every   *)
(* choice of one option from each {a,b,c} group of the prompt, for every   *)
(* seed.  A text is a sequence of options, numbered in the order of        *)
(* sort.Strings; the text between two groups is a group of one option.     *)
(***************************************************************************)
EXTENDS Integers, FiniteSets, SequencesExt

CONSTANTS
    Prompts,        \* prompts, each a sequence of groups, each a sequence of options
    SeedFields,     \* [kind |-> "list", of |-> numbers], [kind |-> "range", of |-> <<from, to>>]
    None

VARIABLES
    prompt, seeds,  \* the form, None without one
    variants,       \* what Expand returned: the preview, and the items of the batch
    refused

\* What the proofs ask of the constants (ExtensionsProofs).
VariantsConstants ==
    /\ Prompts \subseteq Seq(Seq(Int))
    /\ SeedFields \subseteq [kind : {"list"}, of : Seq(Int)] \cup [kind : {"range"}, of : Int \X Int]

variantVars == <<prompt, seeds, variants, refused>>

Init == prompt = None /\ seeds = None /\ variants = <<>> /\ refused = FALSE

\* parseSeeds; -1 lets the backend choose, when there is no seed.
ParsedSeeds(field) ==
    IF field.kind = "list" THEN field.of
    ELSE [i \in 1..(field.of[2] - field.of[1] + 1) |-> field.of[1] + i - 1]

SeedList(field) == IF ParsedSeeds(field) = <<>> THEN <<-1>> ELSE ParsedSeeds(field)

\* The places of an element of two nested loops, m turns of the inner one to each of the
\* outer one, and the elements in turn.
Outer(k, m) == ((k - 1) \div m) + 1
Inner(k, m) == ((k - 1) % m) + 1
Pairs(outer, inner) ==
    [k \in 1..(Len(outer) * Len(inner)) |->
        <<outer[Outer(k, Len(inner))], inner[Inner(k, Len(inner))]>>]

\* Every text followed by every option of the next group.
Joined(texts, options) ==
    [k \in DOMAIN Pairs(texts, options) |->
        Append(Pairs(texts, options)[k][1], Pairs(texts, options)[k][2])]

\* The loop of cartesianProduct, over the first m groups.
JoinedUpTo(m, groups) ==
    LET after[n \in 0..m] == IF n = 0 THEN <<<<>>>> ELSE Joined(after[n - 1], groups[n])
    IN  after[m]

\* sort.Strings: a text's place is behind the lesser ones and the equal ones before it.
Before(s, t) == \E i \in DOMAIN s : s[i] < t[i] /\ \A j \in 1..(i - 1) : s[j] = t[j]
NotBehind(texts, i) ==
    {j \in DOMAIN texts : Before(texts[j], texts[i]) \/ (texts[j] = texts[i] /\ j <= i)}
InOrder(texts) ==
    [k \in DOMAIN texts |->
        texts[CHOOSE i \in DOMAIN texts : Cardinality(NotBehind(texts, i)) = k]]

\* Mutant: the last group is left out.
CartesianProductShort(groups) == InOrder(JoinedUpTo(Len(groups) - 1, groups))

CartesianProduct(groups) == InOrder(JoinedUpTo(Len(groups), groups))

\* Expand of the groups extractGroups found; the seeds are the outer loop.
Expanded(groups, field) ==
    LET pairs == Pairs(SeedList(field), CartesianProduct(groups))
    IN  [k \in DOMAIN pairs |-> [prompt |-> pairs[k][2], seed |-> pairs[k][1]]]

\* handleBatchGenerate and handlePreview: an empty group is an error.
ExpandForm ==
    /\ prompt = None
    /\ \E p \in Prompts, field \in SeedFields :
           /\ prompt' = p /\ seeds' = field
           /\ IF <<>> \in ToSet(p) THEN refused' = TRUE /\ UNCHANGED variants
              ELSE variants' = Expanded(p, field) /\ UNCHANGED refused

AnotherForm ==
    /\ prompt # None
    /\ prompt' = None /\ seeds' = None /\ variants' = <<>> /\ refused' = FALSE

Next == ExpandForm \/ AnotherForm

Spec == Init /\ [][Next]_variantVars

-----------------------------------------------------------------------------
(* Properties *)

\* The ways to choose an option of each group, and what a choice says.
Possible ==
    {c \in [DOMAIN prompt -> UNION {DOMAIN prompt[g] : g \in DOMAIN prompt}] :
        \A g \in DOMAIN prompt : c[g] \in DOMAIN prompt[g]}
Says(c) == [g \in DOMAIN prompt |-> prompt[g][c[g]]]

\* A batch has each choice of options with each seed exactly once, an option that is
\* written twice counting twice (Expand, cartesianProduct): no item is lost or made double.
EveryCombinationOnce ==
    prompt # None /\ ~refused =>
        /\ Len(variants) = Cardinality(Possible) * Len(SeedList(seeds))
        /\ \A c \in Possible, s \in ToSet(SeedList(seeds)) :
               Cardinality({i \in DOMAIN variants : variants[i] = [prompt |-> Says(c), seed |-> s]})
               = Cardinality({d \in Possible : Says(d) = Says(c)})
                 * Cardinality({i \in DOMAIN SeedList(seeds) : SeedList(seeds)[i] = s})

=============================================================================
