---------------------------- MODULE GalleryProofs ---------------------------
(***************************************************************************)
(* Elements and projects in two places, for every set of projects and      *)
(* elements, any number of requests and any bound on faults: GalleryInv is *)
(* inductive, and the safety properties of Gallery follow from it.         *)
(***************************************************************************)
EXTENDS Gallery, FiniteSetTheorems, SequenceTheorems, TLAPS

\* The three kinds of key are told apart, and so are the keys of one kind.
LEMMA KeyShapes ==
    /\ \A e \in Elements : Json(e) \in Keys /\ Image(e) \in Keys
    /\ \A p \in Projects : Meta(p) \in Keys
    /\ \A e, f \in Elements : Json(e) # Image(f) /\ (Json(e) = Json(f) <=> e = f)
                              /\ (Image(e) = Image(f) <=> e = f)
    /\ \A e \in Elements, p \in Projects : Json(e) # Meta(p) /\ Image(e) # Meta(p)
    /\ \A p, q \in Projects : Meta(p) = Meta(q) <=> p = q
    BY DEF Json, Image, Meta, Keys, ElementKeys

\* A key belongs to its element's project, or to the project it describes.
LEMMA KeyHomes ==
    /\ \A e \in Elements : HomeOfKey(Json(e)) = HomeOf[e] /\ HomeOfKey(Image(e)) = HomeOf[e]
    /\ \A p \in Projects : HomeOfKey(Meta(p)) = p
    /\ \A k \in Keys : \/ \E e \in Elements : k \in {Json(e), Image(e)}
                       \/ \E p \in Projects : k = Meta(p)
<1>1. \A e \in Elements : Json(e)[2] = e /\ Image(e)[2] = e
    BY DEF Json, Image
<1>2. \A p \in Projects : Meta(p)[2] = p
    BY DEF Meta
<1>3. \A p \in Projects : Meta(p) \notin ElementKeys
    BY DEF Json, Image, Meta, ElementKeys
<1>4. \A e \in Elements : Json(e) \in ElementKeys /\ Image(e) \in ElementKeys
    BY DEF ElementKeys
<1>5. \A k \in Keys : \/ \E e \in Elements : k \in {Json(e), Image(e)}
                      \/ \E p \in Projects : k = Meta(p)
    BY DEF Keys, ElementKeys
<1> QED
    BY <1>1, <1>2, <1>3, <1>4, <1>5 DEF HomeOfKey

\* There are finitely many keys.
LEMMA KeysFinite == IsFiniteSet(Keys)
<1>1. IsFiniteSet({Json(e) : e \in Elements})
  <2> DEFINE f == [e \in Elements |-> Json(e)]
             T == {Json(e) : e \in Elements}
  <2>1. f \in Surjection(Elements, T)
    BY DEF Surjection
  <2> QED
    BY <2>1, FS_Surjection, ValuesAssumption
<1>2. IsFiniteSet({Image(e) : e \in Elements})
  <2> DEFINE f == [e \in Elements |-> Image(e)]
             T == {Image(e) : e \in Elements}
  <2>1. f \in Surjection(Elements, T)
    BY DEF Surjection
  <2> QED
    BY <2>1, FS_Surjection, ValuesAssumption
<1>3. IsFiniteSet({Meta(p) : p \in Projects})
  <2> DEFINE f == [p \in Projects |-> Meta(p)]
             T == {Meta(p) : p \in Projects}
  <2>1. f \in Surjection(Projects, T)
    BY DEF Surjection
  <2> QED
    BY <2>1, FS_Surjection, ValuesAssumption
<1> QED
    BY <1>1, <1>2, <1>3, FS_Union DEF Keys, ElementKeys

\* SetToSeq lists every member of a finite set.
LEMMA SetToSeqLists ==
    ASSUME NEW S, IsFiniteSet(S)
    PROVE  /\ Cardinality(S) \in Nat
           /\ SetToSeq(S) \in [1..Cardinality(S) -> S]
           /\ \A x \in S : \E i \in 1..Cardinality(S) : SetToSeq(S)[i] = x
<1> DEFINE n == Cardinality(S)
<1>1. n \in Nat /\ ExistsBijection(1..n, S)
    BY FS_CardinalityType
<1>2. PICK g \in Bijection(1..n, S) : TRUE
    BY <1>1 DEF ExistsBijection
<1>3. g \in [1..n -> S] /\ IsInjective(g)
    BY <1>2 DEF Bijection, Injection, IsInjective
<1>4. SetToSeq(S) \in [1..n -> S] /\ IsInjective(SetToSeq(S))
    BY <1>3 DEF SetToSeq
<1>5. SetToSeq(S) \in Injection(1..n, S)
    BY <1>4 DEF Injection, IsInjective
<1>6. Cardinality(1..n) = n /\ IsFiniteSet(1..n)
    BY <1>1, FS_Interval
<1>7. SetToSeq(S) \in Surjection(1..n, S)
    BY <1>5, <1>6, FS_Injection
<1> QED
    BY <1>1, <1>4, <1>7 DEF Surjection

\* What a list of writes loses when its first is taken.
LEMMA TailOf ==
    ASSUME NEW S, NEW s \in Seq(S), s # <<>>
    PROVE  /\ Head(s) \in S /\ Tail(s) \in Seq(S)
           /\ \E i \in DOMAIN s : s[i] = Head(s)
           /\ \A j \in DOMAIN Tail(s) : \E i \in DOMAIN s : s[i] = Tail(s)[j]
           /\ \A i \in DOMAIN s : s[i] = Head(s) \/ \E j \in DOMAIN Tail(s) : Tail(s)[j] = s[i]
<1>1. Len(s) \in Nat /\ Len(s) # 0 /\ DOMAIN s = 1..Len(s) /\ Head(s) = s[1]
    OBVIOUS
<1>2. /\ Tail(s) \in Seq(S) /\ DOMAIN Tail(s) = 1..Len(s) - 1
      /\ \A j \in 1..Len(s) - 1 : Tail(s)[j] = s[j + 1]
    BY <1>1
<1>3. ASSUME NEW i \in DOMAIN s, i # 1 PROVE \E j \in DOMAIN Tail(s) : Tail(s)[j] = s[i]
  <2>1. i - 1 \in 1..Len(s) - 1 /\ (i - 1) + 1 = i
    BY <1>1, <1>3
  <2> QED
    BY <1>2, <2>1
<1>4. \A j \in DOMAIN Tail(s) : j + 1 \in DOMAIN s
    BY <1>1, <1>2
<1> QED
    BY <1>1, <1>2, <1>3, <1>4

\* The parts of the call that holds the connection.
LEMMA TxType ==
    ASSUME TypeOK, tx # None
    PROVE  /\ tx \in Call
           /\ tx.op \in ElementOps \cup ProjectOps
           /\ tx.op \in ElementOps => tx.of \in Elements
           /\ tx.op \notin ElementOps => tx.of \in Projects
           /\ tx.todo \in Seq(Write)
           /\ tx.content \in {None, Bare, Done} \cup Settings
           /\ tx.missed \in BOOLEAN
    BY DEF TypeOK, Call

\* The store after some of the writes: each key holds what it did, or what one of them wrote.
LEMMA AppliedEffect ==
    ASSUME TypeOK, tx # None, NEW n \in 0..Len(tx.todo)
    PROVE  LET after == Applied(tx.todo, n)
           IN  /\ after \in [Keys -> {None, Torn, Bare, Done, Picture} \cup Settings]
               /\ \A k \in Keys : \/ after[k] = store[k]
                                  \/ \E i \in 1..n : /\ tx.todo[i].key = k
                                                     /\ after[k] = tx.todo[i].value
               /\ \A k \in Keys : (\A i \in 1..n : tx.todo[i].key # k) => after[k] = store[k]
<1> DEFINE after   == Applied(tx.todo, n)
           mine(k) == {i \in 1..n : tx.todo[i].key = k}
<1>1. tx.todo \in Seq(Write)
    BY TxType
<1>2. Len(tx.todo) \in Nat /\ \A i \in 1..n : i \in 1..Len(tx.todo) /\ tx.todo[i] \in Write
    BY <1>1
<1>3. ASSUME NEW k \in Keys, mine(k) = {} PROVE after[k] = store[k]
    BY <1>3 DEF Applied
<1>4. ASSUME NEW k \in Keys, mine(k) # {}
      PROVE  \E i \in 1..n : tx.todo[i].key = k /\ after[k] = tx.todo[i].value
  <2>1. PICK i : i = CHOOSE m \in mine(k) : TRUE
    OBVIOUS
  <2>2. i \in mine(k)
    BY <1>4, <2>1
  <2>3. after[k] = tx.todo[i].value
    BY <1>4, <2>1 DEF Applied
  <2> QED
    BY <2>2, <2>3
<1>5. \A k \in Keys : \/ after[k] = store[k]
                      \/ \E i \in 1..n : tx.todo[i].key = k /\ after[k] = tx.todo[i].value
    BY <1>3, <1>4
<1>6. \A i \in 1..n : tx.todo[i].value \in {None, Torn, Bare, Done, Picture} \cup Settings
    BY <1>2 DEF Write
<1>7. after = [k \in Keys |-> after[k]]
    BY DEF Applied
<1>8. after \in [Keys -> {None, Torn, Bare, Done, Picture} \cup Settings]
  <2>1. \A k \in Keys : after[k] \in {None, Torn, Bare, Done, Picture} \cup Settings
    BY <1>5, <1>6 DEF TypeOK
  <2> QED
    BY <1>7, <2>1
<1> QED
    BY <1>3, <1>5, <1>8

\* The calls that end with their transaction rolled back, the process still running.
Broken == PutFails \/ Disconnect \/ RejectElement

\* The kinds of step, each with the parameters the code gives it.
LEMMA NextCases ==
    ASSUME [Next]_vars
    PROVE  \/ \E op \in {"create", "complete"}, e \in Elements, c \in Documents :
                  CreateElement(op, e, c)
           \/ \E e \in Elements : DeleteElement(e)
           \/ \E p \in Projects, t \in Texts : NewProject(p, t)
           \/ \E r \in Requests : WriteSettings(r)
           \/ \E p \in Projects : DeleteProject(p)
           \/ \E p \in Projects : DeleteUnlistedProject(p)
           \/ \E r \in Requests, p \in Projects, f \in {"name", "text"}, t \in Texts :
                  ReadSettings(r, p, f, t)
           \/ ResyncList
           \/ UNCHANGED vars
           \/ StoreWrite
           \/ DeleteFails
           \/ Broken
           \/ CommitElement
           \/ CommitDeletion
           \/ CommitProject
           \/ CommitSave
           \/ CommitProjectDeletion
           \/ ResyncRun
           \/ \E lose \in BOOLEAN : Crash(lose)
           \/ StartUp
<1> USE GalleryAssumption DEF Documents, Broken
<1>1. ASSUME NEW e \in Elements, StartJob(e) \/ Upload(e) \/ Complete(e)
      PROVE  \E op \in {"create", "complete"}, f \in Elements, c \in Documents :
                 CreateElement(op, f, c)
    BY <1>1 DEF StartJob, Upload, Complete
<1>2. ASSUME NEW p \in Edited, NEW t \in Texts,
             ProjectPage(p) \/ CreateProjectFromWelcome(p, t)
      PROVE  \E q \in Projects, u \in Texts : NewProject(q, u)
    BY <1>2 DEF ProjectPage, CreateProjectFromWelcome
<1>3. ASSUME NEW p \in Projects, NewProject(p, Blank)
      PROVE  \E q \in Projects, u \in Texts : NewProject(q, u)
    BY <1>3
<1>4. ASSUME NEW r \in Requests, NEW p \in Edited, NEW f \in {"name", "text"}, NEW t \in Texts,
             ReadSettings(r, p, f, t)
      PROVE  \E q \in Projects, g \in {"name", "text"}, u \in Texts : ReadSettings(r, q, g, u)
    BY <1>4
<1>5. ASSUME \E p \in Edited : \/ ProjectPage(p)
                               \/ \E t \in Texts : CreateProjectFromWelcome(p, t)
      PROVE  \E q \in Projects, u \in Texts : NewProject(q, u)
    BY <1>2, <1>5
<1> QED
    BY <1>1, <1>3, <1>4, <1>5 DEF Next

\* What a call aims at is its own element's, or its own project's.
LEMMA AimsWhere ==
    ASSUME TypeOK, tx # None
    PROVE  /\ \A e \in Elements : Aims(Json(e)) \/ Aims(Image(e)) => Busy(e)
           /\ \A p \in Projects : Aims(Meta(p)) => tx.of = p /\ tx.op \notin ElementOps
           /\ \A k \in Keys : Aims(k) =>
                  HomeOfKey(k) = IF tx.op \in ElementOps THEN HomeOf[tx.of] ELSE tx.of
<1>1. /\ tx.op \in ElementOps => tx.of \in Elements
      /\ tx.op \notin ElementOps => tx.of \in Projects
      /\ tx.op \in ElementOps \cup ProjectOps
    BY TxType
<1>2. \A e \in Elements : Aims(Json(e)) \/ Aims(Image(e)) => Busy(e)
    BY <1>1, KeyShapes, KeyHomes DEF Aims, Busy, ElementOps, ProjectOps
<1>3. \A p \in Projects : Aims(Meta(p)) => tx.of = p /\ tx.op \notin ElementOps
    BY <1>1, KeyShapes, KeyHomes DEF Aims, ElementOps, ProjectOps
<1>4. \A k \in Keys : Aims(k) =>
                  HomeOfKey(k) = IF tx.op \in ElementOps THEN HomeOf[tx.of] ELSE tx.of
    BY <1>1, KeyHomes DEF Aims, ElementOps, ProjectOps
<1> QED
    BY <1>2, <1>3, <1>4

\* One write of the call: it sets one key to what the call leaves there.
LEMMA WriteEffect ==
    ASSUME TypeOK, CallFits, StoreWrite
    PROVE  /\ tx # None /\ tx' # None /\ tx' \in Call
           /\ tx'.op = tx.op /\ tx'.of = tx.of /\ tx'.content = tx.content
           /\ tx'.missed = tx.missed
           /\ \E k \in Keys : Aims(k) /\ store' = [store EXCEPT ![k] = Aim(k)]
           /\ CallFits'
           /\ UNCHANGED <<tables, local, up, faults, history>>
<1> DEFINE w == Head(tx.todo)
<1>1. tx # None /\ tx.todo # <<>> /\ tx.todo \in Seq(Write) /\ tx \in Call
    BY TxType DEF StoreWrite
<1>2. /\ w \in Write /\ Tail(tx.todo) \in Seq(Write)
      /\ \E i \in DOMAIN tx.todo : tx.todo[i] = w
      /\ \A j \in DOMAIN Tail(tx.todo) : \E i \in DOMAIN tx.todo : tx.todo[i] = Tail(tx.todo)[j]
      /\ \A i \in DOMAIN tx.todo :
             tx.todo[i] = w \/ \E j \in DOMAIN Tail(tx.todo) : Tail(tx.todo)[j] = tx.todo[i]
    BY <1>1, TailOf
<1>3. w.key \in Keys /\ Aims(w.key) /\ w.value = Aim(w.key)
    BY <1>1, <1>2 DEF CallFits, Write
<1>4. /\ tx' = [tx EXCEPT !.todo = Tail(tx.todo)]
      /\ UNCHANGED <<tables, local, up, faults, history>>
      /\ store' = Applied(tx.todo, 1)
    BY DEF StoreWrite
<1>5. /\ tx' \in Call /\ tx' # None
      /\ tx'.op = tx.op /\ tx'.of = tx.of /\ tx'.content = tx.content
      /\ tx'.missed = tx.missed /\ tx'.todo = Tail(tx.todo)
    BY <1>1, <1>2, <1>4, ValuesAssumption DEF Call
<1>6. store' = [store EXCEPT ![w.key] = Aim(w.key)]
  <2>1. 1 \in 0..Len(tx.todo) /\ tx.todo[1] = w /\ \A i \in 1..1 : i = 1
    BY <1>1
  <2>2. \A k \in Keys \ {w.key} : store'[k] = store[k]
    BY <1>1, <1>4, <2>1, AppliedEffect
  <2>3. store'[w.key] = w.value
    <3>1. {i \in 1..1 : tx.todo[i].key = w.key} = {1}
      BY <2>1
    <3>2. (CHOOSE i \in {1} : TRUE) = 1
      OBVIOUS
    <3> QED
      BY <1>3, <1>4, <2>1, <3>1, <3>2 DEF Applied
  <2>4. store' \in [Keys -> {None, Torn, Bare, Done, Picture} \cup Settings]
    BY <1>1, <1>4, <2>1, AppliedEffect
  <2> QED
    BY <1>3, <2>2, <2>3, <2>4 DEF TypeOK
<1>7. CallFits'
  <2>1. ASSUME NEW j \in DOMAIN tx'.todo
        PROVE  Aims(tx'.todo[j].key) /\ tx'.todo[j].value = Aim(tx'.todo[j].key)
    <3>1. PICK i \in DOMAIN tx.todo : tx.todo[i] = tx'.todo[j]
      BY <1>2, <1>5, <2>1
    <3> QED
      BY <1>1, <3>1 DEF CallFits
  <2>2. ASSUME NEW k \in Keys, Aims(k)
        PROVE  store'[k] = Aim(k) \/ tx.missed \/ \E j \in DOMAIN tx'.todo : tx'.todo[j].key = k
    <3>1. CASE k = w.key
      BY <1>6, <3>1 DEF TypeOK
    <3>2. CASE k # w.key
      <4>1. store'[k] = store[k]
        BY <1>6, <3>2 DEF TypeOK
      <4>2. ASSUME NEW i \in DOMAIN tx.todo, tx.todo[i].key = k
            PROVE  \E j \in DOMAIN tx'.todo : tx'.todo[j].key = k
        BY <1>2, <1>5, <3>2, <4>2
      <4> QED
        BY <1>1, <2>2, <4>1, <4>2 DEF CallFits
    <3> QED
      BY <3>1, <3>2
  <2>3. cut' = cut
    BY <1>4 DEF history
  <2> HIDE DEF w
  <2> QED
    BY <1>1, <1>5, <2>1, <2>2, <2>3 DEF CallFits, Aims, Aim, HomeElements
<1> QED
    BY <1>1, <1>3, <1>4, <1>5, <1>6, <1>7

\* A roll-back ends the call and notes what it may have left half done.
LEMMA RollBackEffect ==
    ASSUME TypeOK, tx # None, RollBack
    PROVE  /\ tx' = None
           /\ cut \subseteq cut' /\ cut' \subseteq Elements
           /\ \A e \in Elements : Busy(e) => e \in cut'
           /\ raced \subseteq raced' /\ raced' \subseteq Projects
           /\ tx.op \in {"save", "deleteProject"} => tx.of \in raced'
           /\ UNCHANGED <<gone, late, last, reset>>
<1> DEFINE lost == CASE tx.op \in ElementOps      -> {tx.of}
                     [] tx.op = "deleteProject"  -> HomeElements(tx.of)
                     [] OTHER                    -> {}
<1>1. /\ tx.op \in ElementOps => tx.of \in Elements
      /\ tx.op \notin ElementOps => tx.of \in Projects
    BY TxType
<1>2. tx' = None /\ cut' = cut \cup lost /\ UNCHANGED <<gone, late, last, reset>>
      /\ raced' = raced \cup (IF tx.op \in {"save", "deleteProject"} THEN {tx.of} ELSE {})
    BY DEF RollBack
<1>3. CASE tx.op \in ElementOps
  <2>1. lost = {tx.of}
    BY <1>3 DEF ElementOps
  <2> QED
    BY <1>1, <1>2, <1>3, <2>1 DEF TypeOK, Busy, ElementOps
<1>4. CASE tx.op = "deleteProject"
  <2>1. lost = HomeElements(tx.of)
    BY <1>4 DEF ElementOps
  <2> QED
    BY <1>1, <1>2, <1>4, <2>1 DEF TypeOK, Busy, ElementOps, HomeElements
<1>5. CASE tx.op \notin ElementOps \cup {"deleteProject"}
  <2>1. lost = {}
    BY <1>5
  <2> QED
    BY <1>1, <1>2, <1>5, <2>1 DEF TypeOK, Busy
<1> QED
    BY <1>3, <1>4, <1>5

\* A call that breaks off has touched nothing but what it aimed at.
LEMMA BrokenEffect ==
    ASSUME TypeOK, CallFits, Broken
    PROVE  /\ up /\ tx # None /\ RollBack
           /\ store' \in [Keys -> {None, Torn, Bare, Done, Picture} \cup Settings]
           /\ \A k \in Keys : ~Aims(k) => store'[k] = store[k]
           /\ \A k \in Keys : store'[k] = None => store[k] = None \/ Aim(k) = None
           /\ tx.op \in {"delete", "deleteProject"} =>
                  \A k \in Keys : store'[k] \in {store[k], None}
           /\ UNCHANGED <<tables, local, up, rebuilt>>
           /\ faults' \in 0..MaxFaults
<1>1. CASE PutFails
  <2>1. tx # None /\ tx.todo # <<>> /\ tx.todo \in Seq(Write)
    BY <1>1, TxType DEF PutFails, Writing
  <2>2. \E i \in DOMAIN tx.todo : tx.todo[i] = Head(tx.todo)
    BY <2>1, TailOf
  <2>3. Aims(Head(tx.todo).key)
    BY <2>1, <2>2 DEF CallFits
  <2>4. \E v \in {store[Head(tx.todo).key], Torn} : store' = [store EXCEPT ![Head(tx.todo).key] = v]
    BY <1>1 DEF PutFails
  <2>5. faults' \in 0..MaxFaults
    BY <1>1, GalleryAssumption DEF PutFails, TypeOK
  <2>6. store' \in [Keys -> {None, Torn, Bare, Done, Picture} \cup Settings]
    BY <2>4 DEF TypeOK
  <2>7. \A k \in Keys : store'[k] = store[k] \/ (k = Head(tx.todo).key /\ store'[k] = Torn)
    BY <2>4 DEF TypeOK
  <2>8. RollBack /\ up /\ UNCHANGED <<tables, local, up, rebuilt>>
    BY <1>1 DEF PutFails
  <2>9. tx.op \notin {"delete", "deleteProject"}
    BY <1>1, <2>1, <2>2 DEF PutFails, Writing, CallFits, Aim
  <2> QED
    BY <2>1, <2>3, <2>5, <2>6, <2>7, <2>8, <2>9, ValuesAssumption
<1>2. CASE Disconnect
  <2>1. tx # None /\ tx.todo \in Seq(Write)
    BY <1>2, TxType DEF Disconnect
  <2>2. PICK n \in 0..Len(tx.todo) : store' = Applied(tx.todo, n)
    BY <1>2 DEF Disconnect
  <2>3. /\ store' \in [Keys -> {None, Torn, Bare, Done, Picture} \cup Settings]
        /\ \A k \in Keys : \/ store'[k] = store[k]
                           \/ \E i \in 1..n : /\ tx.todo[i].key = k
                                              /\ store'[k] = tx.todo[i].value
    BY <2>1, <2>2, AppliedEffect
  <2>4. 1..n \subseteq DOMAIN tx.todo
    BY <2>1
  <2>5. faults' \in 0..MaxFaults
    BY <1>2, GalleryAssumption DEF Disconnect, TypeOK
  <2>6. /\ \A k \in Keys : ~Aims(k) => store'[k] = store[k]
        /\ \A k \in Keys : store'[k] = None => store[k] = None \/ Aim(k) = None
    BY <2>1, <2>3, <2>4 DEF CallFits
  <2>7. tx.op \in {"delete", "deleteProject"} => \A k \in Keys : store'[k] \in {store[k], None}
    BY <2>1, <2>3, <2>4 DEF CallFits, Aim
  <2> QED
    BY <1>2, <2>1, <2>3, <2>5, <2>6, <2>7 DEF Disconnect
<1>3. CASE RejectElement
    BY <1>3 DEF RejectElement, Committing, TypeOK
<1> QED
    BY <1>1, <1>2, <1>3 DEF Broken

\* At the commit everything the call is for is stored, unless a removal was refused.
LEMMA CommitFinds ==
    ASSUME CallFits, NEW ops, Committing(ops)
    PROVE  /\ up /\ tx # None /\ tx.op \in ops
           /\ \A k \in Keys : Aims(k) => store[k] = Aim(k) \/ tx.missed
<1>1. up /\ tx # None /\ tx.todo = <<>> /\ tx.op \in ops
    BY DEF Committing
<1>2. DOMAIN tx.todo = {}
    BY <1>1
<1> QED
    BY <1>1, <1>2 DEF CallFits

\* The connection is given to a call that fits its own list of writes.
LEMMA BeginEffect ==
    ASSUME TypeOK, NEW op \in ElementOps \cup ProjectOps, NEW of \in Elements \cup Projects,
           NEW todo \in Seq(Write), NEW content \in {None, Bare, Done} \cup Settings,
           Begin(op, of, todo, content)
    PROVE  /\ up /\ tx = None /\ tx' \in Call /\ tx' # None
           /\ tx'.op = op /\ tx'.of = of /\ tx'.todo = todo /\ tx'.content = content
           /\ tx'.missed = FALSE
<1>1. /\ up /\ tx = None
      /\ tx' = [op |-> op, of |-> of, todo |-> todo, content |-> content, missed |-> FALSE]
    BY DEF Begin
<1>2. [op |-> op, of |-> of, todo |-> todo, content |-> content, missed |-> FALSE] \in Call
    BY DEF Call
<1>3. tx' # None
    BY <1>1, <1>2, ValuesAssumption
<1> QED
    BY <1>1, <1>2, <1>3

\* Creating an element, or completing it, opens a call that fits.
LEMMA CreateBegins ==
    ASSUME TypeOK, NEW op \in {"create", "complete"}, NEW e \in Elements,
           NEW content \in Documents, CreateElement(op, e, content)
    PROVE  /\ up /\ tx = None /\ tx' \in Call /\ tx' # None /\ CallFits'
           /\ tx'.op = op /\ tx'.of = e
<1> DEFINE todo == ElementWrites(e, content)
<1>1. Put(Json(e), content) \in Write /\ Put(Image(e), Picture) \in Write
    BY KeyShapes DEF Put, Write, Documents
<1>2. /\ todo \in Seq(Write)
      /\ \A i \in DOMAIN todo : \/ todo[i] = Put(Json(e), content)
                                \/ todo[i] = Put(Image(e), Picture) /\ content = Done
      /\ todo[1] = Put(Json(e), content) /\ 1 \in DOMAIN todo
      /\ content = Done => todo[2] = Put(Image(e), Picture) /\ 2 \in DOMAIN todo
  <2>1. CASE content = Done
    <3> DEFINE a == <<Put(Json(e), content)>>
               b == <<Put(Image(e), Picture)>>
    <3>1. todo = a \o b
      BY <2>1 DEF ElementWrites
    <3>2. /\ a \in Seq(Write) /\ Len(a) = 1 /\ a[1] = Put(Json(e), content)
          /\ b \in Seq(Write) /\ Len(b) = 1 /\ b[1] = Put(Image(e), Picture)
      BY <1>1
    <3> HIDE DEF todo, a, b
    <3>3. /\ a \o b \in Seq(Write) /\ Len(a \o b) = Len(a) + Len(b)
          /\ \A i \in 1..Len(a) + Len(b) :
                 (a \o b)[i] = IF i <= Len(a) THEN a[i] ELSE b[i - Len(a)]
      BY <3>2, ConcatProperties
    <3>4. PICK ab \in Seq(Write) : ab = a \o b
      BY <3>3
    <3>5. Len(ab) = 2 /\ ab[1] = a[1] /\ ab[2] = b[1]
      BY <3>2, <3>3, <3>4
    <3>6. DOMAIN ab = 1..2
      BY <3>5
    <3> QED
      BY <2>1, <3>1, <3>2, <3>4, <3>5, <3>6
  <2>2. CASE content # Done
    <3>1. todo = <<Put(Json(e), content)>> \o <<>>
      BY <2>2 DEF ElementWrites
    <3>2. <<Put(Json(e), content)>> \o <<>> = <<Put(Json(e), content)>>
      BY <1>1
    <3> HIDE DEF todo
    <3> QED
      BY <1>1, <2>2, <3>1, <3>2
  <2> QED
    BY <2>1, <2>2
<1>3. Begin(op, e, todo, content)
    BY DEF CreateElement
<1> HIDE DEF todo
<1>4. /\ up /\ tx = None /\ tx' \in Call /\ tx' # None
      /\ tx'.op = op /\ tx'.of = e /\ tx'.todo = todo /\ tx'.content = content
      /\ tx'.missed = FALSE
    BY <1>2, <1>3, BeginEffect DEF ElementOps, Documents
<1>5. Put(Json(e), content).key = Json(e) /\ Put(Json(e), content).value = content
    BY DEF Put
<1>6. Put(Image(e), Picture).key = Image(e) /\ Put(Image(e), Picture).value = Picture
    BY DEF Put
<1>7. \A i \in DOMAIN todo : Aims(todo[i].key)' /\ todo[i].value = Aim(todo[i].key)'
    BY <1>2, <1>4, <1>5, <1>6, KeyShapes DEF Aims, Aim
<1>8. \A k \in Keys : Aims(k)' => \E i \in DOMAIN todo : todo[i].key = k
    BY <1>2, <1>4, <1>5, <1>6, KeyShapes DEF Aims
<1>9. CallFits'
    BY <1>4, <1>7, <1>8 DEF CallFits, Aims, Aim
<1> QED
    BY <1>4, <1>9

\* So does deleting one,
LEMMA DeleteBegins ==
    ASSUME TypeOK, NEW e \in Elements, DeleteElement(e)
    PROVE  /\ up /\ tx = None /\ tx' \in Call /\ tx' # None /\ CallFits'
           /\ tx'.op = "delete" /\ tx'.of = e
<1> DEFINE todo == <<Del(Image(e)), Del(Json(e))>>
<1>1. Del(Json(e)) \in Write /\ Del(Image(e)) \in Write
    BY KeyShapes DEF Del, Write
<1>2. /\ todo \in Seq(Write)
      /\ \A i \in DOMAIN todo : todo[i] \in {Del(Image(e)), Del(Json(e))}
      /\ todo[1] = Del(Image(e)) /\ 1 \in DOMAIN todo
      /\ todo[2] = Del(Json(e)) /\ 2 \in DOMAIN todo
    BY <1>1
<1>3. Begin("delete", e, todo, None)
    BY DEF DeleteElement
<1> HIDE DEF todo
<1>4. /\ up /\ tx = None /\ tx' \in Call /\ tx' # None
      /\ tx'.op = "delete" /\ tx'.of = e /\ tx'.todo = todo /\ tx'.content = None
      /\ tx'.missed = FALSE
    BY <1>2, <1>3, BeginEffect DEF ElementOps
<1>5. \A k : Del(k).key = k /\ Del(k).value = None
    BY DEF Del
<1>6. \A i \in DOMAIN todo : Aims(todo[i].key)' /\ todo[i].value = Aim(todo[i].key)'
    BY <1>2, <1>4, <1>5 DEF Aims, Aim
<1>7. \A k \in Keys : Aims(k)' => \E i \in DOMAIN todo : todo[i].key = k
    BY <1>2, <1>4, <1>5 DEF Aims
<1>8. CallFits'
    BY <1>4, <1>6, <1>7 DEF CallFits, Aims, Aim
<1> QED
    BY <1>4, <1>8

\* writing a project's document,
LEMMA ProjectWriteBegins ==
    ASSUME TypeOK, NEW op \in {"newProject", "save"}, NEW p \in Projects, NEW s \in Settings,
           Begin(op, p, <<Put(Meta(p), s)>>, s)
    PROVE  /\ up /\ tx = None /\ tx' \in Call /\ tx' # None /\ CallFits'
           /\ tx'.op = op /\ tx'.of = p /\ tx'.content = s
<1> DEFINE todo == <<Put(Meta(p), s)>>
<1>1. Put(Meta(p), s) \in Write
    BY KeyShapes DEF Put, Write
<1>2. /\ todo \in Seq(Write)
      /\ \A i \in DOMAIN todo : todo[i] = Put(Meta(p), s)
      /\ 1 \in DOMAIN todo
    BY <1>1
<1>3. Begin(op, p, todo, s)
    OBVIOUS
<1> HIDE DEF todo
<1>4. /\ up /\ tx = None /\ tx' \in Call /\ tx' # None
      /\ tx'.op = op /\ tx'.of = p /\ tx'.todo = todo /\ tx'.content = s
      /\ tx'.missed = FALSE
    BY <1>2, <1>3, BeginEffect DEF ElementOps, ProjectOps
<1>5. Put(Meta(p), s).key = Meta(p) /\ Put(Meta(p), s).value = s
    BY DEF Put
<1>6. Meta(p) # Image(p)
    BY DEF Meta, Image
<1>7. \A i \in DOMAIN todo : Aims(todo[i].key)' /\ todo[i].value = Aim(todo[i].key)'
    BY <1>2, <1>4, <1>5, <1>6 DEF Aims, Aim
<1>8. \A k \in Keys : Aims(k)' => \E i \in DOMAIN todo : todo[i].key = k
    BY <1>2, <1>4, <1>5 DEF Aims
<1>9. CallFits'
    BY <1>4, <1>7, <1>8 DEF CallFits, Aims, Aim
<1> QED
    BY <1>4, <1>9

\* creating a project,
LEMMA NewProjectBegins ==
    ASSUME TypeOK, NEW p \in Projects, NEW t \in Texts, NewProject(p, t)
    PROVE  /\ up /\ tx = None /\ tx' \in Call /\ tx' # None /\ CallFits'
           /\ tx'.op = "newProject" /\ tx'.of = p /\ tx'.content \in Settings
<1>1. Defaults(t) \in Settings
    BY GalleryAssumption DEF Defaults, Settings
<1>2. Begin("newProject", p, <<Put(Meta(p), Defaults(t))>>, Defaults(t))
    BY DEF NewProject
<1> QED
    BY <1>1, <1>2, ProjectWriteBegins

\* saving settings,
LEMMA SaveBegins ==
    ASSUME TypeOK, NEW r \in Requests, WriteSettings(r)
    PROVE  /\ up /\ tx = None /\ tx' \in Call /\ tx' # None /\ CallFits'
           /\ tx'.op = "save" /\ tx'.of \in Projects /\ tx'.content \in Settings
           /\ tx'.of = pending[r].of
<1>1. pending[r].of \in Projects /\ pending[r].settings \in Settings
    BY DEF WriteSettings, TypeOK
<1>2. Begin("save", pending[r].of, <<Put(Meta(pending[r].of), pending[r].settings)>>,
            pending[r].settings)
    BY DEF WriteSettings
<1> QED
    BY <1>1, <1>2, ProjectWriteBegins

\* deleting a project whose objects are listed,
LEMMA DeleteProjectBegins ==
    ASSUME TypeOK, NEW p \in Projects, DeleteProject(p)
    PROVE  /\ up /\ tx = None /\ tx' \in Call /\ tx' # None /\ CallFits'
           /\ tx'.op = "deleteProject" /\ tx'.of = p /\ tx'.missed = FALSE
<1> DEFINE keys == SetToSeq(ObjectsUnder(p))
           todo == [i \in DOMAIN keys |-> Del(keys[i])]
           n    == Cardinality(ObjectsUnder(p))
<1>1. ObjectsUnder(p) \subseteq Keys
    BY DEF ObjectsUnder
<1>2. IsFiniteSet(ObjectsUnder(p))
    BY <1>1, KeysFinite, FS_Subset
<1>3. /\ n \in Nat /\ keys \in [1..n -> ObjectsUnder(p)]
      /\ \A x \in ObjectsUnder(p) : \E i \in 1..n : keys[i] = x
    BY <1>2, SetToSeqLists
<1>4. Begin("deleteProject", p, todo, None)
    BY DEF DeleteProject
<1>5. \A k : Del(k).key = k /\ Del(k).value = None
    BY DEF Del
<1>6. \A k \in Keys : Del(k) \in Write
    BY DEF Del, Write
<1> HIDE DEF n, keys
<1>7. /\ DOMAIN todo = 1..n /\ \A i \in 1..n : todo[i] = Del(keys[i]) /\ keys[i] \in ObjectsUnder(p)
      /\ todo \in [1..n -> Write]
    BY <1>1, <1>3, <1>6
<1> HIDE DEF todo
<1>8. PICK td \in Seq(Write) :
          /\ td = todo /\ DOMAIN td = 1..n
          /\ \A i \in 1..n : td[i] = Del(keys[i])
  <2>1. todo \in Seq(Write)
    BY <1>3, <1>7
  <2> QED
    BY <1>7, <2>1
<1>9. /\ up /\ tx = None /\ tx' \in Call /\ tx' # None
      /\ tx'.op = "deleteProject" /\ tx'.of = p /\ tx'.todo = td /\ tx'.content = None
      /\ tx'.missed = FALSE
  <2>1. Begin("deleteProject", p, td, None)
    BY <1>4, <1>8
  <2> QED
    BY <2>1, BeginEffect DEF ElementOps, ProjectOps
<1>10. /\ \A i \in DOMAIN td : td[i].key \in ObjectsUnder(p) /\ td[i].value = None
       /\ \A k \in ObjectsUnder(p) : \E i \in DOMAIN td : td[i].key = k
    BY <1>3, <1>5, <1>7, <1>8
<1>11. store' = store
    BY DEF DeleteProject
<1>12. \A i \in DOMAIN tx'.todo : HomeOfKey(tx'.todo[i].key) = p /\ tx'.todo[i].value = None
    BY <1>9, <1>10 DEF ObjectsUnder
<1>13. \A k \in Keys : HomeOfKey(k) = p =>
           store'[k] = None \/ \E i \in DOMAIN tx'.todo : tx'.todo[i].key = k
    BY <1>9, <1>10, <1>11 DEF ObjectsUnder
<1>14. CallFits'
    BY <1>9, <1>12, <1>13 DEF CallFits, Aims, Aim
<1> QED
    BY <1>9, <1>14

\* and deleting one whose objects could not be listed.
LEMMA UnlistedBegins ==
    ASSUME TypeOK, NEW p \in Projects, DeleteUnlistedProject(p)
    PROVE  /\ up /\ tx = None /\ tx' \in Call /\ tx' # None /\ CallFits'
           /\ tx'.op = "deleteProject" /\ tx'.of = p /\ tx'.missed = TRUE
           /\ cut' = cut \cup HomeElements(p)
<1>1. /\ tx' = [op |-> "deleteProject", of |-> p, todo |-> <<>>, content |-> None,
                missed |-> TRUE]
      /\ up /\ tx = None /\ cut' = cut \cup HomeElements(p)
    BY DEF DeleteUnlistedProject
<1>2. <<>> \in Seq(Write)
    OBVIOUS
<1>3. tx' \in Call
    BY <1>1, <1>2 DEF Call, ProjectOps
<1>6. tx' # None
    BY <1>3, ValuesAssumption
<1>4. DOMAIN tx'.todo = {}
    BY <1>1
<1>5. CallFits'
    BY <1>1, <1>3, <1>4 DEF CallFits, HomeElements
<1> QED
    BY <1>1, <1>3, <1>5, <1>6

\* A removal the store refuses: the call goes on, and its elements are known to be cut.
LEMMA RefusalEffect ==
    ASSUME TypeOK, CallFits, DeleteFails
    PROVE  /\ up /\ tx # None /\ tx' # None /\ tx' \in Call /\ tx'.op = tx.op /\ tx'.of = tx.of
           /\ tx.op \in {"delete", "deleteProject"}
           /\ CallFits'
           /\ cut \subseteq cut' /\ cut' \subseteq Elements
           /\ \A e \in Elements : Busy(e) => e \in cut'
           /\ faults' \in 0..MaxFaults
<1>1. /\ up /\ tx # None /\ tx.todo # <<>> /\ tx.todo \in Seq(Write) /\ tx \in Call
      /\ Head(tx.todo).value = None
    BY TxType DEF DeleteFails, Removing
<1>2. /\ tx.op \in ElementOps \cup ProjectOps
      /\ tx.op \in ElementOps => tx.of \in Elements
      /\ tx.op \notin ElementOps => tx.of \in Projects
    BY <1>1, TxType
<1>3. /\ Tail(tx.todo) \in Seq(Write)
      /\ \E i \in DOMAIN tx.todo : tx.todo[i] = Head(tx.todo)
      /\ \A j \in DOMAIN Tail(tx.todo) : \E i \in DOMAIN tx.todo : tx.todo[i] = Tail(tx.todo)[j]
    BY <1>1, TailOf
<1>4. tx.op \in {"delete", "deleteProject"}
  <2>1. Aim(Head(tx.todo).key) = None
    BY <1>1, <1>3 DEF CallFits
  <2>2. tx.op \in {"create", "complete"} => tx.content \in Documents
    BY <1>1 DEF CallFits
  <2>3. tx.op \in {"newProject", "save"} => tx.content \in Settings
    BY <1>1 DEF CallFits
  <2>4. None \notin Documents /\ None \notin Settings /\ Picture # None
    BY ValuesAssumption DEF Documents
  <2> QED
    BY <1>2, <2>1, <2>2, <2>3, <2>4 DEF Aim, ElementOps, ProjectOps
<1>5. cut' = cut \cup (IF tx.op = "delete" THEN {tx.of} ELSE HomeElements(tx.of))
    BY DEF DeleteFails
<1>6. /\ tx' \in Call /\ tx' # None
      /\ tx'.op = tx.op /\ tx'.of = tx.of /\ tx'.missed /\ tx'.todo = Tail(tx.todo)
      /\ tx'.content = tx.content
  <2>1. tx' = [tx EXCEPT !.todo = Tail(tx.todo), !.missed = TRUE]
    BY DEF DeleteFails
  <2> QED
    BY <1>1, <1>3, <2>1, ValuesAssumption DEF Call
<1>7. /\ cut \subseteq cut' /\ cut' \subseteq Elements
      /\ \A e \in Elements : Busy(e) => e \in cut'
    BY <1>2, <1>4, <1>5 DEF TypeOK, HomeElements, Busy, ElementOps
<1>8. ASSUME NEW j \in DOMAIN tx'.todo
      PROVE  Aims(tx'.todo[j].key) /\ tx'.todo[j].value = Aim(tx'.todo[j].key)
  <2>1. PICK i \in DOMAIN tx.todo : tx.todo[i] = tx'.todo[j]
    BY <1>3, <1>6, <1>8
  <2> QED
    BY <1>1, <2>1 DEF CallFits
<1>9. \/ tx.op = "delete" /\ tx.of \in cut'
      \/ tx.op = "deleteProject" /\ HomeElements(tx.of) \subseteq cut'
    BY <1>4, <1>5
<1>10. CallFits'
    BY <1>4, <1>6, <1>8, <1>9 DEF CallFits, Aims, Aim, HomeElements
<1>11. faults' \in 0..MaxFaults
    BY GalleryAssumption DEF DeleteFails, TypeOK
<1> QED
    BY <1>1, <1>4, <1>6, <1>7, <1>10, <1>11

\* What a sync makes of one project's row.
LEMMA SyncedProjectEffect ==
    ASSUME TypeOK, NEW listed \in SUBSET Keys, NEW p \in Projects
    PROVE  LET new == SyncedProject(p, listed)
               m   == store[Meta(p)]
               readable == Readable(listed, Meta(p), Settings)
           IN  /\ new \in Settings \cup {None}
               /\ prow[p] # None => new # None
               /\ readable => new # None
               /\ (\E e \in HomeElements(p) : Json(e) \in listed) => new # None
               /\ \/ new = prow[p]
                  \/ /\ readable /\ m \in Settings /\ new.name = m.name
                     /\ prow[p] # None => new.text = m.text
                  \/ /\ prow[p] = None /\ ~readable
                     /\ \E e \in HomeElements(p) : Json(e) \in listed
<1> DEFINE new == SyncedProject(p, listed)
           m   == store[Meta(p)]
           readable == Readable(listed, Meta(p), Settings)
<1>1. None \notin Settings /\ prow[p] \in Settings \cup {None}
    BY ValuesAssumption DEF TypeOK
<1>2. CASE readable
  <2>1. m \in Settings
    BY <1>2 DEF Readable
  <2>2. CASE prow[p] # None
    <3>1. new = IF prow[p].version = m.version THEN prow[p] ELSE m
      BY <1>2, <2>2 DEF SyncedProject
    <3> QED
      BY <1>1, <1>2, <2>1, <2>2, <3>1
  <2>3. CASE prow[p] = None
    <3> DEFINE kept == [m EXCEPT !.text = Blank]
    <3>1. kept \in Settings /\ kept.version = m.version /\ kept.name = m.name
      BY <2>1, GalleryAssumption DEF Settings
    <3>2. new = IF kept.version = m.version THEN kept ELSE m
      BY <1>2, <2>3 DEF SyncedProject
    <3> QED
      BY <1>1, <1>2, <2>1, <2>3, <3>1, <3>2
  <2> QED
    BY <2>2, <2>3
<1>3. CASE ~readable
  <2>1. Defaults(Blank) \in Settings
    BY GalleryAssumption DEF Defaults, Settings
  <2>2. new = IF prow[p] = None /\ \E e \in HomeElements(p) : Json(e) \in listed
              THEN Defaults(Blank) ELSE prow[p]
    BY <1>3 DEF SyncedProject
  <2>3. CASE prow[p] = None /\ \E e \in HomeElements(p) : Json(e) \in listed
    <3>1. new = Defaults(Blank)
      BY <2>2, <2>3
    <3> QED
      BY <1>1, <1>3, <2>1, <2>3, <3>1
  <2>4. CASE ~(prow[p] = None /\ \E e \in HomeElements(p) : Json(e) \in listed)
    <3>1. new = prow[p]
      BY <2>2, <2>4
    <3>2. prow[p] # None => new # None
      BY <3>1
    <3>3. (\E e \in HomeElements(p) : Json(e) \in listed) => new # None
      BY <2>4, <3>1
    <3>4. new \in Settings \cup {None}
      BY <1>1, <3>1
    <3> HIDE DEF new, readable, m
    <3> QED
      BY <1>3, <3>1, <3>2, <3>3, <3>4 DEF m, readable, new
  <2> QED
    BY <2>3, <2>4
<1> QED
    BY <1>2, <1>3

\* What a sync leaves in the two tables.
LEMMA SyncEffect ==
    ASSUME TypeOK, NEW listed \in SUBSET Keys, Syncable(listed), SyncFromStorage(listed)
    PROVE  /\ row' \in [Elements -> {None, Bare, Done}]
           /\ prow' \in [Projects -> Settings \cup {None}]
           /\ \A e \in Elements :
                  \/ row'[e] = row[e]
                  \/ /\ row[e] = None /\ Json(e) \in listed
                     /\ row'[e] = store[Json(e)] /\ store[Json(e)] \in Documents
           /\ \A e \in Elements : Json(e) \in listed =>
                  row'[e] # None /\ prow'[HomeOf[e]] # None
           /\ \A p \in Projects :
                  /\ prow[p] # None => prow'[p] # None
                  /\ Readable(listed, Meta(p), Settings) => prow'[p] # None
                  /\ \/ prow'[p] = prow[p]
                     \/ /\ Readable(listed, Meta(p), Settings) /\ store[Meta(p)] \in Settings
                        /\ prow'[p].name = store[Meta(p)].name
                        /\ prow[p] # None => prow'[p].text = store[Meta(p)].text
                     \/ /\ prow[p] = None /\ ~Readable(listed, Meta(p), Settings)
                        /\ \E e \in HomeElements(p) : Json(e) \in listed
<1>1. /\ row' = [e \in Elements |-> SyncedElement(e, listed)]
      /\ prow' = [p \in Projects |-> SyncedProject(p, listed)]
    BY DEF SyncFromStorage
<1>2. ASSUME NEW e \in Elements
      PROVE  /\ row'[e] \in {None, Bare, Done}
             /\ \/ row'[e] = row[e]
                \/ /\ row[e] = None /\ Json(e) \in listed
                   /\ row'[e] = store[Json(e)] /\ store[Json(e)] \in Documents
             /\ Json(e) \in listed => row'[e] # None
  <2>1. Json(e) \in listed => store[Json(e)] \in {Bare, Done}
    BY DEF Syncable, Documents
  <2>2. row'[e] = IF row[e] = None /\ Json(e) \in listed THEN store[Json(e)] ELSE row[e]
    BY <1>1 DEF SyncedElement
  <2>3. row[e] \in {None, Bare, Done}
    BY DEF TypeOK
  <2> QED
    BY <2>1, <2>2, <2>3, ValuesAssumption DEF Documents
<1>3. \A e \in Elements : HomeOf[e] \in Projects /\ e \in HomeElements(HomeOf[e])
    BY GalleryAssumption DEF HomeElements
<1>4. \A p \in Projects : prow'[p] = SyncedProject(p, listed)
    BY <1>1
<1>5. \A e \in Elements : Json(e) \in listed => prow'[HomeOf[e]] # None
    BY <1>3, <1>4, SyncedProjectEffect
<1>6. \A p \in Projects : prow'[p] \in Settings \cup {None}
    BY <1>4, SyncedProjectEffect
<1>7. row' \in [Elements -> {None, Bare, Done}] /\ prow' \in [Projects -> Settings \cup {None}]
    BY <1>1, <1>2, <1>6
<1>8. ASSUME NEW p \in Projects
      PROVE  /\ prow[p] # None => prow'[p] # None
             /\ Readable(listed, Meta(p), Settings) => prow'[p] # None
             /\ \/ prow'[p] = prow[p]
                \/ /\ Readable(listed, Meta(p), Settings) /\ store[Meta(p)] \in Settings
                   /\ prow'[p].name = store[Meta(p)].name
                   /\ prow[p] # None => prow'[p].text = store[Meta(p)].text
                \/ /\ prow[p] = None /\ ~Readable(listed, Meta(p), Settings)
                   /\ \E e \in HomeElements(p) : Json(e) \in listed
    BY <1>4, SyncedProjectEffect
<1> QED
    BY <1>2, <1>5, <1>7, <1>8

\* A crash ends the call under way as a roll-back does; the database may go with it.
LEMMA CrashEffect ==
    ASSUME TypeOK, CallFits, NEW lose \in BOOLEAN, Crash(lose)
    PROVE  /\ up /\ ~up' /\ up' = FALSE /\ tx' = None
           /\ cut \subseteq cut' /\ cut' \subseteq Elements
           /\ \A e \in Elements : Busy(e) => e \in cut'
           /\ raced \subseteq raced' /\ raced' \subseteq Projects
           /\ tx # None /\ tx.op \in {"save", "deleteProject"} => tx.of \in raced'
           /\ store' \in [Keys -> {None, Torn, Bare, Done, Picture} \cup Settings]
           /\ \A k \in Keys : \/ store'[k] = store[k]
                              \/ /\ tx # None /\ Aims(k) /\ store'[k] = Torn
                                 /\ tx.op \notin {"delete", "deleteProject"}
           /\ rebuilt' = (rebuilt \/ lose)
           /\ \/ UNCHANGED tables
              \/ /\ lose
                 /\ row' = [e \in Elements |-> None] /\ prow' = [p \in Projects |-> None]
           /\ UNCHANGED <<gone, late, last, reset>>
           /\ faults' \in 0..MaxFaults
<1>1. /\ up /\ up' = FALSE /\ rebuilt' = (rebuilt \/ lose)
      /\ \/ UNCHANGED tables
         \/ /\ lose
            /\ row' = [e \in Elements |-> None] /\ prow' = [p \in Projects |-> None]
    BY DEF Crash
<1>2. /\ tx' = None
      /\ cut \subseteq cut' /\ cut' \subseteq Elements
      /\ \A e \in Elements : Busy(e) => e \in cut'
      /\ raced \subseteq raced' /\ raced' \subseteq Projects
      /\ tx # None /\ tx.op \in {"save", "deleteProject"} => tx.of \in raced'
      /\ UNCHANGED <<gone, late, last, reset>>
  <2>1. CASE tx = None
    <3>1. UNCHANGED <<tx, cut, raced, gone, late, last, reset>>
      BY <2>1 DEF Crash
    <3> QED
      BY <2>1, <3>1 DEF Busy, TypeOK
  <2>2. CASE tx # None
    <3>1. RollBack
      BY <2>2 DEF Crash
    <3> QED
      BY <2>2, <3>1, RollBackEffect
  <2> QED
    BY <2>1, <2>2
<1>3. /\ store' \in [Keys -> {None, Torn, Bare, Done, Picture} \cup Settings]
      /\ \A k \in Keys : \/ store'[k] = store[k]
                         \/ /\ tx # None /\ Aims(k) /\ store'[k] = Torn
                            /\ tx.op \notin {"delete", "deleteProject"}
  <2>1. CASE UNCHANGED store
    BY <2>1 DEF TypeOK
  <2>2. CASE Writing /\ store' = [store EXCEPT ![Head(tx.todo).key] = Torn]
    <3>1. /\ tx # None /\ tx.todo # <<>> /\ tx.todo \in Seq(Write)
          /\ Head(tx.todo).value # None
      BY <2>2, TxType DEF Writing
    <3>2. \E i \in DOMAIN tx.todo : tx.todo[i] = Head(tx.todo)
      BY <3>1, TailOf
    <3>3. Aims(Head(tx.todo).key) /\ Aim(Head(tx.todo).key) # None
      BY <3>1, <3>2 DEF CallFits
    <3>4. tx.op \notin {"delete", "deleteProject"}
      BY <3>3 DEF Aim
    <3>5. store' \in [Keys -> {None, Torn, Bare, Done, Picture} \cup Settings]
      BY <2>2 DEF TypeOK
    <3>6. \A k \in Keys : store'[k] = store[k] \/ (k = Head(tx.todo).key /\ store'[k] = Torn)
      BY <2>2 DEF TypeOK
    <3> QED
      BY <3>1, <3>3, <3>4, <3>5, <3>6
  <2> QED
    BY <2>1, <2>2 DEF Crash
<1>4. faults' \in 0..MaxFaults
  <2>1. faults < MaxFaults /\ faults' = faults + 1
    BY DEF Crash
  <2> QED
    BY <2>1, GalleryAssumption DEF TypeOK
<1> QED
    BY <1>1, <1>2, <1>3, <1>4

\* What the calls that open a transaction leave alone.
LEMMA OpeningLeaves ==
    ASSUME TypeOK,
           \/ \E op \in {"create", "complete"}, e \in Elements, c \in Documents :
                  CreateElement(op, e, c)
           \/ \E e \in Elements : DeleteElement(e)
           \/ \E p \in Projects, t \in Texts : NewProject(p, t)
           \/ \E r \in Requests : WriteSettings(r)
           \/ \E p \in Projects : DeleteProject(p)
           \/ \E p \in Projects : DeleteUnlistedProject(p)
    PROVE  /\ up /\ tx = None /\ tx' \in Call /\ tx' # None /\ CallFits'
           /\ tx'.of \in (IF tx'.op \in ElementOps THEN Elements ELSE Projects)
           /\ UNCHANGED <<store, row, prow, up, listing, last, rebuilt>>
           /\ cut \subseteq cut' /\ cut' \subseteq Elements
           /\ raced \subseteq raced' /\ raced' \subseteq Projects
           /\ reset \subseteq reset' /\ reset' \subseteq Projects
           /\ gone' \subseteq gone /\ late' \subseteq Projects
           /\ phase' \in [Elements -> {"fresh", "running", "over"}]
           /\ pending' \in [Requests -> {None} \cup [of : Projects, settings : Settings]]
           /\ faults' \in 0..MaxFaults
<1> USE GalleryAssumption DEF ElementOps, TypeOK, tables, local, history
<1>1. CASE \E op \in {"create", "complete"}, e \in Elements, c \in Documents :
               CreateElement(op, e, c)
  <2>1. PICK op \in {"create", "complete"}, e \in Elements, c \in Documents :
            CreateElement(op, e, c)
    BY <1>1
  <2>2. /\ up /\ tx = None /\ tx' \in Call /\ tx' # None /\ CallFits'
        /\ tx'.of = e /\ tx'.op \in ElementOps
    BY <2>1, CreateBegins
  <2>3. /\ phase' = [phase EXCEPT ![e] = "over"]
        /\ late' = late \cup ({HomeOf[e]} \cap gone)
        /\ UNCHANGED <<store, tables, pending, listing, up, faults, cut, gone, last, raced,
                       reset, rebuilt>>
    BY <2>1 DEF CreateElement
  <2>4. /\ late' \subseteq Projects
        /\ phase' \in [Elements -> {"fresh", "running", "over"}]
    BY <2>3
  <2> QED
    BY <2>2, <2>3, <2>4
<1>2. CASE \E e \in Elements : DeleteElement(e)
    BY <1>2, DeleteBegins DEF DeleteElement
<1>3. CASE \E p \in Projects, t \in Texts : NewProject(p, t)
    BY <1>3, NewProjectBegins DEF NewProject
<1>4. CASE \E r \in Requests : WriteSettings(r)
  <2>1. PICK r \in Requests : WriteSettings(r)
    BY <1>4
  <2>2. /\ up /\ tx = None /\ tx' \in Call /\ tx' # None /\ CallFits'
        /\ tx'.of \in Projects /\ tx'.op \notin ElementOps /\ tx'.of = pending[r].of
    BY <2>1, SaveBegins
  <2>3. /\ raced \subseteq raced' /\ raced' \subseteq raced \cup {pending[r].of}
        /\ late' = late \cup ({pending[r].of} \cap gone)
        /\ pending' = [pending EXCEPT ![r] = None]
        /\ UNCHANGED <<store, tables, phase, listing, up, faults, cut, gone, last, reset,
                       rebuilt>>
    BY <2>1 DEF WriteSettings
  <2>4. late' \subseteq Projects /\ raced' \subseteq Projects
    BY <2>2, <2>3
  <2>5. pending' \in [Requests -> {None} \cup [of : Projects, settings : Settings]]
    BY <2>3
  <2> QED
    BY <2>2, <2>3, <2>4, <2>5
<1>5. CASE \E p \in Projects : DeleteProject(p)
    BY <1>5, DeleteProjectBegins DEF DeleteProject
<1>6. CASE \E p \in Projects : DeleteUnlistedProject(p)
  <2>1. PICK p \in Projects : DeleteUnlistedProject(p)
    BY <1>6
  <2>2. /\ up /\ tx = None /\ tx' \in Call /\ tx' # None /\ CallFits'
        /\ tx'.of = p /\ tx'.op \notin ElementOps
        /\ cut' = cut \cup HomeElements(p)
    BY <2>1, UnlistedBegins
  <2>3. /\ faults < MaxFaults /\ faults' = faults + 1
        /\ UNCHANGED <<store, tables, local, up, gone, late, last, raced, reset, rebuilt>>
    BY <2>1 DEF DeleteUnlistedProject
  <2>4. faults' \in 0..MaxFaults
    BY <2>3
  <2>5. HomeElements(p) \subseteq Elements
    BY DEF HomeElements
  <2> QED
    BY <2>2, <2>3, <2>4, <2>5
<1> QED
    BY <1>1, <1>2, <1>3, <1>4, <1>5, <1>6

Opening ==
    \/ \E op \in {"create", "complete"}, e \in Elements, c \in Documents :
           CreateElement(op, e, c)
    \/ \E e \in Elements : DeleteElement(e)
    \/ \E p \in Projects, t \in Texts : NewProject(p, t)
    \/ \E r \in Requests : WriteSettings(r)
    \/ \E p \in Projects : DeleteProject(p)
    \/ \E p \in Projects : DeleteUnlistedProject(p)

\* Every step keeps the shapes.
LEMMA TypeStep ==
    ASSUME TypeOK, CallFits, [Next]_vars
    PROVE  TypeOK'
<1>1. CASE Opening
  <2>1. /\ tx' \in Call /\ tx' # None
        /\ tx'.of \in (IF tx'.op \in ElementOps THEN Elements ELSE Projects)
        /\ UNCHANGED <<store, row, prow, up, listing, last, rebuilt>>
        /\ cut' \subseteq Elements /\ raced' \subseteq Projects
        /\ reset' \subseteq Projects
        /\ gone' \subseteq gone /\ late' \subseteq Projects
        /\ phase' \in [Elements -> {"fresh", "running", "over"}]
        /\ pending' \in [Requests -> {None} \cup [of : Projects, settings : Settings]]
        /\ faults' \in 0..MaxFaults
    BY <1>1, OpeningLeaves DEF Opening
  <2> QED
    BY <2>1 DEF TypeOK
<1>2. ASSUME NEW r \in Requests, NEW p \in Projects, NEW f \in {"name", "text"}, NEW t \in Texts,
             ReadSettings(r, p, f, t)
      PROVE  TypeOK'
  <2> DEFINE s == [prow[p] EXCEPT !.version = @ + 1, ![f] = t]
  <2>1. prow[p] \in Settings /\ prow[p].version <= MaxVersion
    BY <1>2 DEF ReadSettings, TypeOK
  <2>2. s \in Settings
    <3>1. prow[p].version + 1 \in 1..MaxVersion + 1
      BY <2>1, GalleryAssumption DEF Settings
    <3>2. [prow[p] EXCEPT !.version = @ + 1] \in Settings
      BY <2>1, <3>1 DEF Settings
    <3>3. s = [[prow[p] EXCEPT !.version = @ + 1] EXCEPT ![f] = t]
      OBVIOUS
    <3>4. CASE f = "name"
      BY <3>2, <3>3, <3>4 DEF Settings
    <3>5. CASE f = "text"
      BY <3>2, <3>3, <3>5 DEF Settings
    <3> QED
      BY <3>4, <3>5
  <2>3. /\ pending' = [pending EXCEPT ![r] = [of |-> p, settings |-> s]]
        /\ UNCHANGED <<objects, tables, phase, listing, up, faults, history>>
    BY <1>2 DEF ReadSettings
  <2> HIDE DEF s
  <2>4. pending' \in [Requests -> {None} \cup [of : Projects, settings : Settings]]
    BY <2>2, <2>3 DEF TypeOK
  <2> QED
    BY <2>3, <2>4 DEF TypeOK, objects, tables, history
<1>3. CASE ResyncList
  BY <1>3 DEF ResyncList, Stored, TypeOK, objects, tables, history
<1>4. CASE UNCHANGED vars
  BY <1>4 DEF TypeOK, vars, objects, tables, local, history
<1>5. CASE StoreWrite
  <2>1. /\ tx' # None /\ tx' \in Call
        /\ tx'.op = tx.op /\ tx'.of = tx.of
        /\ UNCHANGED <<tables, local, up, faults, history>> /\ tx # None
    BY <1>5, WriteEffect
  <2>2. store' \in [Keys -> {None, Torn, Bare, Done, Picture} \cup Settings]
    <3>1. 1 \in 0..Len(tx.todo) /\ store' = Applied(tx.todo, 1)
      <4>1. tx.todo \in Seq(Write) /\ tx.todo # <<>>
        BY <1>5, <2>1, TxType DEF StoreWrite
      <4> QED
        BY <1>5, <4>1 DEF StoreWrite
    <3> QED
      BY <2>1, <3>1, AppliedEffect
  <2> QED
    BY <2>1, <2>2 DEF TypeOK, tables, local, history
<1>6. CASE DeleteFails
  <2>1. /\ tx # None /\ tx' # None /\ tx' \in Call /\ tx'.op = tx.op /\ tx'.of = tx.of
        /\ cut' \subseteq Elements /\ faults' \in 0..MaxFaults
    BY <1>6, RefusalEffect
  <2>2. UNCHANGED <<store, tables, local, up, gone, late, last, raced, reset, rebuilt>>
    BY <1>6 DEF DeleteFails
  <2> QED
    BY <2>1, <2>2 DEF TypeOK, tables, local
<1>7. CASE Broken
  <2>1. /\ tx # None /\ RollBack
        /\ store' \in [Keys -> {None, Torn, Bare, Done, Picture} \cup Settings]
        /\ UNCHANGED <<tables, local, up, rebuilt>>
        /\ faults' \in 0..MaxFaults
    BY <1>7, BrokenEffect
  <2>2. /\ tx' = None /\ cut' \subseteq Elements /\ raced' \subseteq Projects
        /\ UNCHANGED <<gone, late, last, reset>>
    BY <2>1, RollBackEffect
  <2> QED
    BY <2>1, <2>2 DEF TypeOK, tables, local
<1>8. CASE CommitElement
  <2>1. /\ tx # None /\ tx.op \in ElementOps
        /\ tx.op \in {"create", "complete"} => tx.content \in Documents
        /\ tx.op \in {"create", "complete"}
    BY <1>8 DEF CommitElement, Committing, CallFits, ElementOps
  <2>2. tx.of \in Elements
    BY <2>1, TxType
  <2>3. /\ row' = [row EXCEPT ![tx.of] = IF @ = None THEN tx.content ELSE @]
        /\ phase' = [phase EXCEPT ![tx.of] = IF tx.content = Bare THEN "running" ELSE @]
        /\ tx' = None
        /\ UNCHANGED <<store, prow, pending, listing, up, faults, history>>
    BY <1>8 DEF CommitElement
  <2>4. /\ row' \in [Elements -> {None, Bare, Done}]
        /\ phase' \in [Elements -> {"fresh", "running", "over"}]
    BY <2>1, <2>2, <2>3 DEF TypeOK, Documents
  <2> QED
    BY <2>3, <2>4 DEF TypeOK, history
<1>9. CASE CommitDeletion
  BY <1>9 DEF CommitDeletion, TypeOK, local, history
<1>10. CASE CommitProject \/ CommitSave
  <2>1. /\ tx # None /\ tx.op \in {"newProject", "save"} /\ tx.content \in Settings
    BY <1>10 DEF CommitProject, CommitSave, Committing, CallFits
  <2>2. tx.of \in Projects
    BY <2>1, TxType DEF ElementOps
  <2>3. Saved(tx.content) \in [name : Texts, text : Texts]
    BY <2>1 DEF Saved, Settings
  <2>4. /\ tx' = None
        /\ UNCHANGED <<store, row, local, up, faults, cut, gone, late, raced, reset, rebuilt>>
    BY <1>10 DEF CommitProject, CommitSave
  <2>5. prow' \in [Projects -> Settings \cup {None}]
    BY <1>10, <2>1, <2>2 DEF CommitProject, CommitSave, TypeOK
  <2>6. last' \in [Projects -> {None} \cup [name : Texts, text : Texts]]
    BY <1>10, <2>2, <2>3 DEF CommitProject, CommitSave, TypeOK
  <2> QED
    BY <2>4, <2>5, <2>6 DEF TypeOK, local
<1>11. CASE CommitProjectDeletion
  <2>1. tx # None /\ tx.op = "deleteProject"
    BY <1>11 DEF CommitProjectDeletion, Committing
  <2>2. tx.of \in Projects
    BY <2>1, TxType DEF ElementOps
  <2>3. /\ row' = [e \in Elements |-> IF HomeOf[e] = tx.of THEN None ELSE row[e]]
        /\ prow' = [prow EXCEPT ![tx.of] = None]
        /\ last' = [last EXCEPT ![tx.of] = None]
        /\ gone' = IF tx.missed THEN gone \ {tx.of} ELSE gone \cup {tx.of}
        /\ late' = late \ {tx.of}
        /\ tx' = None
        /\ UNCHANGED <<store, local, up, faults, cut, raced, reset, rebuilt>>
    BY <1>11 DEF CommitProjectDeletion
  <2>4. row' \in [Elements -> {None, Bare, Done}]
    BY <2>3 DEF TypeOK
  <2>5. /\ prow' \in [Projects -> Settings \cup {None}]
        /\ last' \in [Projects -> {None} \cup [name : Texts, text : Texts]]
    BY <2>3 DEF TypeOK
  <2>6. gone' \subseteq Projects /\ late' \subseteq Projects
    BY <2>2, <2>3 DEF TypeOK
  <2> QED
    BY <2>3, <2>4, <2>5, <2>6 DEF TypeOK, local
<1>12. CASE ResyncRun
  <2>1. /\ listing \subseteq Keys /\ listing # None
        /\ listing' = None
        /\ UNCHANGED <<objects, phase, pending, up, faults, history>>
        /\ IF Syncable(listing) THEN SyncFromStorage(listing) ELSE UNCHANGED tables
    BY <1>12 DEF ResyncRun, TypeOK
  <2>2. row' \in [Elements -> {None, Bare, Done}] /\ prow' \in [Projects -> Settings \cup {None}]
    BY <2>1, SyncEffect DEF TypeOK, tables
  <2> QED
    BY <2>1, <2>2 DEF TypeOK, objects, history
<1>13. ASSUME NEW lose \in BOOLEAN, Crash(lose)
      PROVE  TypeOK'
  <2>1. /\ up' = FALSE /\ tx' = None /\ cut' \subseteq Elements
        /\ raced' \subseteq Projects
        /\ store' \in [Keys -> {None, Torn, Bare, Done, Picture} \cup Settings]
        /\ rebuilt' = (rebuilt \/ lose)
        /\ \/ UNCHANGED tables
           \/ row' = [e \in Elements |-> None] /\ prow' = [p \in Projects |-> None]
        /\ UNCHANGED <<gone, late, last, reset>>
        /\ faults' \in 0..MaxFaults
    BY <1>13, CrashEffect
  <2>2. row' \in [Elements -> {None, Bare, Done}] /\ prow' \in [Projects -> Settings \cup {None}]
    BY <2>1 DEF TypeOK, tables
  <2>3. /\ phase' = [e \in Elements |-> IF phase[e] = "running" THEN "over" ELSE phase[e]]
        /\ pending' = [r \in Requests |-> None]
        /\ listing' = None
    BY <1>13 DEF Crash
  <2>4. rebuilt' \in BOOLEAN
    BY <2>1
  <2>5. phase' \in [Elements -> {"fresh", "running", "over"}]
    BY <2>3 DEF TypeOK
  <2> QED
    BY <2>1, <2>2, <2>3, <2>4, <2>5 DEF TypeOK
<1>14. CASE StartUp
  <2>1. /\ Syncable(Stored) /\ SyncFromStorage(Stored) /\ up' = TRUE
        /\ UNCHANGED <<objects, local, faults, history>>
    BY <1>14 DEF StartUp
  <2>2. row' \in [Elements -> {None, Bare, Done}] /\ prow' \in [Projects -> Settings \cup {None}]
    BY <2>1, SyncEffect DEF Stored
  <2> QED
    BY <2>1, <2>2 DEF TypeOK, objects, local, history
<1> QED
    BY <1>1, <1>2, <1>3, <1>4, <1>5, <1>6, <1>7, <1>8, <1>9, <1>10, <1>11, <1>12, <1>13, <1>14,
       NextCases DEF Opening

\* Every call keeps to its list, and none outlives the process.
LEMMA CallStep ==
    ASSUME TypeOK, CallFits, DownIdle, [Next]_vars
    PROVE  CallFits' /\ DownIdle'
<1>1. CASE Opening
  <2>1. up /\ tx' # None /\ CallFits' /\ UNCHANGED up
    BY <1>1, OpeningLeaves DEF Opening
  <2> QED
    BY <2>1 DEF DownIdle
<1>2. ASSUME UNCHANGED <<store, tx, cut>>, up' = up \/ (up' = TRUE /\ tx = None)
      PROVE  CallFits' /\ DownIdle'
  BY <1>2 DEF CallFits, DownIdle, Aims, Aim, HomeElements
<1>3. ASSUME NEW r \in Requests, NEW p \in Projects, NEW f \in {"name", "text"}, NEW t \in Texts,
             ReadSettings(r, p, f, t)
      PROVE  CallFits' /\ DownIdle'
  BY <1>2, <1>3 DEF ReadSettings, objects, history
<1>4. CASE ResyncList \/ ResyncRun
  BY <1>2, <1>4 DEF ResyncList, ResyncRun, objects, history
<1>5. CASE UNCHANGED vars
  BY <1>2, <1>5 DEF vars, objects, history
<1>6. CASE StartUp
  BY <1>2, <1>6 DEF StartUp, objects, history, DownIdle
<1>7. CASE StoreWrite
  <2>1. CallFits' /\ UNCHANGED up /\ tx # None
    BY <1>7, WriteEffect
  <2> QED
    BY <2>1 DEF DownIdle
<1>8. CASE DeleteFails
  <2>1. CallFits' /\ up /\ tx # None
    BY <1>8, RefusalEffect
  <2> QED
    BY <1>8, <2>1 DEF DownIdle, DeleteFails
<1>9. ASSUME tx' = None
      PROVE  CallFits' /\ DownIdle'
  BY <1>9 DEF CallFits, DownIdle
<1>10. CASE Broken
  <2>1. tx' = None
    BY <1>10, BrokenEffect, RollBackEffect
  <2> QED
    BY <1>9, <2>1
<1>11. CASE CommitElement \/ CommitDeletion \/ CommitProject \/ CommitSave \/ CommitProjectDeletion
  BY <1>9, <1>11
     DEF CommitElement, CommitDeletion, CommitProject, CommitSave, CommitProjectDeletion
<1>12. ASSUME NEW lose \in BOOLEAN, Crash(lose)
      PROVE  CallFits' /\ DownIdle'
  <2>1. tx' = None
    BY <1>12, CrashEffect
  <2> QED
    BY <1>9, <2>1
<1> QED
  BY <1>1, <1>3, <1>4, <1>5, <1>6, <1>7, <1>8, <1>10, <1>11, <1>12, NextCases DEF Opening

\* What ElementsWhole says of one element.
Whole(e) ==
    /\ row[e] # None => store[Json(e)] \in Documents
    /\ store[Json(e)] = Done => store[Image(e)] = Picture
    /\ up /\ store[Json(e)] # None => row[e] # None /\ prow[HomeOf[e]] # None

\* A sync of a store whose listed documents are sound leaves what was whole whole; at a
\* start it lists everything there is.
LEMMA SyncKeepsWhole ==
    ASSUME TypeOK, NEW e \in Elements, Whole(e), NEW listed \in SUBSET Keys,
           Syncable(listed), SyncFromStorage(listed), UNCHANGED store,
           (up /\ up') \/ listed = Stored
    PROVE  Whole(e)'
<1>1. /\ \/ row'[e] = row[e]
         \/ /\ row[e] = None /\ Json(e) \in listed
            /\ row'[e] = store[Json(e)] /\ store[Json(e)] \in Documents
      /\ Json(e) \in listed => row'[e] # None /\ prow'[HomeOf[e]] # None
      /\ prow[HomeOf[e]] # None => prow'[HomeOf[e]] # None
    BY SyncEffect, GalleryAssumption
<1>2. row'[e] # None => store[Json(e)] \in Documents
    BY <1>1 DEF Whole
<1>3. CASE up /\ up'
    BY <1>1, <1>2, <1>3, ValuesAssumption DEF Whole, Documents
<1>4. CASE listed = Stored
  <2>1. store[Json(e)] # None => Json(e) \in listed
    BY <1>4, KeyShapes DEF Stored
  <2> QED
    BY <1>1, <1>2, <2>1 DEF Whole
<1> QED
    BY <1>3, <1>4

\* A commit finds the objects of its element as the call meant to leave them.
LEMMA ElementStep ==
    ASSUME TypeOK, CallFits, DownIdle, [Next]_vars,
           NEW e \in Elements, e \notin cut', ~Busy(e)',
           e \notin cut /\ ~Busy(e) => Whole(e)
    PROVE  Whole(e)'
<1> USE GalleryAssumption
<1>1. HomeOf[e] \in Projects
    OBVIOUS
<1>2. ASSUME e \notin cut, ~Busy(e), UNCHANGED <<store, row, prow, up>>
      PROVE  Whole(e)'
    BY <1>2 DEF Whole
<1>3. CASE Opening
  <2>1. tx = None /\ UNCHANGED <<store, row, prow, up>> /\ cut \subseteq cut'
    BY <1>3, OpeningLeaves DEF Opening
  <2> QED
    BY <1>2, <2>1 DEF Busy
<1>4. ASSUME NEW r \in Requests, NEW p \in Projects, NEW f \in {"name", "text"}, NEW t \in Texts,
             ReadSettings(r, p, f, t)
      PROVE  Whole(e)'
    BY <1>2, <1>4 DEF ReadSettings, objects, tables, history, Busy
<1>5. CASE ResyncList \/ UNCHANGED vars
    BY <1>2, <1>5 DEF ResyncList, vars, objects, tables, history, Busy
<1>6. CASE StoreWrite
  <2>1. /\ tx # None /\ tx' # None /\ tx'.op = tx.op /\ tx'.of = tx.of
        /\ UNCHANGED <<tables, local, up, faults, history>>
    BY <1>6, WriteEffect
  <2>2. PICK k \in Keys : Aims(k) /\ store' = [store EXCEPT ![k] = Aim(k)]
    BY <1>6, WriteEffect
  <2>3. ~Busy(e) /\ e \notin cut
    BY <2>1 DEF Busy, history
  <2>4. k # Json(e) /\ k # Image(e)
    BY <2>1, <2>2, <2>3, AimsWhere
  <2>5. store'[Json(e)] = store[Json(e)] /\ store'[Image(e)] = store[Image(e)]
    BY <2>2, <2>4, KeyShapes DEF TypeOK
  <2> QED
    BY <2>1, <2>3, <2>5 DEF Whole, tables
<1>7. CASE DeleteFails
  <2>1. /\ tx # None /\ tx' # None /\ tx'.op = tx.op /\ tx'.of = tx.of /\ cut \subseteq cut'
    BY <1>7, RefusalEffect
  <2>2. UNCHANGED <<store, row, prow, up>>
    BY <1>7 DEF DeleteFails, tables
  <2> QED
    BY <1>2, <2>1, <2>2 DEF Busy
<1>8. CASE Broken
  <2>1. /\ tx # None /\ RollBack
        /\ \A k \in Keys : ~Aims(k) => store'[k] = store[k]
        /\ UNCHANGED <<tables, local, up>>
    BY <1>8, BrokenEffect
  <2>2. cut \subseteq cut' /\ (Busy(e) => e \in cut')
    BY <2>1, RollBackEffect
  <2>3. store'[Json(e)] = store[Json(e)] /\ store'[Image(e)] = store[Image(e)]
    BY <2>1, <2>2, AimsWhere, KeyShapes
  <2> QED
    BY <2>1, <2>2, <2>3 DEF Whole, tables
<1>9. CASE CommitElement
  <2>1. /\ up /\ tx # None /\ tx.op \in {"create", "complete"}
        /\ \A k \in Keys : Aims(k) => store[k] = Aim(k) \/ tx.missed
    BY <1>9, CommitFinds DEF CommitElement
  <2>2. ~tx.missed /\ tx.content \in Documents
    BY <2>1 DEF CallFits
  <2>3. tx.of \in Elements
    BY <2>1, TxType DEF ElementOps
  <2>4. /\ prow[HomeOf[tx.of]] # None
        /\ row' = [row EXCEPT ![tx.of] = IF @ = None THEN tx.content ELSE @]
        /\ UNCHANGED <<store, prow, up, cut>>
    BY <1>9 DEF CommitElement, history
  <2>5. CASE e # tx.of
    <3>1. ~Busy(e) /\ row'[e] = row[e] /\ e \notin cut
      BY <2>1, <2>3, <2>4, <2>5 DEF Busy, TypeOK
    <3> QED
      BY <2>4, <3>1 DEF Whole
  <2>6. CASE e = tx.of
    <3>1. Aims(Json(e)) /\ Aim(Json(e)) = tx.content
      BY <2>1, <2>6, KeyShapes DEF Aims, Aim
    <3>2. tx.content = Done => Aims(Image(e)) /\ Aim(Image(e)) = Picture
      BY <2>1, <2>6 DEF Aims, Aim
    <3>3. row'[e] # None
      BY <2>2, <2>4, <2>6, ValuesAssumption DEF TypeOK, Documents
    <3>4. store[Json(e)] = tx.content
      BY <2>1, <2>2, <3>1, KeyShapes
    <3>5. tx.content = Done => store[Image(e)] = Picture
      BY <2>1, <2>2, <3>2, KeyShapes
    <3> QED
      BY <2>2, <2>4, <2>6, <3>3, <3>4, <3>5 DEF Whole
  <2> QED
    BY <2>5, <2>6
<1>10. CASE CommitDeletion
  <2>1. /\ up /\ tx # None /\ tx.op = "delete"
        /\ \A k \in Keys : Aims(k) => store[k] = Aim(k) \/ tx.missed
    BY <1>10, CommitFinds DEF CommitDeletion
  <2>2. /\ row' = [row EXCEPT ![tx.of] = None]
        /\ UNCHANGED <<store, prow, up, cut>>
    BY <1>10 DEF CommitDeletion, history
  <2>3. CASE e # tx.of
    <3>1. ~Busy(e) /\ row'[e] = row[e] /\ e \notin cut
      BY <2>1, <2>2, <2>3 DEF Busy, TypeOK
    <3> QED
      BY <2>2, <3>1 DEF Whole
  <2>4. CASE e = tx.of
    <3>1. ~tx.missed
      BY <2>1, <2>2, <2>4 DEF CallFits
    <3>2. Aims(Json(e)) /\ Aim(Json(e)) = None
      BY <2>1, <2>4 DEF Aims, Aim
    <3>3. store[Json(e)] = None
      BY <2>1, <3>1, <3>2, KeyShapes
    <3>4. row'[e] = None
      BY <2>2, <2>4 DEF TypeOK
    <3> QED
      BY <2>2, <3>3, <3>4, ValuesAssumption DEF Whole
  <2> QED
    BY <2>3, <2>4
<1>11. CASE CommitProject \/ CommitSave
  <2>1. /\ tx # None /\ tx.op \in {"newProject", "save"} /\ tx.content \in Settings
    BY <1>11 DEF CommitProject, CommitSave, Committing, CallFits
  <2>2. UNCHANGED <<store, row, up, cut>>
    BY <1>11 DEF CommitProject, CommitSave
  <2>3. prow[HomeOf[e]] # None => prow'[HomeOf[e]] # None
    BY <1>11, <2>1, <1>1, ValuesAssumption DEF CommitProject, CommitSave, TypeOK
  <2>4. ~Busy(e)
    BY <2>1 DEF Busy, ElementOps
  <2> QED
    BY <2>2, <2>3, <2>4 DEF Whole
<1>12. CASE CommitProjectDeletion
  <2>1. /\ up /\ tx # None /\ tx.op = "deleteProject"
        /\ \A k \in Keys : Aims(k) => store[k] = Aim(k) \/ tx.missed
    BY <1>12, CommitFinds DEF CommitProjectDeletion
  <2>2. /\ row' = [f \in Elements |-> IF HomeOf[f] = tx.of THEN None ELSE row[f]]
        /\ prow' = [prow EXCEPT ![tx.of] = None]
        /\ UNCHANGED <<store, up, cut>>
    BY <1>12 DEF CommitProjectDeletion
  <2>3. CASE HomeOf[e] # tx.of
    <3>1. ~Busy(e) /\ e \notin cut
      BY <2>1, <2>2, <2>3 DEF Busy, ElementOps
    <3>2. row'[e] = row[e] /\ prow'[HomeOf[e]] = prow[HomeOf[e]]
      BY <1>1, <2>2, <2>3 DEF TypeOK
    <3> QED
      BY <2>2, <3>1, <3>2 DEF Whole
  <2>4. CASE HomeOf[e] = tx.of
    <3>1. e \in HomeElements(tx.of)
      BY <2>4 DEF HomeElements
    <3>2. ~tx.missed
      BY <2>1, <2>2, <3>1 DEF CallFits
    <3>3. Aims(Json(e)) /\ Aim(Json(e)) = None
      BY <2>1, <2>4, KeyHomes DEF Aims, Aim
    <3>4. store[Json(e)] = None
      BY <2>1, <3>2, <3>3, KeyShapes
    <3>5. row'[e] = None
      BY <2>2, <2>4
    <3> QED
      BY <2>2, <3>4, <3>5, ValuesAssumption DEF Whole
  <2> QED
    BY <2>3, <2>4
<1>13. CASE ResyncRun
  <2>1. /\ up /\ tx = None /\ listing \in SUBSET Keys
        /\ IF Syncable(listing) THEN SyncFromStorage(listing) ELSE UNCHANGED tables
        /\ UNCHANGED <<store, tx, up, cut>>
    BY <1>13 DEF ResyncRun, TypeOK, objects, history
  <2>2. Whole(e)
    BY <2>1 DEF Busy
  <2>3. CASE Syncable(listing)
    BY <2>1, <2>2, <2>3, SyncKeepsWhole
  <2>4. CASE ~Syncable(listing)
    BY <2>1, <2>2, <2>4 DEF Whole, tables
  <2> QED
    BY <2>3, <2>4
<1>14. ASSUME NEW lose \in BOOLEAN, Crash(lose)
      PROVE  Whole(e)'
  <2>1. /\ up' = FALSE /\ cut \subseteq cut'
        /\ Busy(e) => e \in cut'
        /\ \A k \in Keys : store'[k] = store[k] \/ (tx # None /\ Aims(k))
        /\ \/ UNCHANGED tables
           \/ /\ row' = [f \in Elements |-> None]
              /\ prow' = [p \in Projects |-> None]
    BY <1>14, CrashEffect
  <2>2. store'[Json(e)] = store[Json(e)] /\ store'[Image(e)] = store[Image(e)]
    BY <2>1, AimsWhere, KeyShapes
  <2>3. row'[e] # None => row'[e] = row[e]
    BY <2>1 DEF tables
  <2> QED
    BY <2>1, <2>2, <2>3 DEF Whole
<1>15. CASE StartUp
  <2>1. /\ ~up /\ Syncable(Stored) /\ SyncFromStorage(Stored)
        /\ UNCHANGED <<store, tx, cut>>
    BY <1>15 DEF StartUp, objects, history
  <2>2. Whole(e)
    BY <2>1 DEF Busy, DownIdle
  <2>3. Stored \in SUBSET Keys
    BY DEF Stored
  <2> QED
    BY <2>1, <2>2, <2>3, SyncKeepsWhole
<1> QED
    BY <1>3, <1>4, <1>5, <1>6, <1>7, <1>8, <1>9, <1>10, <1>11, <1>12, <1>13, <1>14, <1>15,
       NextCases DEF Opening

\* What GoneUntouched says of one project.
Gone(p) ==
    /\ prow[p] = None /\ ObjectsUnder(p) = {}
    /\ tx # None /\ tx.op \notin {"delete", "deleteProject"} =>
           p # IF tx.op \in ElementOps THEN HomeOf[tx.of] ELSE tx.of

\* The call under way does not put anything of a project that is gone.
LEMMA GoneSpared ==
    ASSUME TypeOK, NEW p \in Projects, Gone(p), tx # None,
           NEW k \in Keys, HomeOfKey(k) = p, Aims(k)
    PROVE  tx.op \in {"delete", "deleteProject"}
    BY AimsWhere DEF Gone

\* A sync finds nothing to list in a project that is gone.
LEMMA SyncSparesGone ==
    ASSUME TypeOK, NEW p \in Projects, prow[p] = None, ObjectsUnder(p) = {},
           NEW listed \in SUBSET Keys, Syncable(listed), SyncFromStorage(listed)
    PROVE  prow'[p] = None
<1>1. store[Meta(p)] = None
    BY KeyShapes, KeyHomes DEF ObjectsUnder
<1>2. ~Readable(listed, Meta(p), Settings)
    BY <1>1, ValuesAssumption DEF Readable
<1>3. \A e \in HomeElements(p) : Json(e) \notin listed
  <2>1. ASSUME NEW e \in HomeElements(p) PROVE store[Json(e)] = None
    BY KeyShapes, KeyHomes DEF ObjectsUnder, HomeElements
  <2> QED
    BY <2>1, ValuesAssumption DEF Syncable, Documents, HomeElements
<1> QED
    BY <1>2, <1>3, SyncEffect

\* Nothing but a call that had begun before brings a deleted project back.
LEMMA GoneStep ==
    ASSUME TypeOK, CallFits, DownIdle, [Next]_vars,
           NEW p \in Projects, p \in gone', p \notin late',
           p \in gone \ late => Gone(p)
    PROVE  Gone(p)'
<1> USE GalleryAssumption
<1>1. ASSUME p \in gone \ late, UNCHANGED <<store, prow>>,
             \/ tx' = None
             \/ /\ tx' # None /\ tx'.op \notin {"delete", "deleteProject"}
                /\ p # IF tx'.op \in ElementOps THEN HomeOf[tx'.of] ELSE tx'.of
             \/ tx' # None /\ tx'.op \in {"delete", "deleteProject"}
             \/ tx' = tx
             \/ tx # None /\ tx' # None /\ tx'.op = tx.op /\ tx'.of = tx.of
      PROVE  Gone(p)'
    BY <1>1 DEF Gone, ObjectsUnder
<1>2. ASSUME NEW op \in {"create", "complete"}, NEW e \in Elements, NEW c \in Documents,
             CreateElement(op, e, c)
      PROVE  Gone(p)'
  <2>1. tx' # None /\ tx'.op = op /\ tx'.of = e
    BY <1>2, CreateBegins
  <2>2. late' = late \cup ({HomeOf[e]} \cap gone) /\ gone' = gone /\ UNCHANGED <<store, prow>>
    BY <1>2 DEF CreateElement, tables
  <2> QED
    BY <1>1, <2>1, <2>2 DEF ElementOps
<1>3. ASSUME NEW e \in Elements, DeleteElement(e)
      PROVE  Gone(p)'
  <2>1. tx' # None /\ tx'.op = "delete"
    BY <1>3, DeleteBegins
  <2>2. UNCHANGED <<store, tables, history>>
    BY <1>3 DEF DeleteElement
  <2> QED
    BY <1>1, <2>1, <2>2 DEF tables, history
<1>4. ASSUME NEW q \in Projects, NEW t \in Texts, NewProject(q, t)
      PROVE  Gone(p)'
  <2>1. tx' # None /\ tx'.op = "newProject" /\ tx'.of = q
    BY <1>4, NewProjectBegins
  <2>2. gone' = gone \ {q} /\ late' = late \ {q} /\ UNCHANGED <<store, tables>>
    BY <1>4 DEF NewProject
  <2> QED
    BY <1>1, <2>1, <2>2 DEF tables, ElementOps
<1>5. ASSUME NEW r \in Requests, WriteSettings(r)
      PROVE  Gone(p)'
  <2>1. tx' # None /\ tx'.op = "save" /\ tx'.of = pending[r].of
    BY <1>5, SaveBegins
  <2>2. late' = late \cup ({pending[r].of} \cap gone) /\ gone' = gone /\ UNCHANGED <<store, tables>>
    BY <1>5 DEF WriteSettings
  <2> QED
    BY <1>1, <2>1, <2>2 DEF tables, ElementOps
<1>6. ASSUME NEW q \in Projects, DeleteProject(q) \/ DeleteUnlistedProject(q)
      PROVE  Gone(p)'
  <2>1. tx' # None /\ tx'.op = "deleteProject"
    BY <1>6, DeleteProjectBegins, UnlistedBegins
  <2>2. UNCHANGED <<store, tables, gone, late>>
    BY <1>6 DEF DeleteProject, DeleteUnlistedProject, history
  <2> QED
    BY <1>1, <2>1, <2>2 DEF tables
<1>7. ASSUME NEW r \in Requests, NEW q \in Projects, NEW f \in {"name", "text"}, NEW t \in Texts,
             ReadSettings(r, q, f, t)
      PROVE  Gone(p)'
    BY <1>1, <1>7 DEF ReadSettings, objects, tables, history
<1>8. CASE ResyncList \/ UNCHANGED vars
    BY <1>1, <1>8 DEF ResyncList, vars, objects, tables, history
<1>9. CASE StoreWrite
  <2>1. /\ tx # None /\ tx' # None /\ tx'.op = tx.op /\ tx'.of = tx.of
        /\ UNCHANGED <<tables, history>>
    BY <1>9, WriteEffect
  <2>2. PICK k \in Keys : Aims(k) /\ store' = [store EXCEPT ![k] = Aim(k)]
    BY <1>9, WriteEffect
  <2>3. Gone(p)
    BY <2>1 DEF history
  <2>4. HomeOfKey(k) = p => Aim(k) = None
    BY <2>1, <2>2, <2>3, GoneSpared DEF Aim
  <2>5. ObjectsUnder(p)' = {}
    BY <2>2, <2>3, <2>4 DEF Gone, ObjectsUnder, TypeOK
  <2> QED
    BY <2>1, <2>3, <2>5 DEF Gone, tables
<1>10. CASE DeleteFails
  <2>1. /\ tx # None /\ tx' # None /\ tx'.op = tx.op /\ tx'.of = tx.of
    BY <1>10, RefusalEffect
  <2>2. UNCHANGED <<store, tables, gone, late>>
    BY <1>10 DEF DeleteFails
  <2> QED
    BY <1>1, <2>1, <2>2 DEF tables
<1>11. CASE Broken
  <2>1. /\ tx # None /\ RollBack
        /\ \A k \in Keys : ~Aims(k) => store'[k] = store[k]
        /\ tx.op \in {"delete", "deleteProject"} =>
               \A k \in Keys : store'[k] \in {store[k], None}
        /\ UNCHANGED <<tables, local, up>>
    BY <1>11, BrokenEffect
  <2>2. tx' = None /\ UNCHANGED <<gone, late>>
    BY <2>1, RollBackEffect
  <2>3. Gone(p)
    BY <2>2
  <2>4. ASSUME NEW k \in Keys, HomeOfKey(k) = p PROVE store'[k] = None
    <3>1. store[k] = None
      BY <2>3, <2>4 DEF Gone, ObjectsUnder
    <3> QED
      BY <2>1, <2>3, <2>4, <3>1, GoneSpared
  <2> QED
    BY <2>1, <2>2, <2>3, <2>4 DEF Gone, ObjectsUnder, tables
<1>12. CASE CommitElement \/ CommitDeletion
    BY <1>1, <1>12 DEF CommitElement, CommitDeletion, history
<1>13. CASE CommitProject \/ CommitSave
  <2>1. /\ tx # None /\ tx.op \in {"newProject", "save"} /\ tx' = None
        /\ UNCHANGED <<store, gone, late>>
    BY <1>13 DEF CommitProject, CommitSave, Committing
  <2>2. Gone(p)
    BY <2>1
  <2>3. p # tx.of
    BY <2>1, <2>2 DEF Gone, ElementOps
  <2>4. prow'[p] = prow[p]
    BY <1>13, <2>3 DEF CommitProject, CommitSave, TypeOK
  <2> QED
    BY <2>1, <2>2, <2>4 DEF Gone, ObjectsUnder
<1>14. CASE CommitProjectDeletion
  <2>1. /\ up /\ tx # None /\ tx.op = "deleteProject"
        /\ \A k \in Keys : Aims(k) => store[k] = Aim(k) \/ tx.missed
    BY <1>14, CommitFinds DEF CommitProjectDeletion
  <2>2. /\ prow' = [prow EXCEPT ![tx.of] = None]
        /\ gone' = IF tx.missed THEN gone \ {tx.of} ELSE gone \cup {tx.of}
        /\ late' = late \ {tx.of}
        /\ tx' = None
        /\ UNCHANGED store
    BY <1>14 DEF CommitProjectDeletion
  <2>3. CASE p # tx.of
    <3>1. Gone(p) /\ prow'[p] = prow[p]
      BY <2>2, <2>3 DEF TypeOK
    <3> QED
      BY <2>2, <3>1 DEF Gone, ObjectsUnder
  <2>4. CASE p = tx.of
    <3>1. ~tx.missed
      BY <2>2, <2>4
    <3>2. ASSUME NEW k \in Keys, HomeOfKey(k) = p PROVE store[k] = None
      <4>1. Aims(k) /\ Aim(k) = None
        BY <2>1, <2>4, <3>2 DEF Aims, Aim
      <4> QED
        BY <2>1, <3>1, <4>1
    <3>3. prow'[p] = None
      BY <2>2, <2>4 DEF TypeOK
    <3> QED
      BY <2>2, <3>2, <3>3 DEF Gone, ObjectsUnder
  <2> QED
    BY <2>3, <2>4
<1>15. CASE ResyncRun
  <2>1. /\ listing \in SUBSET Keys
        /\ IF Syncable(listing) THEN SyncFromStorage(listing) ELSE UNCHANGED tables
        /\ UNCHANGED <<store, tx, gone, late>>
    BY <1>15 DEF ResyncRun, TypeOK, objects, history
  <2>2. Gone(p)
    BY <2>1
  <2>3. prow'[p] = None
    BY <2>1, <2>2, SyncSparesGone DEF Gone, tables
  <2> QED
    BY <2>1, <2>2, <2>3 DEF Gone, ObjectsUnder
<1>16. ASSUME NEW lose \in BOOLEAN, Crash(lose)
      PROVE  Gone(p)'
  <2>1. /\ tx' = None
        /\ \A k \in Keys : \/ store'[k] = store[k]
                           \/ /\ tx # None /\ Aims(k)
                              /\ tx.op \notin {"delete", "deleteProject"}
        /\ \/ UNCHANGED tables
           \/ prow' = [q \in Projects |-> None]
        /\ UNCHANGED <<gone, late>>
    BY <1>16, CrashEffect
  <2>2. Gone(p)
    BY <2>1
  <2>3. ASSUME NEW k \in Keys, HomeOfKey(k) = p PROVE store'[k] = None
    <3>1. store[k] = None
      BY <2>2, <2>3 DEF Gone, ObjectsUnder
    <3> QED
      BY <2>1, <2>2, <2>3, <3>1, GoneSpared
  <2>4. prow'[p] = None
    BY <2>1, <2>2 DEF Gone, tables
  <2> QED
    BY <2>1, <2>3, <2>4 DEF Gone, ObjectsUnder
<1>17. CASE StartUp
  <2>1. /\ Syncable(Stored) /\ SyncFromStorage(Stored)
        /\ UNCHANGED <<store, tx, gone, late>>
    BY <1>17 DEF StartUp, objects, history
  <2>2. Gone(p) /\ Stored \in SUBSET Keys
    BY <2>1 DEF Stored
  <2>3. prow'[p] = None
    BY <2>1, <2>2, SyncSparesGone DEF Gone
  <2> QED
    BY <2>1, <2>2, <2>3 DEF Gone, ObjectsUnder
<1> QED
    BY <1>2, <1>3, <1>4, <1>5, <1>6, <1>7, <1>8, <1>9, <1>10, <1>11, <1>12, <1>13, <1>14,
       <1>15, <1>16, <1>17, NextCases

\* What SettingsKept says of one project.
Kept(p) ==
    last[p] # None =>
        /\ prow[p] = None => ~up /\ rebuilt
        /\ prow[p] # None => /\ prow[p].name = last[p].name
                             /\ rebuilt \/ prow[p].text = last[p].text
        /\ tx = None \/ tx.of # p \/ tx.op \in ElementOps =>
               store[Meta(p)] \in Settings /\ Saved(store[Meta(p)]) = last[p]
        /\ tx # None => tx.op # "newProject" \/ tx.of # p

SaveHasRow == tx # None /\ tx.op = "save" /\ tx.of \notin raced => prow[tx.of] # None

\* A save's row is there until the call ends.
LEMMA SaveStep ==
    ASSUME TypeOK, CallFits, DownIdle, SaveHasRow, [Next]_vars
    PROVE  SaveHasRow'
<1>1. ASSUME tx' = None PROVE SaveHasRow'
    BY <1>1 DEF SaveHasRow
<1>2. ASSUME tx' # None, tx'.op # "save" PROVE SaveHasRow'
    BY <1>2 DEF SaveHasRow
<1>3. ASSUME UNCHANGED <<tx, raced, prow>> PROVE SaveHasRow'
    BY <1>3 DEF SaveHasRow
<1>4. ASSUME NEW op \in {"create", "complete"}, NEW e \in Elements, NEW c \in Documents,
             CreateElement(op, e, c)
      PROVE  SaveHasRow'
    BY <1>2, <1>4, CreateBegins
<1>5. ASSUME NEW e \in Elements, DeleteElement(e) PROVE SaveHasRow'
    BY <1>2, <1>5, DeleteBegins
<1>6. ASSUME NEW p \in Projects, NEW t \in Texts, NewProject(p, t) PROVE SaveHasRow'
    BY <1>2, <1>6, NewProjectBegins
<1>7. ASSUME NEW p \in Projects, DeleteProject(p) \/ DeleteUnlistedProject(p) PROVE SaveHasRow'
    BY <1>2, <1>7, DeleteProjectBegins, UnlistedBegins
<1>8. ASSUME NEW r \in Requests, WriteSettings(r) PROVE SaveHasRow'
  <2> DEFINE q == pending[r].of
             s == pending[r].settings
  <2>1. tx'.of = q
    BY <1>8, SaveBegins
  <2>2. raced' = raced \cup (IF prow[q] # None /\ s.version = prow[q].version + 1
                             THEN {} ELSE {q})
    BY <1>8 DEF WriteSettings
  <2>3. prow' = prow
    BY <1>8 DEF WriteSettings, tables
  <2> QED
    BY <2>1, <2>2, <2>3 DEF SaveHasRow
<1>9. ASSUME NEW r \in Requests, NEW p \in Projects, NEW f \in {"name", "text"}, NEW t \in Texts,
             ReadSettings(r, p, f, t)
      PROVE  SaveHasRow'
    BY <1>3, <1>9 DEF ReadSettings, objects, tables, history
<1>10. CASE ResyncList \/ UNCHANGED vars
    BY <1>3, <1>10 DEF ResyncList, vars, objects, tables, history
<1>11. CASE StoreWrite
    BY <1>11, WriteEffect DEF SaveHasRow, tables, history
<1>12. CASE DeleteFails
    BY <1>2, <1>12, RefusalEffect
<1>13. CASE Broken
    BY <1>1, <1>13, BrokenEffect, RollBackEffect
<1>14. CASE CommitElement \/ CommitDeletion \/ CommitProject \/ CommitSave \/ CommitProjectDeletion
    BY <1>1, <1>14
       DEF CommitElement, CommitDeletion, CommitProject, CommitSave, CommitProjectDeletion
<1>15. CASE ResyncRun \/ StartUp
    BY <1>1, <1>15 DEF ResyncRun, StartUp, objects, DownIdle
<1>16. ASSUME NEW lose \in BOOLEAN, Crash(lose) PROVE SaveHasRow'
    BY <1>1, <1>16, CrashEffect
<1> QED
    BY <1>4, <1>5, <1>6, <1>7, <1>8, <1>9, <1>10, <1>11, <1>12, <1>13, <1>14, <1>15, <1>16,
       NextCases

\* Rows and project.json stay with the last save, whatever call, fault or sync comes.
LEMMA SettingsStep ==
    ASSUME TypeOK, CallFits, DownIdle, SaveHasRow, [Next]_vars,
           NEW p \in Projects, p \notin raced', p \notin reset',
           p \notin raced \cup reset => Kept(p)
    PROVE  Kept(p)'
<1> USE GalleryAssumption
<1>1. ASSUME Kept(p), UNCHANGED <<store, prow, up, last, rebuilt>>,
             tx = None \/ tx.of # p \/ tx.op \in ElementOps,
             tx' # None => tx'.op # "newProject" \/ tx'.of # p
      PROVE  Kept(p)'
    BY <1>1 DEF Kept
<1>2. ASSUME NEW op \in {"create", "complete"}, NEW e \in Elements, NEW c \in Documents,
             CreateElement(op, e, c)
      PROVE  Kept(p)'
  <2>1. tx = None /\ tx'.op = op
    BY <1>2, CreateBegins
  <2>2. UNCHANGED <<store, prow, up, last, raced, reset, rebuilt>>
    BY <1>2 DEF CreateElement, tables
  <2> QED
    BY <1>1, <2>1, <2>2
<1>3. ASSUME NEW e \in Elements, DeleteElement(e)
      PROVE  Kept(p)'
  <2>1. tx = None /\ tx'.op = "delete"
    BY <1>3, DeleteBegins
  <2>2. UNCHANGED <<store, prow, up, last, raced, reset, rebuilt>>
    BY <1>3 DEF DeleteElement, tables, history
  <2> QED
    BY <1>1, <2>1, <2>2
<1>4. ASSUME NEW q \in Projects, NEW t \in Texts, NewProject(q, t)
      PROVE  Kept(p)'
  <2>1. up /\ tx = None /\ tx' # None /\ tx'.op = "newProject" /\ tx'.of = q
    BY <1>4, NewProjectBegins
  <2>2. /\ reset' = reset \cup (IF prow[q] # None THEN {q} ELSE {})
        /\ UNCHANGED <<store, prow, up, last, raced, rebuilt>>
    BY <1>4 DEF NewProject, tables
  <2>3. Kept(p)
    BY <2>2
  <2>4. CASE p # q
    BY <1>1, <2>1, <2>2, <2>3, <2>4
  <2>5. CASE p = q
    <3>1. prow[p] = None
      BY <2>2, <2>5
    <3>2. last[p] = None
      BY <2>1, <2>3, <3>1 DEF Kept
    <3> QED
      BY <2>2, <3>2 DEF Kept
  <2> QED
    BY <2>4, <2>5
<1>5. ASSUME NEW r \in Requests, WriteSettings(r)
      PROVE  Kept(p)'
  <2>1. tx = None /\ tx' # None /\ tx'.op = "save"
    BY <1>5, SaveBegins
  <2>2. raced \subseteq raced' /\ UNCHANGED <<store, prow, up, last, reset, rebuilt>>
    BY <1>5 DEF WriteSettings, tables
  <2> QED
    BY <1>1, <2>1, <2>2
<1>6. ASSUME NEW q \in Projects, DeleteProject(q) \/ DeleteUnlistedProject(q)
      PROVE  Kept(p)'
  <2>1. tx = None /\ tx'.op = "deleteProject"
    BY <1>6, DeleteProjectBegins, UnlistedBegins
  <2>2. UNCHANGED <<store, prow, up, last, raced, reset, rebuilt>>
    BY <1>6 DEF DeleteProject, DeleteUnlistedProject, history, tables
  <2> QED
    BY <1>1, <2>1, <2>2
<1>7. ASSUME NEW r \in Requests, NEW q \in Projects, NEW f \in {"name", "text"}, NEW t \in Texts,
             ReadSettings(r, q, f, t)
      PROVE  Kept(p)'
  <2>1. tx = None /\ UNCHANGED <<store, tx, prow, up, last, raced, reset, rebuilt>>
    BY <1>7 DEF ReadSettings, objects, tables, history
  <2> QED
    BY <1>1, <2>1
<1>8. CASE ResyncList \/ UNCHANGED vars
    BY <1>8 DEF ResyncList, vars, objects, tables, history, Kept
<1>9. CASE StoreWrite
  <2>1. /\ tx # None /\ tx' # None /\ tx'.op = tx.op /\ tx'.of = tx.of
        /\ UNCHANGED <<prow, up, last, raced, reset, rebuilt>>
    BY <1>9, WriteEffect DEF tables, history
  <2>2. PICK k \in Keys : Aims(k) /\ store' = [store EXCEPT ![k] = Aim(k)]
    BY <1>9, WriteEffect
  <2>3. Kept(p)
    BY <2>1
  <2>4. tx.of # p \/ tx.op \in ElementOps => k # Meta(p)
    BY <2>1, <2>2, AimsWhere
  <2>5. tx.of # p \/ tx.op \in ElementOps => store'[Meta(p)] = store[Meta(p)]
    BY <2>2, <2>4, KeyShapes DEF TypeOK
  <2> QED
    BY <2>1, <2>3, <2>5 DEF Kept
<1>10. CASE DeleteFails
  <2>1. /\ tx # None /\ tx' # None /\ tx'.op = tx.op /\ tx'.of = tx.of
    BY <1>10, RefusalEffect
  <2>2. UNCHANGED <<store, prow, up, last, raced, reset, rebuilt>>
    BY <1>10 DEF DeleteFails, tables
  <2> QED
    BY <2>1, <2>2 DEF Kept
<1>11. ASSUME Kept(p), last[p] # None, tx # None,
              tx.op \in {"save", "deleteProject"} => tx.of # p
       PROVE  /\ ~Aims(Meta(p))
              /\ store[Meta(p)] \in Settings /\ Saved(store[Meta(p)]) = last[p]
  <2>1. tx.of # p \/ tx.op \in ElementOps
    BY <1>11, TxType DEF Kept, ProjectOps
  <2> QED
    BY <1>11, <2>1, AimsWhere DEF Kept
<1>12. CASE Broken
  <2>1. /\ tx # None /\ RollBack
        /\ \A k \in Keys : ~Aims(k) => store'[k] = store[k]
        /\ UNCHANGED <<prow, up, rebuilt>>
    BY <1>12, BrokenEffect DEF tables
  <2>2. /\ tx' = None /\ raced \subseteq raced' /\ UNCHANGED <<last, reset>>
        /\ tx.op \in {"save", "deleteProject"} => tx.of # p
    BY <2>1, RollBackEffect
  <2>3. Kept(p)
    BY <2>2
  <2>4. last[p] # None => /\ store'[Meta(p)] = store[Meta(p)]
                          /\ store[Meta(p)] \in Settings /\ Saved(store[Meta(p)]) = last[p]
    BY <1>11, <2>1, <2>2, <2>3, KeyShapes
  <2> QED
    BY <2>1, <2>2, <2>3, <2>4 DEF Kept
<1>13. CASE CommitElement \/ CommitDeletion
  <2>1. /\ tx # None /\ tx.op \in ElementOps /\ tx' = None
        /\ UNCHANGED <<store, prow, up, last, raced, reset, rebuilt>>
    BY <1>13 DEF CommitElement, CommitDeletion, Committing, ElementOps, history
  <2> QED
    BY <1>1, <2>1
<1>14. CASE (CommitProject \/ CommitSave) /\ p # tx.of
  <2>1. /\ tx' = None
        /\ UNCHANGED <<store, up, raced, reset, rebuilt>>
    BY <1>14 DEF CommitProject, CommitSave
  <2>2. prow'[p] = prow[p] /\ last'[p] = last[p]
    BY <1>14 DEF CommitProject, CommitSave, TypeOK
  <2> QED
    BY <1>14, <2>1, <2>2 DEF Kept
<1>15. ASSUME (CommitProject \/ CommitSave) /\ p = tx.of,
              prow'[p] = tx.content, last'[p] = Saved(tx.content)
       PROVE  Kept(p)'
  <2>1. /\ tx # None /\ tx.op \in {"newProject", "save"} /\ tx.content \in Settings /\ ~tx.missed
        /\ \A k \in Keys : Aims(k) => store[k] = Aim(k) \/ tx.missed
    BY <1>15, CommitFinds DEF CommitProject, CommitSave, CallFits
  <2>2. Aims(Meta(p)) /\ Aim(Meta(p)) = tx.content
    <3>1. Meta(p) # Image(p)
      BY DEF Meta, Image
    <3> QED
      BY <1>15, <2>1, <3>1 DEF Aims, Aim
  <2>3. store[Meta(p)] = tx.content
    BY <2>1, <2>2, KeyShapes
  <2>4. /\ tx' = None
        /\ UNCHANGED <<store, up, raced, reset, rebuilt>>
    BY <1>15 DEF CommitProject, CommitSave
  <2>5. Saved(tx.content).name = tx.content.name /\ Saved(tx.content).text = tx.content.text
    BY DEF Saved
  <2>6. tx.content # None
    BY <2>1, ValuesAssumption
  <2> QED
    BY <1>15, <2>1, <2>3, <2>4, <2>5, <2>6 DEF Kept
<1>16. CASE CommitProject /\ p = tx.of
  <2>1. /\ tx # None /\ tx.op = "newProject"
        /\ prow' = [prow EXCEPT ![tx.of] = IF @ = None THEN tx.content ELSE @]
        /\ last' = [last EXCEPT ![tx.of] = IF prow[tx.of] = None THEN Saved(tx.content) ELSE @]
        /\ UNCHANGED <<raced, reset>>
    BY <1>16 DEF CommitProject, Committing
  <2>2. last[p] = None
    BY <1>16, <2>1 DEF Kept
  <2>3. CASE prow[p] = None
    <3>1. prow'[p] = tx.content /\ last'[p] = Saved(tx.content)
      BY <1>16, <2>1, <2>3 DEF TypeOK
    <3> QED
      BY <1>15, <1>16, <3>1
  <2>4. CASE prow[p] # None
    <3>1. last'[p] = None
      BY <1>16, <2>1, <2>2, <2>4 DEF TypeOK
    <3> QED
      BY <3>1 DEF Kept
  <2> QED
    BY <2>3, <2>4
<1>17. CASE CommitSave /\ p = tx.of
  <2>1. /\ tx # None /\ tx.op = "save"
        /\ prow' = [prow EXCEPT ![tx.of] = IF @ = None THEN None ELSE tx.content]
        /\ last' = [last EXCEPT ![tx.of] = IF prow[tx.of] = None THEN @ ELSE Saved(tx.content)]
        /\ UNCHANGED <<raced, reset>>
    BY <1>17 DEF CommitSave, Committing
  <2>2. prow[p] # None
    BY <1>17, <2>1 DEF SaveHasRow
  <2>3. prow'[p] = tx.content /\ last'[p] = Saved(tx.content)
    BY <1>17, <2>1, <2>2 DEF TypeOK
  <2> QED
    BY <1>15, <1>17, <2>3
<1>18. CASE CommitProjectDeletion
  <2>1. /\ tx # None
        /\ prow' = [prow EXCEPT ![tx.of] = None]
        /\ last' = [last EXCEPT ![tx.of] = None]
        /\ tx' = None
        /\ UNCHANGED <<store, up, raced, reset, rebuilt>>
    BY <1>18 DEF CommitProjectDeletion, Committing
  <2>2. CASE p # tx.of
    <3>1. prow'[p] = prow[p] /\ last'[p] = last[p]
      BY <2>1, <2>2 DEF TypeOK
    <3> QED
      BY <2>1, <2>2, <3>1 DEF Kept
  <2>3. CASE p = tx.of
    <3>1. last'[p] = None
      BY <2>1, <2>3 DEF TypeOK
    <3> QED
      BY <3>1 DEF Kept
  <2> QED
    BY <2>2, <2>3
<1>19. CASE ResyncRun
  <2>1. /\ up /\ tx = None /\ listing \in SUBSET Keys
        /\ IF Syncable(listing) THEN SyncFromStorage(listing) ELSE UNCHANGED tables
        /\ UNCHANGED <<store, tx, up, last, raced, reset, rebuilt>>
    BY <1>19 DEF ResyncRun, TypeOK, objects, history
  <2>2. Kept(p)
    BY <2>1
  <2>3. CASE Syncable(listing)
    <3>1. /\ prow[p] # None => prow'[p] # None
          /\ \/ prow'[p] = prow[p]
             \/ /\ prow'[p].name = store[Meta(p)].name
                /\ prow[p] # None => prow'[p].text = store[Meta(p)].text
             \/ prow[p] = None
      BY <2>1, <2>3, SyncEffect
    <3> QED
      BY <2>1, <2>2, <3>1 DEF Kept, Saved
  <2>4. CASE ~Syncable(listing)
    BY <2>1, <2>2, <2>4 DEF Kept, tables
  <2> QED
    BY <2>3, <2>4
<1>20. ASSUME NEW lose \in BOOLEAN, Crash(lose)
       PROVE  Kept(p)'
  <2>1. /\ up /\ up' = FALSE /\ tx' = None
        /\ raced \subseteq raced'
        /\ tx # None /\ tx.op \in {"save", "deleteProject"} => tx.of # p
        /\ \A k \in Keys : store'[k] = store[k] \/ (tx # None /\ Aims(k))
        /\ rebuilt' = (rebuilt \/ lose)
        /\ \/ UNCHANGED tables
           \/ lose /\ prow' = [q \in Projects |-> None]
        /\ UNCHANGED <<last, reset>>
    BY <1>20, CrashEffect
  <2>2. Kept(p)
    BY <2>1
  <2>3. last[p] # None => /\ store'[Meta(p)] = store[Meta(p)]
                          /\ store[Meta(p)] \in Settings /\ Saved(store[Meta(p)]) = last[p]
    <3>1. CASE tx = None
      BY <2>1, <2>2, <3>1, KeyShapes DEF Kept
    <3>2. CASE tx # None
      BY <1>11, <2>1, <2>2, <3>2, KeyShapes
    <3> QED
      BY <3>1, <3>2
  <2> QED
    BY <2>1, <2>2, <2>3 DEF Kept, tables
<1>21. CASE StartUp
  <2>1. /\ ~up /\ tx = None /\ up' = TRUE /\ Syncable(Stored) /\ SyncFromStorage(Stored)
        /\ UNCHANGED <<store, tx, last, raced, reset, rebuilt>>
    BY <1>21 DEF StartUp, objects, history, DownIdle
  <2>2. Kept(p) /\ Stored \in SUBSET Keys
    BY <2>1 DEF Stored
  <2>3. last[p] # None => Readable(Stored, Meta(p), Settings)
    BY <2>1, <2>2, KeyShapes, ValuesAssumption DEF Kept, Readable, Stored
  <2>4. /\ Readable(Stored, Meta(p), Settings) => prow'[p] # None
        /\ \/ prow'[p] = prow[p]
           \/ /\ prow'[p].name = store[Meta(p)].name
              /\ prow[p] # None => prow'[p].text = store[Meta(p)].text
           \/ ~Readable(Stored, Meta(p), Settings)
    BY <2>1, <2>2, SyncEffect
  <2> QED
    BY <2>1, <2>2, <2>3, <2>4 DEF Kept, Saved
<1> QED
    BY <1>2, <1>3, <1>4, <1>5, <1>6, <1>7, <1>8, <1>9, <1>10, <1>12, <1>13, <1>14,
       <1>16, <1>17, <1>18, <1>19, <1>20, <1>21, NextCases

-----------------------------------------------------------------------------
(* The invariant *)

\* Nothing is stored and nobody is at work to begin with.
LEMMA GalleryStarts == Init => GalleryInv
<1> SUFFICES ASSUME Init PROVE GalleryInv
    OBVIOUS
<1>1. TypeOK
  <2>1. /\ store \in [Keys -> {None, Torn, Bare, Done, Picture} \cup Settings]
        /\ row \in [Elements -> {None, Bare, Done}]
        /\ prow \in [Projects -> Settings \cup {None}]
        /\ phase \in [Elements -> {"fresh", "running", "over"}]
    BY DEF Init
  <2>2. /\ pending \in [Requests -> {None} \cup [of : Projects, settings : Settings]]
        /\ last \in [Projects -> {None} \cup [name : Texts, text : Texts]]
    BY DEF Init
  <2>3. faults \in 0..MaxFaults
    BY GalleryAssumption DEF Init
  <2>4. /\ tx = None /\ listing = None /\ up \in BOOLEAN /\ rebuilt \in BOOLEAN
        /\ cut = {} /\ gone = {} /\ late = {} /\ raced = {} /\ reset = {}
    BY DEF Init
  <2> QED
    BY <2>1, <2>2, <2>3, <2>4 DEF TypeOK
<1>2. CallFits /\ DownIdle /\ GoneUntouched
    BY DEF Init, CallFits, DownIdle, GoneUntouched
<1>3. ElementsWhole
    BY KeyShapes, ValuesAssumption DEF Init, ElementsWhole
<1>4. SettingsKept
    BY DEF Init, SettingsKept
<1> QED
    BY <1>1, <1>2, <1>3, <1>4 DEF GalleryInv

\* Each part of the invariant survives every step.
LEMMA GalleryStep == GalleryInv /\ [Next]_vars => GalleryInv'
<1> SUFFICES ASSUME GalleryInv, [Next]_vars PROVE GalleryInv'
    OBVIOUS
<1>1. TypeOK /\ CallFits /\ DownIdle /\ ElementsWhole /\ GoneUntouched /\ SettingsKept
    BY DEF GalleryInv
<1>2. TypeOK'
    BY <1>1, TypeStep
<1>3. CallFits' /\ DownIdle'
    BY <1>1, CallStep
<1>4. ElementsWhole'
  <2>1. \A e \in Elements : e \notin cut /\ ~Busy(e) => Whole(e)
    BY <1>1 DEF ElementsWhole, Whole
  <2>2. ASSUME NEW e \in Elements \ cut', ~Busy(e)' PROVE Whole(e)'
    BY <1>1, <2>1, <2>2, ElementStep
  <2> QED
    BY <2>2 DEF ElementsWhole, Whole
<1>5. GoneUntouched'
  <2>1. \A p \in gone \ late : Gone(p)
    BY <1>1 DEF GoneUntouched, Gone
  <2>2. ASSUME NEW p \in gone' \ late' PROVE Gone(p)'
    <3>1. p \in Projects
      BY <1>2 DEF TypeOK
    <3> QED
      BY <1>1, <2>1, <2>2, <3>1, GoneStep
  <2> QED
    BY <2>2 DEF GoneUntouched, Gone
<1>6. SettingsKept'
  <2>1. SaveHasRow /\ \A p \in Projects \ (raced \cup reset) : Kept(p)
    BY <1>1 DEF SettingsKept, SaveHasRow, Kept
  <2>2. SaveHasRow'
    BY <1>1, <2>1, SaveStep
  <2>3. ASSUME NEW p \in Projects, p \notin raced', p \notin reset' PROVE Kept(p)'
    BY <1>1, <2>1, <2>3, SettingsStep
  <2> QED
    BY <2>2, <2>3 DEF SettingsKept, SaveHasRow, Kept
<1> QED
    BY <1>2, <1>3, <1>4, <1>5, <1>6 DEF GalleryInv

\* The call under way fits its list, elements are whole outside their own calls, deleted
\* projects are left alone and settings are kept: in every reachable state (element_repo.go,
\* project_repo.go).
THEOREM GalleryInvariance == Spec => []GalleryInv
    BY GalleryStarts, GalleryStep, PTL DEF Spec

\* The gallery's tables, objects and requests keep their shapes.
THEOREM GalleryTypes == Spec => []TypeOK
<1>1. GalleryInv => TypeOK
    BY DEF GalleryInv
<1> QED
    BY <1>1, GalleryInvariance, PTL

\* Every row shown has its document and its picture, unless a creation or deletion of the
\* element broke off (CreateElement, DeleteElement, handleJobSuccess).
THEOREM RowsAreBacked == Spec => []RowsBackedByObjects
<1>1. GalleryInv => RowsBackedByObjects
    BY DEF GalleryInv, ElementsWhole, Busy, RowsBackedByObjects, Settled, InHand
<1> QED
    BY <1>1, GalleryInvariance, PTL

\* Every stored document is listed, in a listed project (INSERT OR IGNORE, the foreign key).
THEOREM StoredIsListed == Spec => []ListedOnceStored
<1>1. GalleryInv => ListedOnceStored
    BY DEF GalleryInv, ElementsWhole, Busy, ListedOnceStored, Settled, InHand
<1> QED
    BY <1>1, GalleryInvariance, PTL

\* No resync, start or fault brings a deleted project back (DeleteProject, SyncFromStorage).
THEOREM DeletionsLast == Spec => []DeletedProjectStaysDeleted
<1>1. GalleryInv => DeletedProjectStaysDeleted
    BY DEF GalleryInv, GoneUntouched, DeletedProjectStaysDeleted
<1> QED
    BY <1>1, GalleryInvariance, PTL

\* The settings last saved are those shown (UpdateProjectSettings, SyncFromStorage).
THEOREM SavesLast == Spec => []SavedSettingsShown
<1>1. GalleryInv => SavedSettingsShown
    BY DEF GalleryInv, SettingsKept, SavedSettingsShown
<1> QED
    BY <1>1, GalleryInvariance, PTL

-----------------------------------------------------------------------------
(* Action properties *)

\* Only a start takes the process from down to up.
LEMMA OnlyStartUp ==
    ASSUME GalleryInv, [Next]_vars, ~up, up'
    PROVE  StartUp
<1>1. TypeOK /\ CallFits
    BY DEF GalleryInv
<1>2. ~Opening
    BY <1>1, OpeningLeaves DEF Opening
<1>3. ~Broken
    BY <1>1, BrokenEffect
<1>4. ~StoreWrite /\ ~DeleteFails
    BY DEF StoreWrite, DeleteFails
<1>5. ~(\E lose \in BOOLEAN : Crash(lose))
    BY DEF Crash
<1>6. /\ ~CommitElement /\ ~CommitDeletion /\ ~CommitProject /\ ~CommitSave
      /\ ~CommitProjectDeletion
    BY DEF CommitElement, CommitDeletion, CommitProject, CommitSave, CommitProjectDeletion,
           Committing
<1>7. ~ResyncList /\ ~ResyncRun /\ ~UNCHANGED vars
    BY DEF ResyncList, ResyncRun, vars
<1>8. \A r \in Requests, p \in Projects, f \in {"name", "text"}, t \in Texts :
          ~ReadSettings(r, p, f, t)
    BY DEF ReadSettings
<1> QED
    BY <1>2, <1>3, <1>4, <1>5, <1>6, <1>7, <1>8, NextCases DEF Opening

\* A start lists every stored document, and rebuilds a lost database from the store alone
\* (Bootstrap, SyncFromStorage).
THEOREM StartsHeal == Spec => StartUpHeals
<1> DEFINE Heals ==
        ~up /\ up' =>
        /\ \A e \in Elements : store[Json(e)] # None => row'[e] # None /\ prow'[HomeOf[e]] # None
        /\ row = [e \in Elements |-> None] =>
               \A e \in Elements : row'[e] # None => row'[e] = store[Json(e)]
        /\ prow = [p \in Projects |-> None] =>
               \A p \in Projects : prow'[p] # None =>
                   \E k \in Stored : HomeOfKey(k) = p
<1>1. ASSUME GalleryInv, [Next]_vars PROVE Heals
  <2> SUFFICES ASSUME ~up, up' PROVE Heals
    OBVIOUS
  <2>1. Syncable(Stored) /\ SyncFromStorage(Stored) /\ TypeOK
    BY <1>1, OnlyStartUp DEF StartUp, GalleryInv
  <2>2. Stored \in SUBSET Keys
    BY DEF Stored
  <2>3. \A e \in Elements :
            /\ \/ row'[e] = row[e]
               \/ row'[e] = store[Json(e)]
            /\ Json(e) \in Stored => row'[e] # None /\ prow'[HomeOf[e]] # None
    BY <2>1, <2>2, SyncEffect
  <2>4. \A e \in Elements : store[Json(e)] # None => Json(e) \in Stored
    BY KeyShapes DEF Stored
  <2>5. ASSUME prow = [p \in Projects |-> None], NEW p \in Projects, prow'[p] # None
        PROVE  \E k \in Stored : HomeOfKey(k) = p
    <3>1. \/ Readable(Stored, Meta(p), Settings)
          \/ \E e \in HomeElements(p) : Json(e) \in Stored
      BY <2>1, <2>2, <2>5, SyncEffect
    <3>2. CASE Readable(Stored, Meta(p), Settings)
      BY <3>2, KeyHomes DEF Readable
    <3>3. CASE \E e \in HomeElements(p) : Json(e) \in Stored
      BY <3>3, KeyHomes DEF HomeElements
    <3> QED
      BY <3>1, <3>2, <3>3
  <2> QED
    BY <2>3, <2>4, <2>5
<1>2. GalleryInv /\ [Next]_vars => [Heals]_vars
    BY <1>1
<1>3. [][Heals]_vars => StartUpHeals
    BY PTL DEF StartUpHeals
<1> QED
    BY <1>2, <1>3, GalleryInvariance, PTL DEF Spec

\* An object removed belongs to what the call under way deletes.
LEMMA RemovalAims ==
    ASSUME GalleryInv, [Next]_vars, NEW k \in Keys, store[k] # None, store'[k] = None
    PROVE  tx # None /\ Aims(k) /\ Aim(k) = None
<1>1. TypeOK /\ CallFits
    BY DEF GalleryInv
<1>2. store' # store
    OBVIOUS
<1>3. ~Opening
    BY <1>1, <1>2, OpeningLeaves DEF Opening
<1>4. CASE StoreWrite
  <2>1. PICK j \in Keys : Aims(j) /\ store' = [store EXCEPT ![j] = Aim(j)]
    BY <1>1, <1>4, WriteEffect
  <2>2. j = k
    BY <1>1, <2>1 DEF TypeOK
  <2> QED
    BY <1>1, <1>4, <2>1, <2>2, WriteEffect DEF TypeOK
<1>5. CASE Broken
    BY <1>1, <1>5, BrokenEffect
<1>6. ~(\E lose \in BOOLEAN : Crash(lose))
    BY <1>1, CrashEffect, ValuesAssumption
<1>7. /\ ~CommitElement /\ ~CommitDeletion /\ ~CommitProject /\ ~CommitSave
      /\ ~CommitProjectDeletion
    BY <1>2 DEF CommitElement, CommitDeletion, CommitProject, CommitSave, CommitProjectDeletion
<1>8. ~ResyncList /\ ~ResyncRun /\ ~UNCHANGED vars /\ ~StartUp /\ ~DeleteFails
    BY <1>2 DEF ResyncList, ResyncRun, StartUp, DeleteFails, vars, objects
<1>9. \A r \in Requests, p \in Projects, f \in {"name", "text"}, t \in Texts :
          ~ReadSettings(r, p, f, t)
    BY <1>2 DEF ReadSettings, objects
<1> QED
    BY <1>3, <1>4, <1>5, <1>6, <1>7, <1>8, <1>9, NextCases DEF Opening

\* A row that disappears from a live process is the one its call deletes, or one of the
\* project its call deletes.
LEMMA RowRemoval ==
    ASSUME GalleryInv, [Next]_vars, NEW e \in Elements, up', row[e] # None, row'[e] = None
    PROVE  /\ tx # None /\ tx.op \in {"delete", "deleteProject"}
           /\ tx.of \in {e, HomeOf[e]}
<1>1. TypeOK /\ CallFits
    BY DEF GalleryInv
<1>2. row' # row
    OBVIOUS
<1>3. ~Opening
    BY <1>1, <1>2, OpeningLeaves DEF Opening
<1>4. ~StoreWrite /\ ~DeleteFails /\ ~Broken
    BY <1>1, <1>2, WriteEffect, BrokenEffect DEF DeleteFails, tables
<1>5. ~(\E lose \in BOOLEAN : Crash(lose))
    BY DEF Crash
<1>6. ~CommitElement
    BY <1>1 DEF CommitElement, TypeOK
<1>7. ~CommitProject /\ ~CommitSave /\ ~ResyncList /\ ~UNCHANGED vars
    BY <1>2 DEF CommitProject, CommitSave, ResyncList, vars, tables
<1>8. \A r \in Requests, p \in Projects, f \in {"name", "text"}, t \in Texts :
          ~ReadSettings(r, p, f, t)
    BY <1>2 DEF ReadSettings, tables
<1>9. ~ResyncRun
  <2> SUFFICES ASSUME ResyncRun PROVE FALSE
    OBVIOUS
  <2>1. /\ listing \in SUBSET Keys
        /\ IF Syncable(listing) THEN SyncFromStorage(listing) ELSE UNCHANGED tables
    BY <1>1 DEF ResyncRun, TypeOK
  <2> QED
    BY <1>1, <2>1, SyncEffect DEF tables
<1>10. ~StartUp
  <2> SUFFICES ASSUME StartUp PROVE FALSE
    OBVIOUS
  <2>1. Stored \in SUBSET Keys /\ Syncable(Stored) /\ SyncFromStorage(Stored)
    BY DEF StartUp, Stored
  <2> QED
    BY <1>1, <2>1, SyncEffect
<1>11. CASE CommitDeletion
    BY <1>1, <1>11 DEF CommitDeletion, Committing, TypeOK
<1>12. CASE CommitProjectDeletion
    BY <1>1, <1>12 DEF CommitProjectDeletion, Committing
<1> QED
    BY <1>3, <1>4, <1>5, <1>6, <1>7, <1>8, <1>9, <1>10, <1>11, <1>12, NextCases DEF Opening

\* An element's objects and row disappear only through its own deletion or its project's
\* (DeleteElement, DeleteProject).
THEOREM DeletionsContained == Spec => DeletionContained
<1> DEFINE Gone1(e) ==
               \/ store[Json(e)] \in Documents /\ store'[Json(e)] = None
               \/ store[Image(e)] = Picture /\ store'[Image(e)] = None
               \/ up' /\ row[e] # None /\ row'[e] = None
           Own(e) == tx # None /\ tx.op \in {"delete", "deleteProject"} /\ tx.of \in {e, HomeOf[e]}
<1>1. ASSUME GalleryInv, [Next]_vars, NEW e \in Elements, Gone1(e)
      PROVE  Own(e)
  <2>1. TypeOK /\ CallFits
    BY <1>1 DEF GalleryInv
  <2>2. ASSUME NEW k \in {Json(e), Image(e)}, store[k] # None, store'[k] = None
        PROVE  Own(e)
    <3>1. tx # None /\ Aims(k) /\ Aim(k) = None
      BY <1>1, <2>2, RemovalAims, KeyShapes
    <3>2. Busy(e)
      BY <2>1, <2>2, <3>1, AimsWhere
    <3>3. tx.op \in {"delete", "deleteProject"}
      <4>1. tx.op \in {"create", "complete"} => tx.content # None
        BY <2>1, <3>1, ValuesAssumption DEF CallFits, Documents
      <4> QED
        BY <3>1, <3>2, <4>1, ValuesAssumption DEF Aim, Busy, ElementOps
    <3> QED
      BY <3>1, <3>2, <3>3 DEF Busy
  <2>3. None \notin Documents /\ Picture # None
    BY ValuesAssumption DEF Documents
  <2>4. CASE up' /\ row[e] # None /\ row'[e] = None
    BY <1>1, <2>4, RowRemoval
  <2>5. CASE store[Json(e)] \in Documents /\ store'[Json(e)] = None
    BY <2>2, <2>3, <2>5
  <2>6. CASE store[Image(e)] = Picture /\ store'[Image(e)] = None
    BY <2>2, <2>3, <2>6
  <2> QED
    BY <1>1, <2>4, <2>5, <2>6
<1>2. GalleryInv /\ [Next]_vars => [\A e \in Elements : Gone1(e) => Own(e)]_vars
    BY <1>1
<1>3. [][\A e \in Elements : Gone1(e) => Own(e)]_vars => DeletionContained
    BY PTL DEF DeletionContained
<1> QED
    BY <1>2, <1>3, GalleryInvariance, PTL DEF Spec

=============================================================================
